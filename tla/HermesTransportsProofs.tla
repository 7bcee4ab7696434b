------------------------- MODULE HermesTransportsProofs -------------------------
(* Proofs about the two transports that MCTransports has side by side, JsonlTransport and HttpSse,   *)
(* and about HermesAdapter, which speaks HTTP and SSE, for any values of the constants.             *)
(*                                                                                                  *)
(* JsonlSound is the conjunction of the type invariant and of two inductive invariants, about what  *)
(* the iterator yields and about the writes a stream still holds. For HttpSound, what an operation  *)
(* waits for, its body and the reason of its abort determine each other (Place); the table of active *)
(* operations and what callers learn follow.                                                        *)
(*                                                                                                  *)
(* For Hermes, a Run that is starting or active holds its Session (PlaceInv), the Provider works    *)
(* on nothing else but what the Client calls uncertain (WorkInv), what an open stream has not       *)
(* delivered completes what the Run has read to what the Provider says of its approvals (StreamInv, *)
(* PendingInv), and answers in flight fit the decisions (ResponseInv). The same steps refine the    *)
(* contract of a Run.                                                                               *)
EXTENDS HermesAdapter, MCTransports, FiniteSetTheorems, SequenceTheorems, TLAPS

-------------------------------------------------------------------------------
(* JsonlTransport. *)

(* TypeOK, and there is an operation for what the head of the chain is doing. *)
JsonlTyped == Jsonl!TypeOK /\ (writing # "idle" => writeTail # <<>>)

(* What was taken in is delivered or queued, in order; the close of the transport drops the queue.  *)
(* The iterator waits for an open transport only, and throws when nothing is left.                  *)
OrderInv ==
  /\ \A i \in 1..Len(delivered) : delivered[i] = i
  /\ \A i \in 1..Len(values) : values[i] = Len(delivered) + i
  /\ end # "closed" => Len(delivered) + Len(values) = received
  /\ end = "closed" => values = <<>>
  /\ consumer = "waiting" => end = "none" /\ values = <<>>
  /\ consumer = "threw" => end = "failed" /\ values = <<>>

(* One write at a time is in the stream, the operation at the head waits for it while the transport *)
(* is open, and the guards are released after it and after its error.                               *)
GuardInv ==
  /\ physical = {} \/ \E s \in Sends : physical = {s}
  /\ Jsonl!Open /\ writing # "active" => physical = {}
  /\ Jsonl!Open <=> guards = "none"
  /\ guards \in {"scheduled", "released"} => physical = {}
  /\ guards = "released" => ~errorOwed

-------------------------------------------------------------------------------
(* Types. *)

LEMMA EndingTypes ==
  ASSUME Jsonl!TypeOK, NEW e \in {"failed", "closed"}, Jsonl!EndConnection(e)
  PROVE  /\ end' \in {"none", "failed", "closed"} /\ guards' \in {"none", "armed", "scheduled", "released"}
         /\ wait' \in [Sends -> {"idle", "pending", "resolved", "rejected"}]
         /\ cleanup' \in {"none", "running", "settled", "failed"}
  BY DEF Jsonl!EndConnection, Jsonl!TypeOK

LEMMA QueueTypes ==
  ASSUME Jsonl!TypeOK, NEW e \in {"failed", "closed"}, Jsonl!CloseQueue(e)
  PROVE  /\ values' \in Seq(1..MaxInbound) /\ Len(values') <= MaxBufferedMessages
         /\ consumer' \in {"idle", "waiting", "yielded", "done", "threw"}
  <1>1. <<>> \in Seq(1..MaxInbound) /\ Len(<<>>) <= MaxBufferedMessages
    BY EmptySeq, TransportsAssumption DEF Jsonl!LimitsAssumption
  <1> QED BY <1>1 DEF Jsonl!CloseQueue, Jsonl!TypeOK

LEMMA TerminateTypes ==
  ASSUME Jsonl!TypeOK, NEW e \in {"failed", "closed"}, Jsonl!Terminate(e),
         UNCHANGED <<writeTail, physical, received, delivered>>, errorOwed' \in BOOLEAN,
         closers' \in [Closers -> {"idle", "waiting", "resolved", "rejected"}]
  PROVE  Jsonl!TypeOK'
  <1>1. Jsonl!EndConnection(e) /\ Jsonl!CloseQueue(e)
    BY DEF Jsonl!Terminate
  <1>2. writing' \in {"idle", "active", "flushed", "rejected"}
    BY DEF Jsonl!Terminate, Jsonl!TypeOK
  <1> QED BY <1>1, <1>2, EndingTypes, QueueTypes DEF Jsonl!TypeOK

LEMMA SettleTypes ==
  ASSUME Jsonl!TypeOK, NEW ending \in {"resolved", "rejected"}, writeTail # <<>>, Jsonl!OperationSettles(ending)
  PROVE  Jsonl!TypeOK'
  <1>1. Head(writeTail) \in Sends /\ Tail(writeTail) \in Seq(Sends) /\ Len(Tail(writeTail)) <= MaxPendingWrites
    BY HeadTailProperties, LenProperties, TransportsAssumption DEF Jsonl!LimitsAssumption, Jsonl!TypeOK
  <1>2. wait' \in [Sends -> {"idle", "pending", "resolved", "rejected"}]
    BY <1>1 DEF Jsonl!OperationSettles, Jsonl!TypeOK
  <1> QED BY <1>1, <1>2 DEF Jsonl!OperationSettles, Jsonl!TypeOK, Jsonl!inVars, Jsonl!endVars

LEMMA WriteTypes ==
  ASSUME Jsonl!TypeOK, NEW s \in Sends,
         Jsonl!Send(s) \/ Jsonl!SendRefused(s) \/ Jsonl!GiveUp(s) \/ Jsonl!WriteCallback(s) \/ Jsonl!WriteCallbackFails(s)
  PROVE  Jsonl!TypeOK'
  <1>1. CASE Jsonl!Send(s)
    BY <1>1, AppendProperties, LenProperties, TransportsAssumption
       DEF Jsonl!LimitsAssumption, Jsonl!Send, Jsonl!HasWriteCapacity, Jsonl!TypeOK, Jsonl!inVars, Jsonl!endVars
  <1>2. CASE Jsonl!SendRefused(s) \/ Jsonl!GiveUp(s)
    BY <1>2 DEF Jsonl!SendRefused, Jsonl!GiveUp, Jsonl!TypeOK, Jsonl!inVars, Jsonl!endVars
  <1>3. CASE Jsonl!WriteCallback(s) \/ Jsonl!WriteCallbackFails(s)
    <2>1. guards' \in {"none", "armed", "scheduled", "released"}
      BY <1>3 DEF Jsonl!WriteCallback, Jsonl!WriteCallbackFails, Jsonl!MaybeReleaseGuards, Jsonl!TypeOK
    <2>2. physical' \subseteq Sends /\ errorOwed' \in BOOLEAN /\ writing' \in {"idle", "active", "flushed", "rejected"}
      BY <1>3 DEF Jsonl!WriteCallback, Jsonl!WriteCallbackFails, Jsonl!TypeOK
    <2>3. UNCHANGED <<wait, writeTail, end, cleanup, Jsonl!inVars, closers>>
      BY <1>3 DEF Jsonl!WriteCallback, Jsonl!WriteCallbackFails
    <2> QED BY <2>1, <2>2, <2>3 DEF Jsonl!TypeOK, Jsonl!inVars
  <1> QED BY <1>1, <1>2, <1>3

LEMMA ReceiveTypes == ASSUME Jsonl!TypeOK, Jsonl!Receive PROVE Jsonl!TypeOK'
  <1>1. received \in Nat /\ received + 1 \in 1..MaxInbound /\ received + 1 \in 0..MaxInbound
    BY TransportsAssumption DEF Jsonl!LimitsAssumption, Jsonl!Receive, Jsonl!TypeOK
  <1>2. CASE consumer = "waiting"
    <2>1. Append(delivered, received + 1) \in Seq(1..MaxInbound)
      BY <1>1, AppendProperties DEF Jsonl!TypeOK
    <2> QED BY <1>1, <1>2, <2>1 DEF Jsonl!Receive, Jsonl!TypeOK, Jsonl!endVars
  <1>3. CASE consumer # "waiting" /\ Len(values) < MaxBufferedMessages
    <2>1. Append(values, received + 1) \in Seq(1..MaxInbound) /\ Len(values) \in Nat
          /\ Len(Append(values, received + 1)) = Len(values) + 1
      BY <1>1, AppendProperties, LenProperties DEF Jsonl!TypeOK
    <2>4. ~(Len(values) >= MaxBufferedMessages)
      BY <1>3, <2>1, TransportsAssumption DEF Jsonl!LimitsAssumption
    <2>2. Len(Append(values, received + 1)) <= MaxBufferedMessages
      BY <1>3, <2>1, TransportsAssumption DEF Jsonl!LimitsAssumption
    <2>3. /\ values' = Append(values, received + 1) /\ received' = received + 1
          /\ UNCHANGED <<consumer, delivered, Jsonl!endVars, wait, writing, writeTail, physical, errorOwed, closers>>
      BY <1>3, <2>4 DEF Jsonl!Receive
    <2> QED BY <1>1, <2>1, <2>2, <2>3 DEF Jsonl!TypeOK, Jsonl!endVars
  <1>4. CASE consumer # "waiting" /\ ~(Len(values) < MaxBufferedMessages)
    BY <1>4, TerminateTypes DEF Jsonl!Receive, Jsonl!TypeOK
  <1> QED BY <1>2, <1>3, <1>4

LEMMA ConsumerTypes == ASSUME Jsonl!TypeOK, Jsonl!ConsumerNext \/ Jsonl!ConsumerReturn PROVE Jsonl!TypeOK'
  <1>1. CASE Jsonl!ConsumerNext /\ values # <<>>
    <2>1. /\ Head(values) \in 1..MaxInbound /\ Tail(values) \in Seq(1..MaxInbound)
          /\ Len(Tail(values)) <= MaxBufferedMessages /\ Append(delivered, Head(values)) \in Seq(1..MaxInbound)
      BY <1>1, HeadTailProperties, LenProperties, AppendProperties, TransportsAssumption DEF Jsonl!LimitsAssumption, Jsonl!TypeOK
    <2> QED BY <1>1, <2>1 DEF Jsonl!ConsumerNext, Jsonl!TypeOK, Jsonl!writeVars, Jsonl!endVars
  <1>2. CASE Jsonl!ConsumerNext /\ values = <<>>
    BY <1>2 DEF Jsonl!ConsumerNext, Jsonl!TypeOK, Jsonl!writeVars, Jsonl!endVars
  <1>3. CASE Jsonl!ConsumerReturn /\ Jsonl!Open
    BY EmptySeq, TransportsAssumption, <1>3, EndingTypes DEF Jsonl!LimitsAssumption, Jsonl!ConsumerReturn, Jsonl!TypeOK
  <1>4. CASE Jsonl!ConsumerReturn /\ ~Jsonl!Open
    BY <1>4 DEF Jsonl!ConsumerReturn, Jsonl!TypeOK, Jsonl!endVars
  <1> QED BY <1>1, <1>2, <1>3, <1>4

LEMMA StepTypes == ASSUME JsonlTyped, [Jsonl!Next]_(Jsonl!vars) PROVE Jsonl!TypeOK'
  <1> USE DEF JsonlTyped
  <1>1. CASE UNCHANGED Jsonl!vars
    BY <1>1 DEF Jsonl!TypeOK, Jsonl!vars, Jsonl!writeVars, Jsonl!inVars, Jsonl!endVars
  <1>2. CASE Jsonl!StreamFails
    BY <1>2, TerminateTypes DEF Jsonl!StreamFails, Jsonl!TypeOK
  <1>3. CASE Jsonl!WritableError
    BY <1>3, TerminateTypes DEF Jsonl!WritableError, Jsonl!TypeOK, Jsonl!endVars
  <1>4. CASE Jsonl!CleanupSettles \/ Jsonl!GuardsReleased
    BY <1>4 DEF Jsonl!CleanupSettles, Jsonl!GuardsReleased, Jsonl!MaybeReleaseGuards, Jsonl!TypeOK, Jsonl!writeVars, Jsonl!inVars
  <1>5. CASE Jsonl!StartWrite
    BY <1>5, HeadTailProperties DEF Jsonl!StartWrite, Jsonl!TypeOK, Jsonl!inVars, Jsonl!endVars
  <1>6. CASE Jsonl!WriteThrows
    BY <1>6, EndingTypes, QueueTypes DEF Jsonl!WriteThrows, Jsonl!TypeOK
  <1>7. CASE Jsonl!SkipWrite \/ Jsonl!RejectWrite
    BY <1>7, SettleTypes DEF Jsonl!SkipWrite, Jsonl!RejectWrite
  <1>8. CASE Jsonl!WriteFlushed
    BY <1>8, SettleTypes DEF Jsonl!WriteFlushed
  <1>9. CASE Jsonl!Receive \/ Jsonl!ConsumerNext \/ Jsonl!ConsumerReturn
    BY <1>9, ReceiveTypes, ConsumerTypes
  <1>10. ASSUME NEW c \in Closers, Jsonl!Close(c) \/ Jsonl!CloseSettles(c) PROVE Jsonl!TypeOK'
    <2>1. closers' \in [Closers -> {"idle", "waiting", "resolved", "rejected"}]
      BY <1>10 DEF Jsonl!Close, Jsonl!CloseSettles, Jsonl!TypeOK
    <2>2. CASE Jsonl!Close(c) /\ Jsonl!Open
      BY <2>1, <2>2, TerminateTypes DEF Jsonl!Close, Jsonl!TypeOK
    <2>3. CASE Jsonl!Close(c) /\ ~Jsonl!Open
      BY <2>1, <2>3 DEF Jsonl!Close, Jsonl!TypeOK, Jsonl!endVars
    <2>4. CASE Jsonl!CloseSettles(c)
      BY <2>1, <2>4 DEF Jsonl!CloseSettles, Jsonl!TypeOK, Jsonl!writeVars, Jsonl!inVars, Jsonl!endVars
    <2> QED BY <1>10, <2>2, <2>3, <2>4
  <1> QED BY <1>1, <1>2, <1>3, <1>4, <1>5, <1>6, <1>7, <1>8, <1>9, <1>10, WriteTypes DEF Jsonl!Next, Jsonl!Chain
(* Every change of the operation at the head of the chain. *)
LEMMA StepTyped == ASSUME JsonlTyped, [Jsonl!Next]_(Jsonl!vars) PROVE JsonlTyped'
  <1>1. ASSUME writing' # "idle" PROVE writeTail' # <<>>
    <2>1. CASE UNCHANGED <<writing, writeTail>>
      BY <1>1, <2>1 DEF JsonlTyped
    <2>2. CASE writing # "idle" /\ UNCHANGED writeTail
      BY <2>2 DEF JsonlTyped
    <2>3. CASE \E s \in Sends : Jsonl!Send(s)
      BY <2>3, AppendProperties DEF Jsonl!Send, JsonlTyped, Jsonl!TypeOK
    <2>4. CASE Jsonl!StartWrite \/ Jsonl!WriteThrows
      BY <2>4 DEF Jsonl!StartWrite, Jsonl!WriteThrows
    <2>5. CASE Jsonl!WriteFlushed \/ Jsonl!SkipWrite \/ Jsonl!RejectWrite
      BY <1>1, <2>5 DEF Jsonl!WriteFlushed, Jsonl!SkipWrite, Jsonl!RejectWrite, Jsonl!OperationSettles
    <2>6. CASE Jsonl!StreamFails \/ Jsonl!WritableError \/ Jsonl!Receive \/ Jsonl!ConsumerReturn \/ \E c \in Closers : Jsonl!Close(c)
      BY <1>1, <2>1, <2>2, <2>6 DEF Jsonl!StreamFails, Jsonl!WritableError, Jsonl!Receive, Jsonl!ConsumerReturn, Jsonl!Close, Jsonl!Terminate
    <2>7. CASE \E s \in Sends : Jsonl!WriteCallback(s)
      BY <1>1, <2>1, <2>2, <2>7 DEF Jsonl!WriteCallback
    <2>8. CASE Jsonl!CleanupSettles \/ Jsonl!GuardsReleased \/ Jsonl!ConsumerNext \/ UNCHANGED Jsonl!vars
               \/ \E c \in Closers : Jsonl!CloseSettles(c)
      BY <2>1, <2>8 DEF Jsonl!CleanupSettles, Jsonl!GuardsReleased, Jsonl!ConsumerNext, Jsonl!CloseSettles, Jsonl!vars, Jsonl!writeVars
    <2>9. CASE \E s \in Sends : Jsonl!SendRefused(s) \/ Jsonl!GiveUp(s) \/ Jsonl!WriteCallbackFails(s)
      BY <2>1, <2>9 DEF Jsonl!SendRefused, Jsonl!GiveUp, Jsonl!WriteCallbackFails
    <2> QED BY <2>3, <2>4, <2>5, <2>6, <2>7, <2>8, <2>9 DEF Jsonl!Next, Jsonl!Chain
  <1> QED BY <1>1, StepTypes DEF JsonlTyped

-------------------------------------------------------------------------------
(* The order of records. *)

(* A step that ends the connection leaves the queue to the iterator, or drops it. *)
LEMMA EndsInOrder ==
  ASSUME OrderInv, NEW e \in {"failed", "closed"}, Jsonl!Open, end' = e, Jsonl!CloseQueue(e), UNCHANGED <<received, delivered>>
  PROVE  OrderInv'
  BY DEF OrderInv, Jsonl!Open, Jsonl!CloseQueue

LEMMA ReceiveInOrder == ASSUME JsonlTyped, OrderInv, Jsonl!Receive PROVE OrderInv'
  <1>1. /\ received \in Nat /\ Len(values) \in Nat /\ Len(delivered) \in Nat /\ Jsonl!Open
        /\ Len(delivered) + Len(values) = received
    BY LenProperties DEF JsonlTyped, Jsonl!TypeOK, OrderInv, Jsonl!Receive, Jsonl!Open
  <1>2. CASE consumer = "waiting"
    <2>1. /\ values = <<>> /\ Len(values) = 0 /\ UNCHANGED <<values, end>> /\ consumer' = "yielded"
          /\ delivered' = Append(delivered, received + 1) /\ received' = received + 1
      BY <1>2 DEF OrderInv, Jsonl!Receive, Jsonl!endVars
    <2>2. Len(delivered') = Len(delivered) + 1 /\ delivered'[received + 1] = received + 1
          /\ \A i \in 1..Len(delivered) : delivered'[i] = delivered[i]
      BY <1>1, <2>1, AppendProperties DEF JsonlTyped, Jsonl!TypeOK
    <2> QED BY <1>1, <2>1, <2>2 DEF OrderInv
  <1>3. CASE consumer # "waiting" /\ Len(values) < MaxBufferedMessages
    <2>3. ~(Len(values) >= MaxBufferedMessages)
      BY <1>1, <1>3, TransportsAssumption DEF Jsonl!LimitsAssumption
    <2>1. /\ UNCHANGED <<consumer, delivered, end>>
          /\ values' = Append(values, received + 1) /\ received' = received + 1
      BY <1>3, <2>3 DEF Jsonl!Receive, Jsonl!endVars
    <2>2. Len(values') = Len(values) + 1 /\ values'[Len(values) + 1] = received + 1
          /\ \A i \in 1..Len(values) : values'[i] = values[i]
      BY <1>1, <2>1, AppendProperties DEF JsonlTyped, Jsonl!TypeOK
    <2> QED BY <1>1, <1>3, <2>1, <2>2, SMTT(30) DEF OrderInv, Jsonl!Open
  <1>4. CASE consumer # "waiting" /\ ~(Len(values) < MaxBufferedMessages)
    BY <1>1, <1>4, EndsInOrder DEF Jsonl!Receive, Jsonl!Terminate, Jsonl!EndConnection
  <1> QED BY <1>2, <1>3, <1>4

LEMMA ConsumerInOrder == ASSUME JsonlTyped, OrderInv, Jsonl!ConsumerNext PROVE OrderInv'
  <1>1. /\ Len(values) \in Nat /\ Len(delivered) \in Nat /\ UNCHANGED <<received, end>>
    BY LenProperties DEF JsonlTyped, Jsonl!TypeOK, Jsonl!ConsumerNext, Jsonl!endVars
  <1>2. CASE values # <<>>
    <2>1. /\ values' = Tail(values) /\ delivered' = Append(delivered, Head(values)) /\ consumer' = "yielded"
      BY <1>2 DEF Jsonl!ConsumerNext
    <2>2. /\ Len(values) > 0 /\ Head(values) = values[1] /\ Len(values') = Len(values) - 1
          /\ \A i \in 1..Len(values') : values'[i] = values[i + 1]
      BY <1>1, <1>2, <2>1, EmptySeq, HeadTailProperties DEF JsonlTyped, Jsonl!TypeOK
    <2>3. /\ Len(delivered') = Len(delivered) + 1 /\ delivered'[Len(delivered) + 1] = Head(values)
          /\ \A i \in 1..Len(delivered) : delivered'[i] = delivered[i]
      BY <1>1, <1>2, <2>1, AppendProperties, HeadTailProperties DEF JsonlTyped, Jsonl!TypeOK
    <2>4. Head(values) = Len(delivered) + 1
      BY <1>1, <2>2 DEF OrderInv
    <2>5. \A i \in 1..Len(values') : values'[i] = Len(delivered') + i
      BY <1>1, <2>2, <2>3 DEF OrderInv
    <2>6. \A i \in 1..Len(delivered') : delivered'[i] = i
      BY <1>1, <2>3, <2>4 DEF OrderInv
    <2>7. end' # "closed"
      BY <1>1, <1>2 DEF OrderInv
    <2>8. Len(delivered') + Len(values') = received'
      BY <1>1, <2>2, <2>3, <2>7 DEF OrderInv
    <2> QED BY <2>1, <2>5, <2>6, <2>7, <2>8 DEF OrderInv
  <1>3. CASE values = <<>>
    BY <1>1, <1>3 DEF Jsonl!ConsumerNext, OrderInv, JsonlTyped, Jsonl!TypeOK
  <1> QED BY <1>2, <1>3

LEMMA ReturnInOrder == ASSUME JsonlTyped, OrderInv, Jsonl!ConsumerReturn PROVE OrderInv'
  <1>1. CASE Jsonl!Open
    BY <1>1 DEF Jsonl!ConsumerReturn, Jsonl!EndConnection, OrderInv
  <1>2. CASE ~Jsonl!Open
    BY <1>2 DEF Jsonl!ConsumerReturn, Jsonl!endVars, OrderInv, Jsonl!Open
  <1> QED BY <1>1, <1>2

LEMMA StepInOrder == ASSUME JsonlTyped, OrderInv, [Jsonl!Next]_(Jsonl!vars) PROVE OrderInv'
  <1>1. CASE UNCHANGED <<Jsonl!inVars, end>>
    BY <1>1 DEF OrderInv, Jsonl!inVars
  <1>2. CASE Jsonl!StreamFails \/ Jsonl!WriteThrows \/ (Jsonl!WritableError /\ Jsonl!Open) \/ \E c \in Closers : Jsonl!Close(c) /\ Jsonl!Open
    BY <1>2, EndsInOrder
       DEF Jsonl!StreamFails, Jsonl!WriteThrows, Jsonl!WritableError, Jsonl!Close, Jsonl!Terminate, Jsonl!EndConnection
  <1>3. CASE (Jsonl!WritableError /\ ~Jsonl!Open) \/ \E c \in Closers : Jsonl!Close(c) /\ ~Jsonl!Open
    BY <1>1, <1>3 DEF Jsonl!WritableError, Jsonl!Close, Jsonl!inVars, Jsonl!endVars
  <1>4. CASE Jsonl!Receive \/ Jsonl!ConsumerNext \/ Jsonl!ConsumerReturn
    BY <1>4, ReceiveInOrder, ConsumerInOrder, ReturnInOrder
  <1>5. CASE UNCHANGED Jsonl!vars \/ Jsonl!CleanupSettles \/ Jsonl!GuardsReleased \/ Jsonl!StartWrite
             \/ \E c \in Closers : Jsonl!CloseSettles(c)
    BY <1>1, <1>5 DEF Jsonl!vars, Jsonl!CleanupSettles, Jsonl!GuardsReleased, Jsonl!StartWrite, Jsonl!CloseSettles, Jsonl!endVars
  <1>6. CASE Jsonl!SkipWrite \/ Jsonl!RejectWrite \/ Jsonl!WriteFlushed
    BY <1>1, <1>6 DEF Jsonl!SkipWrite, Jsonl!RejectWrite, Jsonl!WriteFlushed, Jsonl!OperationSettles, Jsonl!endVars
  <1>7. CASE \E s \in Sends : Jsonl!Send(s) \/ Jsonl!SendRefused(s) \/ Jsonl!GiveUp(s) \/ Jsonl!WriteCallback(s) \/ Jsonl!WriteCallbackFails(s)
    BY <1>1, <1>7 DEF Jsonl!Send, Jsonl!SendRefused, Jsonl!GiveUp, Jsonl!WriteCallback, Jsonl!WriteCallbackFails, Jsonl!endVars
  <1> QED BY <1>2, <1>3, <1>4, <1>5, <1>6, <1>7 DEF Jsonl!Next, Jsonl!Chain

-------------------------------------------------------------------------------
(* The writes in the stream and the guards. *)

LEMMA EndsGuarded ==
  ASSUME GuardInv, Jsonl!Open, NEW e \in {"failed", "closed"}, Jsonl!EndConnection(e), UNCHANGED physical
  PROVE  GuardInv'
  BY DEF GuardInv, Jsonl!Open, Jsonl!EndConnection

LEMMA CallbackGuarded ==
  ASSUME JsonlTyped, GuardInv, NEW s \in Sends, Jsonl!WriteCallback(s) \/ Jsonl!WriteCallbackFails(s)
  PROVE  GuardInv'
  <1>1. physical = {s} /\ physical' = {}
    BY DEF Jsonl!WriteCallback, Jsonl!WriteCallbackFails, GuardInv
  <1>2. UNCHANGED end /\ guards' \in {guards, "scheduled"} /\ guards \notin {"scheduled", "released"}
        /\ (guards' = "scheduled" => guards = "armed")
    BY <1>1 DEF Jsonl!WriteCallback, Jsonl!WriteCallbackFails, Jsonl!MaybeReleaseGuards, GuardInv
  <1> QED BY <1>1, <1>2 DEF GuardInv, Jsonl!Open

LEMMA StepGuarded == ASSUME JsonlTyped, GuardInv, [Jsonl!Next]_(Jsonl!vars) PROVE GuardInv'
  <1>1. CASE UNCHANGED <<end, guards, physical, writing, errorOwed>>
    BY <1>1 DEF GuardInv, Jsonl!Open
  <1>2. CASE Jsonl!StreamFails \/ Jsonl!WriteThrows \/ (Jsonl!WritableError /\ Jsonl!Open) \/ (Jsonl!ConsumerReturn /\ Jsonl!Open)
             \/ \E c \in Closers : Jsonl!Close(c) /\ Jsonl!Open
    BY <1>2, EndsGuarded
       DEF Jsonl!StreamFails, Jsonl!WriteThrows, Jsonl!WritableError, Jsonl!ConsumerReturn, Jsonl!Close, Jsonl!Terminate
  <1>3. CASE (Jsonl!WritableError \/ Jsonl!ConsumerReturn \/ \E c \in Closers : Jsonl!Close(c)) /\ ~Jsonl!Open
    BY <1>3 DEF Jsonl!WritableError, Jsonl!ConsumerReturn, Jsonl!Close, GuardInv, Jsonl!Open, Jsonl!endVars
  <1>4. CASE Jsonl!Receive
    BY <1>4, EndsGuarded, <1>1 DEF Jsonl!Receive, Jsonl!Terminate, Jsonl!endVars
  <1>5. CASE Jsonl!CleanupSettles
    BY <1>5 DEF Jsonl!CleanupSettles, Jsonl!MaybeReleaseGuards, GuardInv, Jsonl!Open, Jsonl!writeVars
  <1>6. CASE Jsonl!GuardsReleased
    BY <1>6 DEF Jsonl!GuardsReleased, GuardInv, Jsonl!Open, Jsonl!writeVars
  <1>7. CASE Jsonl!StartWrite
    BY <1>7, HeadTailProperties DEF Jsonl!StartWrite, GuardInv, JsonlTyped, Jsonl!TypeOK, Jsonl!Open, Jsonl!endVars
  <1>8. CASE Jsonl!SkipWrite \/ Jsonl!RejectWrite \/ Jsonl!WriteFlushed
    BY <1>8 DEF Jsonl!SkipWrite, Jsonl!RejectWrite, Jsonl!WriteFlushed, Jsonl!OperationSettles, GuardInv, Jsonl!Open, Jsonl!endVars
  <1>9. CASE UNCHANGED Jsonl!vars \/ Jsonl!ConsumerNext \/ \E c \in Closers : Jsonl!CloseSettles(c)
    BY <1>1, <1>9 DEF Jsonl!vars, Jsonl!ConsumerNext, Jsonl!CloseSettles, Jsonl!writeVars, Jsonl!endVars
  <1>10. CASE \E s \in Sends : Jsonl!Send(s) \/ Jsonl!SendRefused(s) \/ Jsonl!GiveUp(s)
    BY <1>1, <1>10 DEF Jsonl!Send, Jsonl!SendRefused, Jsonl!GiveUp, Jsonl!endVars
  <1> QED BY <1>2, <1>3, <1>4, <1>5, <1>6, <1>7, <1>8, <1>9, <1>10, CallbackGuarded DEF Jsonl!Next, Jsonl!Chain

-------------------------------------------------------------------------------
JsonlInv == JsonlTyped /\ OrderInv /\ GuardInv

LEMMA InitHolds == Jsonl!Init => JsonlInv
  <1> SUFFICES ASSUME Jsonl!Init PROVE JsonlInv
    OBVIOUS
  <1>1. Jsonl!TypeOK
    <2>1. <<>> \in Seq(Sends) /\ <<>> \in Seq(1..MaxInbound) /\ Len(<<>>) = 0
      BY EmptySeq
    <2>2. 0 \in 0..MaxInbound /\ 0 <= MaxPendingWrites /\ 0 <= MaxBufferedMessages
      BY TransportsAssumption DEF Jsonl!LimitsAssumption
    <2> QED BY <2>1, <2>2 DEF Jsonl!Init, Jsonl!TypeOK
  <1>2. OrderInv
    BY TransportsAssumption DEF Jsonl!LimitsAssumption, Jsonl!Init, OrderInv
  <1>3. GuardInv
    BY DEF Jsonl!Init, GuardInv, Jsonl!Open
  <1> QED BY <1>1, <1>2, <1>3 DEF JsonlInv, JsonlTyped, Jsonl!Init

(* The instance brings its own names of library operators. *)
LEMMA SameCount == \A S : Jsonl!Cardinality(S) = Cardinality(S)
  BY Zenon DEF Jsonl!Cardinality, Cardinality

LEMMA InvSound == JsonlInv => JsonlSound
  <1> SUFFICES ASSUME JsonlInv PROVE Jsonl!JsonlSound
    BY DEF JsonlSound
  <1>1. Jsonl!DrainedBeforeFailure
    BY LenProperties DEF JsonlInv, JsonlTyped, Jsonl!TypeOK, OrderInv, Jsonl!DrainedBeforeFailure
  <1>2. Jsonl!Cardinality(physical) <= 1
    BY FS_EmptySet, FS_Singleton, SameCount DEF JsonlInv, GuardInv
  <1>3. (physical # {} \/ errorOwed) /\ ~Jsonl!Open => guards \in {"armed", "scheduled"}
    BY DEF JsonlInv, JsonlTyped, Jsonl!TypeOK, GuardInv
  <1> QED BY <1>1, <1>2, <1>3 DEF JsonlInv, JsonlTyped, Jsonl!JsonlSound, Jsonl!StartedWritesHeld

(* Whatever ends the connection and however many send() and close() are called: the iterator yields *)
(* the records that came in, each once and in order, and throws only after the last; one frame at a *)
(* time is in the stream, also after its caller gave up; and while a write or its error is          *)
(* outstanding, the streams keep their error guards.                                                *)
THEOREM JsonlIsSound == Jsonl!Spec => []JsonlSound
  <1>1. JsonlInv /\ [Jsonl!Next]_(Jsonl!vars) => JsonlInv'
    BY StepTyped, StepInOrder, StepGuarded DEF JsonlInv
  <1> QED BY <1>1, InitHolds, InvSound, PTL DEF Jsonl!Spec

-------------------------------------------------------------------------------
(* HttpSse. *)

(* The state of one operation. An operation that has not begun knows nothing; one that is over waits *)
(* for nothing and leaves no body; a body comes from the one answer of fetch; and a stream that was  *)
(* aborted while it read has let go of its reader.                                                  *)
Place(o) ==
  /\ httpAt[o] = "idle" => /\ reason[o] = "none" /\ httpWait[o] = "none" /\ body[o] = "none"
                       /\ o \notin fetching /\ httpOutcome[o] = "none"
  /\ httpAt[o] \in {"response", "yielded", "over"} => httpWait[o] # "pending"
  /\ httpAt[o] = "over" => body[o] \in {"none", "ended", "cancelled"}
  /\ httpAt[o] \in {"response", "read", "yielded"} \/ httpWait[o] = "value" => body[o] # "none"
  /\ httpAt[o] \in {"read", "yielded"} => body[o] # "open"
  /\ body[o] # "none" => o \notin fetching
  /\ httpWait[o] = "done" => body[o] = "ended"
  /\ o \in Streams /\ reason[o] # "none" /\ httpAt[o] \in {"read", "yielded"} => body[o] # "reading"

(* OutcomesTruthful, of one operation. *)
HttpTold(o) ==
  /\ httpAt[o] = "over" <=> httpOutcome[o] # "none"
  /\ o \in Requests => /\ httpOutcome[o] = "result" => body[o] = "ended" /\ reason[o] = "none"
                       /\ httpAt[o] = "over" /\ reason[o] # "none" => httpOutcome[o] = reason[o]
  /\ o \in Streams => /\ httpAt[o] = "over" /\ reason[o] \in {"request_aborted", "request_timeout"}
                           => httpOutcome[o] \in {reason[o], "finished"}
                      /\ httpOutcome[o] = "stream_ended" => body[o] = "ended"

Listed(o) == o \in active <=> httpAt[o] \notin {"idle", "over"} /\ reason[o] = "none"

SlotsInv ==
  /\ IsFiniteSet(active) /\ (open \/ active = {})
  /\ Cardinality(active \cap Requests) <= MaxConcurrentRequests
  /\ Cardinality(active \cap Streams) <= MaxConcurrentStreams

OperationInv == \A o \in Http!Operations : Place(o) /\ HttpTold(o) /\ Listed(o)

(* What is known of the constants is a conjunct of the invariant. *)
Assumed == Http!SlotsAssumption /\ Http!KindAssumption

HttpInv == Assumed /\ Http!TypeOK /\ OperationInv /\ SlotsInv

(* The instance brings its own names of library operators. *)
LEMMA SameCardinality == \A S : Http!Cardinality(S) = Cardinality(S)
  BY Zenon DEF Http!Cardinality, Cardinality

-------------------------------------------------------------------------------
(* Types. *)

LEMMA AbortTypes ==
  ASSUME Http!TypeOK, NEW ops, NEW why \in Http!AbortReasons, Http!Abort(ops, why)
  PROVE  /\ reason' \in [Http!Operations -> Http!AbortReasons \cup {"none"}]
         /\ httpWait' \in [Http!Operations -> {"none", "pending", "value", "failed", "aborted"} \cup Http!ReadResults]
         /\ active' \subseteq Http!Operations /\ httpTimer' \subseteq active'
         /\ body' \in [Http!Operations -> {"none", "open", "reading", "ended", "cancelled"}]
  <1>1. reason' \in [Http!Operations -> Http!AbortReasons \cup {"none"}]
    BY DEF Http!Abort, Http!TypeOK
  <1>2. httpWait' \in [Http!Operations -> {"none", "pending", "value", "failed", "aborted"} \cup Http!ReadResults]
    BY DEF Http!Abort, Http!TypeOK
  <1>3. active' \subseteq Http!Operations /\ httpTimer' \subseteq active'
    BY DEF Http!Abort, Http!TypeOK
  <1>4. body' \in [Http!Operations -> {"none", "open", "reading", "ended", "cancelled"}]
    BY DEF Http!Abort, Http!TypeOK
  <1> QED BY <1>1, <1>2, <1>3, <1>4

LEMMA EndTypes ==
  ASSUME Http!TypeOK, NEW o \in Http!Operations, NEW result \in Http!Errors \cup {"result", "finished"}, Http!EndWithBody(o, result)
  PROVE  /\ httpAt' \in [Http!Operations -> {"idle", "fetch", "response", "read", "yielded", "over"}]
         /\ httpOutcome' \in [Http!Operations -> Http!Errors \cup {"none", "result", "finished"}]
         /\ active' \subseteq Http!Operations /\ httpTimer' \subseteq active'
         /\ body' \in [Http!Operations -> {"none", "open", "reading", "ended", "cancelled"}]
  <1>1. httpAt' \in [Http!Operations -> {"idle", "fetch", "response", "read", "yielded", "over"}]
    BY DEF Http!EndWithBody, Http!End, Http!TypeOK
  <1>2. httpOutcome' \in [Http!Operations -> Http!Errors \cup {"none", "result", "finished"}]
    BY DEF Http!EndWithBody, Http!End, Http!TypeOK
  <1>3. active' \subseteq Http!Operations /\ httpTimer' \subseteq active'
    BY DEF Http!EndWithBody, Http!End, Http!TypeOK
  <1>4. body' \in [Http!Operations -> {"none", "open", "reading", "ended", "cancelled"}]
    BY DEF Http!EndWithBody, Http!TypeOK
  <1> QED BY <1>1, <1>2, <1>3, <1>4

LEMMA MappedTypes ==
  ASSUME Http!TypeOK, NEW o \in Http!Operations, NEW error \in Http!Errors \cup {"result"}
  PROVE  Http!Mapped(o, error) \in Http!Errors \cup {"result", "finished"}
  BY DEF Http!Mapped, Http!TypeOK, Http!Errors

LEMMA ReadErrorTypes == ASSUME NEW o PROVE Http!ReadError(o) \in {"limit_exceeded", "stream_ended", "response_stream_failed"}
  BY DEF Http!ReadError

LEMMA ReadTypes ==
  ASSUME Http!TypeOK, NEW o \in Http!Operations, Http!StartRead(o)
  PROVE  /\ httpAt' \in [Http!Operations -> {"idle", "fetch", "response", "read", "yielded", "over"}]
         /\ httpWait' \in [Http!Operations -> {"none", "pending", "value", "failed", "aborted"} \cup Http!ReadResults]
  BY DEF Http!StartRead, Http!TypeOK
(* Every action, by what it changes. *)
LEMMA OperationsTyped == ASSUME HttpInv, [Http!Next]_(Http!vars) PROVE Http!TypeOK'
  <1> USE DEF HttpInv
  <1>1. CASE UNCHANGED Http!vars
    BY <1>1 DEF Http!TypeOK, Http!vars
  <1>2. CASE Http!Close \/ \E how \in {"done", "failed"} : Http!CleanupSettles(how)
    BY AbortTypes, <1>2 DEF Http!Close, Http!TypeOK, Http!AbortReasons, Http!CleanupSettles
  <1>3. ASSUME NEW o \in Http!Operations, Http!Begin(o) PROVE Http!TypeOK'
    BY <1>3 DEF Http!Begin, Http!TypeOK, Http!Errors, Http!AbortReasons
  <1>4. ASSUME NEW o \in Http!Operations, NEW error \in {"invalid_request", "request_aborted"}, Http!Refuse(o, error)
        PROVE  Http!TypeOK'
    BY <1>4 DEF Http!Refuse, Http!TypeOK, Http!Errors, Http!AbortReasons
  <1>5. ASSUME NEW o \in Http!Operations, Http!CallerAborts(o) \/ Http!TimerFires(o) PROVE Http!TypeOK'
    BY <1>5, AbortTypes DEF Http!CallerAborts, Http!TimerFires, Http!AbortReasons, Http!TypeOK
  <1>6. ASSUME NEW s \in Streams, Http!Dispose(s) PROVE Http!TypeOK'
    BY <1>6, AbortTypes DEF Http!Dispose, Http!AbortReasons, Http!TypeOK
  <1>7. ASSUME NEW o \in Http!Operations, Http!FetchResponds(o) \/ Http!FetchFails(o) PROVE Http!TypeOK'
    BY <1>7 DEF Http!FetchResponds, Http!FetchFails, Http!TypeOK
  <1>8. ASSUME NEW o \in Http!Operations, NEW what \in Http!ReadResults, Http!ReadSettles(o, what) PROVE Http!TypeOK'
    BY <1>8 DEF Http!ReadSettles, Http!TypeOK
  <1>9. ASSUME NEW o \in Http!Operations, Http!ResponseReturns(o) PROVE Http!TypeOK'
    BY <1>9, EndTypes, MappedTypes DEF Http!ResponseReturns, Http!TypeOK, Http!Errors
  <1>10. ASSUME NEW o \in Http!Operations, NEW ok \in BOOLEAN, Http!ResponseAccepted(o, ok) PROVE Http!TypeOK'
    BY <1>10, ReadTypes DEF Http!ResponseAccepted, Http!TypeOK
  <1>11. ASSUME NEW o \in Http!Operations, NEW ok \in BOOLEAN, Http!ResponseRefused(o, ok) PROVE Http!TypeOK'
    BY <1>11, EndTypes, MappedTypes DEF Http!ResponseRefused, Http!TypeOK, Http!Errors
  <1>12. ASSUME NEW o \in Http!Operations, Http!BodyRead(o) PROVE Http!TypeOK'
    BY <1>12, ReadTypes, ReadErrorTypes, EndTypes, MappedTypes DEF Http!BodyRead, Http!TypeOK, Http!Errors
  <1>13. ASSUME NEW s \in Streams, NEW n \in 0..MaxEventsPerChunk, Http!YieldOrRead(s, n),
                UNCHANGED <<open, reason, fetching, httpCleanup, httpClosers>>
         PROVE  Http!TypeOK'
    BY <1>13, EndTypes, ReadTypes DEF Assumed, Http!SlotsAssumption, Http!YieldOrRead, Http!TypeOK, Http!Errors, Http!Operations
  <1>14. ASSUME NEW s \in Http!Operations, NEW n \in 0..MaxEventsPerChunk, Http!ChunkRead(s, n) PROVE Http!TypeOK'
    BY <1>13, <1>14 DEF Http!ChunkRead
  <1>15. ASSUME NEW s \in Streams, Http!NextEvent(s) PROVE Http!TypeOK'
    BY <1>13, <1>15 DEF Http!TypeOK, Http!NextEvent
  <1>16. ASSUME NEW s \in Http!Operations, Http!StreamFails(s) PROVE Http!TypeOK'
    BY <1>16, ReadErrorTypes, EndTypes, MappedTypes DEF Http!StreamFails, Http!Errors, Http!TypeOK
  <1> QED BY <1>1, <1>2, <1>3, <1>4, <1>5, <1>6, <1>7, <1>8, <1>9, <1>10, <1>11, <1>12, <1>14, <1>15, <1>16
      DEF Http!Next, Http!Continue

-------------------------------------------------------------------------------
(* One operation. *)

Sound(o) == Place(o) /\ HttpTold(o) /\ Listed(o)

Same(o) ==
  /\ httpAt'[o] = httpAt[o] /\ httpWait'[o] = httpWait[o] /\ reason'[o] = reason[o] /\ body'[o] = body[o]
  /\ httpOutcome'[o] = httpOutcome[o] /\ (o \in fetching' <=> o \in fetching) /\ (o \in active' <=> o \in active)

LEMMA SameSound == ASSUME NEW o, Sound(o), Same(o) PROVE Sound(o)'
  BY DEF Sound, Place, HttpTold, Listed, Same

(* What an abort does to an operation. *)
LEMMA AbortSound ==
  ASSUME Http!TypeOK, NEW ops, NEW why \in Http!AbortReasons, Http!Abort(ops, why), NEW o \in Http!Operations, Sound(o),
         httpAt'[o] = httpAt[o], httpOutcome'[o] = httpOutcome[o], fetching' = fetching
  PROVE  Sound(o)'
  <1>1. CASE o \in ops \cap active /\ reason[o] = "none"
    BY <1>1 DEF Http!Abort, Sound, Listed, Http!AbortReasons, Place, HttpTold
  <1>2. CASE ~(o \in ops \cap active /\ reason[o] = "none")
    BY <1>2, SameSound DEF Http!Abort, Same
  <1> QED BY <1>1, <1>2

(* EndWithBody, with a result that is the reason of an abort or true of the body. *)
LEMMA EndSound ==
  ASSUME Assumed, Http!TypeOK, NEW o \in Http!Operations, NEW result \in Http!Errors \cup {"result", "finished"},
         Http!EndWithBody(o, result), UNCHANGED <<reason, httpWait, fetching>>, Sound(o), httpAt[o] # "idle", httpWait[o] # "pending",
         reason[o] # "none" => result = reason[o],
         result \in {"result", "stream_ended"} => body[o] = "ended"
  PROVE  \A q \in Http!Operations : Sound(q) => Sound(q)'
  <1>1. ASSUME NEW q \in Http!Operations, q # o PROVE Same(q)
    BY <1>1 DEF Http!EndWithBody, Http!End, Same, Http!TypeOK
  <1>2. /\ httpAt'[o] = "over" /\ o \notin active'
        /\ httpOutcome'[o] = IF o \in Streams /\ result \in {"stream_disposed", "transport_closed"}
                         THEN "finished" ELSE result
        /\ body'[o] = IF body[o] \in {"open", "reading"} THEN "cancelled" ELSE body[o]
    BY DEF Http!EndWithBody, Http!End, Http!TypeOK
  <1>3. "none" \notin Http!Errors \cup {"result", "finished"} /\ reason[o] # "result"
    BY DEF Http!Errors, Http!AbortReasons, Http!TypeOK
  <1>4. body[o] \in {"none", "open", "reading", "ended", "cancelled"}
    BY DEF Http!TypeOK
  <1>5. Place(o)'
    BY <1>2, <1>4 DEF Sound, Place
  <1>6. HttpTold(o)'
    BY <1>2, <1>3 DEF Assumed, Http!KindAssumption, HttpTold
  <1>7. Listed(o)'
    BY <1>2 DEF Listed
  <1> QED BY <1>1, <1>5, <1>6, <1>7, SameSound DEF Sound

(* An operation that waits again for a read. *)
LEMMA ReadSound ==
  ASSUME Http!TypeOK, NEW o \in Http!Operations, Http!StartRead(o), UNCHANGED <<active, httpOutcome, reason, fetching>>, Sound(o),
         httpAt[o] \in {"response", "read", "yielded"}, NEW new, new = [body EXCEPT ![o] = "reading"],
         (body' = new /\ reason[o] = "none") \/ (body' = body /\ httpAt[o] \in {"read", "yielded"})
  PROVE  \A q \in Http!Operations : Sound(q) => Sound(q)'
  <1>1. ASSUME NEW q \in Http!Operations, q # o PROVE Same(q)
    BY <1>1 DEF Http!StartRead, Same, Http!TypeOK
  <1>2. httpAt'[o] = "read" /\ httpWait'[o] = (IF reason[o] = "none" THEN "pending" ELSE "aborted")
        /\ \/ body'[o] = "reading" /\ reason[o] = "none"
           \/ body'[o] = body[o] /\ httpAt[o] \in {"read", "yielded"}
    BY DEF Http!StartRead, Http!TypeOK
  <1>3. Place(o)'
    BY <1>2 DEF Sound, Place
  <1>4. HttpTold(o)' /\ Listed(o)'
    BY <1>2 DEF Sound, HttpTold, Listed
  <1> QED BY <1>1, <1>3, <1>4, SameSound DEF Sound
-------------------------------------------------------------------------------
(* Every step leaves every operation sound. *)

LEMMA BeginSound ==
  ASSUME Http!TypeOK, NEW o \in Http!Operations, Http!Begin(o) \/ (\E error \in {"invalid_request", "request_aborted"} : Http!Refuse(o, error))
  PROVE  \A q \in Http!Operations : Sound(q) => Sound(q)'
  <1>1. ASSUME NEW q \in Http!Operations, q # o PROVE Same(q)
    BY <1>1 DEF Http!Begin, Http!Refuse, Same, Http!TypeOK
  <1>2. ASSUME Sound(o) PROVE Sound(o)'
    BY <1>2 DEF Http!Begin, Http!Refuse, Sound, Place, HttpTold, Listed, Http!TypeOK
  <1> QED BY <1>1, <1>2, SameSound

LEMMA FetchSound ==
  ASSUME Http!TypeOK, NEW o \in Http!Operations, Http!FetchResponds(o) \/ Http!FetchFails(o)
  PROVE  \A q \in Http!Operations : Sound(q) => Sound(q)'
  <1>1. ASSUME NEW q \in Http!Operations, q # o PROVE Same(q)
    BY <1>1 DEF Http!FetchResponds, Http!FetchFails, Same, Http!TypeOK
  <1>2. ASSUME Sound(o) PROVE Sound(o)'
    BY <1>2 DEF Http!FetchResponds, Http!FetchFails, Sound, Place, Http!TypeOK, HttpTold, Listed
  <1> QED BY <1>1, <1>2, SameSound

LEMMA SettleSound ==
  ASSUME Http!TypeOK, NEW o \in Http!Operations, NEW what \in Http!ReadResults, Http!ReadSettles(o, what)
  PROVE  \A q \in Http!Operations : Sound(q) => Sound(q)'
  <1>1. ASSUME NEW q \in Http!Operations, q # o PROVE Same(q)
    BY <1>1 DEF Http!ReadSettles, Same, Http!TypeOK
  <1>2. ASSUME Sound(o) PROVE Sound(o)'
    BY <1>2 DEF Http!ReadSettles, Http!TypeOK, Http!ReadResults, Sound, Place, HttpTold, Listed
  <1> QED BY <1>1, <1>2, SameSound

LEMMA ReturnSound ==
  ASSUME Assumed, Http!TypeOK, NEW o \in Http!Operations, Sound(o), Http!ResponseReturns(o)
  PROVE  \A q \in Http!Operations : Sound(q) => Sound(q)'
  <1>1. httpAt[o] = "fetch" /\ httpWait[o] # "pending" /\ UNCHANGED <<reason, httpWait, fetching>>
    BY DEF Http!ResponseReturns
  <1>2. CASE Http!EndWithBody(o, Http!Mapped(o, "network_failure"))
    BY <1>1, <1>2, EndSound DEF Http!Mapped, Http!TypeOK, Http!Errors, Http!AbortReasons
  <1>3. CASE httpAt' = [httpAt EXCEPT ![o] = "response"] /\ httpWait[o] = "value" /\ UNCHANGED <<active, httpTimer, httpOutcome, body>>
    BY <1>1, <1>3, SameSound DEF Same, Http!TypeOK, Sound, Place, HttpTold, Listed
  <1> QED BY <1>2, <1>3 DEF Http!ResponseReturns

LEMMA ResponseSound ==
  ASSUME Assumed, Http!TypeOK, NEW o \in Http!Operations, Sound(o), NEW ok \in BOOLEAN,
         Http!ResponseAccepted(o, ok) \/ Http!ResponseRefused(o, ok)
  PROVE  \A q \in Http!Operations : Sound(q) => Sound(q)'
  <1>1. CASE Http!ResponseAccepted(o, ok)
    BY <1>1, ReadSound DEF Http!ResponseAccepted
  <1>2. CASE Http!ResponseRefused(o, ok)
    BY <1>2, EndSound DEF Http!Mapped, Http!TypeOK, Http!Errors, Http!AbortReasons, Http!ResponseRefused, Sound, Place
  <1> QED BY <1>1, <1>2

(* The end of an operation that has read: what it says of the body is true. *)
LEMMA ReadEnds ==
  ASSUME Assumed, Http!TypeOK, NEW o \in Http!Operations, Sound(o), httpAt[o] = "read", httpWait[o] # "pending",
         UNCHANGED <<reason, httpWait, fetching>>,
         NEW error \in {Http!ReadError(o), IF httpWait[o] = "done" THEN "result" ELSE Http!ReadError(o)},
         Http!EndWithBody(o, Http!Mapped(o, error))
  PROVE  \A q \in Http!Operations : Sound(q) => Sound(q)'
  <1>1. error \in {"result", "limit_exceeded", "stream_ended", "response_stream_failed"}
        /\ (error \in {"result", "stream_ended"} => httpWait[o] = "done")
    BY DEF Http!ReadError
  <1>2. PICK result : result = Http!Mapped(o, error)
    OBVIOUS
  <1>3. /\ result \in Http!Errors \cup {"result", "finished"} /\ (reason[o] # "none" => result = reason[o])
        /\ (result \in {"result", "stream_ended"} => httpWait[o] = "done")
    BY <1>1, <1>2 DEF Http!Mapped, Http!TypeOK, Http!Errors, Http!AbortReasons
  <1>4. result \in {"result", "stream_ended"} => body[o] = "ended"
    BY <1>3 DEF Sound, Place
  <1> QED BY <1>2, <1>3, <1>4, EndSound

LEMMA BodySound ==
  ASSUME Assumed, Http!TypeOK, NEW o \in Http!Operations, Sound(o), Http!BodyRead(o) \/ Http!StreamFails(o)
  PROVE  \A q \in Http!Operations : Sound(q) => Sound(q)'
  <1>1. httpAt[o] = "read" /\ httpWait[o] # "pending" /\ UNCHANGED <<reason, fetching>>
    BY DEF Http!BodyRead, Http!StreamFails
  <1>2. CASE Http!BodyRead(o) /\ httpWait[o] = "chunk"
    BY <1>1, <1>2, ReadSound DEF Http!BodyRead
  <1>3. CASE Http!BodyRead(o) /\ httpWait[o] # "chunk"
    BY <1>3, <1>1, ReadEnds DEF Http!BodyRead
  <1>4. CASE Http!StreamFails(o)
    BY <1>4, <1>1, ReadEnds DEF Http!StreamFails
  <1> QED BY <1>2, <1>3, <1>4

LEMMA YieldSound ==
  ASSUME Assumed, Http!TypeOK, NEW s \in Streams, NEW n \in Nat, Http!YieldOrRead(s, n), UNCHANGED <<reason, fetching>>,
         Sound(s), httpAt[s] \in {"read", "yielded"}, httpWait[s] # "pending"
  PROVE  \A q \in Http!Operations : Sound(q) => Sound(q)'
  <1>1. s \in Http!Operations
    BY DEF Http!Operations
  <1>2. CASE n > 0 /\ reason[s] = "none"
    BY <1>2, <1>1, SameSound DEF Http!YieldOrRead, Same, Http!TypeOK, Sound, Place, HttpTold, Listed
  <1>3. CASE n > 0 /\ reason[s] # "none"
    BY <1>1, <1>3, EndSound DEF Http!YieldOrRead, Http!TypeOK, Http!Errors, Http!AbortReasons
  <1>4. CASE ~(n > 0)
    BY <1>1, <1>4, ReadSound DEF Http!YieldOrRead
  <1> QED BY <1>2, <1>3, <1>4

LEMMA DisposeSound ==
  ASSUME Assumed, Http!TypeOK, NEW s \in Streams, Http!Dispose(s)
  PROVE  \A q \in Http!Operations : Sound(q) => Sound(q)'
  <1>1. s \in Http!Operations /\ "stream_disposed" \in Http!AbortReasons /\ Http!Abort({s}, "stream_disposed") /\ fetching' = fetching
    BY DEF Http!Operations, Http!AbortReasons, Http!Dispose
  <1>2. CASE httpAt[s] \notin {"idle", "yielded"}
    BY <1>1, <1>2, AbortSound DEF Http!Dispose
  <1>3. CASE httpAt[s] \in {"idle", "yielded"}
    BY <1>3, <1>1, AbortSound
       DEF Http!Dispose, Http!TypeOK, Sound, Place, Listed, Http!Abort, Assumed, Http!KindAssumption, HttpTold
  <1> QED BY <1>2, <1>3
LEMMA StepSound == ASSUME HttpInv, [Http!Next]_(Http!vars) PROVE OperationInv'
  <1> SUFFICES \A q \in Http!Operations : Sound(q) => Sound(q)'
    BY DEF HttpInv, OperationInv, Sound
  <1> USE DEF HttpInv
  <1>1. \A o \in Http!Operations : Sound(o)
    BY DEF OperationInv, Sound
  <1>2. CASE UNCHANGED Http!vars \/ \E how \in {"done", "failed"} : Http!CleanupSettles(how)
    BY <1>2, SameSound DEF Http!CleanupSettles, Same, Http!vars
  <1>3. CASE Http!Close
    BY <1>3, AbortSound DEF Http!Close, Http!AbortReasons
  <1>4. ASSUME NEW o \in Http!Operations, Http!CallerAborts(o) \/ Http!TimerFires(o)
        PROVE  \A q \in Http!Operations : Sound(q) => Sound(q)'
    BY <1>4, AbortSound DEF Http!CallerAborts, Http!TimerFires, Http!AbortReasons
  <1>5. ASSUME NEW o \in Http!Operations, Http!Continue(o) PROVE \A q \in Http!Operations : Sound(q) => Sound(q)'
    BY <1>1, YieldSound, <1>5, ReturnSound, ResponseSound, BodySound DEF Http!ChunkRead, Http!Continue
  <1>6. ASSUME NEW s \in Streams, Http!NextEvent(s) PROVE \A q \in Http!Operations : Sound(q) => Sound(q)'
    BY <1>6, <1>1, YieldSound DEF Http!NextEvent, Http!Operations, Http!TypeOK, Sound, Place
  <1> QED BY <1>2, <1>3, <1>4, <1>5, <1>6, BeginSound, FetchSound, SettleSound, DisposeSound DEF Http!Next

-------------------------------------------------------------------------------
(* Slots. *)

LEMMA SlotsShrink ==
  ASSUME SlotsInv, Assumed, active' \subseteq active, open' = open \/ active' = {}
  PROVE  SlotsInv'
  <1>1. ASSUME NEW K PROVE Cardinality(active' \cap K) <= Cardinality(active \cap K)
                           /\ Cardinality(active' \cap K) \in Nat /\ Cardinality(active \cap K) \in Nat
    BY FS_Subset, FS_CardinalityType DEF SlotsInv
  <1>2. IsFiniteSet(active')
    BY FS_Subset DEF SlotsInv
  <1> QED BY <1>1, <1>2 DEF SlotsInv, Assumed, Http!SlotsAssumption

LEMMA BeginSlots == ASSUME HttpInv, NEW o \in Http!Operations, Http!Begin(o) PROVE SlotsInv'
  <1> USE DEF HttpInv
  <1>1. CASE UNCHANGED active
    BY <1>1, SlotsShrink DEF Http!Begin
  <1>2. CASE open /\ Cardinality(active \cap Http!OfKind(o)) < Http!Limit(o) /\ active' = active \cup {o} /\ open' = open
    <2>1. o \notin active
      BY DEF Http!Begin, OperationInv, Listed
    <2>2. ASSUME NEW K, o \in K
          PROVE  Cardinality(active' \cap K) = Cardinality(active \cap K) + 1 /\ Cardinality(active \cap K) \in Nat
      <3>1. PICK A : A = active \cap K
        OBVIOUS
      <3>2. active' \cap K = A \cup {o} /\ o \notin A
        BY <1>2, <2>1, <2>2, <3>1
      <3>3. IsFiniteSet(A)
        BY <3>1, FS_Subset DEF SlotsInv
      <3> QED BY <3>1, <3>2, <3>3, FS_AddElement, FS_CardinalityType
    <2>3. ASSUME NEW K, o \notin K PROVE active' \cap K = active \cap K
      BY <1>2, <2>3
    <2>4. IsFiniteSet(active')
      BY <1>2, FS_AddElement DEF SlotsInv
    <2>5. CASE o \in Requests
      <3>1. o \notin Streams /\ Cardinality(active \cap Requests) < MaxConcurrentRequests
        BY <1>2, <2>5 DEF Assumed, Http!KindAssumption, Http!OfKind, Http!Limit
      <3>2. /\ Cardinality(active' \cap Requests) = Cardinality(active \cap Requests) + 1
            /\ Cardinality(active \cap Requests) \in Nat
        BY <2>2, <2>5
      <3>3. active' \cap Streams = active \cap Streams
        BY <2>3, <2>5, <3>1
      <3>4. Cardinality(active' \cap Requests) <= MaxConcurrentRequests
        BY <3>1, <3>2 DEF Assumed, Http!SlotsAssumption
      <3> QED BY <1>2, <2>4, <3>3, <3>4 DEF SlotsInv
    <2>6. CASE o \notin Requests
      <3>1. o \in Streams /\ Cardinality(active \cap Streams) < MaxConcurrentStreams
        BY <1>2, <2>6 DEF Http!Operations, Http!OfKind, Http!Limit
      <3>2. /\ Cardinality(active' \cap Streams) = Cardinality(active \cap Streams) + 1
            /\ Cardinality(active \cap Streams) \in Nat
        BY <2>2, <2>6, <3>1
      <3>3. active' \cap Requests = active \cap Requests
        BY <2>3, <2>6
      <3>4. Cardinality(active' \cap Streams) <= MaxConcurrentStreams
        BY <3>1, <3>2 DEF Assumed, Http!SlotsAssumption
      <3> QED BY <1>2, <2>4, <3>3, <3>4 DEF SlotsInv
    <2> QED BY <2>5, <2>6
  <1> QED BY <1>1, <1>2, SameCardinality DEF Http!Begin

LEMMA StepSlots == ASSUME HttpInv, [Http!Next]_(Http!vars) PROVE SlotsInv'
  <1>1. CASE active' \subseteq active /\ open' = open
    BY <1>1, SlotsShrink DEF HttpInv
  <1>2. CASE Http!Close
    BY <1>2, SlotsShrink DEF HttpInv, Http!TypeOK, OperationInv, Listed, Http!Close, Http!Abort
  <1>3. ASSUME NEW o \in Http!Operations, Http!CallerAborts(o) \/ Http!TimerFires(o) PROVE SlotsInv'
    BY <1>1, <1>3 DEF Http!CallerAborts, Http!TimerFires, Http!Abort
  <1>4. ASSUME NEW s \in Streams, Http!Dispose(s) \/ Http!NextEvent(s) PROVE SlotsInv'
    BY <1>1, <1>4 DEF Http!Dispose, Http!Abort, Http!NextEvent, Http!YieldOrRead, Http!StartRead, Http!EndWithBody, Http!End
  <1>5. ASSUME NEW o \in Http!Operations, Http!ResponseReturns(o) \/ Http!BodyRead(o) \/ Http!StreamFails(o) PROVE SlotsInv'
    BY <1>1, <1>5 DEF Http!ResponseReturns, Http!BodyRead, Http!StreamFails, Http!StartRead, Http!EndWithBody, Http!End
  <1>6. ASSUME NEW o \in Http!Operations, NEW ok \in BOOLEAN, Http!ResponseAccepted(o, ok) \/ Http!ResponseRefused(o, ok)
        PROVE  SlotsInv'
    BY <1>1, <1>6 DEF Http!ResponseAccepted, Http!ResponseRefused, Http!EndWithBody, Http!End
  <1>7. ASSUME NEW o \in Http!Operations, NEW n \in 0..MaxEventsPerChunk, Http!ChunkRead(o, n) PROVE SlotsInv'
    BY <1>1, <1>7 DEF Http!ChunkRead, Http!YieldOrRead, Http!StartRead, Http!EndWithBody, Http!End
  <1>8. CASE \/ UNCHANGED Http!vars \/ \E how \in {"done", "failed"} : Http!CleanupSettles(how)
             \/ \E o \in Http!Operations :
                  \/ \E error \in {"invalid_request", "request_aborted"} : Http!Refuse(o, error)
                  \/ Http!FetchResponds(o) \/ Http!FetchFails(o) \/ \E what \in Http!ReadResults : Http!ReadSettles(o, what)
    BY <1>1, <1>8 DEF Http!vars, Http!CleanupSettles, Http!Refuse, Http!FetchResponds, Http!FetchFails, Http!ReadSettles
  <1> QED BY <1>2, <1>3, <1>4, <1>5, <1>6, <1>7, <1>8, BeginSlots DEF Http!Next, Http!Continue

-------------------------------------------------------------------------------
LEMMA OperationsInit == ASSUME Assumed, Http!Init PROVE HttpInv
  <1>1. Http!TypeOK
    BY DEF Assumed, Http!SlotsAssumption, Http!Init, Http!TypeOK
  <1>2. OperationInv
    BY DEF Http!Init, OperationInv, Place, HttpTold, Listed, Http!Errors, Http!AbortReasons
  <1>3. SlotsInv
    BY FS_EmptySet DEF Assumed, Http!SlotsAssumption, Http!Init, SlotsInv
  <1> QED BY <1>1, <1>2, <1>3 DEF HttpInv

LEMMA HttpInvIsSound == ASSUME HttpInv PROVE Http!HttpSound
  <1>1. Http!OutcomesTruthful
    BY DEF HttpInv, OperationInv, HttpTold, Http!OutcomesTruthful, Http!Operations
  <1>2. active = {o \in Http!Operations : httpAt[o] \notin {"idle", "over"} /\ reason[o] = "none"}
    BY DEF HttpInv, Http!TypeOK, OperationInv, Listed
  <1>3. \A o \in Http!Operations : Cardinality(active \cap Http!OfKind(o)) <= Http!Limit(o)
    BY DEF HttpInv, SlotsInv, Http!OfKind, Http!Limit
  <1>4. \A o \in Http!Operations : httpAt[o] = "over" => body[o] \in {"none", "ended", "cancelled"}
    BY DEF HttpInv, OperationInv, Place
  <1> QED BY <1>1, <1>2, <1>3, <1>4, SameCardinality DEF HttpInv, SlotsInv, Http!HttpSound, Http!ResourcesReturned

(* For any requests and streams and whatever fetch, the streams, timers, signals and close() do in   *)
(* any order: an operation has its slot exactly from its start to its end or its abort, the limits   *)
(* hold, no body is left behind an operation that is over, and its caller learns what happened.     *)
THEOREM HttpIsSound == Http!Spec => []HttpSound
  <1>1. Http!Init => HttpInv
    BY OperationsInit, TransportsAssumption DEF Assumed
  <1>2. HttpInv /\ [Http!Next]_(Http!vars) => HttpInv'
    BY OperationsTyped, StepSound, StepSlots DEF HttpInv, Assumed, Http!SlotsAssumption, Http!KindAssumption
  <1>3. HttpInv => HttpSound
    BY HttpInvIsSound DEF HttpSound
  <1> QED BY <1>1, <1>2, <1>3, PTL DEF Http!Spec

-------------------------------------------------------------------------------
(* HermesAdapter. *)

RunRec ==
  [start: {"idle", "post", "validate", "started", "refused"}, closed: BOOLEAN,
   owner: Handles \cup {NoHandle}, result: Terminals \cup {"none"}, incompatible: BOOLEAN,
   signal: Statuses \cup {"none"}, pump: {"none", "reading", "stopped"},
   reconcile: {"none", "poll", "settle", "drain"}, answer: Statuses \cup {"none"},
   confirmed: Choices \cup {"none"}, timedOut: BOOLEAN,
   cancel: Waiting \cup {"none", "native", "connection_aborted", "already_terminal", "error"},
   requested: SUBSET (1..MaxApprovals), resolved: SUBSET (1..MaxApprovals)]

HandleRec == [call: {"free", "create", "resume", "made", "refused"},
              session: Sessions \cup {NoSession}, closed: BOOLEAN, unsafe: BOOLEAN]

ApprovalRec == [run: Runs, decision: Choices \cup {"none"}, by: {"none", "host", "other"}]

ResponseRec == [at: {"none", "sent", "taken", "gone", "ok", "error"}, choice: Choices \cup {"none"},
                provider: Choices \cup {"none"}]

(* What TypeOK says, in the parts that a step changes together. *)
HereTyped ==
  /\ client \in {"none", "probing", "failed", "open", "closed"} /\ transport \in {"none", "open", "closed"}
  /\ handles \in [Handles -> HandleRec] /\ runs \in [Runs -> RunRec]
  /\ startingBySession \in [Sessions -> Runs \cup {NoRun}]
  /\ activeBySession \in [Sessions -> Runs \cup {NoRun}]
  /\ quarantinedSessions \subseteq Sessions

SessionsTyped ==
  /\ knownSessions \subseteq created /\ retiredSessions \subseteq created
  /\ branches \in [Sessions -> {"none", "get", "post"}]
  /\ created \subseteq Sessions /\ branched \subseteq created

ApprovalsTyped ==
  /\ pendingApprovals \subseteq 1..Len(approvals)
  /\ responses \in [1..MaxApprovals -> ResponseRec]
  /\ remote \in [Runs -> Statuses \cup {"none", "running", "waiting"}]
  /\ stream \in [Runs -> Seq(Event)]
  /\ approvals \in Seq(ApprovalRec) /\ Len(approvals) <= MaxApprovals

Typed == HereTyped /\ SessionsTyped /\ ApprovalsTyped

(* A Client that is open, or asks, has an open transport, and no other has. *)
ClientInv == client \in {"probing", "open"} <=> transport = "open"

(* A handle that was made, or is being resumed, has a Session; a branch has one too. *)
HandleInv ==
  /\ \A h \in Handles : handles[h].call \in {"resume", "made"} => handles[h].session \in created
  /\ \A s \in Sessions : branches[s] # "none" => s \in created

(* A Run by itself. Before it started it has nothing but its owner, and its evidence is of a piece. *)
Fresh(run) ==
  /\ run.result = "none" /\ run.signal = "none" /\ run.pump = "none" /\ run.reconcile = "none"
  /\ run.confirmed = "none" /\ run.cancel = "none" /\ ~run.timedOut /\ ~run.incompatible
  /\ run.requested = {} /\ run.resolved = {}

RunFits(run, status) ==
  /\ run.start = "idle" <=> run.owner = NoHandle
  /\ run.start # "started" => Fresh(run)
  /\ run.start \in {"idle", "post"} => status = "none"
  /\ run.start \in {"validate", "started"} => status # "none"
  /\ run.start = "started" => run.pump # "none"
  /\ run.result # "none" => run.pump = "stopped" /\ run.reconcile = "none"
  /\ (run.reconcile # "none" /\ run.signal = "none") => run.pump = "stopped"
  /\ run.reconcile \in {"settle", "drain"} =>
       run.answer = status /\ status \in Statuses /\ run.signal \in {"none", status}
  /\ (run.result \in Statuses /\ ~run.incompatible) => status = run.result /\ run.signal \in {"none", status}

(* What a cancel() was told of a Run. *)
CancelFits(run) ==
  /\ run.cancel = "native" => run.result = "cancelled"
  /\ run.cancel = "connection_aborted" => run.result = "connection_aborted"
  /\ run.cancel = "already_terminal" => run.result # "none"
  /\ (run.cancel = "error" /\ run.timedOut) => run.result # "none"

RunInv == \A r \in Runs : RunFits(runs[r], remote[r]) /\ CancelFits(runs[r])

OwnerInv == \A r \in Runs : runs[r].owner # NoHandle => handles[runs[r].owner].call = "made"

(* A Run that is starting or active holds its Session. *)
Starting(r) == runs[r].start \in {"post", "validate"}
Active(r) == runs[r].start = "started" /\ ~Terminal(r)

PlaceInv ==
  /\ \A r \in Runs : Starting(r) => startingBySession[SessionOf(r)] = r /\ client \in {"open", "closed"}
  /\ \A r \in Runs : Active(r) => activeBySession[SessionOf(r)] = r /\ client = "open"
  /\ \A s \in Sessions :
       /\ startingBySession[s] # NoRun => Starting(startingBySession[s]) /\ SessionOf(startingBySession[s]) = s
       /\ activeBySession[s] # NoRun => Active(activeBySession[s]) /\ SessionOf(activeBySession[s]) = s
       /\ startingBySession[s] = NoRun \/ activeBySession[s] = NoRun

(* The Provider works on one Run of a Session at most, which the Client has or knows to be uncertain. *)
Works(r) == remote[r] \in {"running", "waiting"}
Underway(r) == Starting(r) \/ Active(r)

WorkInv ==
  /\ \A r \in Runs : Works(r) => Underway(r) \/ SessionOf(r) \in quarantinedSessions
  /\ \A q, r \in Runs : (Works(q) /\ (Works(r) \/ Underway(r)) /\ SessionOf(q) = SessionOf(r)) => q = r
  /\ \A s \in branched : s \in retiredSessions \cup quarantinedSessions
  /\ \A s \in Sessions : (s \in branched \/ branches[s] # "none") =>
       ~HasWork(s) /\ \A r \in Runs : Works(r) => SessionOf(r) # s

(* Approvals at the Provider. *)
RunOf(n) == approvals[n].run

ProviderInv ==
  /\ \A n \in 1..Len(approvals) : remote[RunOf(n)] # "none"
  /\ \A n \in 1..Len(approvals) : remote[RunOf(n)] = "running" => approvals[n].decision # "none"
  /\ \A m, n \in 1..Len(approvals) : (m < n /\ RunOf(m) = RunOf(n)) => approvals[m].decision # "none"

(* What a Run that is heard has not read: in the order of the approvals, a request before its decision. *)
Heard(r) == ~Unheard(r)
Says(r, i, type, n) == stream[r][i].type = type /\ stream[r][i].approval = n
Unread(r, n) == \E i \in 1..Len(stream[r]) : Says(r, i, "responded", n)
Unasked(r, n) == \E i \in 1..Len(stream[r]) : Says(r, i, "request", n)

EventFits(r, i) ==
  LET e == stream[r][i] IN
  /\ e.type = "terminal" => i = Len(stream[r]) /\ remote[r] \in Statuses /\ e.status # "none"
  /\ e.type # "terminal" =>
       /\ e.approval \in 1..Len(approvals) /\ RunOf(e.approval) = r
       /\ \A n \in runs[r].requested : n <= e.approval
  /\ e.type = "request" => e.approval \notin runs[r].requested
  /\ e.type = "responded" =>
       /\ approvals[e.approval].decision = e.choice /\ e.choice # "none"
       /\ e.approval \in runs[r].requested \/ \E j \in 1..(i - 1) : Says(r, j, "request", e.approval)

OrderFits(r, i, j) ==
  (i < j /\ stream[r][j].type # "terminal") =>
    /\ stream[r][i].approval <= stream[r][j].approval
    /\ stream[r][i].approval = stream[r][j].approval =>
         stream[r][i].type = "request" /\ stream[r][j].type = "responded"

AskFits(r, n) ==
  /\ n \in runs[r].requested \/ Unasked(r, n)
  /\ (Unasked(r, n) /\ approvals[n].decision # "none") => Unread(r, n)

StreamFits(r) ==
  /\ \A i \in 1..Len(stream[r]) : EventFits(r, i)
  /\ \A i, j \in 1..Len(stream[r]) : OrderFits(r, i, j)
  /\ \A n \in 1..Len(approvals) : RunOf(n) = r => AskFits(r, n)

StreamInv == \A r \in Runs : (remote[r] = "none" => stream[r] = <<>>) /\ (Heard(r) => StreamFits(r))

(* Approvals at the Client. *)
AskedFits(r) ==
  /\ runs[r].resolved \subseteq runs[r].requested
  /\ runs[r].requested \ runs[r].resolved = PendingOf({r})
  /\ Terminal(r) => PendingOf({r}) = {}
  /\ \A n \in runs[r].requested : n \in 1..Len(approvals) /\ RunOf(n) = r

PendingFits(n) ==
  /\ \A m \in runs[RunOf(n)].requested : m <= n
  /\ (Heard(RunOf(n)) /\ approvals[n].decision # "none") => Unread(RunOf(n), n)

PendingInv == (\A r \in Runs : AskedFits(r)) /\ (\A n \in pendingApprovals : PendingFits(n))

(* Answers of the host. *)
ResponseFits(n) ==
  /\ responses[n].at # "none" => n \in runs[RunOf(n)].requested /\ responses[n].choice # "none"
  /\ responses[n].at \in {"taken", "ok"} => approvals[n].decision # "none"
  /\ responses[n].provider # "none" => approvals[n].decision = responses[n].provider
  /\ responses[n].provider # "none" \/ responses[n].at = "ok" => n \notin pendingApprovals
  /\ (Heard(RunOf(n)) /\ responses[n].provider # "none") => ~Unread(RunOf(n), n)
  /\ (Heard(RunOf(n)) /\ InFlight(n) /\ responses[n].provider = "none") => n \in pendingApprovals
  /\ (Heard(RunOf(n)) /\ responses[n].at = "ok") =>
       IF Unread(RunOf(n), n) THEN runs[RunOf(n)].confirmed = responses[n].choice
       ELSE approvals[n].decision = responses[n].choice

ResponseInv ==
  /\ \A n \in 1..MaxApprovals : n \notin 1..Len(approvals) => responses[n].at = "none" /\ responses[n].provider = "none"
  /\ \A n \in 1..Len(approvals) : ResponseFits(n)

HermesInv ==
  /\ Typed /\ ClientInv /\ HandleInv /\ RunInv /\ OwnerInv /\ PlaceInv /\ WorkInv
  /\ ProviderInv /\ StreamInv /\ PendingInv /\ ResponseInv

(* A step that leaves Sessions and the places of Runs alone, but for Runs that end. *)
Steady ==
  /\ UNCHANGED <<startingBySession, branches, created, branched, retiredSessions>>
  /\ \A h \in Handles : handles'[h].call = handles[h].call /\ handles'[h].session = handles[h].session
  /\ \A q \in Runs :
       /\ runs'[q].start = runs[q].start /\ runs'[q].owner = runs[q].owner
       /\ Terminal(q) => Terminal(q)'
       /\ Works(q)' => Works(q)
       /\ (Works(q)' /\ Terminal(q)' /\ ~Terminal(q)) => SessionOf(q) \in quarantinedSessions'
       /\ Active(q)' => client' = "open"
       /\ Starting(q)' => client' \in {"open", "closed"}
  /\ quarantinedSessions \subseteq quarantinedSessions'
  /\ \A s \in Sessions : activeBySession'[s] =
       IF activeBySession[s] # NoRun /\ runs'[activeBySession[s]].result # "none" THEN NoRun ELSE activeBySession[s]

(* A step that says nothing of approvals, but resolves those of Runs that end. *)
RunQuiet(r) ==
  /\ runs[r].requested \subseteq runs'[r].requested
  /\ Heard(r)' => Heard(r) /\ stream'[r] = stream[r] /\ runs'[r].confirmed = runs[r].confirmed
  /\ remote[r] # "none" => remote'[r] = remote[r]
  /\ remote'[r] = "none" => stream'[r] = stream[r]
  /\ \/ /\ runs'[r].requested = runs[r].requested /\ runs'[r].resolved = runs[r].resolved
        /\ PendingOf({r})' = PendingOf({r}) /\ (Terminal(r)' => Terminal(r))
     \/ /\ ~Heard(r)' /\ PendingOf({r})' = {} /\ runs'[r].resolved = runs'[r].requested
        /\ \A n \in runs'[r].requested : n \in 1..Len(approvals) /\ RunOf(n) = r

Quiet ==
  /\ UNCHANGED approvals /\ pendingApprovals' \subseteq pendingApprovals
  /\ \A r \in Runs : RunQuiet(r)
  /\ \A n \in 1..MaxApprovals :
       \/ responses'[n] = responses[n]
       \/ responses[n].at # "none" /\ responses'[n] = [responses[n] EXCEPT !.at = "error"]

(* What a step may make of a Run, as the contract sees it. *)
Moves(r) ==
  /\ runs[r].start = "started" => runs'[r].start = "started"
  /\ runs[r].start # "started" => ~Terminal(r)'
  /\ Terminal(r) => /\ runs'[r].result = runs[r].result /\ runs'[r].requested = runs[r].requested
                    /\ runs'[r].resolved = runs[r].resolved
  /\ runs[r].requested \subseteq runs'[r].requested /\ runs[r].resolved \subseteq runs'[r].resolved

RunsMove == \A r \in Runs : Moves(r)

-------------------------------------------------------------------------------
(* What there is of a Run, a handle, an approval. *)
LEMMA RunFacts ==
  ASSUME HermesInv, NEW r \in Runs
  PROVE  /\ runs[r] \in RunRec /\ remote[r] \in Statuses \cup {"none", "running", "waiting"}
         /\ RunFits(runs[r], remote[r]) /\ CancelFits(runs[r])
         /\ runs[r].owner # NoHandle =>
              /\ runs[r].owner \in Handles /\ handles[runs[r].owner].call = "made"
              /\ SessionOf(r) \in Sessions /\ SessionOf(r) \in created
         /\ Underway(r) \/ Works(r) => runs[r].owner # NoHandle
         /\ ~(Starting(r) /\ Active(r))
<1>1. runs[r] \in RunRec /\ remote[r] \in Statuses \cup {"none", "running", "waiting"}
  BY DEF HermesInv, Typed, HereTyped, ApprovalsTyped
<1>2. RunFits(runs[r], remote[r]) /\ CancelFits(runs[r])
  BY DEF HermesInv, RunInv
<1>3. runs[r].owner # NoHandle =>
        /\ runs[r].owner \in Handles /\ handles[runs[r].owner].call = "made"
        /\ SessionOf(r) \in Sessions /\ SessionOf(r) \in created
  BY <1>1 DEF RunRec, HermesInv, OwnerInv, HandleInv, SessionOf, Typed, SessionsTyped
<1>4. Underway(r) \/ Works(r) => runs[r].owner # NoHandle
  BY <1>1, <1>2 DEF RunFits, Underway, Starting, Active, Works, RunRec
<1>5. ~(Starting(r) /\ Active(r))
  BY DEF Starting, Active
<1> QED BY <1>1, <1>2, <1>3, <1>4, <1>5

LEMMA ApprovalFacts ==
  ASSUME HermesInv, NEW n \in 1..Len(approvals)
  PROVE  /\ RunOf(n) \in Runs /\ approvals[n] \in ApprovalRec /\ n \in 1..MaxApprovals /\ n \in Nat
         /\ responses[n] \in ResponseRec
<1>1. approvals \in Seq(ApprovalRec) /\ Len(approvals) <= MaxApprovals /\ Len(approvals) \in Nat
  BY DEF HermesInv, Typed, ApprovalsTyped
<1>2. approvals[n] \in ApprovalRec
  BY <1>1
<1>3. n \in 1..MaxApprovals /\ n \in Nat
  BY <1>1, BoundAssumption
<1> QED BY <1>2, <1>3 DEF ApprovalRec, RunOf, HermesInv, Typed, ApprovalsTyped

LEMMA SteadyStep ==
  ASSUME HermesInv, Typed', Steady
  PROVE  HandleInv' /\ OwnerInv' /\ PlaceInv' /\ WorkInv'
<1>1. \A r \in Runs : runs[r].owner # NoHandle => SessionOf(r)' = SessionOf(r)
  BY RunFacts DEF Steady, SessionOf
<1>2. HandleInv' /\ OwnerInv'
  BY RunFacts DEF HermesInv, HandleInv, OwnerInv, Steady
<1>3. PlaceInv'
  BY <1>1, RunFacts, NullAssumption
     DEF Steady, Starting, Active, HermesInv, PlaceInv, Underway, Terminal, Typed, HereTyped, SessionOf
<1>4. WorkInv'
  BY <1>1, RunFacts DEF Steady, Underway, Starting, Active, HermesInv, WorkInv, HasWork
<1> QED BY <1>2, <1>3, <1>4

LEMMA QuietStep ==
  ASSUME HermesInv, Typed', Quiet
  PROVE  ProviderInv' /\ StreamInv' /\ PendingInv' /\ ResponseInv'
<1>1. approvals' = approvals /\ (\A n \in 1..Len(approvals) : RunOf(n)' = RunOf(n) /\ RunOf(n) \in Runs)
  BY ApprovalFacts DEF Quiet, RunOf
<1>2. \A r \in Runs : RunQuiet(r)
  BY DEF Quiet
<1>3. ProviderInv'
  <2>1. \A n \in 1..Len(approvals) : remote'[RunOf(n)] = remote[RunOf(n)] /\ remote[RunOf(n)] # "none"
    BY <1>1, <1>2 DEF HermesInv, ProviderInv, RunQuiet
  <2> QED BY <1>1, <2>1 DEF HermesInv, ProviderInv
<1>4. ASSUME NEW r \in Runs PROVE
        /\ \A n : Heard(r)' => (Unread(r, n)' <=> Unread(r, n)) /\ (Unasked(r, n)' <=> Unasked(r, n))
        /\ \A i, type, n : Heard(r)' => (Says(r, i, type, n)' <=> Says(r, i, type, n))
  BY <1>2 DEF RunQuiet, Unread, Unasked, Says
<1>5. StreamInv'
  <2>1. ASSUME NEW r \in Runs PROVE (remote'[r] = "none" => stream'[r] = <<>>) /\ (Heard(r)' => StreamFits(r)')
    <3>1. remote'[r] = "none" => stream'[r] = <<>>
      BY <1>2 DEF HermesInv, StreamInv, RunQuiet
    <3>2. CASE Heard(r)'
      <4>1. /\ Heard(r) /\ stream'[r] = stream[r] /\ runs'[r].requested = runs[r].requested
            /\ remote[r] # "none" => remote'[r] = remote[r]
        BY <1>2, <3>2 DEF RunQuiet
      <4>2. remote[r] \in Statuses => remote'[r] \in Statuses
        BY <4>1 DEF Statuses
      <4>3. StreamFits(r)
        BY <4>1 DEF HermesInv, StreamInv
      <4>4. \A i \in 1..Len(stream'[r]) : EventFits(r, i)'
        BY <1>1, <1>4, <3>2, <4>1, <4>2, <4>3 DEF StreamFits, EventFits
      <4>5. \A i, j \in 1..Len(stream'[r]) : OrderFits(r, i, j)'
        BY <4>1, <4>3 DEF StreamFits, OrderFits
      <4>6. \A n \in 1..Len(approvals') : RunOf(n)' = r => AskFits(r, n)'
        BY <1>1, <1>4, <3>2, <4>1, <4>3 DEF StreamFits, AskFits
      <4> QED BY <3>1, <4>1, <4>4, <4>5, <4>6 DEF StreamFits
    <3> QED BY <3>1, <3>2
  <2> QED BY <2>1 DEF StreamInv
<1>6. PendingInv'
  <2>1. ASSUME NEW r \in Runs PROVE AskedFits(r)'
    <3>1. RunQuiet(r)
      BY <1>2
    <3>2. /\ runs[r].resolved \subseteq runs[r].requested /\ runs[r].requested \ runs[r].resolved = PendingOf({r})
          /\ Terminal(r) => PendingOf({r}) = {}
          /\ \A n \in runs[r].requested : n \in 1..Len(approvals) /\ RunOf(n) = r
      BY DEF HermesInv, PendingInv, AskedFits
    <3>3. CASE /\ runs'[r].requested = runs[r].requested /\ runs'[r].resolved = runs[r].resolved
               /\ PendingOf({r})' = PendingOf({r}) /\ (Terminal(r)' => Terminal(r))
      BY <1>1, <3>1, <3>2, <3>3 DEF AskedFits
    <3>4. CASE /\ PendingOf({r})' = {} /\ runs'[r].resolved = runs'[r].requested
               /\ \A n \in runs'[r].requested : n \in 1..Len(approvals) /\ RunOf(n) = r
      BY <1>1, <3>1, <3>2, <3>4 DEF AskedFits
    <3> QED BY <3>1, <3>3, <3>4 DEF RunQuiet
  <2>2. ASSUME NEW n \in pendingApprovals' PROVE PendingFits(n)'
    <3>1. n \in pendingApprovals /\ n \in 1..Len(approvals)
      BY DEF Quiet, HermesInv, Typed, ApprovalsTyped
    <3>2. RunOf(n)' = RunOf(n) /\ RunOf(n) \in Runs /\ RunQuiet(RunOf(n))
      BY <1>1, <1>2, <3>1
    <3>3. PendingOf({RunOf(n)})' # {}
      BY DEF PendingOf, RunOf
    <3>5. runs'[RunOf(n)].requested = runs[RunOf(n)].requested /\ (Heard(RunOf(n))' => Heard(RunOf(n)))
      BY <1>1, <3>2, <3>3 DEF RunQuiet, RunOf
    <3>4. Heard(RunOf(n))' => (Unread(RunOf(n), n)' <=> Unread(RunOf(n), n))
      BY <1>1, <1>4, <3>2 DEF RunOf
    <3> QED BY <1>1, <3>1, <3>2, <3>4, <3>5 DEF HermesInv, PendingInv, PendingFits
  <2> QED BY <2>1, <2>2 DEF PendingInv
<1>7. ResponseInv'
  <2>1. ASSUME NEW n \in 1..MaxApprovals PROVE
          /\ responses'[n].at # "none" => responses[n].at # "none"
          /\ responses'[n].at \in {"sent", "taken", "gone", "ok"} => responses'[n] = responses[n]
          /\ responses'[n].provider = responses[n].provider /\ responses'[n].choice = responses[n].choice
    BY DEF HermesInv, Typed, ApprovalsTyped, Quiet, ResponseRec
  <2>2. ASSUME NEW n \in 1..Len(approvals) PROVE ResponseFits(n)'
    <3> DEFINE r == RunOf(n)
    <3>1. n \in 1..MaxApprovals /\ r \in Runs /\ r' = r /\ RunQuiet(r)
      BY <1>1, <1>2, ApprovalFacts
    <3>2. /\ runs[r].requested \subseteq runs'[r].requested
          /\ Heard(r)' => Heard(r) /\ runs'[r].confirmed = runs[r].confirmed /\ (Unread(r, n)' <=> Unread(r, n))
      BY <1>1, <1>4, <3>1 DEF RunQuiet, RunOf
    <3>3. (n \in pendingApprovals' => n \in pendingApprovals) /\ (Heard(r)' /\ n \in pendingApprovals => n \in pendingApprovals')
      BY <1>1, <3>1 DEF Quiet, RunQuiet, RunOf, PendingOf
    <3>4. /\ responses[n].at # "none" => n \in runs[r].requested /\ responses[n].choice # "none"
          /\ responses[n].at \in {"taken", "ok"} => approvals[n].decision # "none"
          /\ responses[n].provider # "none" => approvals[n].decision = responses[n].provider
          /\ responses[n].provider # "none" \/ responses[n].at = "ok" => n \notin pendingApprovals
          /\ (Heard(r) /\ responses[n].provider # "none") => ~Unread(r, n)
          /\ (Heard(r) /\ InFlight(n) /\ responses[n].provider = "none") => n \in pendingApprovals
          /\ (Heard(r) /\ responses[n].at = "ok") =>
               IF Unread(r, n) THEN runs[r].confirmed = responses[n].choice
               ELSE approvals[n].decision = responses[n].choice
      BY DEF HermesInv, ResponseInv, ResponseFits
    <3>5. /\ RunOf(n)' = r /\ (Heard(RunOf(n))' <=> Heard(r)') /\ (Unread(RunOf(n), n)' <=> Unread(r, n)')
      BY <1>1, <3>1 DEF RunOf
    <3>6. (InFlight(n)' => InFlight(n) /\ responses'[n] = responses[n]) /\ (responses'[n].at = "ok" => responses'[n] = responses[n])
      BY <2>1, <3>1 DEF InFlight
    <3> HIDE DEF r
    <3> QED BY <1>1, <2>1, <3>1, <3>2, <3>3, <3>4, <3>5, <3>6 DEF ResponseFits
  <2>3. \A n \in 1..MaxApprovals : n \notin 1..Len(approvals') => responses'[n].at = "none" /\ responses'[n].provider = "none"
    BY <1>1, <2>1 DEF HermesInv, ResponseInv
  <2> QED BY <1>1, <2>2, <2>3 DEF ResponseInv
<1> QED BY <1>3, <1>5, <1>6, <1>7

-------------------------------------------------------------------------------
(* What becomes of a Run in a step: it is kept, or it ends. *)
Kept(q) ==
  /\ runs'[q] \in RunRec /\ RunFits(runs'[q], remote'[q]) /\ CancelFits(runs'[q])
  /\ runs'[q].start = runs[q].start /\ runs'[q].owner = runs[q].owner /\ runs'[q].result = runs[q].result
  /\ runs'[q].requested = runs[q].requested /\ runs'[q].resolved = runs[q].resolved
  /\ runs'[q].confirmed = runs[q].confirmed /\ runs'[q].pump \in {runs[q].pump, "stopped"}
  /\ stream'[q] = stream[q]

Asked(q, requested) == \A n \in requested : n \in 1..Len(approvals) /\ RunOf(n) = q

Ended(q) ==
  /\ Active(q) /\ Terminal(q)'
  /\ runs'[q] \in RunRec /\ RunFits(runs'[q], remote'[q]) /\ CancelFits(runs'[q])
  /\ runs'[q].start = runs[q].start /\ runs'[q].owner = runs[q].owner
  /\ runs[q].requested \subseteq runs'[q].requested /\ runs'[q].resolved = runs'[q].requested
  /\ Asked(q, runs'[q].requested)
  /\ Works(q) => SessionOf(q) \in quarantinedSessions'

Elsewhere == UNCHANGED <<startingBySession, branches, created, branched, retiredSessions, remote, approvals>>

Evolves ==
  /\ HereTyped' /\ RunInv' /\ Steady /\ RunsMove /\ pendingApprovals' \subseteq pendingApprovals
  /\ \A q \in Runs : RunQuiet(q)

LEMMA EndingStep ==
  ASSUME HermesInv, NEW rs \in SUBSET Runs, Elsewhere, HereTyped',
         \A q \in Runs \ rs : Kept(q), \A q \in rs : Ended(q),
         \A s \in Sessions : activeBySession'[s] = IF activeBySession[s] \in rs THEN NoRun ELSE activeBySession[s],
         pendingApprovals' = pendingApprovals \ PendingOf(rs),
         quarantinedSessions \subseteq quarantinedSessions',
         \A h \in Handles : handles'[h].call = handles[h].call /\ handles'[h].session = handles[h].session,
         client' = client \/ (client' = "closed" /\ \A q \in Runs : Active(q) => q \in rs)
  PROVE  Evolves
<1>1. RunInv'
  BY DEF RunInv, Kept, Ended
<1>2. \A q \in Runs : Terminal(q) => q \notin rs
  BY DEF Ended, Active
<1>3. Steady
  BY DEF Works, Elsewhere, Ended, Active, Starting, HermesInv, PlaceInv, Kept, Terminal, Typed, HereTyped, Steady
<1>4. RunsMove
  <2>1. ASSUME NEW q \in Runs PROVE Moves(q)
    <3>1. runs[q].resolved \subseteq runs[q].requested
      BY DEF HermesInv, PendingInv, AskedFits
    <3>2. runs[q].start # "started" => ~Terminal(q)
      BY RunFacts DEF RunFits, Fresh, Terminal
    <3>3. CASE q \in rs
      BY <1>2, <3>1, <3>3 DEF Moves, Ended, Active
    <3>4. CASE q \notin rs
      BY <3>2, <3>4 DEF Moves, Kept, Terminal
    <3> QED BY <3>3, <3>4
  <2> QED BY <2>1 DEF RunsMove
<1>5. ASSUME NEW q \in Runs PROVE RunQuiet(q)
  <2>1. (PendingOf({q})' = IF q \in rs THEN {} ELSE PendingOf({q})) /\ remote'[q] = remote[q]
    BY DEF Elsewhere, PendingOf
  <2>2. CASE q \in rs
    <3>1. ~Heard(q)' /\ remote[q] # "none"
      BY <2>2, RunFacts DEF Ended, RunFits, Terminal, Heard, Unheard, Active
    <3> QED BY <2>1, <2>2, <3>1 DEF RunQuiet, Ended, Asked
  <2>3. CASE q \notin rs
    BY <2>3, <2>1 DEF Kept, Heard, Unheard, RunQuiet, Terminal
  <2> QED BY <2>2, <2>3
<1> QED BY <1>1, <1>3, <1>4, <1>5 DEF Evolves

LEMMA EvolvedStep ==
  ASSUME HermesInv, Evolves, SessionsTyped', ApprovalsTyped', ClientInv', UNCHANGED approvals,
         \A n \in 1..MaxApprovals :
           \/ responses'[n] = responses[n]
           \/ responses[n].at # "none" /\ responses'[n] = [responses[n] EXCEPT !.at = "error"]
  PROVE  HermesInv' /\ RunsMove
<1>1. Typed' /\ Steady /\ Quiet /\ RunInv' /\ RunsMove
  BY DEF Evolves, Typed, Quiet
<1> QED BY <1>1, SteadyStep, QuietStep DEF HermesInv

(* finish(). *)
LEMMA FinishedFits ==
  ASSUME HermesInv, NEW r \in Runs, Active(r), NEW run \in RunRec, NEW result \in Terminals,
         run.start = "started", run.owner = runs[r].owner, run.cancel \in Waiting \cup {"none", "error"},
         (result \in Statuses /\ ~run.incompatible) => remote[r] = result /\ run.signal \in {"none", result},
         run.resolved \subseteq run.requested, run.requested \ run.resolved = PendingOf({r})
  PROVE  LET f == Finished(run, result, PendingOf({r})) IN
         /\ f \in RunRec /\ RunFits(f, remote[r]) /\ CancelFits(f)
         /\ f.start = run.start /\ f.owner = run.owner /\ f.result = result
         /\ f.requested = run.requested /\ f.resolved = run.requested
<1> DEFINE f == Finished(run, result, PendingOf({r}))
<1>1. PendingOf({r}) \subseteq 1..MaxApprovals /\ run.resolved \cup PendingOf({r}) = run.requested
  BY DEF RunRec
<1>2. CancelAfter(run.cancel, result) \in Waiting \cup {"none", "native", "connection_aborted", "already_terminal", "error"}
  BY DEF CancelAfter, Waiting
<1>3. f = [run EXCEPT !.result = result, !.cancel = CancelAfter(run.cancel, result), !.resolved = run.requested,
                      !.reconcile = "none", !.pump = "stopped"]
  BY <1>1 DEF Finished
<1>4. /\ f.start = run.start /\ f.owner = run.owner /\ f.result = result /\ f.reconcile = "none" /\ f.pump = "stopped"
      /\ f.requested = run.requested /\ f.resolved = run.requested /\ f.incompatible = run.incompatible
      /\ f.signal = run.signal /\ f.cancel = CancelAfter(run.cancel, result) /\ f.timedOut = run.timedOut
  BY <1>3 DEF RunRec
<1>5. f \in RunRec
  BY <1>2, <1>3, ZenonT(60) DEF RunRec
<1>6. RunFits(f, remote[r])
  BY RunFacts, <1>4 DEF Underway, Active, RunFits
<1>7. CancelFits(f)
  BY <1>4 DEF CancelFits, CancelAfter, Waiting, Terminals, Statuses
<1> QED BY <1>4, <1>5, <1>6, <1>7

LEMMA KeepStep ==
  ASSUME HermesInv, NEW r \in Runs, NEW now, Keep(now), now \in [Runs -> RunRec],
         \A q \in Runs \ {r} : now[q] = runs[q],
         now[r].start = runs[r].start, now[r].owner = runs[r].owner, now[r].result = runs[r].result,
         now[r].requested = runs[r].requested, now[r].resolved = runs[r].resolved,
         now[r].confirmed = runs[r].confirmed, now[r].pump \in {runs[r].pump, "stopped"},
         RunFits(now[r], remote[r]), CancelFits(now[r]),
         Elsewhere, UNCHANGED <<client, transport, stream>>
  PROVE  Evolves
<1>1. HereTyped'
  BY DEF HermesInv, Typed, HereTyped, Keep, SettledVars, Elsewhere
<1>2. ASSUME NEW q \in Runs PROVE Kept(q)
  BY RunFacts DEF Elsewhere, Keep, Kept
<1>3. /\ pendingApprovals' = pendingApprovals \ PendingOf({})
      /\ UNCHANGED <<activeBySession, quarantinedSessions, handles>>
  BY DEF Keep, SettledVars, PendingOf
<1> QED BY <1>1, <1>2, <1>3, EndingStep

LEMMA SettleStep ==
  ASSUME HermesInv, NEW r \in Runs, NEW now, NEW result \in Terminals, NEW unsafe \in BOOLEAN,
         Settle(r, now, result, unsafe), now \in [Runs -> RunRec],
         \A q \in Runs \ {r} : now[q] = runs[q],
         runs[r].start = "started",
         Terminal(r) => now[r] = runs[r],
         ~Terminal(r) =>
           /\ now[r].start = "started" /\ now[r].owner = runs[r].owner
           /\ now[r].cancel \in Waiting \cup {"none", "error"}
           /\ runs[r].requested \subseteq now[r].requested /\ Asked(r, now[r].requested)
           /\ now[r].resolved \subseteq now[r].requested /\ now[r].requested \ now[r].resolved = PendingOf({r})
           /\ (result \in Statuses /\ ~now[r].incompatible) => remote[r] = result /\ now[r].signal \in {"none", result}
           /\ unsafe \/ ~Works(r),
         Elsewhere, UNCHANGED <<client, transport>>,
         \A q \in Runs : stream'[q] = stream[q] \/ (q = r /\ ~Terminal(r))
  PROVE  Evolves
<1>1. CASE Terminal(r)
  <2>1. now = runs
    BY <1>1 DEF HermesInv, Typed, HereTyped
  <2>2. runs' = runs /\ UNCHANGED <<client, transport, SettledVars>>
    BY <1>1, <2>1 DEF Settle
  <2>3. HereTyped'
    BY <2>2 DEF HermesInv, Typed, HereTyped, SettledVars, Elsewhere
  <2>4. \A q \in Runs : Kept(q)
    BY <1>1, <2>2, RunFacts DEF Kept, Elsewhere
  <2>5. /\ pendingApprovals' = pendingApprovals \ PendingOf({})
        /\ UNCHANGED <<activeBySession, quarantinedSessions, handles>>
    BY <2>2 DEF SettledVars, PendingOf
  <2> QED BY <2>3, <2>4, <2>5, EndingStep
<1>2. CASE ~Terminal(r)
  <2> DEFINE f == Finished(now[r], result, PendingOf({r}))
  <2>1. /\ runs' = [q \in Runs |-> IF q \in {r} THEN Finished(now[q], result, PendingOf({q})) ELSE now[q]]
        /\ activeBySession' = [s \in Sessions |-> IF activeBySession[s] \in {r} THEN NoRun ELSE activeBySession[s]]
        /\ pendingApprovals' = pendingApprovals \ PendingOf({r})
        /\ quarantinedSessions' = quarantinedSessions \cup (IF unsafe THEN {SessionOf(q) : q \in {r}} ELSE {})
        /\ handles' = [h \in Handles |->
             [handles[h] EXCEPT !.unsafe = handles[h].unsafe \/ (unsafe /\ \E q \in {r} : runs[q].owner = h)]]
    BY <1>2 DEF Settle, SettleAll
  <2>2. Active(r) /\ now[r] \in RunRec
    BY <1>2 DEF Active
  <2>3. /\ f \in RunRec /\ RunFits(f, remote[r]) /\ CancelFits(f)
        /\ f.start = "started" /\ f.owner = runs[r].owner /\ f.result = result
        /\ f.requested = now[r].requested /\ f.resolved = now[r].requested
    BY <1>2, <2>2, FinishedFits
  <2>4. runs'[r] = f /\ (\A q \in Runs \ {r} : runs'[q] = runs[q])
    BY <2>1
  <2>5. \A q \in Runs \ {r} : Kept(q)
    BY <2>4, RunFacts DEF Kept, Elsewhere
  <2>6. result # "none"
    BY DEF Terminals, Statuses
  <2>7. Works(r) => SessionOf(r) \in quarantinedSessions'
    BY <1>2, <2>1
  <2>8. Ended(r)
    <3> HIDE DEF f
    <3> QED BY <1>2, <2>2, <2>3, <2>4, <2>6, <2>7 DEF Ended, Terminal, Elsewhere
  <2>9. HereTyped'
    <3>1. runs' \in [Runs -> RunRec]
      <4> HIDE DEF f
      <4>1. \A q \in Runs : runs'[q] \in RunRec
        BY <2>3, <2>4, RunFacts
      <4> QED BY <2>1, <4>1
    <3>2. handles' \in [Handles -> HandleRec]
      BY <2>1, SMTT(60) DEF HermesInv, Typed, HereTyped, HandleRec
    <3>3. quarantinedSessions' \subseteq Sessions
      BY <2>1, <2>2, RunFacts DEF HermesInv, Typed, HereTyped, Underway
    <3> QED BY <2>1, <3>1, <3>2, <3>3 DEF HermesInv, Typed, HereTyped, Elsewhere
  <2>10. \A h \in Handles : handles'[h].call = handles[h].call /\ handles'[h].session = handles[h].session
    BY <2>1 DEF HermesInv, Typed, HereTyped, HandleRec
  <2> QED BY <2>1, <2>5, <2>8, <2>9, <2>10, EndingStep
<1> QED BY <1>1, <1>2

(* abort() and failIncompatible(), from a state of the Run. *)
Abortable(r, now) ==
  /\ now \in [Runs -> RunRec] /\ \A q \in Runs \ {r} : now[q] = runs[q]
  /\ runs[r].start = "started" /\ (Terminal(r) => now[r] = runs[r])
  /\ ~Terminal(r) =>
       /\ now[r].start = "started" /\ now[r].owner = runs[r].owner
       /\ now[r].cancel \in Waiting \cup {"none", "error"}
       /\ runs[r].requested \subseteq now[r].requested /\ Asked(r, now[r].requested)
       /\ now[r].resolved \subseteq now[r].requested /\ now[r].requested \ now[r].resolved = PendingOf({r})

LEMMA AbortStep ==
  ASSUME HermesInv, NEW r \in Runs, NEW now, AbortRun(r, now) \/ FailIncompatible(r, now), Abortable(r, now),
         Elsewhere, UNCHANGED <<client, transport>>,
         \A q \in Runs : stream'[q] = stream[q] \/ (q = r /\ ~Terminal(r))
  PROVE  Evolves
<1>1. CASE AbortRun(r, now)
  BY <1>1, SettleStep DEF AbortRun, Abortable, Terminals, Statuses
<1>2. CASE FailIncompatible(r, now)
  <2> DEFINE new == IF Terminal(r) THEN now ELSE [now EXCEPT ![r].incompatible = TRUE]
  <2>1. Settle(r, new, "failed", TRUE)
    BY <1>2 DEF FailIncompatible
  <2> DEFINE run == [now[r] EXCEPT !.incompatible = TRUE]
  <2>2. now[r] \in RunRec /\ now \in [Runs -> RunRec]
    BY DEF Abortable
  <2>3. /\ run \in RunRec /\ run.start = now[r].start /\ run.owner = now[r].owner /\ run.cancel = now[r].cancel
        /\ run.requested = now[r].requested /\ run.resolved = now[r].resolved /\ run.incompatible
    BY <2>2 DEF RunRec
  <2>5. new = IF Terminal(r) THEN now ELSE [now EXCEPT ![r] = run]
    OBVIOUS
  <2>6. ~Terminal(r) => new[r] = run
    <3> HIDE DEF run
    <3> QED BY <2>2, <2>5
  <2>7. new \in [Runs -> RunRec] /\ (\A q \in Runs \ {r} : new[q] = runs[q]) /\ (Terminal(r) => new[r] = runs[r])
    <3> HIDE DEF run
    <3> QED BY <2>2, <2>3, <2>5 DEF Abortable
  <2>4. "failed" \in Terminals
    BY DEF Terminals, Statuses
  <2> HIDE DEF new, run
  <2> QED BY <2>1, <2>3, <2>4, <2>6, <2>7, SettleStep, ZenonT(60) DEF Abortable
<1> QED BY <1>1, <1>2

(* What is so of a Run that is active. *)
LEMMA ActiveFacts ==
  ASSUME HermesInv, NEW r \in Runs
  PROVE  /\ runs[r].requested \ runs[r].resolved = PendingOf({r}) /\ runs[r].resolved \subseteq runs[r].requested
         /\ Asked(r, runs[r].requested)
         /\ ~Terminal(r) => runs[r].cancel \in Waiting \cup {"none", "error"}
         /\ (runs[r].reconcile # "none" \/ runs[r].pump # "none" \/ runs[r].cancel # "none") => runs[r].start = "started"
         /\ (runs[r].reconcile # "none" \/ runs[r].pump = "reading") => Active(r)
         /\ runs[r].start = "started" => Abortable(r, runs)
<1>1. /\ runs[r].requested \ runs[r].resolved = PendingOf({r}) /\ runs[r].resolved \subseteq runs[r].requested
      /\ Asked(r, runs[r].requested)
  BY DEF HermesInv, PendingInv, AskedFits, Asked
<1>2. ~Terminal(r) => runs[r].cancel \in Waiting \cup {"none", "error"}
  BY RunFacts DEF CancelFits, RunRec, Terminal
<1>3. (runs[r].reconcile # "none" \/ runs[r].pump # "none" \/ runs[r].cancel # "none") => runs[r].start = "started"
  BY RunFacts DEF RunFits, Fresh
<1>4. (runs[r].reconcile # "none" \/ runs[r].pump = "reading") => Active(r)
  BY <1>3, RunFacts DEF RunFits, Active, Terminal
<1>5. runs \in [Runs -> RunRec]
  BY DEF HermesInv, Typed, HereTyped
<1> QED BY <1>1, <1>2, <1>3, <1>4, <1>5 DEF Abortable

-------------------------------------------------------------------------------
(* The steps that move Runs, and leave the Provider alone. *)
Around == UNCHANGED <<client, transport, startingBySession, knownSessions, retiredSessions, branches, responses, provider>>

LEMMA AroundIsElsewhere ==
  ASSUME Around PROVE Elsewhere /\ UNCHANGED <<client, transport, stream, responses, knownSessions>>
BY DEF Around, Elsewhere, provider

LEMMA AroundStep ==
  ASSUME HermesInv, Evolves, Around
  PROVE  HermesInv' /\ RunsMove
<1>1. UNCHANGED <<client, transport, knownSessions, retiredSessions, branches, responses, created, branched, remote, stream, approvals>>
  BY DEF Around, provider
<1>2. SessionsTyped' /\ ClientInv'
  BY <1>1 DEF HermesInv, Typed, SessionsTyped, ClientInv
<1>3. ApprovalsTyped'
  BY <1>1 DEF HermesInv, Typed, ApprovalsTyped, Evolves
<1> QED BY <1>1, <1>2, <1>3, EvolvedStep

LEMMA AbortAround ==
  ASSUME HermesInv, NEW r \in Runs, NEW now, AbortRun(r, now) \/ FailIncompatible(r, now), Abortable(r, now), Around
  PROVE  HermesInv' /\ RunsMove
BY AbortStep, AroundIsElsewhere, AroundStep

(* A step of a Run that keeps what it asked. *)
LEMMA KeepAround ==
  ASSUME HermesInv, NEW r \in Runs, NEW run \in RunRec, Keep([runs EXCEPT ![r] = run]), Around,
         run.start = runs[r].start, run.owner = runs[r].owner, run.result = runs[r].result,
         run.requested = runs[r].requested, run.resolved = runs[r].resolved,
         run.confirmed = runs[r].confirmed, run.pump \in {runs[r].pump, "stopped"},
         RunFits(run, remote[r]), CancelFits(run)
  PROVE  HermesInv' /\ RunsMove
<1> DEFINE now == [runs EXCEPT ![r] = run]
<1>1. now \in [Runs -> RunRec] /\ now[r] = run /\ \A q \in Runs \ {r} : now[q] = runs[q]
  BY DEF HermesInv, Typed, HereTyped
<1>2. Keep(now)
  OBVIOUS
<1> HIDE DEF now
<1> QED BY <1>1, <1>2, KeepStep, AroundIsElsewhere, AroundStep

LEMMA KeepAll ==
  ASSUME HermesInv, Keep(runs), Around PROVE HermesInv' /\ RunsMove
<1>1. HereTyped'
  BY DEF HermesInv, Typed, HereTyped, Keep, SettledVars, Around
<1>2. \A q \in Runs : Kept(q)
  BY RunFacts DEF Kept, Keep, Around, provider
<1>3. UNCHANGED <<activeBySession, quarantinedSessions, handles>> /\ pendingApprovals' = pendingApprovals \ PendingOf({})
  BY DEF Keep, SettledVars, PendingOf
<1>4. Evolves
  BY <1>1, <1>2, <1>3, EndingStep, AroundIsElsewhere
<1> QED BY <1>4, AroundStep

LEMMA PollStep ==
  ASSUME HermesInv, NEW r \in Runs, NEW outcome, NEW late, Poll(r, outcome, late)
  PROVE  HermesInv' /\ RunsMove
<1>1. Around /\ runs[r].reconcile = "poll" /\ Active(r) /\ Abortable(r, runs)
  BY ActiveFacts DEF Poll, Around
<1>2. CASE AbortRun(r, runs) \/ FailIncompatible(r, runs)
  BY <1>1, <1>2, AbortAround
<1>3. CASE Keep(runs)
  BY <1>1, <1>3, KeepAll
<1>4. CASE remote[r] \in Statuses /\ runs[r].signal \in {"none", remote[r]} /\ Keep([runs EXCEPT ![r].reconcile = "settle", ![r].answer = remote[r]])
  <2> DEFINE run == [runs[r] EXCEPT !.reconcile = "settle", !.answer = remote[r]]
  <2>1. runs[r] \in RunRec /\ RunFits(runs[r], remote[r]) /\ CancelFits(runs[r])
    BY RunFacts
  <2>2. run \in RunRec
    BY <1>4, <2>1 DEF RunRec
  <2>3. /\ run.start = runs[r].start /\ run.owner = runs[r].owner /\ run.result = runs[r].result
        /\ run.requested = runs[r].requested /\ run.resolved = runs[r].resolved /\ run.signal = runs[r].signal
        /\ run.confirmed = runs[r].confirmed /\ run.pump = runs[r].pump /\ run.incompatible = runs[r].incompatible
        /\ run.cancel = runs[r].cancel /\ run.timedOut = runs[r].timedOut /\ run.answer = remote[r] /\ run.reconcile = "settle"
    BY <2>1 DEF RunRec
  <2>4. RunFits(run, remote[r])
    BY <1>1, <1>4, <2>1, <2>3 DEF RunFits, Active, Terminal
  <2>5. CancelFits(run)
    BY <2>1, <2>3 DEF CancelFits
  <2>6. Keep([runs EXCEPT ![r] = run])
    BY <1>4 DEF HermesInv, Typed, HereTyped
  <2> HIDE DEF run
  <2> QED BY <1>1, <2>2, <2>3, <2>4, <2>5, <2>6, KeepAround
<1> QED BY <1>2, <1>3, <1>4 DEF Poll

LEMMA SettledAsAnswered ==
  ASSUME HermesInv, NEW r \in Runs, runs[r].reconcile \in {"settle", "drain"}, Settle(r, runs, runs[r].answer, FALSE), Around
  PROVE  HermesInv' /\ RunsMove
<1>1. Active(r) /\ Abortable(r, runs) /\ RunFits(runs[r], remote[r])
  BY ActiveFacts, RunFacts
<1>2. runs[r].answer \in Terminals /\ runs[r].answer = remote[r] /\ runs[r].signal \in {"none", remote[r]} /\ ~Works(r)
  BY <1>1 DEF RunFits, Terminals, Statuses, Works
<1>3. Evolves
  BY <1>1, <1>2, SettleStep, AroundIsElsewhere DEF Abortable
<1> QED BY <1>3, AroundStep

LEMMA SettlementStep ==
  ASSUME HermesInv, NEW r \in Runs, Settlement(r)
  PROVE  HermesInv' /\ RunsMove
<1>1. CASE Drained(r)
  BY <1>1, SettledAsAnswered DEF Drained, Around
<1>2. ASSUME NEW room \in Room, Settling(r, room) PROVE HermesInv' /\ RunsMove
  <2>1. Around /\ runs[r].reconcile = "settle" /\ Active(r) /\ Abortable(r, runs)
    BY <1>2, ActiveFacts DEF Settling, Around
  <2>2. CASE AbortRun(r, runs)
    BY <2>1, <2>2, AbortAround
  <2>3. CASE Settle(r, runs, runs[r].answer, FALSE)
    BY <2>1, <2>3, SettledAsAnswered
  <2>4. CASE Keep([runs EXCEPT ![r].reconcile = "drain"]) /\ runs[r].signal # "none"
    <3> DEFINE run == [runs[r] EXCEPT !.reconcile = "drain"]
    <3>1. runs[r] \in RunRec /\ RunFits(runs[r], remote[r]) /\ CancelFits(runs[r])
      BY RunFacts
    <3>2. /\ run \in RunRec
          /\ run.start = runs[r].start /\ run.owner = runs[r].owner /\ run.result = runs[r].result
          /\ run.requested = runs[r].requested /\ run.resolved = runs[r].resolved /\ run.signal = runs[r].signal
          /\ run.confirmed = runs[r].confirmed /\ run.pump = runs[r].pump /\ run.incompatible = runs[r].incompatible
          /\ run.cancel = runs[r].cancel /\ run.timedOut = runs[r].timedOut /\ run.answer = runs[r].answer
          /\ run.reconcile = "drain"
      BY <3>1 DEF RunRec
    <3>3. RunFits(run, remote[r]) /\ CancelFits(run)
      BY <2>1, <2>4, <3>1, <3>2 DEF RunFits, CancelFits, Active, Terminal
    <3>4. Keep([runs EXCEPT ![r] = run])
      BY <2>4
    <3> HIDE DEF run
    <3> QED BY <2>1, <3>2, <3>3, <3>4, KeepAround
  <2>5. room \in BOOLEAN
    BY <1>2 DEF Room
  <2> QED BY <1>2, <2>2, <2>3, <2>4, <2>5 DEF Settling
<1> QED BY <1>1, <1>2 DEF Settlement

LEMMA ProgressStep ==
  ASSUME HermesInv, NEW r \in Runs, ProgressArrives(r)
  PROVE  HermesInv' /\ RunsMove
<1>1. Around /\ Active(r) /\ Abortable(r, runs)
  BY ActiveFacts DEF ProgressArrives, Around, Active
<1>2. AbortRun(r, runs) \/ FailIncompatible(r, runs)
  BY DEF ProgressArrives
<1> QED BY <1>1, <1>2, AbortAround

LEMMA StreamEndsStep ==
  ASSUME HermesInv, NEW r \in Runs, NEW how, StreamEnds(r, how)
  PROVE  HermesInv' /\ RunsMove
<1> DEFINE stopped == [runs[r] EXCEPT !.pump = "stopped"]
           polling == [stopped EXCEPT !.reconcile = IF runs[r].reconcile = "none" THEN "poll" ELSE runs[r].reconcile]
<1>1. Around /\ Active(r) /\ Abortable(r, runs)
  BY ActiveFacts DEF StreamEnds, Around, Active
<1>2. runs[r] \in RunRec /\ RunFits(runs[r], remote[r]) /\ CancelFits(runs[r]) /\ runs \in [Runs -> RunRec]
  BY RunFacts DEF HermesInv, Typed, HereTyped
<1>3. ASSUME NEW run \in {stopped, polling} PROVE
        /\ run \in RunRec
        /\ run.start = runs[r].start /\ run.owner = runs[r].owner /\ run.result = runs[r].result
        /\ run.requested = runs[r].requested /\ run.resolved = runs[r].resolved /\ run.signal = runs[r].signal
        /\ run.confirmed = runs[r].confirmed /\ run.pump = "stopped" /\ run.incompatible = runs[r].incompatible
        /\ run.cancel = runs[r].cancel /\ run.timedOut = runs[r].timedOut /\ run.answer = runs[r].answer
        /\ run.reconcile = runs[r].reconcile \/ run.reconcile = "poll"
  <2>1. stopped \in RunRec
    BY <1>2 DEF RunRec
  <2>2. polling \in RunRec
    <3> HIDE DEF stopped
    <3> QED BY <1>2, <2>1 DEF RunRec
  <2>3. CASE run = stopped
    BY <1>2, <2>1, <2>3 DEF RunRec
  <2>4. CASE run = polling
    BY <1>2, <2>2, <2>4 DEF RunRec
  <2> QED BY <1>3, <2>3, <2>4
<1>4. ASSUME NEW run \in {stopped, polling} PROVE RunFits(run, remote[r]) /\ CancelFits(run)
  <2> HIDE DEF stopped, polling
  <2> QED BY <1>1, <1>2, <1>3, <1>4 DEF RunFits, CancelFits, Active, Terminal
<1>5. [runs EXCEPT ![r].pump = "stopped"] = [runs EXCEPT ![r] = stopped]
  OBVIOUS
<1>6. CASE Keep([runs EXCEPT ![r] = stopped])
  <2> HIDE DEF stopped, polling
  <2> QED BY <1>1, <1>3, <1>4, <1>6, KeepAround
<1>7. CASE Keep([runs EXCEPT ![r] = polling])
  <2> HIDE DEF stopped, polling
  <2> QED BY <1>1, <1>3, <1>4, <1>7, KeepAround
<1>8. CASE AbortRun(r, [runs EXCEPT ![r] = stopped]) \/ FailIncompatible(r, [runs EXCEPT ![r] = stopped])
  <2> DEFINE now == [runs EXCEPT ![r] = stopped]
  <2> HIDE DEF stopped, polling
  <2>1. Abortable(r, now)
    BY <1>1, <1>2, <1>3 DEF Abortable, Active
  <2> HIDE DEF now
  <2>2. AbortRun(r, now) \/ FailIncompatible(r, now)
    BY <1>8 DEF now
  <2> QED BY <1>1, <2>1, <2>2, AbortAround
<1>9. [[runs EXCEPT ![r].pump = "stopped"] EXCEPT ![r].reconcile = IF @ = "none" THEN "poll" ELSE @] = [runs EXCEPT ![r] = polling]
  BY <1>2, <1>5 DEF RunRec
<1>10. how \in {"lost", "invalid", "refused"}
  BY DEF StreamEnds
<1> HIDE DEF stopped, polling
<1> QED BY <1>5, <1>6, <1>7, <1>8, <1>9, <1>10 DEF StreamEnds

(* A Run with another cancel(). *)
CancelOf(r, cancel, timedOut) == [runs[r] EXCEPT !.timedOut = timedOut, !.cancel = cancel]

LEMMA CancelOfFacts ==
  ASSUME HermesInv, NEW r \in Runs, runs[r].start = "started", NEW timedOut \in BOOLEAN,
         NEW cancel \in Waiting \cup {"none", "native", "connection_aborted", "already_terminal", "error"}
  PROVE  LET run == CancelOf(r, cancel, timedOut) IN
         /\ run \in RunRec /\ RunFits(run, remote[r]) /\ run.cancel = cancel /\ run.timedOut = timedOut
         /\ run.start = runs[r].start /\ run.owner = runs[r].owner /\ run.result = runs[r].result
         /\ run.requested = runs[r].requested /\ run.resolved = runs[r].resolved
         /\ run.confirmed = runs[r].confirmed /\ run.pump = runs[r].pump
         /\ (~Terminal(r) /\ cancel \in Waiting \cup {"none", "error"}) => Abortable(r, [runs EXCEPT ![r] = run])
<1> DEFINE run == CancelOf(r, cancel, timedOut)
<1>1. runs[r] \in RunRec /\ RunFits(runs[r], remote[r]) /\ runs \in [Runs -> RunRec]
  BY RunFacts DEF HermesInv, Typed, HereTyped
<1>2. /\ run \in RunRec /\ run.cancel = cancel /\ run.timedOut = timedOut
      /\ run.start = runs[r].start /\ run.owner = runs[r].owner /\ run.result = runs[r].result
      /\ run.requested = runs[r].requested /\ run.resolved = runs[r].resolved
      /\ run.confirmed = runs[r].confirmed /\ run.pump = runs[r].pump /\ run.signal = runs[r].signal
      /\ run.incompatible = runs[r].incompatible /\ run.answer = runs[r].answer /\ run.reconcile = runs[r].reconcile
  <2>2. /\ run.cancel = cancel /\ run.timedOut = timedOut
        /\ run.start = runs[r].start /\ run.owner = runs[r].owner /\ run.result = runs[r].result
        /\ run.requested = runs[r].requested /\ run.resolved = runs[r].resolved
        /\ run.confirmed = runs[r].confirmed /\ run.pump = runs[r].pump /\ run.signal = runs[r].signal
        /\ run.incompatible = runs[r].incompatible /\ run.answer = runs[r].answer /\ run.reconcile = runs[r].reconcile
    BY <1>1, Zenon DEF CancelOf, RunRec
  <2>3. run \in RunRec
    BY <1>1, ZenonT(60) DEF CancelOf, RunRec
  <2> QED BY <2>2, <2>3
<1>3. RunFits(run, remote[r])
  <2> HIDE DEF run
  <2> QED BY <1>1, <1>2 DEF RunFits
<1>4. (~Terminal(r) /\ cancel \in Waiting \cup {"none", "error"}) => Abortable(r, [runs EXCEPT ![r] = run])
  <2> HIDE DEF run
  <2> QED BY <1>1, <1>2, ActiveFacts DEF Abortable
<1> QED BY <1>2, <1>3, <1>4

LEMMA CancelStep ==
  ASSUME HermesInv, NEW r \in Runs, NEW timer \in BOOLEAN, Cancel(r, timer)
  PROVE  HermesInv' /\ RunsMove
<1> DEFINE cancel == IF runs[r].cancel = "none" /\ SupportsCancel THEN "posting" ELSE runs[r].cancel
           timedOut == runs[r].timedOut \/ timer
           run == CancelOf(r, cancel, timedOut)
<1>1. Around /\ runs[r].start = "started" /\ ~Terminal(r) /\ runs[r] \in RunRec /\ CancelFits(runs[r])
  BY RunFacts DEF Cancel, Around
<1>2. runs[r].cancel \in Waiting \cup {"none", "error"} /\ timedOut \in BOOLEAN
  BY <1>1, ActiveFacts DEF RunRec
<1>3. cancel \in Waiting \cup {"none", "error"}
  BY <1>2 DEF Waiting
<1>4. [runs EXCEPT ![r].timedOut = @ \/ timer, ![r].cancel = IF @ = "none" /\ SupportsCancel THEN "posting" ELSE @]
        = [runs EXCEPT ![r] = run]
  BY DEF CancelOf, HermesInv, Typed, HereTyped
<1>5. /\ run \in RunRec /\ RunFits(run, remote[r]) /\ run.cancel = cancel
      /\ run.start = runs[r].start /\ run.owner = runs[r].owner /\ run.result = runs[r].result
      /\ run.requested = runs[r].requested /\ run.resolved = runs[r].resolved
      /\ run.confirmed = runs[r].confirmed /\ run.pump = runs[r].pump
      /\ Abortable(r, [runs EXCEPT ![r] = run])
  <2>1. ASSUME NEW c \in Waiting \cup {"none", "error"}, NEW t \in BOOLEAN PROVE
          LET other == CancelOf(r, c, t) IN
          /\ other \in RunRec /\ RunFits(other, remote[r]) /\ other.cancel = c
          /\ other.start = runs[r].start /\ other.owner = runs[r].owner /\ other.result = runs[r].result
          /\ other.requested = runs[r].requested /\ other.resolved = runs[r].resolved
          /\ other.confirmed = runs[r].confirmed /\ other.pump = runs[r].pump
          /\ Abortable(r, [runs EXCEPT ![r] = other])
    BY <1>1, <2>1, CancelOfFacts
  <2> HIDE DEF cancel, timedOut
  <2> QED BY <1>2, <1>3, <2>1, Zenon
<1>6. [runs EXCEPT ![r] = run][r] = run
  BY DEF HermesInv, Typed, HereTyped
<1> HIDE DEF run
<1>7. IF ~SupportsCancel \/ run.cancel = "error" THEN AbortRun(r, [runs EXCEPT ![r] = run]) ELSE Keep([runs EXCEPT ![r] = run])
  BY <1>4, <1>6 DEF Cancel
<1>8. CASE AbortRun(r, [runs EXCEPT ![r] = run])
  BY <1>1, <1>5, <1>8, AbortAround
<1>9. CASE run.cancel # "error" /\ Keep([runs EXCEPT ![r] = run])
  BY <1>3, <1>5, <1>9, <1>1, KeepAround DEF CancelFits, Waiting
<1> QED BY <1>7, <1>8, <1>9

LEMMA CancelAnsweredStep ==
  ASSUME HermesInv, NEW r \in Runs, NEW outcome, CancelAnswered(r, outcome)
  PROVE  HermesInv' /\ RunsMove
<1> DEFINE cancel == IF outcome # "ok" THEN "error"
                     ELSE IF Terminal(r) THEN CancelAfter("acknowledged", runs[r].result) ELSE "acknowledged"
           run == CancelOf(r, cancel, runs[r].timedOut)
<1>1. /\ Around /\ runs[r].start = "started" /\ runs[r].cancel = "posting"
      /\ runs[r] \in RunRec /\ runs[r].timedOut \in BOOLEAN /\ CancelFits(runs[r])
  BY RunFacts, ActiveFacts DEF CancelAnswered, Around, RunRec
<1>2. cancel \in Waiting \cup {"none", "native", "connection_aborted", "already_terminal", "error"}
  BY DEF Waiting, CancelAfter
<1>3. ~Terminal(r) => cancel \in Waiting \cup {"none", "error"}
  BY DEF Waiting
<1>4. [runs EXCEPT ![r].cancel = cancel] = [runs EXCEPT ![r] = run]
  <2>1. run = [runs[r] EXCEPT !.cancel = cancel]
    <3> HIDE DEF cancel
    <3> QED BY <1>1 DEF CancelOf, RunRec
  <2> QED BY <2>1
<1>5. /\ run \in RunRec /\ RunFits(run, remote[r]) /\ run.cancel = cancel
      /\ run.start = runs[r].start /\ run.owner = runs[r].owner /\ run.result = runs[r].result
      /\ run.requested = runs[r].requested /\ run.resolved = runs[r].resolved
      /\ run.confirmed = runs[r].confirmed /\ run.pump = runs[r].pump /\ run.timedOut = runs[r].timedOut
      /\ ~Terminal(r) => Abortable(r, [runs EXCEPT ![r] = run])
  <2> HIDE DEF cancel
  <2> QED BY <1>1, <1>2, <1>3, CancelOfFacts
<1> DEFINE now == [runs EXCEPT ![r] = run]
<1>6. IF cancel = "error" /\ (Uncertain(outcome) \/ runs[r].timedOut) THEN AbortRun(r, now) ELSE Keep(now)
  <2> HIDE DEF run
  <2> QED BY <1>4 DEF CancelAnswered
<1>7. CASE ~Terminal(r) /\ AbortRun(r, now)
  <2> HIDE DEF run
  <2> QED BY <1>1, <1>5, <1>7, AbortAround
<1>8. CASE Keep(now) /\ (Terminal(r) \/ cancel = "acknowledged" \/ ~runs[r].timedOut)
  <2>1. cancel \in {"error", "acknowledged"} \/ (Terminal(r) /\ cancel = CancelAfter("acknowledged", runs[r].result))
    OBVIOUS
  <2>2. runs[r].result \in Terminals \cup {"none"}
    BY <1>1 DEF RunRec
  <2> HIDE DEF run, cancel
  <2>3. CancelFits(run)
    BY <1>5, <1>8, <2>1, <2>2 DEF CancelFits, CancelAfter, Terminal, Terminals, Statuses
  <2> QED BY <1>1, <1>5, <1>8, <2>3, KeepAround
<1>9. Terminal(r) /\ AbortRun(r, now) => Keep(now)
  BY DEF AbortRun, Settle, Keep
<1> HIDE DEF now, run
<1> QED BY <1>6, <1>7, <1>8, <1>9

LEMMA CancelGivesUpStep ==
  ASSUME HermesInv, NEW r \in Runs, CancelGivesUp(r)
  PROVE  HermesInv' /\ RunsMove
<1>1. Around /\ Abortable(r, runs) /\ AbortRun(r, runs)
  BY ActiveFacts DEF CancelGivesUp, Around
<1> QED BY <1>1, AbortAround

-------------------------------------------------------------------------------
(* close(), of the Client and of a Session. *)
Told(told) == [r \in Runs |-> [runs[r] EXCEPT !.closed = runs[r].closed \/ r \in told]]

LEMMA ToldFacts ==
  ASSUME HermesInv, NEW told, NEW q \in Runs
  PROVE  /\ Told(told)[q] \in RunRec /\ RunFits(Told(told)[q], remote[q]) /\ CancelFits(Told(told)[q])
         /\ Told(told)[q].start = runs[q].start /\ Told(told)[q].owner = runs[q].owner
         /\ Told(told)[q].result = runs[q].result /\ Told(told)[q].cancel = runs[q].cancel
         /\ Told(told)[q].requested = runs[q].requested /\ Told(told)[q].resolved = runs[q].resolved
         /\ Told(told)[q].confirmed = runs[q].confirmed /\ Told(told)[q].pump = runs[q].pump
<1> DEFINE closed == runs[q].closed \/ q \in told
           run == [runs[q] EXCEPT !.closed = closed]
<1>1. runs[q] \in RunRec /\ RunFits(runs[q], remote[q]) /\ CancelFits(runs[q]) /\ closed \in BOOLEAN
  BY RunFacts
<1>2. Told(told)[q] = run
  BY DEF Told
<1>3. run \in RunRec
  <2> HIDE DEF closed
  <2> QED BY <1>1 DEF RunRec
<1>4. /\ run.start = runs[q].start /\ run.owner = runs[q].owner /\ run.result = runs[q].result
      /\ run.requested = runs[q].requested /\ run.resolved = runs[q].resolved
      /\ run.confirmed = runs[q].confirmed /\ run.pump = runs[q].pump /\ run.signal = runs[q].signal
      /\ run.incompatible = runs[q].incompatible /\ run.answer = runs[q].answer /\ run.reconcile = runs[q].reconcile
      /\ run.cancel = runs[q].cancel /\ run.timedOut = runs[q].timedOut
  <2> HIDE DEF closed
  <2> QED BY <1>1 DEF RunRec
<1>5. RunFits(run, remote[q]) /\ CancelFits(run)
  <2> HIDE DEF run
  <2> QED BY <1>1, <1>4 DEF RunFits, CancelFits, Fresh
<1> HIDE DEF run
<1> QED BY <1>2, <1>3, <1>4, <1>5

LEMMA ClosingStep ==
  ASSUME HermesInv, NEW told, NEW rs \in SUBSET Runs, \A q \in rs : Active(q), Elsewhere, UNCHANGED stream,
         runs' = [r \in Runs |-> IF r \in rs THEN Finished(Told(told)[r], "connection_aborted", PendingOf({r})) ELSE Told(told)[r]],
         \A s \in Sessions : activeBySession'[s] = IF activeBySession[s] \in rs THEN NoRun ELSE activeBySession[s],
         activeBySession' \in [Sessions -> Runs \cup {NoRun}],
         pendingApprovals' = pendingApprovals \ PendingOf(rs),
         quarantinedSessions' = quarantinedSessions \cup {SessionOf(q) : q \in rs},
         handles' \in [Handles -> HandleRec],
         \A h \in Handles : handles'[h].call = handles[h].call /\ handles'[h].session = handles[h].session,
         UNCHANGED <<client, transport>> \/ (client' = "closed" /\ transport' = "closed" /\ \A q \in Runs : Active(q) => q \in rs)
  PROVE  Evolves
<1>1. ASSUME NEW q \in rs PROVE Ended(q)
  <2> DEFINE run == Told(told)[q]
             f == Finished(run, "connection_aborted", PendingOf({q}))
  <2>1. /\ q \in Runs /\ Active(q) /\ run \in RunRec /\ run.start = "started" /\ run.owner = runs[q].owner
        /\ run.cancel \in Waiting \cup {"none", "error"} /\ run.requested = runs[q].requested
        /\ run.resolved \subseteq run.requested /\ run.requested \ run.resolved = PendingOf({q})
    <3>1. /\ run \in RunRec /\ run.start = runs[q].start /\ run.owner = runs[q].owner /\ run.cancel = runs[q].cancel
          /\ run.requested = runs[q].requested /\ run.resolved = runs[q].resolved
      BY ToldFacts
    <3> HIDE DEF run
    <3> QED BY <3>1, ActiveFacts DEF Active
  <2>2. runs'[q] = f /\ remote'[q] = remote[q] /\ "connection_aborted" \in Terminals /\ "connection_aborted" \notin Statuses
    BY <2>1 DEF Elsewhere, Terminals, Statuses
  <2>3. Asked(q, runs[q].requested) /\ SessionOf(q) \in quarantinedSessions'
    BY <2>1, ActiveFacts
  <2>4. /\ f \in RunRec /\ RunFits(f, remote[q]) /\ CancelFits(f)
        /\ f.start = run.start /\ f.owner = run.owner /\ f.result = "connection_aborted"
        /\ f.requested = run.requested /\ f.resolved = run.requested
    <3> HIDE DEF run
    <3> QED BY <2>1, <2>2, FinishedFits, ZenonT(60)
  <2> HIDE DEF f, run
  <2> QED BY <2>1, <2>2, <2>3, <2>4 DEF Ended, Terminal, Active
<1>2. ASSUME NEW q \in Runs \ rs PROVE Kept(q)
  BY ToldFacts DEF Elsewhere, Kept
<1>3. HereTyped'
  <2>1. \A q \in Runs : runs'[q] \in RunRec
    BY <1>1, <1>2 DEF Kept, Ended
  <2>2. runs' \in [Runs -> RunRec]
    BY <2>1
  <2>3. quarantinedSessions' \subseteq Sessions
    BY RunFacts DEF Underway, HermesInv, Typed, HereTyped
  <2> QED BY <2>2, <2>3 DEF HermesInv, Typed, HereTyped, Elsewhere
<1> QED BY <1>1, <1>2, <1>3, EndingStep

LEMMA CloseSessionStep ==
  ASSUME HermesInv, NEW h \in Handles, CloseSession(h)
  PROVE  HermesInv' /\ RunsMove
<1> DEFINE s == handles[h].session
           told == {r \in {startingBySession[s]} \cap Runs : runs[r].owner = h}
           ended == {r \in {activeBySession[s]} \cap Runs : runs[r].owner = h}
<1>1. Around
  BY DEF CloseSession, Around
<1>2. s \in Sessions
  BY DEF CloseSession, HermesInv, HandleInv, Typed, SessionsTyped
<1>3. \A q \in ended : Active(q) /\ SessionOf(q) = s /\ ended = {activeBySession[s]}
  BY NullAssumption, <1>2 DEF HermesInv, PlaceInv
<1>4. /\ runs' = [r \in Runs |-> IF r \in ended THEN Finished(Told(told)[r], "connection_aborted", PendingOf({r})) ELSE Told(told)[r]]
      /\ activeBySession' = IF ended = {} THEN activeBySession ELSE [activeBySession EXCEPT ![s] = NoRun]
      /\ pendingApprovals' = pendingApprovals \ PendingOf(ended)
      /\ quarantinedSessions' = IF ended = {} THEN quarantinedSessions ELSE quarantinedSessions \cup {s}
      /\ handles' = [handles EXCEPT ![h].closed = TRUE, ![h].unsafe = handles[h].unsafe \/ ended # {}]
  BY DEF CloseSession, Told
<1> HIDE DEF s, told, ended
<1>5. handles' \in [Handles -> HandleRec] /\ \A k \in Handles : handles'[k].call = handles[k].call /\ handles'[k].session = handles[k].session
  BY <1>4 DEF HermesInv, Typed, HereTyped, HandleRec
<1>6. quarantinedSessions' = quarantinedSessions \cup {SessionOf(q) : q \in ended}
  BY <1>3, <1>4
<1>7. /\ activeBySession' \in [Sessions -> Runs \cup {NoRun}]
      /\ \A t \in Sessions : activeBySession'[t] = IF activeBySession[t] \in ended THEN NoRun ELSE activeBySession[t]
  BY <1>3, <1>2, NullAssumption, <1>4 DEF HermesInv, PlaceInv, ended, Typed, HereTyped
<1>8. ended \subseteq Runs
  BY DEF ended
<1>9. Evolves
  BY <1>1, <1>3, <1>4, <1>5, <1>6, <1>7, <1>8, ClosingStep, AroundIsElsewhere
<1> QED BY <1>1, <1>9, AroundStep

LEMMA CloseStep ==
  ASSUME HermesInv, Close
  PROVE  HermesInv' /\ RunsMove
<1>1. /\ client = "open" /\ client' = "closed" /\ transport' = "closed"
      /\ runs' = [r \in Runs |-> IF r \in ActiveRuns THEN Finished(Told(StartingRuns)[r], "connection_aborted", PendingOf({r}))
                                 ELSE Told(StartingRuns)[r]]
      /\ activeBySession' = [s \in Sessions |-> IF activeBySession[s] \in ActiveRuns THEN NoRun ELSE activeBySession[s]]
      /\ pendingApprovals' = pendingApprovals \ PendingOf(ActiveRuns)
      /\ quarantinedSessions' = quarantinedSessions \cup {SessionOf(r) : r \in ActiveRuns}
      /\ handles' = [h \in Handles |->
           [handles[h] EXCEPT !.unsafe = handles[h].unsafe \/ (TRUE /\ \E r \in ActiveRuns : runs[r].owner = h)]]
      /\ UNCHANGED <<startingBySession, knownSessions, retiredSessions, branches, responses, provider>>
  BY DEF Close, SettleAll, Told
<1>2. ActiveRuns \subseteq Runs /\ (\A q \in ActiveRuns : Active(q)) /\ \A q \in Runs : Active(q) => q \in ActiveRuns
  BY NullAssumption, RunFacts DEF ActiveRuns, HermesInv, PlaceInv, Underway
<1>3. handles' \in [Handles -> HandleRec] /\ \A k \in Handles : handles'[k].call = handles[k].call /\ handles'[k].session = handles[k].session
  BY <1>1 DEF HermesInv, Typed, HereTyped, HandleRec
<1>4. activeBySession' \in [Sessions -> Runs \cup {NoRun}]
  BY <1>1 DEF HermesInv, Typed, HereTyped
<1>5. Elsewhere /\ UNCHANGED <<stream, responses, approvals>>
  BY <1>1 DEF Elsewhere, provider
<1>6. Evolves
  BY <1>1, <1>2, <1>3, <1>4, <1>5, ClosingStep
<1>7. SessionsTyped' /\ ClientInv'
  BY <1>1 DEF HermesInv, Typed, SessionsTyped, ClientInv, provider
<1>8. ApprovalsTyped'
  BY <1>1 DEF HermesInv, Typed, ApprovalsTyped, provider
<1> QED BY <1>5, <1>6, <1>7, <1>8, EvolvedStep

-------------------------------------------------------------------------------
(* The steps that move Sessions, and no Run. *)
LEMMA SessionStep ==
  ASSUME HermesInv,
         UNCHANGED <<runs, startingBySession, activeBySession, pendingApprovals, responses, remote, stream, approvals>>,
         HereTyped', SessionsTyped', ClientInv', HandleInv', client \in {"open", "closed"} => client' = client,
         \A h \in Handles : handles[h].call = "made" => handles'[h].call = "made" /\ handles'[h].session = handles[h].session,
         quarantinedSessions \subseteq quarantinedSessions',
         \A s \in branched' : s \in retiredSessions' \cup quarantinedSessions',
         \A s \in Sessions : (s \in branched' \/ branches'[s] # "none") =>
           \/ s \in branched \/ branches[s] # "none"
           \/ ~HasWork(s) /\ \A r \in Runs : Works(r) => SessionOf(r) # s
  PROVE  HermesInv' /\ RunsMove
<1>1. Typed' /\ RunInv' /\ OwnerInv' /\ RunsMove
  BY RunFacts DEF HermesInv, Typed, ApprovalsTyped, RunInv, OwnerInv, RunsMove, Moves, RunFits, Fresh, Terminal
<1>2. Quiet
  BY DEF Quiet, RunQuiet, Heard, Unheard, PendingOf, Terminal
<1>3. ProviderInv' /\ StreamInv' /\ PendingInv' /\ ResponseInv'
  BY <1>1, <1>2, QuietStep
<1>4. \A r \in Runs : runs[r].owner # NoHandle => SessionOf(r)' = SessionOf(r)
  BY RunFacts DEF SessionOf
<1>5. \A r \in Runs : /\ Starting(r)' <=> Starting(r)
                      /\ Active(r)' <=> Active(r)
                      /\ Underway(r)' <=> Underway(r)
                      /\ Works(r)' <=> Works(r)
                      /\ Underway(r) \/ Works(r) => SessionOf(r)' = SessionOf(r) /\ SessionOf(r) \in Sessions
  BY <1>4, RunFacts DEF Starting, Active, Terminal, Underway, Works
<1>6. PlaceInv'
  BY <1>5 DEF HermesInv, PlaceInv, Underway, Typed, HereTyped, Starting, SessionOf, Active, Terminal
<1>7. WorkInv'
  BY <1>5 DEF HermesInv, WorkInv, HasWork
<1> QED BY <1>1, <1>3, <1>6, <1>7 DEF HermesInv

LEMMA ConnectStep ==
  ASSUME HermesInv, NEW profile, NEW outcome, Connect(profile) \/ Probed(outcome)
  PROVE  HermesInv' /\ RunsMove
<1>1. UNCHANGED <<handles, tables, branches, runs, pendingApprovals, responses, provider>> /\ client \notin {"open", "closed"}
  BY DEF Connect, Probed
<1>2. client' \in {"failed", "probing", "open"} /\ transport' \in {"none", "open", "closed"} /\ ClientInv'
  BY DEF Connect, Probed, HermesInv, ClientInv, Typed, HereTyped
<1>3. HereTyped' /\ SessionsTyped' /\ HandleInv'
  BY <1>1, <1>2 DEF HermesInv, Typed, HereTyped, SessionsTyped, HandleInv, tables, provider
<1>4. HermesInv
  OBVIOUS
<1> QED BY <1>1, <1>2, <1>3, SessionStep DEF tables, provider, HermesInv, WorkInv

(* A step that makes a handle, and may add to what is known, retired and quarantined. *)
LEMMA HandleStep ==
  ASSUME HermesInv, UNCHANGED <<client, transport, startingBySession, activeBySession, runs, pendingApprovals, responses,
                                remote, stream, approvals>>,
         NEW h \in Handles, NEW call \in {"create", "resume", "made", "refused"}, NEW s \in Sessions \cup {NoSession},
         handles' = handles \/ (SetCall(h, call, s) /\ handles[h].call # "made" /\ (call \in {"resume", "made"} => s \in created')),
         created \subseteq created', created' \subseteq Sessions, knownSessions' \subseteq created', retiredSessions' \subseteq created',
         quarantinedSessions \subseteq quarantinedSessions', quarantinedSessions' \subseteq Sessions,
         branches' \in [Sessions -> {"none", "get", "post"}], branched' \subseteq created,
         \A t \in branched' : t \in retiredSessions' \cup quarantinedSessions',
         \A t \in Sessions : branches'[t] # "none" => t \in created,
         \A t \in Sessions : (t \in branched' \/ branches'[t] # "none") =>
           \/ t \in branched \/ branches[t] # "none"
           \/ ~HasWork(t) /\ \A r \in Runs : Works(r) => SessionOf(r) # t
  PROVE  HermesInv' /\ RunsMove
<1>1. \A k \in Handles : handles'[k] = handles[k] \/ (k = h /\ handles'[k] = [handles[h] EXCEPT !.call = call, !.session = s])
  BY DEF SetCall, HermesInv, Typed, HereTyped
<1>2. handles' \in [Handles -> HandleRec]
  BY DEF HermesInv, Typed, HereTyped, HandleRec, SetCall
<1>3. \A k \in Handles : \/ handles'[k].call = handles[k].call /\ handles'[k].session = handles[k].session
                         \/ handles[k].call # "made" /\ (handles'[k].call \in {"resume", "made"} => handles'[k].session \in created')
  BY <1>1 DEF SetCall, HermesInv, Typed, HereTyped, HandleRec
<1>4. HandleInv'
  BY <1>3 DEF HermesInv, HandleInv
<1>5. HereTyped' /\ SessionsTyped' /\ ClientInv'
  BY <1>2 DEF HermesInv, Typed, HereTyped, SessionsTyped, ClientInv
<1>6. \A k \in Handles : handles[k].call = "made" => handles'[k].call = "made" /\ handles'[k].session = handles[k].session
  BY <1>3
<1> QED BY <1>4, <1>5, <1>6, SessionStep

(* What is so of the Sessions before any of these steps. *)
LEMMA SessionFacts ==
  ASSUME HermesInv
  PROVE  /\ created \subseteq Sessions /\ branched \subseteq created /\ knownSessions \subseteq created
         /\ retiredSessions \subseteq created /\ quarantinedSessions \subseteq Sessions
         /\ branches \in [Sessions -> {"none", "get", "post"}]
         /\ \A t \in branched : t \in retiredSessions \cup quarantinedSessions
         /\ \A t \in Sessions : branches[t] # "none" => t \in created
         /\ \A h \in Handles : handles[h].call = "resume" => handles[h].session \in created
         /\ \A t \in Sessions : (t \notin quarantinedSessions /\ ~HasWork(t)) =>
              \A r \in Runs : Works(r) => SessionOf(r) # t
<1>1. ASSUME NEW t \in Sessions, t \notin quarantinedSessions, ~HasWork(t), NEW r \in Runs, Works(r)
      PROVE  SessionOf(r) # t
  BY <1>1, NullAssumption DEF HermesInv, WorkInv, PlaceInv, Underway, HasWork
<1> QED BY <1>1 DEF HermesInv, Typed, HereTyped, SessionsTyped, WorkInv, HandleInv

LEMMA CreateStep ==
  ASSUME HermesInv, NEW h \in Handles, Create(h) \/ \E s \in Sessions : Resume(h, s)
  PROVE  HermesInv' /\ RunsMove
<1>1. CASE Create(h)
  BY <1>1, SessionFacts, HandleStep DEF Create, tables, provider
<1>2. ASSUME NEW s \in Sessions, Resume(h, s) PROVE HermesInv' /\ RunsMove
  BY <1>2, SessionFacts, HandleStep DEF Resume, tables, provider
<1> QED BY <1>1, <1>2

LEMMA CreatedStep ==
  ASSUME HermesInv, NEW h \in Handles, NEW s \in Sessions, NEW outcome, Created(h, s, outcome)
  PROVE  HermesInv' /\ RunsMove
<1>1. /\ UNCHANGED <<client, transport, startingBySession, activeBySession, retiredSessions, quarantinedSessions,
                     branches, runs, pendingApprovals, responses, branched, remote, stream, approvals>>
      /\ created \subseteq created' /\ created' \subseteq Sessions /\ knownSessions' \subseteq created'
      /\ (SetCall(h, "made", s) /\ s \in created') \/ SetCall(h, "refused", NoSession)
      /\ handles[h].call # "made"
  BY SessionFacts DEF Created
<1> QED BY <1>1, SessionFacts, HandleStep

LEMMA ResumedStep ==
  ASSUME HermesInv, NEW h \in Handles, NEW outcome, NEW isBranched \in BOOLEAN, Resumed(h, outcome, isBranched)
  PROVE  HermesInv' /\ RunsMove
<1> DEFINE s == handles[h].session
<1>1. s \in created /\ s \in Sessions
  BY SessionFacts DEF Resumed
<1>2. /\ UNCHANGED <<client, transport, startingBySession, activeBySession, quarantinedSessions, branches, runs,
                     pendingApprovals, responses, created, branched, remote, stream, approvals>>
      /\ retiredSessions' \in {retiredSessions, retiredSessions \cup {s}}
      /\ knownSessions' \in {knownSessions, knownSessions \cup {s}}
      /\ SetCall(h, "made", s) \/ SetCall(h, "refused", s)
      /\ handles[h].call # "made"
  BY DEF Resumed, provider
<1> HIDE DEF s
<1>3. knownSessions' \subseteq created' /\ retiredSessions' \subseteq created' /\ retiredSessions \subseteq retiredSessions'
  BY <1>1, <1>2, SessionFacts
<1> QED BY <1>1, <1>2, <1>3, SessionFacts, HandleStep

LEMMA BranchStep ==
  ASSUME HermesInv, NEW s \in Sessions, NEW outcome, NEW same, Branch(s) \/ BranchChecked(s, outcome, same)
  PROVE  HermesInv' /\ RunsMove
<1>1. /\ UNCHANGED <<client, transport, handles, tables, runs, pendingApprovals, responses, provider>>
      /\ \E b \in {"none", "get", "post"} : branches' = [branches EXCEPT ![s] = b]
      /\ branches[s] # "none" \/ (s \in created /\ s \notin quarantinedSessions /\ ~HasWork(s))
  BY DEF Branch, BranchChecked, Reusable
<1>2. branches' \in [Sessions -> {"none", "get", "post"}] /\ \A t \in Sessions : t # s => branches'[t] = branches[t]
  BY <1>1, SessionFacts
<1>3. s \in created /\ (branches[s] # "none" \/ (~HasWork(s) /\ \A r \in Runs : Works(r) => SessionOf(r) # s))
  BY <1>1, SessionFacts
<1>4. HereTyped' /\ SessionsTyped' /\ ClientInv' /\ HandleInv'
  BY <1>1, <1>2, <1>3 DEF HermesInv, Typed, HereTyped, SessionsTyped, ClientInv, HandleInv, tables, provider
<1> QED BY <1>1, <1>2, <1>3, <1>4, SessionFacts, SessionStep DEF tables, provider

LEMMA BranchedStep ==
  ASSUME HermesInv, NEW s \in Sessions, NEW h \in Handles, NEW child \in Sessions, NEW outcome, Branched(s, h, child, outcome)
  PROVE  HermesInv' /\ RunsMove
<1>1. /\ UNCHANGED <<client, transport, startingBySession, activeBySession, runs, pendingApprovals, responses,
                     remote, stream, approvals>>
      /\ branches[s] = "post" /\ branches' = [branches EXCEPT ![s] = "none"] /\ branched' \in {branched, branched \cup {s}}
  BY DEF Branched
<1>2. branches' \in [Sessions -> {"none", "get", "post"}] /\ (\A t \in Sessions : branches'[t] # "none" => branches[t] # "none") /\ s \in created
  BY <1>1, SessionFacts
<1>3. CASE outcome = "ok"
  BY <1>3, <1>1, <1>2, SessionFacts, HandleStep DEF Branched
<1>4. CASE outcome # "ok"
  BY <1>4, <1>1, <1>2, SessionFacts, HandleStep DEF Branched
<1> QED BY <1>3, <1>4

-------------------------------------------------------------------------------
(* startRun. *)
LEMMA StartRunStep ==
  ASSUME HermesInv, NEW r \in Runs, NEW h \in Handles, StartRun(r, h)
  PROVE  HermesInv' /\ RunsMove
<1> DEFINE s == handles[h].session
           run == [runs[r] EXCEPT !.start = "post", !.owner = h]
<1>1. /\ runs[r].start = "idle" /\ runs[r].owner = NoHandle /\ runs[r] \in RunRec /\ Fresh(runs[r]) /\ remote[r] = "none"
      /\ handles[h].call = "made" /\ s \in Sessions /\ client = "open"
      /\ s \notin quarantinedSessions /\ s \notin retiredSessions /\ branches[s] = "none" /\ ~HasWork(s)
  BY RunFacts, SessionFacts DEF StartRun, RunFits, Usable, AssertOpen, Reusable, HermesInv, HandleInv
<1>2. /\ runs' = [runs EXCEPT ![r] = run] /\ startingBySession' = [startingBySession EXCEPT ![s] = r]
      /\ UNCHANGED <<client, transport, handles, activeBySession, knownSessions, retiredSessions, quarantinedSessions,
                     branches, pendingApprovals, responses, created, branched, remote, stream, approvals>>
  BY DEF StartRun, provider
<1>3. /\ run \in RunRec /\ run.start = "post" /\ run.owner = h /\ Fresh(run)
  BY <1>1 DEF RunRec, Fresh
<1>4. RunFits(run, remote[r]) /\ CancelFits(run)
  <2> HIDE DEF run
  <2> QED BY <1>1, <1>3, NullAssumption DEF RunFits, CancelFits, Fresh
<1> HIDE DEF run, s
<1>5. runs'[r] = run /\ (\A q \in Runs : q # r => runs'[q] = runs[q]) /\ runs' \in [Runs -> RunRec]
  BY <1>2, <1>3 DEF HermesInv, Typed, HereTyped
<1>6. Typed' /\ ClientInv' /\ HandleInv'
  BY <1>1, <1>2, <1>5 DEF HermesInv, Typed, HereTyped, SessionsTyped, ApprovalsTyped, ClientInv, HandleInv
<1>7. RunInv' /\ OwnerInv' /\ RunsMove
  BY <1>2, <1>4, <1>5, RunFacts, <1>1, <1>3 DEF RunInv, OwnerInv, RunsMove, Moves, Terminal, RunFits, Fresh
<1>8. Quiet
  BY <1>1, <1>2, <1>3, <1>5 DEF RunQuiet, Heard, Unheard, PendingOf, Terminal, Fresh, Quiet
<1>9. /\ SessionOf(r)' = s /\ Starting(r)' /\ ~Active(r)' /\ ~Works(r)' /\ r # NoRun
      /\ ~Starting(r) /\ ~Active(r)
  BY <1>1, <1>2, <1>3, <1>5, NullAssumption DEF SessionOf, Starting, Active, Works, s
<1>10. \A q \in Runs : q # r =>
         /\ SessionOf(q)' = SessionOf(q) /\ (Starting(q)' <=> Starting(q)) /\ (Active(q)' <=> Active(q)) /\ (Works(q)' <=> Works(q))
  BY <1>2, <1>5 DEF SessionOf, Starting, Active, Works, Terminal
<1>11. PlaceInv'
  BY <1>1, <1>2, <1>9, NullAssumption, RunFacts, <1>10
     DEF HermesInv, Typed, HereTyped, PlaceInv, HasWork, Underway, Starting, SessionOf, Active, Terminal
<1>12. WorkInv'
  BY <1>2, <1>9, <1>10, <1>1, SessionFacts DEF HermesInv, WorkInv, Underway, HasWork, Typed, HereTyped
<1> QED BY <1>6, <1>7, <1>8, <1>11, <1>12, QuietStep DEF HermesInv

(* A Run that is starting gets on, starts, or is refused. *)
LEMMA StartingStep ==
  ASSUME HermesInv, NEW r \in Runs, Starting(r), NEW run \in RunRec, runs' = [runs EXCEPT ![r] = run],
         run.start \in {"validate", "started", "refused"}, run.owner = runs[r].owner,
         RunFits(run, remote'[r]), CancelFits(run), run.result = "none", run.requested = {}, run.resolved = {}, run.confirmed = "none",
         remote' \in [Runs -> Statuses \cup {"none", "running", "waiting"}],
         \A q \in Runs : remote'[q] = remote[q] \/ (q = r /\ remote[r] = "none"),
         LET s == SessionOf(r) IN
         /\ startingBySession' = IF run.start = "validate" THEN startingBySession ELSE [startingBySession EXCEPT ![s] = NoRun]
         /\ activeBySession' = IF run.start = "started" THEN [activeBySession EXCEPT ![s] = r] ELSE activeBySession
         /\ run.start = "refused" => remote'[r] \notin {"running", "waiting"} \/ s \in quarantinedSessions',
         run.start = "started" => client = "open",
         quarantinedSessions \subseteq quarantinedSessions', quarantinedSessions' \subseteq Sessions,
         handles' \in [Handles -> HandleRec],
         \A h \in Handles : handles'[h].call = handles[h].call /\ handles'[h].session = handles[h].session,
         UNCHANGED <<client, transport, knownSessions, retiredSessions, branches, pendingApprovals, responses,
                     created, branched, stream, approvals>>
  PROVE  HermesInv' /\ RunsMove
<1> DEFINE s == SessionOf(r)
<1>1. /\ runs[r] \in RunRec /\ Fresh(runs[r]) /\ runs[r].owner # NoHandle /\ runs[r].owner \in Handles /\ s \in Sessions
      /\ startingBySession[s] = r /\ r # NoRun /\ activeBySession[s] = NoRun
  BY RunFacts, NullAssumption DEF RunFits, Starting, Underway, HermesInv, PlaceInv
<1>2. runs'[r] = run /\ (\A q \in Runs : q # r => runs'[q] = runs[q] /\ remote'[q] = remote[q]) /\ runs' \in [Runs -> RunRec]
  BY DEF HermesInv, Typed, HereTyped
<1>3. Typed' /\ ClientInv' /\ HandleInv'
  BY <1>1, <1>2 DEF HermesInv, Typed, HereTyped, SessionsTyped, ApprovalsTyped, ClientInv, HandleInv
<1>4. RunInv' /\ OwnerInv' /\ RunsMove
  BY <1>2, RunFacts, <1>1 DEF RunInv, OwnerInv, RunsMove, Moves, Terminal, RunFits, Fresh, Starting
<1>5. Quiet
  BY <1>1, <1>2 DEF PendingOf, RunQuiet, Heard, Unheard, Terminal, Fresh, Starting, Quiet
<1>6. /\ SessionOf(r)' = s
      /\ Starting(r)' <=> run.start = "validate"
      /\ Active(r)' <=> run.start = "started"
      /\ Underway(r)' => Underway(r)
      /\ Works(r)' => Underway(r)' \/ s \in quarantinedSessions'
  BY <1>1, <1>2 DEF SessionOf, Starting, Active, Works, Terminal, Underway
<1>7. \A q \in Runs : q # r =>
        /\ runs[q].owner # NoHandle => SessionOf(q)' = SessionOf(q)
        /\ (Starting(q)' <=> Starting(q)) /\ (Active(q)' <=> Active(q)) /\ (Works(q)' <=> Works(q))
        /\ Underway(q) \/ Works(q) => SessionOf(q) \in Sessions /\ SessionOf(q)' = SessionOf(q)
        /\ Underway(q) => SessionOf(q) # s
  BY <1>2, RunFacts, <1>1, NullAssumption DEF SessionOf, HermesInv, PlaceInv, Underway, Starting, Active, Works, Terminal
<1>8. \A t \in Sessions : /\ startingBySession'[t] = IF t = s /\ run.start # "validate" THEN NoRun ELSE startingBySession[t]
                          /\ activeBySession'[t] = IF t = s /\ run.start = "started" THEN r ELSE activeBySession[t]
  BY <1>1 DEF HermesInv, Typed, HereTyped
<1> HIDE DEF s
<1>9. PlaceInv'
  <2>1. ASSUME NEW q \in Runs PROVE /\ Starting(q)' => startingBySession'[SessionOf(q)'] = q /\ client' \in {"open", "closed"}
                                    /\ Active(q)' => activeBySession'[SessionOf(q)'] = q /\ client' = "open"
    BY <1>1, <1>6, <1>8, <1>7 DEF HermesInv, PlaceInv, Underway
  <2>2. ASSUME NEW t \in Sessions PROVE
          (/\ startingBySession[t] # NoRun => Starting(startingBySession[t]) /\ SessionOf(startingBySession[t]) = t
           /\ activeBySession[t] # NoRun => Active(activeBySession[t]) /\ SessionOf(activeBySession[t]) = t
           /\ startingBySession[t] = NoRun \/ activeBySession[t] = NoRun)'
    <3>1. startingBySession[t] \in Runs \cup {NoRun} /\ activeBySession[t] \in Runs \cup {NoRun}
      BY DEF HermesInv, Typed, HereTyped
    <3>2. /\ startingBySession[t] # NoRun => Starting(startingBySession[t]) /\ SessionOf(startingBySession[t]) = t
          /\ activeBySession[t] # NoRun => Active(activeBySession[t]) /\ SessionOf(activeBySession[t]) = t
          /\ startingBySession[t] = NoRun \/ activeBySession[t] = NoRun
      BY DEF HermesInv, PlaceInv
    <3>3. CASE t = s
      BY <1>1, <1>8, <1>6, <3>3 DEF Starting, SessionOf, Active, Terminal
    <3>4. CASE t # s
      BY <1>1, <3>2, <3>4, <1>7, <1>8, <3>1 DEF s, Starting, SessionOf, Active, Terminal, Underway
    <3> QED BY <3>3, <3>4
  <2> QED BY <2>1, <2>2 DEF PlaceInv
<1>10. WorkInv'
  BY <1>6, <1>7, SessionFacts, <1>1, <1>8 DEF HermesInv, WorkInv, Underway, s, HasWork
<1> QED BY <1>3, <1>4, <1>5, <1>9, <1>10, QuietStep DEF HermesInv

LEMMA RefuseStep ==
  ASSUME HermesInv, NEW r \in Runs, Starting(r), NEW unsafe \in BOOLEAN, Refuse(r, unsafe),
         remote' \in [Runs -> Statuses \cup {"none", "running", "waiting"}],
         \A q \in Runs : remote'[q] = remote[q] \/ (q = r /\ remote[r] = "none"),
         remote'[r] \in {"running", "waiting"} => unsafe,
         UNCHANGED <<client, transport, activeBySession, knownSessions, retiredSessions, branches, pendingApprovals, responses,
                     created, branched, stream, approvals>>
  PROVE  HermesInv' /\ RunsMove
<1> DEFINE run == [runs[r] EXCEPT !.start = "refused"]
<1>1. runs[r] \in RunRec /\ RunFits(runs[r], remote[r]) /\ CancelFits(runs[r]) /\ runs[r].owner \in Handles /\ Fresh(runs[r])
      /\ SessionOf(r) \in Sessions
  BY RunFacts DEF RunFits, Starting, Underway
<1>2. /\ run \in RunRec /\ Fresh(run) /\ run.start = "refused" /\ run.owner = runs[r].owner
  BY <1>1 DEF RunRec, Fresh
<1>3. RunFits(run, remote'[r]) /\ CancelFits(run)
  <2>1. runs[r].start # "idle" /\ run.start \notin {"idle", "post", "validate", "started"}
    BY <1>2 DEF Starting
  <2> HIDE DEF run
  <2> QED BY <1>1, <1>2, <2>1, NullAssumption DEF RunFits, CancelFits, Fresh, Statuses
<1>4. /\ runs' = [runs EXCEPT ![r] = run] /\ startingBySession' = [startingBySession EXCEPT ![SessionOf(r)] = NoRun]
      /\ quarantinedSessions' = IF unsafe THEN quarantinedSessions \cup {SessionOf(r)} ELSE quarantinedSessions
      /\ handles' = [handles EXCEPT ![runs[r].owner].unsafe = handles[runs[r].owner].unsafe \/ unsafe]
  BY DEF Refuse
<1>5. handles' \in [Handles -> HandleRec] /\ \A h \in Handles : handles'[h].call = handles[h].call /\ handles'[h].session = handles[h].session
  BY <1>1, <1>4 DEF HermesInv, Typed, HereTyped, HandleRec
<1>6. quarantinedSessions \subseteq quarantinedSessions' /\ quarantinedSessions' \subseteq Sessions
  BY <1>1, <1>4, SessionFacts
<1> HIDE DEF run
<1> QED BY <1>2, <1>3, <1>4, <1>5, <1>6, StartingStep DEF Fresh

LEMMA StartRequestStep ==
  ASSUME HermesInv, NEW r \in Runs, NEW outcome, Submitted(r, outcome) \/ Validated(r, outcome)
  PROVE  HermesInv' /\ RunsMove
<1>1. /\ Starting(r) /\ runs[r] \in RunRec /\ RunFits(runs[r], remote[r]) /\ CancelFits(runs[r]) /\ Fresh(runs[r])
      /\ remote \in [Runs -> Statuses \cup {"none", "running", "waiting"}]
      /\ handles \in [Handles -> HandleRec] /\ quarantinedSessions \subseteq Sessions
  BY RunFacts DEF Submitted, Validated, Starting, RunFits, HermesInv, Typed, ApprovalsTyped, HereTyped
<1>2. CASE Submitted(r, outcome)
  <2>1. PICK arrived \in BOOLEAN : /\ outcome = "ok" => arrived
                                   /\ outcome = "refused" => ~arrived
                                   /\ remote' = [remote EXCEPT ![r] = IF arrived THEN "running" ELSE remote[r]]
    BY <1>2 DEF Submitted
  <2>2. /\ remote' \in [Runs -> Statuses \cup {"none", "running", "waiting"}] /\ remote[r] = "none"
        /\ \A q \in Runs : remote'[q] = remote[q] \/ (q = r /\ remote[r] = "none")
        /\ remote'[r] = IF arrived THEN "running" ELSE "none"
    BY <1>1, <1>2, <2>1 DEF Submitted, RunFits
  <2>3. CASE outcome = "ok"
    <3> DEFINE run == [runs[r] EXCEPT !.start = "validate"]
    <3>1. /\ run \in RunRec /\ Fresh(run) /\ run.start = "validate" /\ run.owner = runs[r].owner /\ runs[r].owner # NoHandle
      BY <1>1, RunFacts DEF RunRec, Fresh, Underway
    <3>2. RunFits(run, remote'[r]) /\ CancelFits(run)
      <4> HIDE DEF run
      <4> QED BY <2>1, <2>2, <2>3, <3>1 DEF RunFits, CancelFits, Fresh, Statuses
    <3>3. runs' = [runs EXCEPT ![r] = run]
          /\ UNCHANGED <<client, transport, activeBySession, startingBySession, quarantinedSessions, handles, knownSessions, retiredSessions,
                         branches, pendingApprovals, responses, created, branched, stream, approvals>>
      BY <1>2, <2>3 DEF Submitted
    <3> HIDE DEF run
    <3> QED BY <1>1, <2>2, <3>1, <3>2, <3>3, StartingStep DEF Fresh
  <2>4. CASE outcome # "ok"
    <3> DEFINE unsafe == runs[r].closed \/ Uncertain(outcome)
    <3>1. Refuse(r, unsafe) /\ unsafe \in BOOLEAN /\ (arrived => unsafe)
      BY <1>1, <1>2, <2>1, <2>4 DEF Submitted, Uncertain
    <3>2. UNCHANGED <<client, transport, activeBySession, knownSessions, retiredSessions, branches, pendingApprovals, responses,
                      created, branched, stream, approvals>>
      BY <1>2 DEF Submitted
    <3> HIDE DEF unsafe
    <3> QED BY <1>1, <2>2, <3>1, <3>2, RefuseStep
  <2> QED BY <2>3, <2>4
<1>3. CASE Validated(r, outcome)
  <2>1. UNCHANGED <<client, transport, knownSessions, retiredSessions, branches, pendingApprovals, responses,
                    created, branched, remote, stream, approvals>>
    BY <1>3 DEF Validated, provider
  <2>2. CASE outcome = "ok" /\ ~runs[r].closed
    <3> DEFINE run == [runs[r] EXCEPT !.start = "started", !.pump = "reading"]
    <3>1. /\ run \in RunRec /\ run.start = "started" /\ run.owner = runs[r].owner /\ runs[r].owner # NoHandle
          /\ run.pump = "reading" /\ run.result = "none" /\ run.requested = {} /\ run.resolved = {} /\ run.confirmed = "none"
          /\ run.reconcile = "none" /\ run.cancel = "none"
      BY <1>1, RunFacts DEF RunRec, Fresh, Underway
    <3>2. RunFits(run, remote'[r]) /\ CancelFits(run)
      <4>1. remote'[r] # "none"
        BY <1>1, <1>3, <2>1 DEF Validated, RunFits
      <4> HIDE DEF run
      <4> QED BY <3>1, <4>1 DEF RunFits, CancelFits, Statuses
    <3>3. runs' = [runs EXCEPT ![r] = run] /\ UNCHANGED <<quarantinedSessions, handles>>
          /\ startingBySession' = [startingBySession EXCEPT ![SessionOf(r)] = NoRun]
          /\ activeBySession' = [activeBySession EXCEPT ![SessionOf(r)] = r]
      BY <1>3, <2>2 DEF Validated
    <3>4. client = "open"
      BY <1>3, <2>1, <2>2, <1>1 DEF Validated, Outcomes, HermesInv, ClientInv, PlaceInv
    <3> HIDE DEF run
    <3> QED BY <1>1, <2>1, <3>1, <3>2, <3>3, <3>4, StartingStep
  <2>3. CASE ~(outcome = "ok" /\ ~runs[r].closed)
    BY <1>3, <2>3, <1>1, <2>1, RefuseStep DEF Validated
  <2> QED BY <2>2, <2>3
<1> QED BY <1>2, <1>3

-------------------------------------------------------------------------------
(* The Provider says something of a Run it works on. *)
Grown(r) ==
  /\ approvals' \in Seq(ApprovalRec) /\ Len(approvals) <= Len(approvals') /\ Len(approvals') <= MaxApprovals
  /\ \A n \in 1..Len(approvals) :
       /\ approvals'[n].run = approvals[n].run
       /\ approvals[n].run # r \/ approvals[n].decision # "none" => approvals'[n].decision = approvals[n].decision
  /\ \A n \in 1..Len(approvals') : n > Len(approvals) => approvals'[n].run = r /\ approvals'[n].decision = "none"

Taking ==
  \A n \in 1..MaxApprovals :
    \/ responses'[n] = responses[n]
    \/ responses[n].at = "sent" /\ \E to \in {"taken", "gone"} :
         responses'[n] = [responses[n] EXCEPT !.at = to] /\ (to = "taken" => approvals'[n].decision # "none")

(* What the Provider says fits what it said before. *)
SaysFitting(r, e) ==
  /\ e.type = "terminal" => remote'[r] \in Statuses /\ e.status # "none"
  /\ e.type # "terminal" =>
       /\ e.approval \in 1..Len(approvals') /\ approvals'[e.approval].run = r
       /\ \A n \in 1..Len(approvals) : approvals[n].run = r => n <= e.approval
  /\ e.type = "request" => e.approval > Len(approvals)
  /\ e.type = "responded" =>
       /\ e.approval \in 1..Len(approvals) /\ approvals[e.approval].decision = "none"
       /\ approvals'[e.approval].decision = e.choice /\ e.choice # "none"
  /\ \A n \in 1..Len(approvals') : n > Len(approvals) => e.type = "request" /\ e.approval = n
  /\ \A n \in 1..Len(approvals) : approvals'[n].decision # approvals[n].decision => e.type = "responded" /\ e.approval = n

LEMMA SaidStep ==
  ASSUME HermesInv, NEW r \in Runs, Works(r), NEW e \in Event, Said(r, e), Grown(r), SaysFitting(r, e), Taking,
         responses' \in [1..MaxApprovals -> ResponseRec], ProviderInv',
         NEW status \in Statuses \cup {"running", "waiting"}, remote' = [remote EXCEPT ![r] = status],
         UNCHANGED <<client, transport, handles, tables, branches, runs, pendingApprovals, created, branched>>
  PROVE  HermesInv' /\ RunsMove
<1>1. /\ stream \in [Runs -> Seq(Event)] /\ remote \in [Runs -> Statuses \cup {"none", "running", "waiting"}]
      /\ stream[r] \in Seq(Event) /\ Len(stream[r]) \in Nat /\ Len(approvals) \in Nat /\ Len(approvals') \in Nat
      /\ approvals \in Seq(ApprovalRec) /\ Len(approvals) <= MaxApprovals
  BY DEF HermesInv, Typed, ApprovalsTyped, Grown
<1>2. /\ \A q \in Runs : q # r => stream'[q] = stream[q] /\ remote'[q] = remote[q]
      /\ remote'[r] = status /\ stream' \in [Runs -> Seq(Event)]
      /\ ~Heard(r) => stream' = stream
      /\ Heard(r) => stream'[r] = Append(stream[r], e)
  BY <1>1 DEF Said, Heard
<1>3. Heard(r) => /\ Len(stream'[r]) = Len(stream[r]) + 1
                  /\ \A i \in 1..Len(stream[r]) : stream'[r][i] = stream[r][i]
                  /\ stream'[r][Len(stream[r]) + 1] = e
  <2> DEFINE old == stream[r]
             new == Append(old, e)
  <2>1. old \in Seq(Event) /\ Len(old) \in Nat
    BY <1>1
  <2> HIDE DEF old
  <2>2. Len(new) = Len(old) + 1 /\ (\A i \in 1..Len(old) : new[i] = old[i]) /\ new[Len(old) + 1] = e
    BY <2>1
  <2> HIDE DEF new
  <2>3. Heard(r) => stream'[r] = new
    BY <1>2 DEF new, old
  <2> QED BY <2>2, <2>3 DEF old
<1>4. /\ \A q \in Runs : Heard(q)' <=> Heard(q)
      /\ \A q \in Runs : PendingOf({q})' = PendingOf({q})
      /\ \A n \in 1..Len(approvals) : RunOf(n)' = RunOf(n) /\ n \in 1..Len(approvals') /\ n \in 1..MaxApprovals
  <2>1. \A q \in Runs : Heard(q)' <=> Heard(q)
    BY DEF Heard, Unheard
  <2>2. \A n \in pendingApprovals : n \in 1..Len(approvals)
    BY DEF HermesInv, Typed, ApprovalsTyped
  <2>3. \A n \in 1..Len(approvals) : approvals'[n].run = approvals[n].run /\ n \in 1..Len(approvals') /\ n \in 1..MaxApprovals
    BY <1>1, BoundAssumption DEF Grown
  <2> QED BY <2>1, <2>2, <2>3 DEF PendingOf, RunOf
<1>5. Heard(r) => \A n : /\ Unread(r, n)' <=> Unread(r, n) \/ (e.type = "responded" /\ e.approval = n)
                         /\ Unasked(r, n)' <=> Unasked(r, n) \/ (e.type = "request" /\ e.approval = n)
  <2>1. Heard(r) => \A i, type, n : i \in 1..Len(stream[r]) => (Says(r, i, type, n)' <=> Says(r, i, type, n))
    BY <1>3 DEF Says
  <2>2. Heard(r) => \A k, type, n : k = Len(stream[r]) + 1 => (Says(r, k, type, n)' <=> (e.type = type /\ e.approval = n))
    BY <1>3 DEF Says
  <2>3. Heard(r) => 1..Len(stream'[r]) = (1..Len(stream[r])) \cup {Len(stream[r]) + 1}
    BY <1>1, <1>3
  <2> QED BY <2>1, <2>2, <2>3 DEF Unread, Unasked
<1>6. \A q \in Runs : q # r => \A n : (Unread(q, n)' <=> Unread(q, n)) /\ (Unasked(q, n)' <=> Unasked(q, n))
  BY <1>2 DEF Unread, Unasked, Says
<1>7. \A q \in Runs : AskedFits(q) /\ (Heard(q) => StreamFits(q)) /\ (remote[q] = "none" => stream[q] = <<>>)
  BY DEF HermesInv, PendingInv, StreamInv
<1>8. Typed' /\ RunInv' /\ Steady /\ ClientInv' /\ RunsMove
  <2>1. Typed'
    BY <1>1, <1>2, <1>4, BoundAssumption DEF HermesInv, Typed, HereTyped, SessionsTyped, ApprovalsTyped, Grown, tables
  <2>2. RunInv'
    BY <1>2, RunFacts DEF RunInv, RunFits, Works, Statuses
  <2>3. Steady
    BY <1>2, RunFacts DEF Steady, tables, Works, Active, Starting, Terminal, HermesInv, PlaceInv, WorkInv, Underway
  <2>4. RunsMove
    BY RunFacts DEF RunsMove, Moves, RunFits, Fresh, Terminal
  <2> QED BY <2>1, <2>2, <2>3, <2>4 DEF HermesInv, ClientInv
<1>9. StreamInv'
  <2>1. ASSUME NEW q \in Runs, q # r, Heard(q) PROVE StreamFits(q)'
    <3>1. StreamFits(q) /\ stream'[q] = stream[q] /\ remote'[q] = remote[q] /\ runs'[q] = runs[q]
      BY <1>2, <1>7, <2>1
    <3>2. \A i \in 1..Len(stream'[q]) : EventFits(q, i)'
      <4>1. \A j, n : Says(q, j, "request", n)' <=> Says(q, j, "request", n)
        BY <3>1 DEF Says
      <4>2. \A n \in 1..Len(approvals) : RunOf(n) = q => approvals'[n].decision = approvals[n].decision
        BY <2>1 DEF Grown, RunOf
      <4> QED BY <1>4, <3>1, <4>1, <4>2 DEF StreamFits, EventFits
    <3>3. \A i, j \in 1..Len(stream'[q]) : OrderFits(q, i, j)'
      BY <3>1 DEF StreamFits, OrderFits
    <3>4. \A n \in 1..Len(approvals') : RunOf(n)' = q => AskFits(q, n)'
      <4>1. ASSUME NEW n \in 1..Len(approvals'), RunOf(n)' = q PROVE n \in 1..Len(approvals) /\ RunOf(n) = q /\ approvals'[n].decision = approvals[n].decision
        BY <1>1, <4>1, <2>1, SMTT(60) DEF RunOf, Grown
      <4> QED BY <1>6, <2>1, <3>1, <4>1 DEF StreamFits, AskFits
    <3> QED BY <3>2, <3>3, <3>4 DEF StreamFits
  <2>2. ASSUME Heard(r) PROVE StreamFits(r)'
    <3>0. PICK L \in Nat : L = Len(stream[r])
      BY <1>1
    <3>1. /\ StreamFits(r) /\ runs'[r] = runs[r] /\ AskedFits(r) /\ remote[r] \notin Statuses /\ L \in Nat
          /\ Len(stream'[r]) = L + 1 /\ stream'[r][L + 1] = e /\ \A i \in 1..L : stream'[r][i] = stream[r][i]
      BY <1>1, <1>3, <1>7, <2>2, <3>0 DEF Works, Statuses
    <3>2. \A i \in 1..L : EventFits(r, i) /\ stream[r][i].type # "terminal" /\ stream[r][i].approval \in 1..Len(approvals)
                          /\ RunOf(stream[r][i].approval) = r
      BY <3>0, <3>1 DEF StreamFits, EventFits
    <3>3. ASSUME NEW i \in 1..L PROVE EventFits(r, i)'
      <4>1. EventFits(r, i) /\ stream'[r][i] = stream[r][i]
        BY <3>1, <3>2
      <4>2. \A j \in 1..(i - 1) : \A n : Says(r, j, "request", n)' <=> Says(r, j, "request", n)
        <5>1. \A j \in 1..(i - 1) : j \in 1..L
          BY <3>1
        <5> QED BY <3>1, <5>1 DEF Says
      <4>3. \A n \in 1..Len(approvals) : approvals[n].decision # "none" => approvals'[n].decision = approvals[n].decision
        BY DEF Grown
      <4> QED BY <1>4, <3>1, <3>2, <4>1, <4>2, <4>3 DEF EventFits
    <3>4. EventFits(r, L + 1)'
      <4>1. e.type = "responded" => e.approval \in runs[r].requested \/ Unasked(r, e.approval)
        BY <3>1 DEF SaysFitting, Grown, RunOf, StreamFits, AskFits
      <4>2. Unasked(r, e.approval) => \E j \in 1..L : Says(r, j, "request", e.approval)'
        BY <3>0, <3>1 DEF Unasked, Says
      <4>3. \A n \in runs[r].requested : n \in 1..Len(approvals) /\ approvals[n].run = r
        BY <3>1 DEF AskedFits, RunOf
      <4>4. e.type = "responded" => e.approval \in runs[r].requested \/ \E j \in 1..((L + 1) - 1) : Says(r, j, "request", e.approval)'
        BY <4>1, <4>2
      <4>5. e.type # "terminal" => \A n \in runs[r].requested : n <= e.approval
        BY <4>3 DEF SaysFitting
      <4>6. e.type = "request" => e.approval \notin runs[r].requested
        BY <1>1, <4>3 DEF SaysFitting
      <4>7. SaysFitting(r, e) /\ runs'[r] = runs[r] /\ Len(stream'[r]) = L + 1 /\ stream'[r][L + 1] = e
        BY <3>1
      <4> QED BY <4>4, <4>5, <4>6, <4>7 DEF EventFits, SaysFitting, RunOf
    <3>5. ASSUME NEW i \in 1..(L + 1), NEW j \in 1..(L + 1) PROVE OrderFits(r, i, j)'
      <4>1. CASE i \in 1..L /\ j \in 1..L
        BY <3>0, <3>1, <4>1 DEF StreamFits, OrderFits
      <4>2. CASE i \in 1..L /\ j = L + 1
        <5>1. stream'[r][i] = stream[r][i] /\ stream'[r][j] = e /\ stream[r][i].approval \in 1..Len(approvals) /\ approvals[stream[r][i].approval].run = r
          BY <3>1, <3>2, <4>2 DEF RunOf
        <5>2. e.type # "terminal" => stream[r][i].approval <= e.approval
          BY <5>1 DEF SaysFitting
        <5>3. (e.type # "terminal" /\ stream[r][i].approval = e.approval) => stream[r][i].type = "request" /\ e.type = "responded"
          <6>1. e.type \in {"request", "responded", "terminal"} /\ stream[r][i].type \in {"request", "responded", "terminal"}
            <7>1. stream[r][i] \in Event
              BY <1>1, <3>0, <4>2
            <7> QED BY <7>1 DEF Event
          <6>2. e.type = "request" => e.approval > Len(approvals)
            BY DEF SaysFitting
          <6>3. stream[r][i].type = "responded" => approvals[stream[r][i].approval].decision # "none"
            BY <3>2, <4>2 DEF EventFits
          <6>4. e.type = "responded" => approvals[e.approval].decision = "none"
            BY DEF SaysFitting
          <6> QED BY <1>1, <3>2, <4>2, <5>1, <6>1, <6>2, <6>3, <6>4
        <5> QED BY <5>1, <5>2, <5>3 DEF OrderFits
      <4>3. CASE i = L + 1
        BY <3>1, <4>3 DEF OrderFits
      <4> QED BY <3>1, <4>1, <4>2, <4>3
    <3>6. ASSUME NEW n \in 1..Len(approvals'), RunOf(n)' = r PROVE AskFits(r, n)'
      <4>1. CASE n \in 1..Len(approvals)
        BY <1>4, <3>1, <3>6, <4>1, <1>1, <1>5, <2>2, SMTT(60) DEF StreamFits, SaysFitting, AskFits
      <4>2. CASE n > Len(approvals)
        BY <1>5, <2>2, <4>2 DEF AskFits, SaysFitting, Grown
      <4> QED BY <1>1, <4>1, <4>2
    <3>7. \A i \in 1..(L + 1) : i \in 1..L \/ i = L + 1
      BY <3>1
    <3>8. (\A i \in 1..Len(stream'[r]) : EventFits(r, i)') /\ (\A i, j \in 1..Len(stream'[r]) : OrderFits(r, i, j)')
      BY <3>1, <3>3, <3>4, <3>5, <3>7
    <3> QED BY <3>6, <3>8 DEF StreamFits
  <2> QED BY <1>2, <1>4, <1>7, <2>1, <2>2 DEF StreamInv, Statuses
<1>10. PendingInv'
  <2>1. \A q \in Runs : AskedFits(q)'
    BY <1>4, <1>7 DEF AskedFits, Terminal
  <2>2. ASSUME NEW n \in pendingApprovals' PROVE PendingFits(n)'
    <3>1. n \in 1..Len(approvals) /\ PendingFits(n) /\ RunOf(n) \in Runs
      BY ApprovalFacts DEF HermesInv, Typed, ApprovalsTyped, PendingInv
    <3>2. approvals'[n].decision = approvals[n].decision \/ (RunOf(n) = r /\ e.type = "responded" /\ e.approval = n)
      BY <3>1 DEF SaysFitting, Grown, RunOf
    <3> QED BY <1>4, <1>5, <1>6, <3>1, <3>2 DEF PendingFits
  <2> QED BY <2>1, <2>2 DEF PendingInv
<1>11. ResponseInv'

  <2>1. ASSUME NEW n \in 1..MaxApprovals PROVE
          /\ responses'[n].at # "none" <=> responses[n].at # "none"
          /\ responses'[n].at = "taken" => responses[n].at = "taken" \/ approvals'[n].decision # "none"
          /\ responses'[n].at = "ok" <=> responses[n].at = "ok"
          /\ InFlight(n)' => InFlight(n)
          /\ responses'[n].provider = responses[n].provider /\ responses'[n].choice = responses[n].choice
    BY DEF HermesInv, Typed, ApprovalsTyped, Taking, ResponseRec, InFlight
  <2>2. \A n \in 1..MaxApprovals : n \notin 1..Len(approvals') => responses'[n].at = "none" /\ responses'[n].provider = "none"
    BY <1>4, <2>1 DEF HermesInv, ResponseInv
  <2>3. ASSUME NEW n \in 1..Len(approvals') PROVE ResponseFits(n)'
    <3>1. n \in 1..MaxApprovals
      BY <1>1, BoundAssumption DEF Grown
    <3>2. CASE n \in 1..Len(approvals)
      BY <1>4, <3>2, ApprovalFacts, <1>5, <1>6, <2>1, <3>1, SMTT(60) DEF HermesInv, ResponseInv, Grown, SaysFitting, ResponseFits
    <3>3. CASE n \notin 1..Len(approvals)
      BY <2>1, <3>1, <3>3 DEF HermesInv, ResponseInv, ResponseFits, InFlight
    <3> QED BY <3>2, <3>3
  <2> QED BY <2>2, <2>3 DEF ResponseInv
<1> QED BY <1>8, <1>9, <1>10, <1>11, SteadyStep DEF HermesInv

LEMMA ProviderFinishesStep ==
  ASSUME HermesInv, NEW r \in Runs, NEW status \in Statuses, NEW honest, ProviderFinishes(r, status, honest)
  PROVE  HermesInv' /\ RunsMove
<1> DEFINE e == [type |-> "terminal", approval |-> 0, choice |-> "none",
                 status |-> CASE honest -> status [] status = "completed" -> "failed" [] OTHER -> "completed"]
<1>1. /\ Works(r) /\ remote' = [remote EXCEPT ![r] = status] /\ Said(r, e)
      /\ UNCHANGED <<client, transport, handles, tables, branches, runs, pendingApprovals, responses, created, branched, approvals>>
  BY DEF ProviderFinishes, Works
<1>2. e \in Event /\ e.type = "terminal" /\ e.approval = 0 /\ e.status # "none"
  BY BoundAssumption DEF Event, Statuses
<1> HIDE DEF e
<1>3. /\ approvals \in Seq(ApprovalRec) /\ Len(approvals) \in Nat /\ Len(approvals) <= MaxApprovals
      /\ responses \in [1..MaxApprovals -> ResponseRec] /\ remote \in [Runs -> Statuses \cup {"none", "running", "waiting"}]
  BY DEF HermesInv, Typed, ApprovalsTyped
<1>4. Grown(r) /\ Taking /\ SaysFitting(r, e)
  BY <1>1, <1>2, <1>3 DEF Grown, Taking, SaysFitting
<1>5. ProviderInv'
  BY <1>1, <1>3 DEF HermesInv, ProviderInv, RunOf, Statuses
<1> QED BY <1>1, <1>2, <1>3, <1>4, <1>5, SaidStep

LEMMA ProviderAsksStep ==
  ASSUME HermesInv, NEW r \in Runs, ProviderAsks(r)
  PROVE  HermesInv' /\ RunsMove
<1> DEFINE L == Len(approvals)
           e == [type |-> "request", approval |-> L + 1, choice |-> "none", status |-> "none"]
           new == [run |-> r, decision |-> "none", by |-> "none"]
<1>1. /\ remote[r] = "running" /\ L < MaxApprovals /\ approvals' = Append(approvals, new)
      /\ remote' = [remote EXCEPT ![r] = "waiting"] /\ Said(r, [e EXCEPT !.approval = Len(approvals')])
      /\ UNCHANGED <<client, transport, handles, tables, branches, runs, pendingApprovals, responses, created, branched>>
  BY DEF ProviderAsks
<1>2. /\ approvals \in Seq(ApprovalRec) /\ L \in Nat /\ L <= MaxApprovals
      /\ responses \in [1..MaxApprovals -> ResponseRec] /\ remote \in [Runs -> Statuses \cup {"none", "running", "waiting"}]
  BY DEF HermesInv, Typed, ApprovalsTyped
<1>3. new \in ApprovalRec /\ new.run = r /\ new.decision = "none"
  BY DEF ApprovalRec
<1> HIDE DEF new, L
<1>4. /\ approvals' \in Seq(ApprovalRec) /\ Len(approvals') = L + 1 /\ approvals'[L + 1] = new
      /\ \A n \in 1..L : approvals'[n] = approvals[n]
  BY <1>1, <1>2, <1>3 DEF L
<1>5. e \in Event /\ e.type = "request" /\ e.approval = L + 1 /\ Said(r, e)
  BY <1>1, <1>2, <1>4, BoundAssumption DEF Event
<1> HIDE DEF e
<1>6. Grown(r) /\ Taking /\ SaysFitting(r, e)
  BY <1>1, <1>2, <1>3, <1>4, BoundAssumption, <1>5 DEF Grown, L, SaysFitting, Taking
<1>7. ProviderInv'
  BY <1>2, <1>3, <1>4, <1>1, ApprovalFacts DEF RunOf, L, HermesInv, ProviderInv
<1>8. Works(r)
  BY <1>1 DEF Works
<1> QED BY <1>1, <1>2, <1>5, <1>6, <1>7, <1>8, SaidStep

LEMMA DecideStep ==
  ASSUME HermesInv, NEW m \in 1..Len(approvals), approvals[m].decision = "none", remote[RunOf(m)] = "waiting",
         NEW choice \in Choices, NEW by \in {"host", "other"}, Decide(m, choice, by), Taking,
         responses' \in [1..MaxApprovals -> ResponseRec],
         UNCHANGED <<client, transport, handles, tables, branches, runs, pendingApprovals, created, branched>>
  PROVE  HermesInv' /\ RunsMove
<1> DEFINE r == RunOf(m)
           e == [type |-> "responded", approval |-> m, choice |-> choice, status |-> "none"]
           new == [approvals[m] EXCEPT !.decision = choice, !.by = by]
<1>1. /\ approvals' = [approvals EXCEPT ![m] = new] /\ remote' = [remote EXCEPT ![r] = "running"] /\ Said(r, e)
  BY DEF Decide, RunOf
<1>2. /\ approvals \in Seq(ApprovalRec) /\ Len(approvals) \in Nat /\ Len(approvals) <= MaxApprovals
      /\ remote \in [Runs -> Statuses \cup {"none", "running", "waiting"}] /\ r \in Runs /\ approvals[m] \in ApprovalRec /\ m \in 1..MaxApprovals
  BY ApprovalFacts DEF HermesInv, Typed, ApprovalsTyped
<1>3. new \in ApprovalRec /\ new.run = r /\ new.decision = choice /\ choice # "none"
  BY <1>2 DEF ApprovalRec, RunOf, Choices
<1>4. e \in Event /\ e.type = "responded" /\ e.approval = m /\ e.choice = choice
  BY <1>2, BoundAssumption DEF Event
<1> HIDE DEF e, new
<1>5. /\ approvals' \in Seq(ApprovalRec) /\ Len(approvals') = Len(approvals) /\ approvals'[m] = new
      /\ \A n \in 1..Len(approvals) : n # m => approvals'[n] = approvals[n]
  BY <1>1, <1>2, <1>3
<1>6. \A n \in 1..Len(approvals) : (RunOf(n) = r /\ n # m) => n < m /\ approvals[n].decision # "none"
  BY <1>2 DEF HermesInv, ProviderInv
<1>7. Grown(r) /\ SaysFitting(r, e)
  BY SMTT(40), <1>2, <1>3, <1>5, <1>4, <1>6 DEF Grown, RunOf, SaysFitting
<1>8. ProviderInv'
  <2>1. \A n \in 1..Len(approvals) : RunOf(n)' = RunOf(n) /\ (approvals[n].decision # "none" => approvals'[n].decision # "none")
    BY <1>3, <1>5 DEF RunOf
  <2>2. remote'[r] = "running" /\ (\A q \in Runs : q # r => remote'[q] = remote[q]) /\ \A n \in 1..Len(approvals) : RunOf(n) \in Runs
    BY <1>1, <1>2, ApprovalFacts
  <2>3. \A n \in 1..Len(approvals) : RunOf(n) = r => approvals'[n].decision # "none"
    BY <1>3, <1>5, <1>6, <2>1
  <2> HIDE DEF r
  <2> QED BY <1>5, <2>1, <2>2, <2>3 DEF HermesInv, ProviderInv
<1>9. Works(r) /\ r \in Runs
  BY <1>2 DEF Works
<1> HIDE DEF r
<1> QED BY <1>1, <1>4, <1>7, <1>8, <1>9, SaidStep

LEMMA ProviderStep ==
  ASSUME HermesInv, NEW r \in Runs, Provider(r)
  PROVE  HermesInv' /\ RunsMove
<1>1. ASSUME NEW choice \in Choices, ProviderDecides(r, choice) PROVE HermesInv' /\ RunsMove
  BY <1>1, DecideStep DEF ProviderDecides, Undecided, RunOf, Taking, HermesInv, Typed, ApprovalsTyped
<1> QED BY <1>1, ProviderAsksStep, ProviderFinishesStep DEF Provider

(* A step that is about one answer of the host only. *)
LEMMA AnswerStep ==
  ASSUME HermesInv, NEW n \in 1..Len(approvals), NEW response \in ResponseRec, responses' = [responses EXCEPT ![n] = response],
         UNCHANGED <<client, transport, handles, tables, branches, runs, pendingApprovals, provider>>, ResponseFits(n)'
  PROVE  HermesInv' /\ RunsMove
<1>1. n \in 1..MaxApprovals /\ responses \in [1..MaxApprovals -> ResponseRec]
  BY ApprovalFacts DEF HermesInv, Typed, ApprovalsTyped
<1>2. Typed'
  BY <1>1 DEF HermesInv, Typed, HereTyped, SessionsTyped, ApprovalsTyped, tables, provider
<1>3. /\ ClientInv' /\ HandleInv' /\ RunInv' /\ OwnerInv' /\ PlaceInv' /\ WorkInv'
      /\ ProviderInv' /\ StreamInv' /\ PendingInv' /\ RunsMove
  <2> USE DEF tables, provider, HermesInv
  <2>1. ClientInv' /\ HandleInv' /\ RunInv' /\ OwnerInv'
    BY DEF ClientInv, HandleInv, RunInv, OwnerInv
  <2>2. PlaceInv'
    BY DEF PlaceInv, Starting, Active, SessionOf, Terminal
  <2>3. WorkInv'
    BY DEF WorkInv, Works, Underway, Starting, Active, SessionOf, Terminal, HasWork
  <2>4. ProviderInv'
    BY DEF ProviderInv, RunOf
  <2>5. StreamInv'
    BY SMTT(60) DEF StreamInv, Heard, Unheard, StreamFits, EventFits, OrderFits, AskFits, Says, Unread, Unasked, RunOf
  <2>6. PendingInv'
    BY DEF PendingInv, AskedFits, PendingFits, PendingOf, Terminal, Heard, Unheard, Unread, Says, RunOf
  <2>7. RunsMove
    BY RunFacts DEF RunsMove, Moves, RunFits, Fresh, Terminal
  <2> QED BY <2>1, <2>2, <2>3, <2>4, <2>5, <2>6, <2>7
<1>4. ResponseInv'
  <2>1. \A m \in 1..Len(approvals) : m # n => ResponseFits(m)'
    <3>1. SUFFICES ASSUME NEW m \in 1..Len(approvals), m # n PROVE ResponseFits(m)'
      OBVIOUS
    <3>2. ResponseFits(m) /\ m \in 1..MaxApprovals /\ responses'[m] = responses[m]
      BY <1>1, <3>1, ApprovalFacts DEF HermesInv, ResponseInv
    <3>3. (Heard(RunOf(m))' <=> Heard(RunOf(m))) /\ (Unread(RunOf(m), m)' <=> Unread(RunOf(m), m)) /\ RunOf(m)' = RunOf(m)
      BY DEF Heard, Unheard, Unread, Says, RunOf, provider
    <3> QED BY <3>2, <3>3 DEF ResponseFits, InFlight, provider
  <2>2. \A m \in 1..MaxApprovals : m \notin 1..Len(approvals') => responses'[m].at = "none" /\ responses'[m].provider = "none"
    BY <1>1 DEF HermesInv, ResponseInv, provider
  <2> QED BY <2>1, <2>2 DEF ResponseInv, provider
<1> QED BY <1>2, <1>3, <1>4 DEF HermesInv

LEMMA ProviderTakesStep ==
  ASSUME HermesInv, NEW n \in 1..Len(approvals), ProviderTakes(n)
  PROVE  HermesInv' /\ RunsMove
<1> DEFINE r == approvals[n].run
<1>1. /\ responses \in [1..MaxApprovals -> ResponseRec] /\ n \in 1..MaxApprovals /\ responses[n] \in ResponseRec /\ responses[n].at = "sent"
      /\ UNCHANGED <<client, transport, handles, tables, branches, runs, pendingApprovals, created, branched>>
  BY ApprovalFacts DEF ProviderTakes, HermesInv, Typed, ApprovalsTyped
<1>2. \A to \in {"taken", "gone"} : [responses EXCEPT ![n].at = to] \in [1..MaxApprovals -> ResponseRec]
  BY <1>1 DEF ResponseRec
<1>3. CASE remote[r] = "waiting"
  <2>1. responses' = [responses EXCEPT ![n].at = "taken"] /\ \E m \in Undecided(r) : Decide(m, responses[n].choice, "host")
    BY <1>3 DEF ProviderTakes
  <2>2. PICK m \in Undecided(r) : Decide(m, responses[n].choice, "host")
    BY <2>1
  <2>3. m \in 1..Len(approvals) /\ approvals[m].decision = "none" /\ RunOf(m) = r /\ RunOf(n) = r
    BY DEF Undecided, RunOf
  <2>4. responses[n].choice \in Choices
    BY <1>1 DEF HermesInv, ResponseInv, ResponseFits, ResponseRec
  <2>5. approvals'[n].decision # "none"
    BY <2>2, <2>3, ApprovalFacts, <2>4 DEF Decide, HermesInv, Typed, ApprovalsTyped, ApprovalRec, Choices, ProviderInv
  <2>6. Taking
    BY <1>1, <2>1, <2>5 DEF Taking
  <2> QED BY <1>1, <1>2, <1>3, <2>1, <2>2, <2>3, <2>4, <2>6, DecideStep
<1>4. CASE remote[r] # "waiting"
  <2>1. responses' = [responses EXCEPT ![n].at = "gone"] /\ UNCHANGED <<remote, stream, approvals>>
    BY <1>4 DEF ProviderTakes
  <2>2. [responses[n] EXCEPT !.at = "gone"] \in ResponseRec
    BY <1>1 DEF ResponseRec
  <2>3. ResponseFits(n)'
    BY <1>1, <2>1 DEF HermesInv, ResponseInv, ResponseRec, Heard, Unheard, Unread, Says, RunOf, ResponseFits, InFlight
  <2> QED BY <1>1, <2>1, <2>2, <2>3, AnswerStep DEF provider
<1> QED BY <1>3, <1>4

LEMMA RespondStep ==
  ASSUME HermesInv, NEW h \in Handles, NEW n \in 1..Len(approvals), NEW choice \in Choices, Respond(h, n, choice)
  PROVE  HermesInv' /\ RunsMove
<1> DEFINE response == [at |-> "sent", choice |-> choice, provider |-> "none"]
<1>1. /\ responses' = [responses EXCEPT ![n] = response] /\ n \in pendingApprovals /\ ~InFlight(n)
      /\ UNCHANGED <<client, transport, handles, tables, branches, runs, pendingApprovals, provider>>
  BY DEF Respond
<1>2. response \in ResponseRec /\ choice # "none"
  BY DEF ResponseRec, Choices
<1>3. n \in runs[RunOf(n)].requested
  BY <1>1, ApprovalFacts, ActiveFacts DEF PendingOf, RunOf
<1>4. responses'[n] = response
  BY <1>1, ApprovalFacts DEF HermesInv, Typed, ApprovalsTyped
<1>5. ResponseFits(n)'
  BY <1>1, <1>2, <1>3, <1>4 DEF ResponseFits, InFlight, RunOf, provider
<1> QED BY <1>1, <1>2, <1>5, AnswerStep

-------------------------------------------------------------------------------
(* A step of what the Client knows of the approvals of one Run, and of its evidence. *)
LEMMA TalkStep ==
  ASSUME HermesInv, NEW r \in Runs, NEW run \in RunRec, runs' = [runs EXCEPT ![r] = run], runs[r].start = "started",
         run.start = "started", run.owner = runs[r].owner, run.result = runs[r].result, run.pump = runs[r].pump,
         RunFits(run, remote[r]), CancelFits(run), Moves(r),
         UNCHANGED <<client, transport, handles, tables, branches, created, branched, remote, approvals>>,
         stream' \in [Runs -> Seq(Event)], \A q \in Runs \ {r} : stream'[q] = stream[q],
         responses' \in [1..MaxApprovals -> ResponseRec],
         \A n \in 1..MaxApprovals : n \notin 1..Len(approvals) \/ RunOf(n) # r => responses'[n] = responses[n],
         pendingApprovals' \subseteq 1..Len(approvals),
         \A n \in 1..Len(approvals) : RunOf(n) # r => (n \in pendingApprovals' <=> n \in pendingApprovals),
         AskedFits(r)', Heard(r) => StreamFits(r)',
         \A n \in pendingApprovals' : RunOf(n) = r => PendingFits(n)',
         \A n \in 1..Len(approvals) : RunOf(n) = r => ResponseFits(n)'
  PROVE  HermesInv' /\ RunsMove
<1>1. /\ runs'[r] = run /\ \A q \in Runs \ {r} : runs'[q] = runs[q]
      /\ runs \in [Runs -> RunRec] /\ runs' \in [Runs -> RunRec]
  BY DEF HermesInv, Typed, HereTyped
<1>2. Typed'
  BY <1>1 DEF HermesInv, Typed, HereTyped, SessionsTyped, ApprovalsTyped, tables
<1>3. RunInv' /\ ClientInv'
  <2>1. RunInv'
    BY <1>1, RunFacts DEF RunInv
  <2> QED BY <2>1 DEF HermesInv, ClientInv
<1>4. Steady
  BY <1>1 DEF HermesInv, PlaceInv, Active, Terminal, Typed, HereTyped, Steady, tables, Works, Starting
<1>5. RunsMove
  BY <1>1, RunFacts DEF RunsMove, Moves, RunFits, Fresh, Terminal
<1>6. ProviderInv'
  BY DEF HermesInv, ProviderInv, RunOf
<1>7. \A n \in 1..Len(approvals) : RunOf(n) \in Runs /\ RunOf(n)' = RunOf(n) /\ n \in 1..MaxApprovals
  BY ApprovalFacts DEF RunOf
<1>8. ASSUME NEW q \in Runs, q # r PROVE
        /\ runs'[q] = runs[q] /\ stream'[q] = stream[q] /\ remote'[q] = remote[q]
        /\ Heard(q)' <=> Heard(q)
        /\ \A n : (Unread(q, n)' <=> Unread(q, n)) /\ (Unasked(q, n)' <=> Unasked(q, n))
        /\ \A i, type, n : Says(q, i, type, n)' <=> Says(q, i, type, n)
  BY <1>1, <1>8 DEF Heard, Unheard, Unread, Unasked, Says
<1>9. StreamInv'
  <2>1. ASSUME NEW q \in Runs PROVE remote'[q] = "none" => stream'[q] = <<>>
    BY RunFacts, <1>8 DEF RunFits, HermesInv, StreamInv
  <2>2. ASSUME NEW q \in Runs, q # r, Heard(q)' PROVE StreamFits(q)'
    <3>1. StreamFits(q) /\ stream'[q] = stream[q] /\ remote'[q] = remote[q] /\ runs'[q] = runs[q]
      BY <1>8, <2>2 DEF HermesInv, StreamInv
    <3>2. \A i \in 1..Len(stream'[q]) : EventFits(q, i)'
      BY <1>7, <1>8, <2>2, <3>1 DEF StreamFits, EventFits
    <3>3. \A i, j \in 1..Len(stream'[q]) : OrderFits(q, i, j)'
      BY <3>1 DEF StreamFits, OrderFits
    <3>4. \A n \in 1..Len(approvals') : RunOf(n)' = q => AskFits(q, n)'
      BY <1>7, <1>8, <2>2, <3>1 DEF StreamFits, AskFits
    <3> QED BY <3>2, <3>3, <3>4 DEF StreamFits
  <2>3. Heard(r)' => StreamFits(r)'
    BY <1>1 DEF Heard, Unheard
  <2> QED BY <2>1, <2>2, <2>3 DEF StreamInv
<1>10. PendingInv'
  <2>1. ASSUME NEW q \in Runs, q # r PROVE AskedFits(q)'
    <3>1. PendingOf({q})' = PendingOf({q})
      BY <2>1 DEF PendingOf, RunOf, HermesInv, Typed, ApprovalsTyped
    <3> QED BY <1>7, <1>8, <2>1, <3>1 DEF HermesInv, PendingInv, AskedFits, Terminal
  <2>2. ASSUME NEW n \in pendingApprovals', RunOf(n) # r PROVE PendingFits(n)'
    BY <2>2, <1>7, <1>8 DEF HermesInv, PendingInv, PendingFits
  <2> QED BY <2>1, <2>2 DEF PendingInv
<1>11. ResponseInv'
  <2>1. ASSUME NEW n \in 1..Len(approvals), RunOf(n) # r PROVE ResponseFits(n)'
    BY <1>7, <2>1, <1>8 DEF HermesInv, ResponseInv, ResponseFits, InFlight
  <2> QED BY <2>1 DEF HermesInv, ResponseInv
<1> QED BY <1>2, <1>3, <1>4, <1>5, <1>6, <1>9, <1>10, <1>11, SteadyStep DEF HermesInv

(* One approval of a Run is pending at most, the last it was asked. *)
LEMMA OnePending ==
  ASSUME HermesInv, NEW r \in Runs, NEW n \in PendingOf({r})
  PROVE  /\ PendingOf({r}) = {n} /\ n \in 1..Len(approvals) /\ RunOf(n) = r /\ PendingFits(n) /\ n \in runs[r].requested
         /\ \A m \in runs[r].requested : m <= n
<1>1. /\ \A m \in PendingOf({r}) : m \in 1..Len(approvals) /\ RunOf(m) = r /\ PendingFits(m) /\ m \in runs[r].requested
      /\ Len(approvals) \in Nat
  BY ActiveFacts DEF PendingOf, RunOf, HermesInv, PendingInv, Typed, ApprovalsTyped
<1>2. \A m \in PendingOf({r}) : \A k \in runs[r].requested : k <= m
  BY <1>1 DEF PendingFits
<1>3. \A m \in PendingOf({r}) : m <= n /\ n <= m /\ m \in Nat /\ n \in Nat
  BY <1>1, <1>2, SMTT(60)
<1>4. \A m \in PendingOf({r}) : m = n
  BY <1>3
<1> QED BY <1>1, <1>2, <1>4

-------------------------------------------------------------------------------
(* The answer to a respond(). *)
LEMMA InFlightFacts ==
  ASSUME HermesInv, NEW n \in 1..Len(approvals), InFlight(n)
  PROVE  /\ n \in 1..MaxApprovals /\ RunOf(n) \in Runs /\ runs[RunOf(n)].start = "started" /\ n \in runs[RunOf(n)].requested
         /\ responses[n] \in ResponseRec /\ responses \in [1..MaxApprovals -> ResponseRec]
         /\ responses[n].choice # "none" /\ ResponseFits(n)
<1>1. /\ n \in 1..MaxApprovals /\ RunOf(n) \in Runs /\ responses[n] \in ResponseRec /\ responses \in [1..MaxApprovals -> ResponseRec]
      /\ ResponseFits(n)
  BY ApprovalFacts DEF HermesInv, Typed, ApprovalsTyped, ResponseInv
<1>2. n \in runs[RunOf(n)].requested /\ responses[n].choice # "none"
  BY <1>1 DEF ResponseFits, InFlight
<1>3. runs[RunOf(n)].start = "started"
  BY <1>1, <1>2, RunFacts DEF RunFits, Fresh
<1> QED BY <1>1, <1>2, <1>3

(* respond() rejects: nothing else changes, the Run ends, or its Session is not used again. *)
LEMMA RejectedStep ==
  ASSUME HermesInv, NEW n \in 1..Len(approvals), InFlight(n),
         responses' = [responses EXCEPT ![n].at = "error"],
         UNCHANGED <<client, transport, startingBySession, knownSessions, retiredSessions, branches, provider>>,
         \/ FailIncompatible(RunOf(n), runs) \/ AbortRun(RunOf(n), runs) \/ Keep(runs)
         \/ /\ Terminal(RunOf(n)) /\ quarantinedSessions' = quarantinedSessions \cup {SessionOf(RunOf(n))}
            /\ handles' = [handles EXCEPT ![runs[RunOf(n)].owner].unsafe = TRUE]
            /\ UNCHANGED <<runs, activeBySession, pendingApprovals>>
  PROVE  HermesInv' /\ RunsMove
<1> DEFINE r == RunOf(n)
<1>1. /\ n \in 1..MaxApprovals /\ r \in Runs /\ runs[r].start = "started" /\ responses[n] \in ResponseRec
      /\ responses \in [1..MaxApprovals -> ResponseRec] /\ responses[n].at # "none"
  BY InFlightFacts DEF InFlight
<1>2. /\ Elsewhere
      /\ UNCHANGED <<client, transport, knownSessions, retiredSessions, branches, created, branched, remote, stream, approvals>>
  BY DEF Elsewhere, provider
<1>3. Evolves
  <2>1. CASE FailIncompatible(r, runs) \/ AbortRun(r, runs)
    <3>1. Abortable(r, runs)
      BY <1>1, ActiveFacts
    <3> HIDE DEF r
    <3> QED BY <1>1, <1>2, <2>1, <3>1, AbortStep
  <2>2. CASE Keep(runs)
    <3>1. HereTyped'
      BY <1>2, <2>2 DEF HermesInv, Typed, HereTyped, Keep, SettledVars
    <3>2. \A q \in Runs : Kept(q)
      BY <1>2, <2>2, RunFacts DEF Kept, Keep
    <3>3. UNCHANGED <<activeBySession, quarantinedSessions, handles>> /\ pendingApprovals' = pendingApprovals \ PendingOf({})
      BY <2>2 DEF Keep, SettledVars, PendingOf
    <3> QED BY <1>2, <3>1, <3>2, <3>3, EndingStep
  <2>3. CASE /\ Terminal(r) /\ quarantinedSessions' = quarantinedSessions \cup {SessionOf(r)}
             /\ handles' = [handles EXCEPT ![runs[r].owner].unsafe = TRUE]
             /\ UNCHANGED <<runs, activeBySession, pendingApprovals>>
    <3> HIDE DEF r
    <3>1. runs[r].owner \in Handles /\ SessionOf(r) \in Sessions
      BY <1>1, RunFacts DEF RunFits
    <3>2. /\ handles' \in [Handles -> HandleRec]
          /\ \A h \in Handles : handles'[h].call = handles[h].call /\ handles'[h].session = handles[h].session
      <4> DEFINE o == runs[r].owner
                 handle == [handles[o] EXCEPT !.unsafe = TRUE]
      <4>1. o \in Handles /\ handles \in [Handles -> HandleRec] /\ handles' = [handles EXCEPT ![o] = handle]
        BY <2>3, <3>1 DEF HermesInv, Typed, HereTyped
      <4>2. handle \in HandleRec /\ handle.call = handles[o].call /\ handle.session = handles[o].session
        BY <4>1 DEF HandleRec
      <4> HIDE DEF handle, o
      <4> QED BY <4>1, <4>2
    <3>3. HereTyped'
      BY <1>2, <2>3, <3>1, <3>2 DEF HermesInv, Typed, HereTyped
    <3>4. \A q \in Runs : Kept(q)
      BY <1>2, <2>3, RunFacts DEF Kept
    <3>5. pendingApprovals' = pendingApprovals \ PendingOf({})
      BY <2>3 DEF PendingOf
    <3> QED BY <1>2, <2>3, <3>2, <3>3, <3>4, <3>5, EndingStep
  <2> QED BY <2>1, <2>2, <2>3
<1>4. SessionsTyped' /\ ClientInv'
  BY <1>2 DEF HermesInv, Typed, SessionsTyped, ClientInv
<1>5. responses' \in [1..MaxApprovals -> ResponseRec]
  BY <1>1 DEF ResponseRec
<1>6. ApprovalsTyped'
  BY <1>2, <1>3, <1>5 DEF HermesInv, Typed, ApprovalsTyped, Evolves
<1>7. \A m \in 1..MaxApprovals :
        \/ responses'[m] = responses[m]
        \/ responses[m].at # "none" /\ responses'[m] = [responses[m] EXCEPT !.at = "error"]
  BY <1>1
<1> QED BY <1>2, <1>3, <1>4, <1>6, <1>7, EvolvedStep

(* respond() succeeds, with a decision that was reported: it is the same. *)
LEMMA AgreedStep ==
  ASSUME HermesInv, NEW n \in 1..Len(approvals), InFlight(n), Keep(runs),
         responses' = [responses EXCEPT ![n].at = "ok"], responses[n].at = "taken",
         responses[n].provider # "none", responses[n].provider = responses[n].choice,
         UNCHANGED <<client, transport, startingBySession, knownSessions, retiredSessions, branches, provider>>
  PROVE  HermesInv' /\ RunsMove
<1> DEFINE response == [responses[n] EXCEPT !.at = "ok"]
<1>1. /\ n \in 1..MaxApprovals /\ RunOf(n) \in Runs /\ n \in runs[RunOf(n)].requested
      /\ responses[n] \in ResponseRec /\ responses \in [1..MaxApprovals -> ResponseRec] /\ ResponseFits(n)
  BY InFlightFacts
<1>2. /\ response \in ResponseRec /\ response.at = "ok" /\ response.choice = responses[n].choice
      /\ response.provider = responses[n].provider
  BY <1>1 DEF ResponseRec
<1>3. responses' = [responses EXCEPT ![n] = response]
  OBVIOUS
<1> HIDE DEF response
<1>4. UNCHANGED <<client, transport, handles, tables, branches, runs, pendingApprovals, provider>>
  BY DEF Keep, SettledVars, tables
<1>5. ResponseFits(n)'
  BY <1>4, <1>1, <1>3, <1>2 DEF Heard, Unheard, Unread, Says, RunOf, provider, ResponseFits, InFlight
<1> QED BY <1>2, <1>3, <1>4, <1>5, AnswerStep

(* respond() succeeds, with a decision that was not reported: it is confirmed until then. *)
LEMMA ConfirmedStep ==
  ASSUME HermesInv, NEW n \in 1..Len(approvals), InFlight(n),
         responses' = [responses EXCEPT ![n].at = "ok"], responses[n].at = "taken",
         responses[n].provider = "none", runs[RunOf(n)].confirmed = "none",
         Resolve(RunOf(n), [runs EXCEPT ![RunOf(n)].confirmed = responses[n].choice]),
         UNCHANGED <<client, transport, startingBySession, knownSessions, retiredSessions, branches, provider>>
  PROVE  HermesInv' /\ RunsMove
<1>0. PICK r \in Runs : r = RunOf(n)
  BY InFlightFacts
<1> DEFINE response == [responses[n] EXCEPT !.at = "ok"]
           resolved == IF Terminal(r) THEN runs[r].resolved ELSE runs[r].resolved \cup PendingOf({r})
           run == [runs[r] EXCEPT !.confirmed = responses[n].choice, !.resolved = resolved]
<1>1. /\ n \in 1..MaxApprovals /\ n \in runs[r].requested /\ runs[r].start = "started" /\ runs[r] \in RunRec
      /\ responses[n] \in ResponseRec /\ responses \in [1..MaxApprovals -> ResponseRec] /\ ResponseFits(n)
      /\ responses[n].choice # "none" /\ RunFits(runs[r], remote[r]) /\ CancelFits(runs[r])
  BY <1>0, InFlightFacts, RunFacts
<1>2. /\ response \in ResponseRec /\ response.at = "ok" /\ response.choice = responses[n].choice
      /\ response.provider = responses[n].provider
  BY <1>1 DEF ResponseRec
<1>3. responses' = [responses EXCEPT ![n] = response] /\ responses' \in [1..MaxApprovals -> ResponseRec] /\ responses'[n] = response
  BY <1>1, <1>2
<1>4. /\ PendingOf({r}) = runs[r].requested \ runs[r].resolved /\ runs[r].resolved \subseteq runs[r].requested
      /\ (Terminal(r) => PendingOf({r}) = {}) /\ runs[r].requested \in SUBSET (1..MaxApprovals)
      /\ \A m \in runs[r].requested : m \in 1..Len(approvals) /\ RunOf(m) = r
  BY <1>1 DEF HermesInv, PendingInv, AskedFits, RunRec
<1>5. resolved = runs[r].requested
  BY <1>4
<1> HIDE DEF resolved, response
<1>6. /\ run \in RunRec /\ run.resolved = resolved /\ run.confirmed = responses[n].choice
      /\ run.start = runs[r].start /\ run.owner = runs[r].owner /\ run.result = runs[r].result /\ run.pump = runs[r].pump
      /\ run.incompatible = runs[r].incompatible /\ run.signal = runs[r].signal /\ run.reconcile = runs[r].reconcile
      /\ run.answer = runs[r].answer /\ run.timedOut = runs[r].timedOut /\ run.cancel = runs[r].cancel
      /\ run.requested = runs[r].requested
  BY <1>1, <1>4, <1>5 DEF RunRec, ResponseRec
<1>7. runs' = [runs EXCEPT ![r] = run] /\ runs'[r] = run
  <2>1. runs \in [Runs -> RunRec]
    BY DEF HermesInv, Typed, HereTyped
  <2> DEFINE mid == [runs[r] EXCEPT !.confirmed = responses[n].choice]
             now == [runs EXCEPT ![r] = mid]
  <2>2. mid.resolved = runs[r].resolved /\ [mid EXCEPT !.resolved = resolved] = run
    BY <1>1 DEF RunRec
  <2>3. now[r] = mid /\ now = [runs EXCEPT ![r].confirmed = responses[n].choice]
    BY <2>1
  <2> HIDE DEF mid
  <2>4. [now EXCEPT ![r].resolved = IF Terminal(r) THEN @ ELSE @ \cup PendingOf({r})] = [now EXCEPT ![r] = [mid EXCEPT !.resolved = resolved]]
    BY <2>1, <2>2, <2>3 DEF resolved
  <2>5. [now EXCEPT ![r] = [mid EXCEPT !.resolved = resolved]] = [runs EXCEPT ![r] = [mid EXCEPT !.resolved = resolved]]
    BY <2>1
  <2>6. runs' = [now EXCEPT ![r].resolved = IF Terminal(r) THEN @ ELSE @ \cup PendingOf({r})]
    <3>1. Resolve(r, [runs EXCEPT ![r].confirmed = responses[n].choice])
      BY <1>0
    <3>2. Resolve(r, now)
      BY <2>3, <3>1
    <3> HIDE DEF now
    <3> QED BY <3>2 DEF Resolve
  <2> HIDE DEF run
  <2>7. runs' = [runs EXCEPT ![r] = run]
    BY <2>2, <2>4, <2>5, <2>6
  <2> QED BY <2>1, <2>7
<1> HIDE DEF run
<1>8. /\ pendingApprovals' = pendingApprovals \ PendingOf({r}) /\ UNCHANGED <<activeBySession, quarantinedSessions, handles>>
      /\ UNCHANGED <<client, transport, handles, tables, branches, created, branched, remote, stream, approvals>>
  BY <1>0 DEF Resolve, tables, provider
<1>9. /\ \A m \in 1..Len(approvals) : RunOf(m)' = RunOf(m) /\ (RunOf(m) = r => m \notin pendingApprovals')
      /\ Heard(r)' <=> Heard(r) /\ \A m : Unread(r, m)' <=> Unread(r, m)
      /\ pendingApprovals' \subseteq 1..Len(approvals) /\ PendingOf({r})' = {}
  BY <1>8, <1>6, <1>7 DEF PendingOf, RunOf, Heard, Unheard, Unread, Says, HermesInv, Typed, ApprovalsTyped
<1>10. RunFits(run, remote[r]) /\ CancelFits(run) /\ Moves(r)
  BY <1>1, <1>4, <1>5, <1>6, <1>7 DEF RunFits, CancelFits, Moves, Terminal
<1>11. AskedFits(r)'
  BY <1>4, <1>5, <1>6, <1>7, <1>8, <1>9 DEF AskedFits
<1>12. ASSUME Heard(r) PROVE StreamFits(r)'
  BY <1>6, <1>7, <1>8, <1>12, <1>9 DEF HermesInv, StreamInv, StreamFits, EventFits, Says, OrderFits, AskFits, Unasked, Unread
<1>13. ASSUME NEW m \in 1..Len(approvals), RunOf(m) = r PROVE ResponseFits(m)'
  <2>1. ResponseFits(m) /\ m \in 1..MaxApprovals
    BY ApprovalFacts DEF HermesInv, ResponseInv
  <2>2. Heard(r) => n \in PendingOf({r}) /\ Unread(r, n)
    BY <1>0, <1>1 DEF ResponseFits, PendingOf, RunOf, HermesInv, PendingInv, PendingFits
  <2>3. CASE m = n
    <3>1. RunOf(n)' = r /\ (Heard(RunOf(n))' <=> Heard(r)) /\ (Unread(RunOf(n), n)' <=> Unread(r, n))
      BY <1>0, <1>9, <1>6, <1>7, <1>8 DEF RunOf, Heard, Unheard, Unread, Says
    <3>2. responses'[n].at = "ok" /\ responses'[n].choice = responses[n].choice /\ responses'[n].provider = "none"
      BY <1>2, <1>3
    <3>3. approvals'[n].decision # "none" /\ runs'[r].confirmed = responses[n].choice /\ n \in runs'[r].requested
      BY <1>1, <1>6, <1>7, <1>8 DEF ResponseFits
    <3> QED BY <1>0, <1>1, <1>9, <2>2, <2>3, <3>1, <3>2, <3>3 DEF ResponseFits, InFlight
  <2>4. CASE m # n
    <3>1. responses'[m] = responses[m]
      BY <1>1, <1>3, <2>1, <2>4
    <3>2. (Heard(r) /\ m \in pendingApprovals) => m = n
      BY <1>13, <2>2, OnePending DEF PendingOf, RunOf
    <3>3. (Heard(r) /\ responses[m].at = "ok" /\ Unread(r, m)) => responses[m].choice = "none"
      BY <1>0, <1>13, <2>1 DEF ResponseFits
    <3>4. responses[m].at # "none" => responses[m].choice # "none"
      BY <2>1 DEF ResponseFits
    <3> QED BY <1>6, <1>7, <1>8, <1>9, <1>13, <2>1, <2>4, <3>1, <3>2, <3>3, <3>4 DEF ResponseFits, InFlight
  <2> QED BY <2>3, <2>4
<1>14. \A m \in pendingApprovals' : RunOf(m) = r => PendingFits(m)'
  BY <1>9
<1>15. \A m \in 1..MaxApprovals : m \notin 1..Len(approvals) \/ RunOf(m) # r => responses'[m] = responses[m]
  BY <1>0, <1>3
<1>16. \A m \in 1..Len(approvals) : RunOf(m) # r => (m \in pendingApprovals' <=> m \in pendingApprovals)
  BY <1>8 DEF PendingOf, RunOf
<1>17. stream' \in [Runs -> Seq(Event)]
  BY <1>8 DEF HermesInv, Typed, ApprovalsTyped
<1> QED BY <1>1, <1>3, <1>6, <1>7, <1>8, <1>9, <1>10, <1>11, <1>12, <1>13, <1>14, <1>15, <1>16, <1>17, TalkStep

LEMMA RespondedStep ==
  ASSUME HermesInv, NEW n \in 1..Len(approvals), NEW outcome, Responded(n, outcome)
  PROVE  HermesInv' /\ RunsMove
<1> DEFINE agrees == IF responses[n].provider # "none" THEN responses[n].provider = responses[n].choice
                     ELSE runs[RunOf(n)].confirmed = "none"
<1>1. /\ InFlight(n) /\ (outcome = "ok" => responses[n].at = "taken")
      /\ responses' = [responses EXCEPT ![n].at = IF outcome = "ok" /\ agrees THEN "ok" ELSE "error"]
      /\ UNCHANGED <<client, transport, startingBySession, knownSessions, retiredSessions, branches, provider>>
      /\ outcome = "ok" /\ ~agrees => FailIncompatible(RunOf(n), runs)
      /\ outcome = "ok" /\ agrees /\ responses[n].provider # "none" => Keep(runs)
      /\ outcome = "ok" /\ agrees /\ responses[n].provider = "none" =>
           Resolve(RunOf(n), [runs EXCEPT ![RunOf(n)].confirmed = responses[n].choice])
      /\ Uncertain(outcome) /\ Terminal(RunOf(n)) =>
           /\ quarantinedSessions' = quarantinedSessions \cup {SessionOf(RunOf(n))}
           /\ handles' = [handles EXCEPT ![runs[RunOf(n)].owner].unsafe = TRUE]
           /\ UNCHANGED <<runs, activeBySession, pendingApprovals>>
      /\ Uncertain(outcome) /\ ~Terminal(RunOf(n)) => AbortRun(RunOf(n), runs)
      /\ outcome = "refused" => Keep(runs)
  BY DEF Responded, Uncertain, RunOf
<1>2. CASE outcome = "ok" /\ agrees /\ responses[n].provider # "none"
  BY <1>1, <1>2, AgreedStep
<1>3. CASE outcome = "ok" /\ agrees /\ responses[n].provider = "none"
  BY <1>1, <1>3, ConfirmedStep
<1>4. CASE ~(outcome = "ok" /\ agrees)
  BY <1>1, <1>4, RejectedStep DEF Uncertain
<1> QED BY <1>2, <1>3, <1>4

-------------------------------------------------------------------------------
(* An event arrives. *)
LEMMA HeardFacts ==
  ASSUME HermesInv, NEW r \in Runs, runs[r].pump = "reading", stream[r] # <<>>
  PROVE  /\ Heard(r) /\ Active(r) /\ StreamFits(r) /\ stream[r] \in Seq(Event) /\ Len(stream[r]) \in Nat \ {0}
         /\ Head(stream[r]) = stream[r][1] /\ Head(stream[r]) \in Event /\ EventFits(r, 1)
<1>1. Active(r) /\ Heard(r)
  BY ActiveFacts DEF Heard, Unheard, Active
<1>2. stream[r] \in Seq(Event) /\ Len(stream[r]) \in Nat \ {0}
  BY DEF HermesInv, Typed, ApprovalsTyped
<1>3. StreamFits(r)
  BY <1>1 DEF HermesInv, StreamInv
<1> QED BY <1>1, <1>2, <1>3 DEF StreamFits

(* What is left to read. *)
LEMMA TailFacts ==
  ASSUME HermesInv, NEW r \in Runs, runs[r].pump = "reading", stream[r] # <<>>,
         stream' = [stream EXCEPT ![r] = Tail(@)], NEW e, e = Head(stream[r])
  PROVE  /\ stream' \in [Runs -> Seq(Event)] /\ \A q \in Runs \ {r} : stream'[q] = stream[q]
         /\ \A n : Unread(r, n)' <=> Unread(r, n) /\ ~(e.type = "responded" /\ e.approval = n)
         /\ \A n : Unasked(r, n)' <=> Unasked(r, n) /\ ~(e.type = "request" /\ e.approval = n)
         /\ (/\ UNCHANGED <<remote, approvals>>
             /\ runs'[r].requested = runs[r].requested \cup (IF e.type = "request" THEN {e.approval} ELSE {}))
            => StreamFits(r)'
<1>1. /\ Heard(r) /\ StreamFits(r) /\ stream[r] \in Seq(Event) /\ Len(stream[r]) \in Nat \ {0}
      /\ e = stream[r][1] /\ e \in Event /\ EventFits(r, 1) /\ stream \in [Runs -> Seq(Event)]
  BY HeardFacts DEF HermesInv, Typed, ApprovalsTyped
<1>2. PICK L \in Nat : Len(stream[r]) = L + 1
  <2>1. \A k \in Nat \ {0} : k - 1 \in Nat /\ k = (k - 1) + 1
    OBVIOUS
  <2> QED BY <1>1, <2>1
<1>3. Tail(stream[r]) \in Seq(Event) /\ stream'[r] = Tail(stream[r]) /\ \A q \in Runs \ {r} : stream'[q] = stream[q]
  BY <1>1
<1>4. Len(stream'[r]) = L /\ \A i \in 1..L : stream'[r][i] = stream[r][i + 1] /\ i + 1 \in 1..Len(stream[r])
  <2> DEFINE old == stream[r]
             new == Tail(old)
  <2>1. old \in Seq(Event) /\ Len(old) = L + 1
    BY <1>1, <1>2
  <2> HIDE DEF old
  <2>2. Len(new) = L /\ \A i \in 1..L : new[i] = old[i + 1]
    BY <1>2, <2>1
  <2> HIDE DEF new
  <2>3. stream'[r] = new
    BY <1>3 DEF new, old
  <2>4. \A i \in 1..L : i + 1 \in 1..(L + 1)
    BY <1>2
  <2> QED BY <1>2, <2>2, <2>3, <2>4 DEF old
<1>5. /\ \A i \in 1..L : \A type, n : Says(r, i, type, n)' <=> Says(r, i + 1, type, n)
      /\ \A i \in 1..Len(stream[r]) : i = 1 \/ (i - 1 \in 1..L /\ (i - 1) + 1 = i)
      /\ \A type, n : Says(r, 1, type, n) <=> (e.type = type /\ e.approval = n)
      /\ 1 \in 1..Len(stream[r]) /\ L \in Nat
  BY <1>4, <1>2, <1>1 DEF Says
<1>6. ASSUME NEW type \in {"request", "responded"}, NEW n, NEW i \in 1..L, Says(r, i, type, n)'
      PROVE  ~(e.type = type /\ e.approval = n)
  <2>1. OrderFits(r, 1, i + 1) /\ 1 < i + 1 /\ stream[r][i + 1].type = type /\ stream[r][i + 1].approval = n
    <3>1. stream[r][i + 1].type = type /\ stream[r][i + 1].approval = n
      <4>1. Says(r, i + 1, type, n)
        BY <1>5, <1>6
      <4> QED BY <4>1 DEF Says
    <3>2. OrderFits(r, 1, i + 1) /\ 1 < i + 1
      BY <1>1, <1>4, <1>5 DEF StreamFits
    <3> QED BY <3>1, <3>2
  <2> QED BY <1>1, <2>1 DEF OrderFits
<1>7. ASSUME NEW type \in {"request", "responded"}, NEW n
      PROVE  (\E i \in 1..L : Says(r, i, type, n)') <=> (\E i \in 1..Len(stream[r]) : Says(r, i, type, n)) /\ ~(e.type = type /\ e.approval = n)
  <2>1. (\E i \in 1..L : Says(r, i, type, n)') => \E i \in 1..Len(stream[r]) : Says(r, i, type, n)
    BY <1>4, <1>5
  <2>2. ASSUME NEW i \in 1..Len(stream[r]), Says(r, i, type, n), ~(e.type = type /\ e.approval = n) PROVE \E k \in 1..L : Says(r, k, type, n)'
    <3>1. i # 1 /\ i - 1 \in 1..L /\ (i - 1) + 1 = i
      BY <1>5, <2>2
    <3>2. Says(r, i - 1, type, n)'
      BY <1>5, <2>2, <3>1
    <3> QED BY <3>1, <3>2
  <2> QED BY <1>6, <2>1, <2>2
<1>8. /\ \A n : Unread(r, n)' <=> Unread(r, n) /\ ~(e.type = "responded" /\ e.approval = n)
      /\ \A n : Unasked(r, n)' <=> Unasked(r, n) /\ ~(e.type = "request" /\ e.approval = n)
  BY <1>4, <1>7 DEF Unread, Unasked
<1>9. ASSUME UNCHANGED <<remote, approvals>>,
             runs'[r].requested = runs[r].requested \cup (IF e.type = "request" THEN {e.approval} ELSE {})
      PROVE  StreamFits(r)'
  <2>1. ASSUME NEW i \in 1..L PROVE EventFits(r, i)'
    <3>1. EventFits(r, i + 1) /\ OrderFits(r, 1, i + 1) /\ stream'[r][i] = stream[r][i + 1] /\ 1 < i + 1 /\ i \in Nat
      BY <1>1, <1>4, <1>5 DEF StreamFits
    <3>0. PICK d : d = stream[r][i + 1]
      OBVIOUS
    <3>2. d.type = "terminal" => i = L /\ remote[r] \in Statuses /\ d.status # "none"
      BY <1>2, <3>0, <3>1 DEF EventFits
    <3>3. d.type # "terminal" =>
            /\ d.approval \in 1..Len(approvals) /\ RunOf(d.approval) = r /\ e.approval <= d.approval
            /\ \A n \in runs[r].requested : n <= d.approval
            /\ (d.approval = e.approval => e.type = "request" /\ d.type = "responded")
      BY <1>1, <3>0, <3>1 DEF EventFits, OrderFits
    <3>4. d.type = "request" => d.approval \notin runs'[r].requested
      BY <1>9, <3>0, <3>1, <3>3 DEF EventFits
    <3>5. d.type = "responded" => d.approval \in runs'[r].requested \/ \E j \in 1..(i - 1) : Says(r, j, "request", d.approval)'
      <4>1. SUFFICES ASSUME d.type = "responded", d.approval \notin runs'[r].requested
                     PROVE  \E j \in 1..(i - 1) : Says(r, j, "request", d.approval)'
        OBVIOUS
      <4>2. PICK j \in 1..i : Says(r, j, "request", d.approval)
        BY <1>9, <3>0, <3>1, <4>1 DEF EventFits
      <4>3. j # 1
        BY <1>5, <1>9, <4>1, <4>2
      <4>4. j - 1 \in 1..(i - 1) /\ j - 1 \in 1..L /\ (j - 1) + 1 = j
        BY <3>1, <4>2, <4>3, <1>2
      <4> QED BY <1>5, <4>2, <4>4
    <3>6. stream'[r][i] = d /\ Len(stream'[r]) = L /\ UNCHANGED <<remote, approvals>>
      BY <1>4, <1>9, <3>0
    <3>7. d.type # "terminal" => \A n \in runs'[r].requested : n <= d.approval
      BY <1>9, <3>3
    <3>8. d.type = "responded" => approvals[d.approval].decision = d.choice /\ d.choice # "none"
      BY <3>0, <3>1 DEF EventFits
    <3> QED BY <3>2, <3>3, <3>4, <3>5, <3>6, <3>7, <3>8 DEF EventFits, RunOf
  <2>2. ASSUME NEW i \in 1..L, NEW j \in 1..L PROVE OrderFits(r, i, j)'
    <3>1. OrderFits(r, i + 1, j + 1) /\ (i < j => i + 1 < j + 1)
      BY <1>1, <1>4 DEF StreamFits
    <3> QED BY <1>4, <3>1 DEF OrderFits
  <2>3. ASSUME NEW n \in 1..Len(approvals), RunOf(n) = r PROVE AskFits(r, n)'
    <3>1. AskFits(r, n)
      BY <1>1, <2>3 DEF StreamFits
    <3>2. n \in runs'[r].requested \/ Unasked(r, n)'
      BY <1>8, <1>9, <3>1 DEF AskFits
    <3>3. ASSUME Unasked(r, n)', e.type = "responded" PROVE e.approval # n
      BY SMTT(40), <1>4, <3>3, <1>1, <1>5 DEF Unasked, StreamFits, Says, OrderFits
    <3> QED BY <1>8, <1>9, <3>1, <3>2, <3>3 DEF AskFits
  <2> QED BY <1>4, <1>9, <2>1, <2>2, <2>3 DEF StreamFits, RunOf
<1>10. (/\ UNCHANGED <<remote, approvals>>
        /\ runs'[r].requested = runs[r].requested \cup (IF e.type = "request" THEN {e.approval} ELSE {}))
       => StreamFits(r)'
  BY <1>9
<1>11. stream' \in [Runs -> Seq(Event)]
  BY <1>1, <1>3
<1> QED BY <1>3, <1>8, <1>10, <1>11

(* The event that arrives is the end of the Run, or is refused. *)
LEMMA ArrivingAborts ==
  ASSUME HermesInv, NEW r \in Runs, runs[r].pump = "reading", stream[r] # <<>>, stream' = [stream EXCEPT ![r] = Tail(@)],
         NEW now, AbortRun(r, now) \/ FailIncompatible(r, now), Abortable(r, now),
         UNCHANGED <<client, transport, startingBySession, knownSessions, retiredSessions, branches,
                     created, branched, remote, approvals, responses>>
  PROVE  HermesInv' /\ RunsMove
<1>1. Active(r) /\ stream' \in [Runs -> Seq(Event)] /\ \A q \in Runs \ {r} : stream'[q] = stream[q]
  BY HeardFacts, TailFacts
<1>2. Elsewhere
  BY DEF Elsewhere
<1>3. Evolves
  BY <1>1, <1>2, AbortStep DEF Active
<1>4. SessionsTyped' /\ ClientInv' /\ ApprovalsTyped'
  BY <1>1, <1>3 DEF HermesInv, Typed, SessionsTyped, ClientInv, ApprovalsTyped, Evolves
<1> QED BY <1>3, <1>4, EvolvedStep

(* An event that leaves what the Run asked. *)
LEMMA ArrivingKeeps ==
  ASSUME HermesInv, NEW r \in Runs, runs[r].pump = "reading", stream[r] # <<>>, stream' = [stream EXCEPT ![r] = Tail(@)],
         NEW e, e = Head(stream[r]), e.type # "request", NEW run \in RunRec, Keep([runs EXCEPT ![r] = run]),
         run.start = "started", run.owner = runs[r].owner, run.result = runs[r].result, run.pump = runs[r].pump,
         run.requested = runs[r].requested, run.resolved = runs[r].resolved, RunFits(run, remote[r]), CancelFits(run),
         e.type = "responded" => /\ PendingOf({r}) = {} /\ runs[r].confirmed = e.choice /\ run.confirmed = "none",
         e.type # "responded" => run.confirmed = runs[r].confirmed,
         UNCHANGED <<client, transport, startingBySession, knownSessions, retiredSessions, branches,
                     created, branched, remote, approvals, responses>>
  PROVE  HermesInv' /\ RunsMove
<1>1. /\ Active(r) /\ Heard(r) /\ StreamFits(r) /\ EventFits(r, 1) /\ e = stream[r][1] /\ runs \in [Runs -> RunRec]
      /\ stream' \in [Runs -> Seq(Event)] /\ \A q \in Runs \ {r} : stream'[q] = stream[q]
      /\ \A n : Unread(r, n)' <=> Unread(r, n) /\ ~(e.type = "responded" /\ e.approval = n)
  BY HeardFacts, TailFacts, ZenonT(60) DEF HermesInv, Typed, HereTyped
<1>2. runs' = [runs EXCEPT ![r] = run] /\ runs'[r] = run /\ UNCHANGED <<activeBySession, quarantinedSessions, handles, pendingApprovals>>
  BY <1>1 DEF Keep, SettledVars
<1>3. StreamFits(r)'
  BY <1>2, TailFacts
<1>4. /\ Heard(r)' /\ PendingOf({r})' = PendingOf({r}) /\ \A n \in 1..Len(approvals) : RunOf(n)' = RunOf(n)
      /\ \A n \in 1..Len(approvals) : RunOf(n) = r => ((Heard(RunOf(n))' <=> Heard(r)') /\ (Unread(RunOf(n), n)' <=> Unread(r, n)'))
  BY <1>1, <1>2 DEF Heard, Unheard, PendingOf, RunOf, Unread, Says
<1>5. AskedFits(r)'
  <2>1. AskedFits(r)
    BY DEF HermesInv, PendingInv
  <2>2. runs'[r].requested = runs[r].requested /\ runs'[r].resolved = runs[r].resolved /\ (Terminal(r)' <=> Terminal(r))
    BY <1>2 DEF Terminal
  <2> QED BY <1>4, <2>1, <2>2 DEF AskedFits
<1>6. ASSUME NEW n \in pendingApprovals', RunOf(n) = r PROVE PendingFits(n)'
  BY <1>2, <1>6, <1>1, <1>4 DEF HermesInv, PendingInv, Typed, ApprovalsTyped, PendingOf, RunOf, PendingFits
<1>7. ASSUME NEW n \in 1..Len(approvals), RunOf(n) = r PROVE ResponseFits(n)'
  <2>1. ResponseFits(n) /\ n \in Nat /\ responses[n] \in ResponseRec
    BY ApprovalFacts DEF HermesInv, ResponseInv
  <2>2. CASE e.type # "responded"
    BY <1>1, <1>2, <1>4, <1>7, <2>1, <2>2 DEF ResponseFits, InFlight
  <2>3. CASE e.type = "responded" /\ e.approval = n
    <3>1. approvals[n].decision = e.choice /\ ~Unread(r, n)'
      BY <1>1, <2>3 DEF EventFits
    <3>2. Unread(r, n)
      <4>1. Says(r, 1, "responded", n) /\ 1 \in 1..Len(stream[r])
        BY <1>1, <2>3, HeardFacts DEF Says
      <4> QED BY <4>1 DEF Unread
    <3> QED BY <1>1, <1>2, <1>4, <1>7, <2>1, <2>3, <3>1, <3>2 DEF ResponseFits, InFlight
  <2>4. CASE e.type = "responded" /\ e.approval # n
    BY <1>1, <1>7, <2>1, <2>4, HeardFacts, <1>2, <1>4 DEF ResponseFits, EventFits, Unread, Says, StreamFits, OrderFits, InFlight
  <2> QED BY <2>2, <2>3, <2>4
<1>8. Moves(r)
  BY <1>1, <1>2 DEF Moves, Active, Terminal
<1>9. UNCHANGED <<client, transport, handles, tables, branches, created, branched, remote, approvals>>
  BY <1>2 DEF tables
<1>10. responses' \in [1..MaxApprovals -> ResponseRec] /\ pendingApprovals' \subseteq 1..Len(approvals)
  BY <1>2 DEF HermesInv, Typed, ApprovalsTyped
<1> QED BY <1>1, <1>2, <1>3, <1>5, <1>6, <1>7, <1>8, <1>9, <1>10, TalkStep DEF Active

(* The end of the Run is signalled: the Provider is asked. *)
LEMMA SignalStep ==
  ASSUME HermesInv, NEW r \in Runs, runs[r].pump = "reading", stream[r] # <<>>, stream' = [stream EXCEPT ![r] = Tail(@)],
         Head(stream[r]).type = "terminal", TerminalSignal(r, Head(stream[r]).status),
         UNCHANGED <<client, transport, startingBySession, knownSessions, retiredSessions, branches,
                     created, branched, remote, approvals>>
  PROVE  HermesInv' /\ RunsMove
<1>0. PICK e : e = Head(stream[r])
  OBVIOUS
<1>1. /\ Active(r) /\ EventFits(r, 1) /\ e = stream[r][1] /\ e \in Event /\ e.type = "terminal" /\ e.status \in Statuses
      /\ runs[r] \in RunRec /\ runs \in [Runs -> RunRec] /\ RunFits(runs[r], remote[r]) /\ CancelFits(runs[r])
  BY <1>0, HeardFacts, RunFacts DEF EventFits, Event, HermesInv, Typed, HereTyped
<1>2. CASE runs[r].signal # "none"
  BY <1>1, <1>2, ActiveFacts, ArrivingAborts DEF TerminalSignal, Active
<1>3. CASE runs[r].signal = "none"
  <2> DEFINE run == [runs[r] EXCEPT !.signal = e.status, !.reconcile = "poll"]
  <2>1. runs[r].reconcile = "none"
    BY <1>1, <1>3 DEF RunFits
  <2>2. [runs EXCEPT ![r].signal = e.status, ![r].reconcile = IF @ = "none" THEN "poll" ELSE @] = [runs EXCEPT ![r] = run]
    BY <1>1, <2>1 DEF RunRec
  <2>3. /\ run \in RunRec /\ run.signal = e.status /\ run.reconcile = "poll"
        /\ run.start = runs[r].start /\ run.owner = runs[r].owner /\ run.result = runs[r].result /\ run.pump = runs[r].pump
        /\ run.incompatible = runs[r].incompatible /\ run.answer = runs[r].answer /\ run.timedOut = runs[r].timedOut
        /\ run.cancel = runs[r].cancel /\ run.requested = runs[r].requested /\ run.resolved = runs[r].resolved
        /\ run.confirmed = runs[r].confirmed
    BY <1>1 DEF RunRec
  <2>4. UNCHANGED responses /\ Keep([runs EXCEPT ![r] = run])
    BY <1>0, <1>3, <2>2 DEF TerminalSignal
  <2> HIDE DEF run
  <2>5. RunFits(run, remote[r]) /\ CancelFits(run)
    BY <1>1, <2>3 DEF RunFits, CancelFits, Active, Terminal, Statuses
  <2> QED BY <1>0, <1>1, <2>3, <2>4, <2>5, ArrivingKeeps DEF Active
<1> QED BY <1>2, <1>3

(* An approval is asked. *)
LEMMA RequestedStep ==
  ASSUME HermesInv, NEW r \in Runs, runs[r].pump = "reading", stream[r] # <<>>, stream' = [stream EXCEPT ![r] = Tail(@)],
         Head(stream[r]).type = "request", NEW room, ApprovalRequested(r, Head(stream[r]).approval, room),
         UNCHANGED <<client, transport, startingBySession, knownSessions, retiredSessions, branches,
                     created, branched, remote, approvals>>
  PROVE  HermesInv' /\ RunsMove
<1>0. PICK e, n : e = Head(stream[r]) /\ n = e.approval
  OBVIOUS
<1>1. /\ Active(r) /\ Heard(r) /\ StreamFits(r) /\ EventFits(r, 1) /\ e = stream[r][1] /\ runs[r] \in RunRec /\ runs \in [Runs -> RunRec]
      /\ RunFits(runs[r], remote[r]) /\ CancelFits(runs[r]) /\ e.type = "request"
      /\ stream' \in [Runs -> Seq(Event)] /\ \A q \in Runs \ {r} : stream'[q] = stream[q]
      /\ \A m : Unread(r, m)' <=> Unread(r, m)
      /\ 1 \in 1..Len(stream[r])
  <2>1. /\ Active(r) /\ Heard(r) /\ StreamFits(r) /\ EventFits(r, 1) /\ e = stream[r][1] /\ Len(stream[r]) \in Nat \ {0}
        /\ e.type = "request"
    BY <1>0, HeardFacts
  <2>2. /\ stream' \in [Runs -> Seq(Event)] /\ \A q \in Runs \ {r} : stream'[q] = stream[q]
        /\ \A m : Unread(r, m)' <=> Unread(r, m)
    BY <1>0, <2>1, TailFacts
  <2>3. /\ runs[r] \in RunRec /\ runs \in [Runs -> RunRec] /\ RunFits(runs[r], remote[r]) /\ CancelFits(runs[r])
    BY RunFacts DEF HermesInv, Typed, HereTyped
  <2> QED BY <2>1, <2>2, <2>3
<1>2. /\ n \in 1..Len(approvals) /\ n \in 1..MaxApprovals /\ RunOf(n) = r /\ n \notin runs[r].requested
      /\ \A m \in runs[r].requested : m <= n
  BY <1>0, <1>1, ApprovalFacts DEF EventFits
<1> DEFINE requested == runs[r].requested \cup {n}
           asked == [runs[r] EXCEPT !.requested = requested]
<1>3. /\ asked \in RunRec /\ asked.requested = requested
      /\ asked.start = runs[r].start /\ asked.owner = runs[r].owner /\ asked.result = runs[r].result /\ asked.pump = runs[r].pump
      /\ asked.incompatible = runs[r].incompatible /\ asked.answer = runs[r].answer /\ asked.timedOut = runs[r].timedOut
      /\ asked.cancel = runs[r].cancel /\ asked.signal = runs[r].signal /\ asked.resolved = runs[r].resolved
      /\ asked.confirmed = runs[r].confirmed /\ asked.reconcile = runs[r].reconcile
  BY <1>1, <1>2, ZenonT(60) DEF RunRec
<1>4. [runs EXCEPT ![r].requested = @ \cup {n}] = [runs EXCEPT ![r] = asked]
  OBVIOUS
<1>5. UNCHANGED responses
  BY DEF ApprovalRequested
<1>6. CASE ~SupportsApproval \/ PendingOf({r}) # {}
  BY <1>1, <1>6, ActiveFacts, <1>5, ArrivingAborts DEF ApprovalRequested, Active
<1>7. CASE ~(~SupportsApproval \/ PendingOf({r}) # {}) /\ ~room
  <2> DEFINE resolved == runs[r].resolved \cup {n}
             run == [asked EXCEPT !.resolved = resolved]
  <2>1. /\ run \in RunRec /\ run.requested = requested /\ run.resolved = resolved
        /\ run.start = runs[r].start /\ run.owner = runs[r].owner /\ run.cancel = runs[r].cancel
    <3> HIDE DEF asked
    <3>1. resolved \in SUBSET (1..MaxApprovals)
      BY <1>1, <1>2 DEF RunRec
    <3> HIDE DEF resolved
    <3>2. run \in RunRec /\ run.resolved = resolved
      BY <1>3, <3>1 DEF RunRec
    <3> QED BY <1>3, <3>2 DEF RunRec
  <2>2. AbortRun(r, [[runs EXCEPT ![r].requested = @ \cup {n}] EXCEPT ![r].resolved = @ \cup {n}])
    BY <1>0, <1>7 DEF ApprovalRequested
  <2>3. [[runs EXCEPT ![r].requested = @ \cup {n}] EXCEPT ![r].resolved = @ \cup {n}] = [runs EXCEPT ![r] = run]
    <3> DEFINE now == [runs EXCEPT ![r] = asked]
    <3> HIDE DEF asked
    <3>1. now[r] = asked /\ asked.resolved \cup {n} = resolved
      BY <1>1, <1>3
    <3>2. [now EXCEPT ![r].resolved = @ \cup {n}] = [now EXCEPT ![r] = run]
      <4> HIDE DEF now
      <4> QED BY <3>1
    <3>3. [now EXCEPT ![r] = run] = [runs EXCEPT ![r] = run]
      <4> HIDE DEF run
      <4> QED BY <1>1
    <3> QED BY <1>4, <3>2, <3>3
  <2> DEFINE now == [runs EXCEPT ![r] = run]
  <2> HIDE DEF run
  <2>4. AbortRun(r, now) /\ now \in [Runs -> RunRec] /\ now[r] = run /\ \A q \in Runs \ {r} : now[q] = runs[q]
    BY <1>1, <2>1, <2>2, <2>3
  <2> HIDE DEF now
  <2>5. Abortable(r, now)
    <3>1. /\ runs[r].requested \ runs[r].resolved = PendingOf({r}) /\ runs[r].resolved \subseteq runs[r].requested
          /\ Asked(r, runs[r].requested) /\ runs[r].cancel \in Waiting \cup {"none", "error"}
      BY <1>1, ActiveFacts DEF Active
    <3>2. Asked(r, requested) /\ resolved \subseteq requested /\ requested \ resolved = PendingOf({r})
      BY <1>2, <1>7, <3>1 DEF Asked
    <3> QED BY <1>1, <2>1, <2>4, <3>1, <3>2 DEF Abortable, Active
  <2> QED BY <1>5, <2>4, <2>5, ArrivingAborts
<1>8. CASE ~(~SupportsApproval \/ PendingOf({r}) # {}) /\ room
  <2>1. runs' = [runs EXCEPT ![r] = asked] /\ pendingApprovals' = pendingApprovals \cup {n} /\ UNCHANGED <<activeBySession, quarantinedSessions, handles>>
    BY <1>0, <1>4, <1>8 DEF ApprovalRequested
  <2> HIDE DEF asked
  <2>2. runs'[r] = asked /\ runs'[r].requested = runs[r].requested \cup {n}
    BY <1>1, <1>3, <2>1
  <2>3. StreamFits(r)'
    BY <1>0, <1>1, <2>2, TailFacts
  <2>4. /\ Heard(r)' /\ PendingOf({r})' = {n} /\ PendingOf({r}) = {} /\ \A m \in 1..Len(approvals) : RunOf(m)' = RunOf(m)
        /\ \A m \in 1..Len(approvals) : RunOf(m) = r => ((Heard(RunOf(m))' <=> Heard(r)') /\ (Unread(RunOf(m), m)' <=> Unread(r, m)'))
    <3>1. approvals' = approvals /\ n \in 1..Len(approvals) /\ approvals[n].run = r /\ PendingOf({r}) = {}
      BY <1>0, <1>2, <1>8 DEF RunOf
    <3>2. \A m \in 1..Len(approvals) : RunOf(m)' = RunOf(m)
      BY <3>1 DEF RunOf
    <3>3. PendingOf({r})' = {n}
      BY <2>1, <3>1 DEF PendingOf
    <3>4. Heard(r)'
      BY <1>1, <1>3, <2>2 DEF Heard, Unheard
    <3>5. ASSUME NEW m \in 1..Len(approvals), RunOf(m) = r
          PROVE  (Heard(RunOf(m))' <=> Heard(r)') /\ (Unread(RunOf(m), m)' <=> Unread(r, m)')
      <4>1. RunOf(m)' = r
        BY <3>2, <3>5
      <4> QED BY <4>1 DEF Heard, Unheard, Unread, Says
    <3> QED BY <3>1, <3>2, <3>3, <3>4, <3>5
  <2>5. AskedFits(r)'
    <3>1. /\ runs[r].resolved \subseteq runs[r].requested /\ runs[r].requested \ runs[r].resolved = {}
          /\ \A m \in runs[r].requested : m \in 1..Len(approvals) /\ RunOf(m) = r
      BY <2>4 DEF HermesInv, PendingInv, AskedFits
    <3>2. requested \ runs[r].resolved = {n} /\ runs[r].resolved \subseteq requested
      BY <1>2, <3>1
    <3>3. ~Terminal(r)' /\ runs'[r].requested = requested /\ runs'[r].resolved = runs[r].resolved
      BY <1>1, <1>3, <2>2 DEF Active, Terminal
    <3> QED BY <1>2, <2>4, <3>1, <3>2, <3>3 DEF AskedFits
  <2>6. Unread(r, n) \/ approvals[n].decision = "none"
    BY <1>0, <1>1, <1>2 DEF Says, StreamFits, AskFits, Unasked
  <2>7. ASSUME NEW m \in pendingApprovals', RunOf(m) = r PROVE PendingFits(m)'
    BY <2>1, <2>4, <2>7, <1>2, <1>1, <1>3, <2>2, <2>6 DEF PendingOf, RunOf, PendingFits
  <2>8. ASSUME NEW m \in 1..Len(approvals), RunOf(m) = r PROVE ResponseFits(m)'
    BY <2>2, <1>1, <1>2, <2>6, <1>5, <2>1, <1>3, <2>4, <2>8 DEF HermesInv, ResponseInv, ResponseFits, InFlight
  <2>9. RunFits(asked, remote[r]) /\ CancelFits(asked)
    BY <1>1, <1>3 DEF RunFits, CancelFits, Active
  <2>10. Moves(r)
    BY <1>1, <1>3, <2>2 DEF Moves, Active, Terminal
  <2>11. UNCHANGED <<client, transport, handles, tables, branches, created, branched, remote, approvals>>
    BY <2>1 DEF tables
  <2>12. responses' \in [1..MaxApprovals -> ResponseRec] /\ pendingApprovals' \subseteq 1..Len(approvals)
    BY <1>2, <1>5, <2>1 DEF HermesInv, Typed, ApprovalsTyped
  <2>13. \A m \in 1..Len(approvals) : RunOf(m) # r => (m \in pendingApprovals' <=> m \in pendingApprovals)
    BY <1>2, <2>1
  <2> QED BY <1>1, <1>3, <1>5, <2>1, <2>3, <2>5, <2>7, <2>8, <2>9, <2>10, <2>11, <2>12, <2>13, TalkStep DEF Active
<1> QED BY <1>6, <1>7, <1>8

(* A decision is read of an approval that is pending. *)
LEMMA DecidedStep ==
  ASSUME HermesInv, NEW r \in Runs, runs[r].pump = "reading", stream[r] # <<>>, stream' = [stream EXCEPT ![r] = Tail(@)],
         NEW e, e = Head(stream[r]), e.type = "responded", PendingOf({r}) # {}, Resolve(r, runs),
         responses' = [n \in DOMAIN responses |->
           IF n \in PendingOf({r}) /\ InFlight(n) THEN [responses[n] EXCEPT !.provider = e.choice] ELSE responses[n]],
         UNCHANGED <<client, transport, startingBySession, knownSessions, retiredSessions, branches,
                     created, branched, remote, approvals>>
  PROVE  HermesInv' /\ RunsMove
<1>0. PICK n : n = e.approval
  OBVIOUS
<1>1. /\ Active(r) /\ Heard(r) /\ StreamFits(r) /\ EventFits(r, 1) /\ e = stream[r][1] /\ e \in Event /\ 1 \in 1..Len(stream[r])
  BY HeardFacts
<1>2. /\ stream' \in [Runs -> Seq(Event)] /\ \A q \in Runs \ {r} : stream'[q] = stream[q]
      /\ \A m : Unread(r, m)' <=> Unread(r, m) /\ m # n
  BY <1>0, TailFacts
<1>3. /\ runs[r] \in RunRec /\ runs \in [Runs -> RunRec] /\ RunFits(runs[r], remote[r]) /\ CancelFits(runs[r])
      /\ responses \in [1..MaxApprovals -> ResponseRec] /\ pendingApprovals \subseteq 1..Len(approvals)
  BY RunFacts DEF HermesInv, Typed, HereTyped, ApprovalsTyped
<1>4. /\ n \in 1..Len(approvals) /\ RunOf(n) = r /\ approvals[n].decision = e.choice /\ e.choice \in Choices /\ e.choice # "none"
      /\ n \in runs[r].requested /\ \A m \in runs[r].requested : m <= n
  BY <1>0, <1>1 DEF EventFits, Event
<1>5. /\ PendingOf({r}) = {n} /\ n \in 1..MaxApprovals
      /\ runs[r].resolved \subseteq runs[r].requested /\ runs[r].requested \ runs[r].resolved = {n}
  <2>1. PICK m \in PendingOf({r}) : TRUE
    OBVIOUS
  <2>2. PendingOf({r}) = {m} /\ m \in 1..Len(approvals) /\ m \in runs[r].requested /\ \A k \in runs[r].requested : k <= m
    BY <2>1, OnePending
  <2>3. m \in Nat /\ n \in Nat /\ m <= n /\ n <= m
    BY <1>4, <2>2
  <2>4. m = n
    BY <2>3
  <2>5. n \in 1..MaxApprovals
    BY <1>4, ApprovalFacts
  <2> QED BY <2>2, <2>4, <2>5, ActiveFacts
<1> DEFINE run == [runs[r] EXCEPT !.resolved = runs[r].requested]
<1>6. /\ run \in RunRec /\ run.resolved = runs[r].requested /\ run.requested = runs[r].requested
      /\ run.start = runs[r].start /\ run.owner = runs[r].owner /\ run.result = runs[r].result /\ run.pump = runs[r].pump
      /\ run.incompatible = runs[r].incompatible /\ run.answer = runs[r].answer /\ run.timedOut = runs[r].timedOut
      /\ run.cancel = runs[r].cancel /\ run.signal = runs[r].signal
      /\ run.confirmed = runs[r].confirmed /\ run.reconcile = runs[r].reconcile
  BY <1>3 DEF RunRec
<1>7. runs' = [runs EXCEPT ![r] = run] /\ runs'[r] = run
  <2>1. runs[r].resolved \cup PendingOf({r}) = runs[r].requested /\ ~Terminal(r)
    BY <1>1, <1>5 DEF Active
  <2>2. runs' = [runs EXCEPT ![r].resolved = IF Terminal(r) THEN @ ELSE @ \cup PendingOf({r})]
    BY DEF Resolve
  <2>3. runs' = [runs EXCEPT ![r] = run]
    BY <2>1, <2>2
  <2> HIDE DEF run
  <2> QED BY <1>3, <2>3
<1> HIDE DEF run
<1>8. pendingApprovals' = pendingApprovals \ {n} /\ UNCHANGED <<activeBySession, quarantinedSessions, handles>>
  BY <1>5 DEF Resolve
<1>9. StreamFits(r)'
  BY <1>6, <1>7, TailFacts
<1>10. /\ Heard(r)' /\ PendingOf({r})' = {} /\ \A m \in 1..Len(approvals) : RunOf(m)' = RunOf(m)
       /\ \A m \in 1..Len(approvals) : RunOf(m) = r => ((Heard(RunOf(m))' <=> Heard(r)') /\ (Unread(RunOf(m), m)' <=> Unread(r, m)'))
  BY <1>1, <1>6, <1>7, <1>8, <1>5 DEF Heard, Unheard, PendingOf, RunOf, Unread, Says
<1>11. AskedFits(r)'
  <2>1. \A m \in runs[r].requested : m \in 1..Len(approvals) /\ RunOf(m) = r
    BY DEF HermesInv, PendingInv, AskedFits
  <2> QED BY <1>6, <1>7, <1>10, <2>1 DEF AskedFits
<1>12. \A m \in 1..Len(approvals) : RunOf(m) = r => m \notin pendingApprovals'
  BY <1>5, <1>8 DEF PendingOf, RunOf
<1>13. ASSUME NEW m \in 1..Len(approvals), RunOf(m) = r PROVE ResponseFits(m)'
  BY ApprovalFacts, <1>6, <1>7, <1>3, <1>5, <1>2, <1>4, <1>10, <1>12, <1>13, <1>1
     DEF HermesInv, ResponseInv, ResponseRec, ResponseFits, InFlight, PendingOf, RunOf
<1>14. responses' \in [1..MaxApprovals -> ResponseRec] /\ \A m \in 1..MaxApprovals : m # n => responses'[m] = responses[m]
  <2>1. \A m \in 1..MaxApprovals : responses'[m] \in ResponseRec /\ (m # n => responses'[m] = responses[m])
    <3>1. SUFFICES ASSUME NEW m \in 1..MaxApprovals PROVE responses'[m] \in ResponseRec /\ (m # n => responses'[m] = responses[m])
      OBVIOUS
    <3>2. responses[m] \in ResponseRec /\ [responses[m] EXCEPT !.provider = e.choice] \in ResponseRec
      BY <1>3, <1>4, <3>1 DEF ResponseRec
    <3> QED BY <1>3, <1>5, <3>1, <3>2
  <2> QED BY <1>3, <2>1
<1>15. RunFits(run, remote[r]) /\ CancelFits(run) /\ Moves(r)
  BY <1>1, <1>3, <1>5, <1>6, <1>7 DEF RunFits, CancelFits, Active, Moves, Terminal
<1>16. UNCHANGED <<client, transport, handles, tables, branches, created, branched, remote, approvals>>
  BY <1>8 DEF tables
<1>17. /\ pendingApprovals' \subseteq 1..Len(approvals)
       /\ \A m \in 1..Len(approvals) : RunOf(m) # r => (m \in pendingApprovals' <=> m \in pendingApprovals)
       /\ \A m \in pendingApprovals' : RunOf(m) = r => PendingFits(m)'
       /\ \A m \in 1..MaxApprovals : m \notin 1..Len(approvals) \/ RunOf(m) # r => responses'[m] = responses[m]
  BY <1>3, <1>4, <1>8, <1>12, <1>14
<1> QED BY <1>1, <1>2, <1>6, <1>7, <1>9, <1>11, <1>13, <1>14, <1>15, <1>16, <1>17, TalkStep DEF Active

LEMMA EventArrivesStep ==
  ASSUME HermesInv, NEW r \in Runs, NEW room, EventArrives(r, room)
  PROVE  HermesInv' /\ RunsMove
<1>0. PICK e : e = Head(stream[r])
  OBVIOUS
<1>1. /\ runs[r].pump = "reading" /\ stream[r] # <<>> /\ stream' = [stream EXCEPT ![r] = Tail(@)]
      /\ UNCHANGED <<client, transport, startingBySession, knownSessions, retiredSessions, branches,
                     created, branched, remote, approvals>>
  BY DEF EventArrives
<1>2. e \in Event /\ e.type \in {"request", "responded", "terminal"} /\ Active(r) /\ Abortable(r, runs)
  BY <1>0, <1>1, HeardFacts, ActiveFacts DEF Event, Active
<1>3. CASE e.type = "terminal"
  BY <1>0, <1>1, <1>3, SignalStep DEF EventArrives
<1>4. CASE e.type # "terminal" /\ runs[r].signal # "none"
  BY <1>0, <1>4, <1>1, <1>2, ArrivingAborts DEF EventArrives
<1>5. CASE e.type = "request" /\ runs[r].signal = "none"
  BY <1>0, <1>5, <1>1, RequestedStep DEF EventArrives
<1>6. CASE e.type = "responded" /\ runs[r].signal = "none"
  <2>1. ApprovalResponded(r, e.choice)
    BY <1>0, <1>6 DEF EventArrives
  <2>2. CASE PendingOf({r}) # {}
    BY <1>0, <1>1, <1>6, <2>1, <2>2, DecidedStep DEF ApprovalResponded
  <2>3. CASE PendingOf({r}) = {} /\ runs[r].confirmed = e.choice
    <3> DEFINE run == [runs[r] EXCEPT !.confirmed = "none"]
    <3>1. Keep([runs EXCEPT ![r] = run]) /\ UNCHANGED responses
      BY <2>1, <2>3 DEF ApprovalResponded
    <3>2. runs[r] \in RunRec /\ RunFits(runs[r], remote[r]) /\ CancelFits(runs[r])
      BY RunFacts
    <3>3. /\ run \in RunRec /\ run.confirmed = "none" /\ run.requested = runs[r].requested /\ run.resolved = runs[r].resolved
          /\ run.start = runs[r].start /\ run.owner = runs[r].owner /\ run.result = runs[r].result /\ run.pump = runs[r].pump
          /\ run.incompatible = runs[r].incompatible /\ run.answer = runs[r].answer /\ run.timedOut = runs[r].timedOut
          /\ run.cancel = runs[r].cancel /\ run.signal = runs[r].signal /\ run.reconcile = runs[r].reconcile
      BY <3>2 DEF RunRec
    <3> HIDE DEF run
    <3>4. RunFits(run, remote[r]) /\ CancelFits(run) /\ run.start = "started"
      BY <1>2, <3>2, <3>3 DEF RunFits, CancelFits, Active
    <3> QED BY <1>0, <1>1, <1>6, <2>3, <3>1, <3>3, <3>4, ArrivingKeeps
  <2>4. CASE PendingOf({r}) = {} /\ runs[r].confirmed # e.choice
    BY <2>1, <2>4, <1>1, <1>2, ArrivingAborts DEF ApprovalResponded
  <2> QED BY <2>2, <2>3, <2>4
<1> QED BY <1>2, <1>3, <1>4, <1>5, <1>6

-------------------------------------------------------------------------------
LEMMA HermesInit ==
  ASSUME Init PROVE HermesInv
<1>1. Typed
  BY BoundAssumption DEF Init, HereTyped, HandleRec, RunRec, SessionsTyped, ApprovalsTyped, ResponseRec, Typed
<1>2. ClientInv /\ HandleInv /\ OwnerInv
  BY DEF Init, ClientInv, HandleInv, OwnerInv
<1>3. RunInv
  BY DEF Init, RunInv, RunFits, Fresh, CancelFits
<1>4. PlaceInv
  BY DEF Init, PlaceInv, Starting, Active
<1>5. WorkInv
  BY DEF Init, WorkInv, Works
<1>6. Len(approvals) = 0 /\ \A r \in Runs : stream[r] = <<>> /\ Len(stream[r]) = 0
  BY DEF Init
<1>7. ProviderInv /\ StreamInv
  BY <1>6 DEF ProviderInv, StreamInv, StreamFits
<1>8. PendingInv
  BY DEF Init, PendingInv, AskedFits, PendingOf
<1>9. ResponseInv
  BY <1>6 DEF Init, ResponseInv
<1> QED BY <1>1, <1>2, <1>3, <1>4, <1>5, <1>7, <1>8, <1>9 DEF HermesInv

LEMMA HermesNext ==
  ASSUME HermesInv, Next PROVE HermesInv' /\ RunsMove
<1>1. CASE SessionRequest
  BY <1>1, ConnectStep, CreatedStep, ResumedStep DEF SessionRequest
<1>2. CASE Close \/ \E profile \in ProfileOutcomes : Connect(profile)
  BY <1>2, CloseStep, ConnectStep
<1>3. ASSUME NEW h \in Handles, CloseSession(h) PROVE HermesInv' /\ RunsMove
  BY <1>3, CloseSessionStep
<1>4. ASSUME NEW h \in Handles, Create(h) \/ \E s \in Sessions : Resume(h, s) PROVE HermesInv' /\ RunsMove
  BY <1>4, CreateStep
<1>5. ASSUME NEW s \in Sessions, Branch(s) \/ BranchRequest(s) PROVE HermesInv' /\ RunsMove
  BY <1>5, BranchStep, BranchedStep DEF BranchRequest
<1>6. ASSUME NEW r \in Runs, \/ \E h \in Handles : StartRun(r, h)
                             \/ StartRequest(r) \/ CancelRequest(r) \/ PollRequest(r) \/ Settlement(r) \/ CancelGivesUp(r)
      PROVE  HermesInv' /\ RunsMove
  BY <1>6, StartRunStep, StartRequestStep, CancelAnsweredStep, PollStep, SettlementStep, CancelGivesUpStep
     DEF StartRequest, CancelRequest, PollRequest
<1>7. ASSUME NEW r \in Runs, \/ ProgressArrives(r) \/ \E room \in Room : EventArrives(r, room)
                             \/ \E how \in {"lost", "invalid", "refused"} : StreamEnds(r, how)
                             \/ \E timer \in BOOLEAN : Cancel(r, timer)
                             \/ Provider(r)
      PROVE  HermesInv' /\ RunsMove
  BY <1>7, ProgressStep, EventArrivesStep, StreamEndsStep, CancelStep, ProviderStep
<1>8. ASSUME NEW n \in 1..Len(approvals), \/ AnswerRequest(n) \/ ProviderTakes(n)
                                          \/ \E h \in Handles, choice \in Choices : Respond(h, n, choice)
      PROVE  HermesInv' /\ RunsMove
  BY <1>8, RespondedStep, ProviderTakesStep, RespondStep DEF AnswerRequest
<1> QED BY <1>1, <1>2, <1>3, <1>4, <1>5, <1>6, <1>7, <1>8 DEF Next

LEMMA HermesStutters ==
  ASSUME HermesInv, UNCHANGED vars PROVE HermesInv' /\ RunsMove
<1>1. HermesInv'
  <2> USE DEF vars, tables, provider, HermesInv
  <2>1. Typed' /\ ClientInv' /\ HandleInv' /\ RunInv' /\ OwnerInv'
    BY DEF Typed, HereTyped, SessionsTyped, ApprovalsTyped, ClientInv, HandleInv, RunInv, OwnerInv
  <2>2. PlaceInv'
    BY DEF PlaceInv, Starting, Active, SessionOf, Terminal
  <2>3. WorkInv'
    BY DEF WorkInv, Works, Underway, Starting, Active, SessionOf, Terminal, HasWork
  <2>4. ProviderInv'
    BY DEF ProviderInv, RunOf
  <2>5. StreamInv'
    BY DEF StreamInv, Heard, Unheard, StreamFits, EventFits, OrderFits, AskFits, Says, Unread, Unasked, RunOf
  <2>6. PendingInv'
    BY DEF PendingInv, AskedFits, PendingFits, PendingOf, Terminal, Heard, Unheard, Unread, Says, RunOf
  <2>7. ResponseInv'
    BY DEF ResponseInv, ResponseFits, InFlight, Heard, Unheard, Unread, Says, RunOf
  <2> QED BY <2>1, <2>2, <2>3, <2>4, <2>5, <2>6, <2>7
<1>2. RunsMove
  BY RunFacts DEF vars, RunsMove, Moves, RunFits, Fresh, Terminal
<1> QED BY <1>1, <1>2

LEMMA HermesInvariant == Spec => []HermesInv
<1>1. HermesInv /\ [Next]_vars => HermesInv'
  BY HermesNext, HermesStutters
<1> QED BY HermesInit, <1>1, PTL DEF Spec

LEMMA TypedIsTypeOK ==
  ASSUME Typed PROVE TypeOK
BY DEF Typed, HereTyped, SessionsTyped, ApprovalsTyped, TypeOK, RunRec, HandleRec, ApprovalRec, ResponseRec

LEMMA SessionsAreExclusive ==
  ASSUME HermesInv PROVE SessionsExclusive
<1>1. TypeOK
  BY TypedIsTypeOK DEF HermesInv
<1>2. ASSUME NEW s \in Sessions PROVE
        /\ Cardinality(Working(s)) <= 1
        /\ \A r \in Working(s) : (Terminal(r) \/ runs[r].start = "refused") => s \in quarantinedSessions
  <2>1. \A r \in Working(s) : r \in Runs /\ Works(r) /\ SessionOf(r) = s
    BY DEF Working, Works
  <2>2. \A q, r \in Working(s) : q = r
    BY <2>1 DEF HermesInv, WorkInv
  <2>3. Cardinality(Working(s)) <= 1
    <3>1. CASE Working(s) = {}
      BY <3>1, FS_EmptySet
    <3>2. CASE Working(s) # {}
      BY <3>2, <2>2, FS_Singleton
    <3> QED BY <3>1, <3>2
  <2>4. \A r \in Working(s) : (Terminal(r) \/ runs[r].start = "refused") => s \in quarantinedSessions
    BY <2>1 DEF HermesInv, WorkInv, Underway, Starting, Active, RunInv, RunFits, Fresh, Terminal
  <2> QED BY <2>3, <2>4
<1>3. ASSUME NEW s \in Sessions, s \in branched, branches[s] # "post"
      PROVE  /\ Working(s) = {}
             /\ (\E t \in created \ {s} : t \in knownSessions) => s \in retiredSessions \cup quarantinedSessions
  BY <1>3 DEF HermesInv, WorkInv, Working, Works
<1>4. client \in {"failed", "closed"} => transport # "open"
  BY DEF HermesInv, ClientInv
<1> QED BY <1>1, <1>2, <1>3, <1>4 DEF SessionsExclusive

LEMMA ApprovalsAreTruthful ==
  ASSUME HermesInv PROVE ApprovalsTruthful
<1>1. \A r \in Runs : Terminal(r) => runs[r].resolved = runs[r].requested
  BY DEF HermesInv, PendingInv, AskedFits
<1>2. ASSUME NEW n \in pendingApprovals PROVE ~Terminal(approvals[n].run) /\ client = "open"
  <2>1. n \in 1..Len(approvals) /\ RunOf(n) \in Runs
    BY ApprovalFacts DEF HermesInv, Typed, ApprovalsTyped
  <2>2. n \in PendingOf({RunOf(n)})
    BY DEF PendingOf, RunOf
  <2>3. ~Terminal(RunOf(n)) /\ n \in runs[RunOf(n)].requested
    BY <2>1, <2>2, ActiveFacts DEF HermesInv, PendingInv, AskedFits
  <2>4. Active(RunOf(n))
    BY <2>1, <2>3, RunFacts DEF RunFits, Fresh, Active
  <2> QED BY <2>1, <2>3, <2>4 DEF HermesInv, PlaceInv, RunOf
<1>3. ASSUME NEW n \in 1..Len(approvals), responses[n].at = "ok", runs[RunOf(n)].pump = "reading",
             ~\E i \in DOMAIN stream[RunOf(n)] : stream[RunOf(n)][i].type = "responded" /\ stream[RunOf(n)][i].approval = n
      PROVE  approvals[n].decision = responses[n].choice
  <2>1. RunOf(n) \in Runs /\ ResponseFits(n)
    BY ApprovalFacts DEF HermesInv, ResponseInv
  <2>2. Heard(RunOf(n))
    BY <1>3, <2>1, ActiveFacts DEF Heard, Unheard, Active
  <2>3. stream[RunOf(n)] \in Seq(Event)
    BY <2>1 DEF HermesInv, Typed, ApprovalsTyped
  <2>4. ~Unread(RunOf(n), n)
    BY <1>3, <2>3 DEF Unread, Says
  <2> QED BY <1>3, <2>1, <2>2, <2>4 DEF ResponseFits
<1> QED BY <1>1, <1>2, <1>3 DEF ApprovalsTruthful, RunOf

LEMMA EndsAreTruthful ==
  ASSUME HermesInv PROVE EndsTruthful
<1>1. SUFFICES ASSUME NEW r \in Runs
               PROVE  /\ (runs[r].result \in Statuses /\ ~runs[r].incompatible) =>
                           (remote[r] = runs[r].result /\ runs[r].signal \in {"none", remote[r]})
                      /\ CancelFits(runs[r])
  BY DEF EndsTruthful, CancelFits, Terminal
<1> QED BY RunFacts DEF RunFits

(* HermesSound, in every instance: Sessions have one Run and nothing uncertain is built on,          *)
(* approvals and the ends of Runs are what the evidence says.                                       *)
THEOREM HermesIsSound == Spec => []HermesSound
<1>1. HermesInv => HermesSound
  BY SessionsAreExclusive, ApprovalsAreTruthful, EndsAreTruthful DEF HermesSound
<1> QED BY <1>1, HermesInvariant, PTL

-------------------------------------------------------------------------------
(* The contract. *)
StatusOf(run) ==
  CASE run.start # "started"                        -> "none"
    [] run.start = "started" /\ run.result # "none" -> run.result
    [] run.start = "started" /\ run.result = "none" -> "active"

LEMMA HermesRefines ==
  ASSUME HermesInv, HermesInv', RunsMove
  PROVE  Contract!Next
<1> DEFINE status == [r \in Runs |-> CASE runs[r].start # "started" -> "none"
                             [] runs[r].start = "started" /\ Terminal(r) -> runs[r].result
                             [] runs[r].start = "started" /\ ~Terminal(r) -> "active"]
<1>1. ASSUME NEW r \in Runs
      PROVE  /\ runs[r] \in RunRec /\ runs'[r] \in RunRec /\ runs'[r].resolved \subseteq runs'[r].requested
             /\ status[r] = StatusOf(runs[r]) /\ status'[r] = StatusOf(runs'[r])
             /\ runs[r].start # "started" => runs[r].requested = {} /\ runs[r].resolved = {}
             /\ runs'[r].start # "started" => runs'[r].requested = {} /\ runs'[r].resolved = {}
  <2>1. /\ runs[r] \in RunRec /\ runs'[r] \in RunRec /\ runs'[r].resolved \subseteq runs'[r].requested
        /\ runs[r].start # "started" => runs[r].requested = {} /\ runs[r].resolved = {}
        /\ runs'[r].start # "started" => runs'[r].requested = {} /\ runs'[r].resolved = {}
    <3>1. /\ runs[r] \in RunRec /\ runs'[r] \in RunRec
      BY DEF HermesInv, Typed, HereTyped
    <3>2. AskedFits(r)' /\ RunFits(runs[r], remote[r]) /\ RunFits(runs'[r], remote'[r])
      BY DEF HermesInv, RunInv, PendingInv
    <3> QED BY <3>1, <3>2 DEF RunFits, Fresh, AskedFits
  <2>2. status[r] = StatusOf(runs[r]) /\ status'[r] = StatusOf(runs'[r])
    BY DEF StatusOf, Terminal
  <2> QED BY <2>1, <2>2
<1> HIDE DEF status
<1>2. ASSUME NEW run \in RunRec
      PROVE  /\ StatusOf(run) \in {"none", "active"} \cup Terminals
             /\ StatusOf(run) = "none" <=> run.start # "started"
             /\ StatusOf(run) = "active" <=> run.start = "started" /\ run.result = "none"
             /\ run.start = "started" /\ run.result # "none" => StatusOf(run) = run.result
  BY <1>2 DEF StatusOf, RunRec, Terminals, Statuses
<1>3. ASSUME NEW r \in Runs
      PROVE  \/ status'[r] = status[r] /\ runs'[r].requested = runs[r].requested /\ runs'[r].resolved = runs[r].resolved
             \/ /\ runs[r].requested \subseteq runs'[r].requested /\ runs[r].resolved \subseteq runs'[r].resolved
                /\ runs'[r].resolved \subseteq runs'[r].requested
                /\ \/ status[r] = "none" /\ status'[r] = "active"
                   \/ status[r] = "active" /\ status'[r] \in {"active"} \cup Terminals
  <2>1. Moves(r)
    BY DEF RunsMove
  <2> QED BY <1>1, <1>2, <2>1 DEF Moves, Terminal
<1>4. Terminals = Contract!RunStatus
  BY DEF Terminals, Statuses, Contract!RunStatus
<1>5. ASSUME NEW r \in Runs PROVE Contract!RunStep(r)
  BY <1>4, <1>3
     DEF Contract!Rest, Contract!Silent, status, Contract!RunStep, Contract!Reports, Contract!Start, Contract!Progress,
        Contract!Settle
<1>6. status' \in [Runs -> {"none", "active"} \cup Contract!RunStatus]
  BY <1>1, <1>2, <1>4 DEF status
<1>7. ASSUME NEW r \in Runs PROVE runs'[r].requested \in SUBSET (1..MaxApprovals) /\ runs'[r].resolved \in SUBSET (1..MaxApprovals)
  BY <1>1 DEF RunRec
<1> QED BY <1>5, <1>6, <1>7 DEF Contract!Next, status

(* A Run starts once, reports approvals and their resolution while it is active, ends once, and says *)
(* nothing after that, whatever is answered about it later.                                         *)
THEOREM HermesImplementsRunContract == Spec => ImplementsRunContract
<1>1. Init => Contract!Init
  BY DEF Init, Contract!Init
<1>2. HermesInv /\ HermesInv' /\ [Next]_vars => [Contract!Next]_Contract!runVars
  BY HermesNext, HermesStutters, HermesRefines
<1>3. HermesInv /\ [Next]_vars => HermesInv'
  BY HermesNext, HermesStutters
<1> QED BY <1>1, <1>2, <1>3, HermesInit, PTL DEF Spec, ImplementsRunContract, Contract!Spec
=================================================================================
