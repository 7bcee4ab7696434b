---------------------------- MODULE JsonlTransport ----------------------------
(* The class JsonlProcessTransport of transport-jsonl-process: JSON lines over the streams of a     *)
(* process the caller owns. Writes are serialized and waited for locally; what was read before a    *)
(* failure is still delivered; after the end the streams keep an error guard until they are quiet.  *)
(* Bytes, line splitting and the wording and codes of errors are abstracted: a line that is no       *)
(* object, is too long or is cut off ends the connection, like every failure of a stream.           *)
EXTENDS Naturals, Sequences, FiniteSets

CONSTANTS
  Sends,                \* calls of send()
  Closers,              \* calls of close()
  MaxPendingWrites, MaxBufferedMessages,
  MaxInbound            \* bound: records the process writes

LimitsAssumption ==
  MaxPendingWrites \in Nat \ {0} /\ MaxBufferedMessages \in Nat \ {0} /\ MaxInbound \in Nat

VARIABLES
  end,           \* "none" while open; then whether terminate() was given an inbound failure
  wait,          \* the promise of each send()
  writeTail,     \* the operations chained and not settled; pendingWrites is their number
  writing,       \* what the operation at the head is doing
  physical,      \* the writes whose callback the stream has not called (activePhysicalWrites)
  errorOwed,     \* a failed callback is followed by an 'error' event of the writable
  values,        \* the records InboundQueue holds
  received,      \* history: how many records were taken in
  delivered,     \* history: the records the iterator has yielded
  consumer,      \* the iterator of incoming()
  cleanup,       \* the caller's cleanup, as cleanupPromise and cleanupFailure know it
  guards,        \* the terminal error guards of both streams
  closers        \* the promise of each close()

writeVars == <<wait, writeTail, writing, physical, errorOwed>>
inVars    == <<values, received, delivered, consumer>>
endVars   == <<end, cleanup, guards>>
vars      == <<writeVars, inVars, endVars, closers>>

Open == end = "none"

TypeOK ==
  /\ end \in {"none", "failed", "closed"}
  /\ wait \in [Sends -> {"idle", "pending", "resolved", "rejected"}]
  /\ writeTail \in Seq(Sends) /\ Len(writeTail) <= MaxPendingWrites
  /\ writing \in {"idle", "active", "flushed", "rejected"}
  /\ physical \subseteq Sends
  /\ errorOwed \in BOOLEAN
  /\ values \in Seq(1..MaxInbound) /\ Len(values) <= MaxBufferedMessages
  /\ received \in 0..MaxInbound
  /\ delivered \in Seq(1..MaxInbound)
  /\ consumer \in {"idle", "waiting", "yielded", "done", "threw"}
  /\ cleanup \in {"none", "running", "settled", "failed"}
  /\ guards \in {"none", "armed", "scheduled", "released"}
  /\ closers \in [Closers -> {"idle", "waiting", "resolved", "rejected"}]

Init ==
  /\ end = "none" /\ cleanup = "none" /\ guards = "none"
  /\ wait = [s \in Sends |-> "idle"]
  /\ writeTail = <<>> /\ writing = "idle" /\ physical = {} /\ errorOwed = FALSE
  /\ values = <<>> /\ received = 0 /\ delivered = <<>> /\ consumer = "idle"
  /\ closers = [c \in Closers |-> "idle"]

-------------------------------------------------------------------------------
(* The end of the connection. *)

(* Mutant: what is buffered is dropped, whatever ended the connection. *)
CloseQueueDropping(e) ==
  /\ values' = <<>>
  /\ consumer' = IF consumer # "waiting" THEN consumer
                 ELSE IF e = "failed" THEN "threw" ELSE "done"

(* InboundQueue.close: a failure leaves what is buffered to the iterator. *)
CloseQueue(e) ==
  /\ values' = IF e = "failed" THEN values ELSE <<>>
  /\ consumer' = IF consumer # "waiting" THEN consumer
                 ELSE IF e = "failed" THEN "threw" ELSE "done"

EndConnection(e) ==
  /\ end' = e
  /\ wait' = [s \in Sends |-> IF wait[s] = "pending" THEN "rejected" ELSE wait[s]]
  /\ guards' = "armed" /\ cleanup' = "running"

(* terminate(): every wait and the write in progress are rejected, cleanup starts. The physical     *)
(* write goes on.                                                                                   *)
Terminate(e) ==
  /\ EndConnection(e)
  /\ writing' = IF writing = "active" THEN "rejected" ELSE writing
  /\ CloseQueue(e)

(* Any failure of a stream, and any line that is not a record. *)
StreamFails ==
  /\ Open
  /\ Terminate("failed")
  /\ UNCHANGED <<writeTail, physical, errorOwed, received, delivered, closers>>

Close(c) ==
  /\ closers[c] = "idle"
  /\ closers' = [closers EXCEPT ![c] = "waiting"]
  /\ IF Open THEN Terminate("closed")
     ELSE UNCHANGED <<endVars, wait, writing, values, consumer>>
  /\ UNCHANGED <<writeTail, physical, errorOwed, received, delivered>>

(* Mutant: the guards go at once, not after the events that are already due. *)
ReleaseAtOnce(writes, clean) ==
  guards' = IF guards = "armed" /\ writes = {} /\ clean \in {"settled", "failed"}
            THEN "released" ELSE guards

(* maybeReleaseTerminalErrorGuards, once neither a write nor the cleanup is under way. *)
MaybeReleaseGuards(writes, clean) ==
  guards' = IF guards = "armed" /\ writes = {} /\ clean \in {"settled", "failed"}
            THEN "scheduled" ELSE guards

(* Mutant: only a write that settles looks at the guards. *)
CleanupSettlesSilently ==
  /\ cleanup = "running"
  /\ cleanup' \in {"settled", "failed"}
  /\ UNCHANGED <<guards, end, writeVars, inVars, closers>>

CleanupSettles ==
  /\ cleanup = "running"
  /\ cleanup' \in {"settled", "failed"}
  /\ MaybeReleaseGuards(physical, cleanup')
  /\ UNCHANGED <<end, writeVars, inVars, closers>>

(* setImmediate: the events a failed callback left for the next tick have been emitted. *)
GuardsReleased ==
  /\ guards = "scheduled" /\ ~errorOwed
  /\ guards' = "released"
  /\ UNCHANGED <<end, cleanup, writeVars, inVars, closers>>

CloseSettles(c) ==
  /\ closers[c] = "waiting" /\ guards = "released"
  /\ closers' = [closers EXCEPT ![c] = IF cleanup = "failed" THEN "rejected" ELSE "resolved"]
  /\ UNCHANGED <<writeVars, inVars, endVars>>

-------------------------------------------------------------------------------
(* send(). *)

(* Mutant: the limit is off by one. *)
OneTooMany == Len(writeTail) <= MaxPendingWrites

HasWriteCapacity == Len(writeTail) < MaxPendingWrites

Send(s) ==
  /\ wait[s] = "idle" /\ Open /\ HasWriteCapacity
  /\ wait' = [wait EXCEPT ![s] = "pending"]
  /\ writeTail' = Append(writeTail, s)
  /\ UNCHANGED <<writing, physical, errorOwed, inVars, endVars, closers>>

(* A closed or full transport, an aborted signal or a message that cannot be sent. *)
SendRefused(s) ==
  /\ wait[s] = "idle"
  /\ wait' = [wait EXCEPT ![s] = "rejected"]
  /\ UNCHANGED <<writeTail, writing, physical, errorOwed, inVars, endVars, closers>>

(* Mutant: a wait that is given up lets the next operation start. *)
GiveUpAndContinue(s) ==
  /\ wait[s] = "pending"
  /\ wait' = [wait EXCEPT ![s] = "rejected"]
  /\ writing' = IF writing = "active" /\ Head(writeTail) = s THEN "rejected" ELSE writing
  /\ UNCHANGED <<writeTail, physical, errorOwed, inVars, endVars, closers>>

(* The timer or the signal rejects the wait. The operation stays where it is. *)
GiveUp(s) ==
  /\ wait[s] = "pending"
  /\ wait' = [wait EXCEPT ![s] = "rejected"]
  /\ UNCHANGED <<writeTail, writing, physical, errorOwed, inVars, endVars, closers>>

(* The operation at the head starts: writable.write() takes the frame. *)
StartWrite ==
  /\ writeTail # <<>> /\ writing = "idle" /\ Open
  /\ wait[Head(writeTail)] = "pending"
  /\ writing' = "active" /\ physical' = physical \cup {Head(writeTail)}
  /\ UNCHANGED <<wait, writeTail, errorOwed, inVars, endVars, closers>>

(* writable.write() throws: its physical write is counted off again, and the connection fails. *)
WriteThrows ==
  /\ writeTail # <<>> /\ writing = "idle" /\ Open
  /\ wait[Head(writeTail)] = "pending"
  /\ EndConnection("failed") /\ CloseQueue("failed") /\ writing' = "rejected"
  /\ UNCHANGED <<writeTail, physical, errorOwed, received, delivered, closers>>

(* The stream has flushed frame s. *)
WriteCallback(s) ==
  /\ s \in physical
  /\ physical' = physical \ {s}
  /\ writing' = IF writing = "active" THEN "flushed" ELSE writing
  /\ MaybeReleaseGuards(physical \ {s}, cleanup)
  /\ UNCHANGED <<wait, writeTail, errorOwed, end, cleanup, inVars, closers>>

(* A failed callback settles nothing but the physical write: the 'error' event does the rest. *)
WriteCallbackFails(s) ==
  /\ s \in physical
  /\ physical' = physical \ {s}
  /\ errorOwed' = TRUE
  /\ MaybeReleaseGuards(physical \ {s}, cleanup)
  /\ UNCHANGED <<wait, writeTail, writing, end, cleanup, inVars, closers>>

(* handleWritableError while open, afterwards the guard. *)
WritableError ==
  /\ errorOwed /\ errorOwed' = FALSE
  /\ IF Open THEN Terminate("failed")
     ELSE UNCHANGED <<endVars, wait, writing, values, consumer>>
  /\ UNCHANGED <<writeTail, physical, received, delivered, closers>>

(* The operation at the head settles, and with it its wait, if that is still pending. *)
OperationSettles(outcome) ==
  LET s == Head(writeTail) IN
  /\ writeTail' = Tail(writeTail) /\ writing' = "idle"
  /\ wait' = IF wait[s] = "pending" THEN [wait EXCEPT ![s] = outcome] ELSE wait
  /\ UNCHANGED <<physical, errorOwed, inVars, endVars, closers>>

WriteFlushed == writing = "flushed" /\ OperationSettles("resolved")

(* Its wait was given up before its turn. *)
SkipWrite ==
  /\ writeTail # <<>> /\ writing = "idle" /\ Open
  /\ wait[Head(writeTail)] # "pending"
  /\ OperationSettles("resolved")

(* assertOpen throws, or terminate() has rejected the write. *)
RejectWrite ==
  /\ writeTail # <<>>
  /\ writing = "rejected" \/ (writing = "idle" /\ ~Open)
  /\ OperationSettles("rejected")

-------------------------------------------------------------------------------
(* Inbound records and the iterator. *)

(* consumeLine and InboundQueue.push: to the waiting reader, appended, or one too many. *)
Receive ==
  /\ Open /\ received < MaxInbound
  /\ \/ /\ consumer = "waiting"
        /\ consumer' = "yielded" /\ delivered' = Append(delivered, received + 1)
        /\ received' = received + 1
        /\ UNCHANGED <<values, endVars, wait, writing>>
     \/ /\ consumer # "waiting" /\ Len(values) < MaxBufferedMessages
        /\ values' = Append(values, received + 1) /\ received' = received + 1
        /\ UNCHANGED <<consumer, delivered, endVars, wait, writing>>
     \/ /\ consumer # "waiting" /\ Len(values) >= MaxBufferedMessages
        /\ Terminate("failed")
        /\ UNCHANGED <<received, delivered>>
  /\ UNCHANGED <<writeTail, physical, errorOwed, closers>>

(* next(): buffered records come before the failure. *)
ConsumerNext ==
  /\ consumer \in {"idle", "yielded"}
  /\ IF values # <<>>
     THEN /\ values' = Tail(values) /\ delivered' = Append(delivered, Head(values))
          /\ consumer' = "yielded"
     ELSE /\ consumer' = CASE end = "none" -> "waiting"
                           [] end = "failed" -> "threw"
                           [] end = "closed" -> "done"
          /\ UNCHANGED <<values, delivered>>
  /\ UNCHANGED <<received, writeVars, endVars, closers>>

(* return() or throw(): the connection is closed, and the generator with it. *)
ConsumerReturn ==
  /\ consumer \notin {"done", "threw"}
  /\ consumer' = "done"
  /\ IF Open
     THEN /\ EndConnection("closed") /\ values' = <<>>
          /\ writing' = IF writing = "active" THEN "rejected" ELSE writing
     ELSE UNCHANGED <<endVars, wait, writing, values>>
  /\ UNCHANGED <<writeTail, physical, errorOwed, received, delivered, closers>>

-------------------------------------------------------------------------------
Chain == StartWrite \/ WriteThrows \/ SkipWrite \/ RejectWrite \/ WriteFlushed

Next ==
  \/ StreamFails \/ WritableError \/ CleanupSettles \/ GuardsReleased
  \/ Chain \/ Receive \/ ConsumerNext \/ ConsumerReturn
  \/ \E c \in Closers : Close(c) \/ CloseSettles(c)
  \/ \E s \in Sends : \/ Send(s) \/ SendRefused(s) \/ GiveUp(s)
                      \/ WriteCallback(s) \/ WriteCallbackFails(s)

Spec == Init /\ [][Next]_vars

(* Continuations and timers run, the caller's cleanup settles, and the stream calls back for each  *)
(* frame it took. Nothing is assumed of the process, the iterator or close().                      *)
Fairness ==
  /\ WF_vars(Chain) /\ WF_vars(WritableError) /\ WF_vars(CleanupSettles) /\ WF_vars(GuardsReleased)
  /\ \A c \in Closers : WF_vars(CloseSettles(c))
  /\ \A s \in Sends : WF_vars(GiveUp(s)) /\ WF_vars(WriteCallback(s) \/ WriteCallbackFails(s))

FairSpec == Spec /\ Fairness

-------------------------------------------------------------------------------
(* "After an unexpected stream or protocol boundary, complete records already received remain      *)
(* ordered and observable before iteration rejects" (README.md:146-148): the iterator yields every *)
(* record once, in order, and throws only after the last of them.                                  *)
DrainedBeforeFailure ==
  /\ \A i \in 1..Len(delivered) : delivered[i] = i
  /\ consumer = "threw" => Len(delivered) = received

(* "Writes are serialized until each Node write callback settles" (README.md:150): also a write    *)
(* whose caller has given up keeps the next frame out of the stream. And no 'error' event of the    *)
(* writable finds it without a listener, which would end the host process: the guards outlive every *)
(* write that was started and the event its failure leaves behind.                                  *)
StartedWritesHeld ==
  /\ Cardinality(physical) <= 1
  /\ (physical # {} \/ errorOwed) /\ ~Open => guards \in {"armed", "scheduled"}

(* The iterator of a process is ordered and complete up to its failure, and no guard of its streams  *)
(* goes while one is needed. transport-jsonl-process/src/index.ts.                                  *)
JsonlSound == TypeOK /\ DrainedBeforeFailure /\ StartedWritesHeld

(* close() settles, however many call it and whatever the writes do; so does every send().          *)
CallersSettle ==
  /\ \A c \in Closers : closers[c] = "waiting" ~> closers[c] \in {"resolved", "rejected"}
  /\ \A s \in Sends : wait[s] = "pending" ~> wait[s] \in {"resolved", "rejected"}
===============================================================================
