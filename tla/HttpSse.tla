-------------------------------- MODULE HttpSse --------------------------------
(* The class HttpSseTransport of transport-http-sse: bounded requests and Server-Sent Event         *)
(* streams over fetch. A fetch may ignore the abort of its signal and answer late; a body is a      *)
(* resource that somebody has to read to its end or cancel. The parser of a stream is SseParser;    *)
(* here a chunk is the number of events it completes, or something the parser rejects.              *)
EXTENDS Naturals, FiniteSets

CONSTANTS
  Requests,               \* calls of request()
  Streams,                \* iterables of subscribe()
  MaxConcurrentRequests, MaxConcurrentStreams,
  MaxEventsPerChunk       \* bound: events one chunk completes

SlotsAssumption ==
  /\ MaxConcurrentRequests \in Nat \ {0} /\ MaxConcurrentStreams \in Nat \ {0}
  /\ MaxEventsPerChunk \in Nat
KindAssumption == Requests \cap Streams = {}

Operations == Requests \cup Streams

VARIABLES
  open,                   \* #open
  active,                 \* #activeOperations
  reason,                 \* why an operation was aborted locally
  timer,                  \* operations whose timer runs
  at,                     \* where request() or the generator awaits
  wait,                   \* waitForOperation of that place: who settled it
  buffered,               \* events of the current chunk the parser has not yielded
  outcome,                \* what the caller got
  fetching, body,         \* of the other side: fetches without an answer; the response's body
  cleanup, closers        \* #cleanupPromise; close(): nobody, called, settled

vars == <<open, active, reason, timer, at, wait, buffered, outcome, fetching, body, cleanup, closers>>

AbortReasons == {"request_aborted", "request_timeout", "stream_disposed", "transport_closed"}
ReadResults == {"chunk", "done", "error", "rejected"}
Errors == AbortReasons \cup {"invalid_request", "capacity_exceeded", "network_failure", "response_stream_failed",
                             "http_status", "limit_exceeded", "stream_ended"}

TypeOK ==
  /\ open \in BOOLEAN
  /\ active \subseteq Operations /\ timer \subseteq active
  /\ reason \in [Operations -> AbortReasons \cup {"none"}]
  /\ at \in [Operations -> {"idle", "fetch", "response", "read", "yielded", "over"}]
  /\ wait \in [Operations -> {"none", "pending", "value", "failed", "aborted"} \cup ReadResults]
  /\ buffered \in [Streams -> 0..MaxEventsPerChunk]
  /\ outcome \in [Operations -> Errors \cup {"none", "result", "finished"}]
  /\ fetching \subseteq Operations
  /\ body \in [Operations -> {"none", "open", "reading", "ended", "cancelled"}]
  /\ cleanup \in {"none", "running", "done", "failed"} /\ closers \in {"none", "waiting", "settled"}

Init ==
  /\ open = TRUE /\ active = {} /\ timer = {} /\ fetching = {}
  /\ reason = [o \in Operations |-> "none"] /\ at = [o \in Operations |-> "idle"]
  /\ wait = [o \in Operations |-> "none"] /\ outcome = [o \in Operations |-> "none"]
  /\ buffered = [s \in Streams |-> 0] /\ body = [o \in Operations |-> "none"]
  /\ cleanup = "none" /\ closers = "none"

OfKind(o) == IF o \in Requests THEN Requests ELSE Streams
Limit(o) == IF o \in Requests THEN MaxConcurrentRequests ELSE MaxConcurrentStreams

-------------------------------------------------------------------------------
(* Operations. *)

(* beginOperation, and the fetch that follows it at once. *)
Begin(o) ==
  /\ at[o] = "idle"
  /\ IF open /\ Cardinality(active \cap OfKind(o)) < Limit(o)
     THEN /\ active' = active \cup {o} /\ timer' = timer \cup {o} /\ fetching' = fetching \cup {o}
          /\ at' = [at EXCEPT ![o] = "fetch"] /\ wait' = [wait EXCEPT ![o] = "pending"]
          /\ UNCHANGED outcome
     ELSE /\ at' = [at EXCEPT ![o] = "over"]
          /\ outcome' = [outcome EXCEPT ![o] =
               IF open THEN "capacity_exceeded" ELSE IF o \in Streams THEN "finished" ELSE "transport_closed"]
          /\ UNCHANGED <<active, timer, fetching, wait>>
  /\ UNCHANGED <<open, reason, buffered, body, cleanup, closers>>

(* Invalid arguments, or a signal that is aborted already. *)
Refuse(o, error) ==
  /\ at[o] = "idle" /\ (error = "request_aborted" => open)
  /\ at' = [at EXCEPT ![o] = "over"] /\ outcome' = [outcome EXCEPT ![o] = error]
  /\ UNCHANGED <<open, active, reason, timer, wait, buffered, fetching, body, cleanup, closers>>

(* Mutant: an aborted operation keeps its place until its continuation runs. *)
AbortKeepingSlots(ops, why) ==
  LET hit == {o \in ops \cap active : reason[o] = "none"} IN
  /\ reason' = [o \in Operations |-> IF o \in hit THEN why ELSE reason[o]]
  /\ wait' = [o \in Operations |-> IF o \in hit /\ wait[o] = "pending" THEN "aborted" ELSE wait[o]]
  /\ timer' = timer \ hit
  /\ body' = [o \in Operations |->
       IF o \in hit \cap Streams /\ body[o] = "reading" THEN "cancelled" ELSE body[o]]
  /\ UNCHANGED active

(* Mutant: an abort leaves it to fetch and to the stream to settle. *)
AbortUnheard(ops, why) ==
  LET hit == {o \in ops \cap active : reason[o] = "none"} IN
  /\ reason' = [o \in Operations |-> IF o \in hit THEN why ELSE reason[o]]
  /\ active' = active \ hit /\ timer' = timer \ hit
  /\ UNCHANGED <<wait, body>>

(* ActiveOperation.abort: the first reason stays. Who waits is rejected; finish() stops the timer,   *)
(* returns the slot and lets the disposer cancel the reader of a stream.                            *)
Abort(ops, why) ==
  LET hit == {o \in ops \cap active : reason[o] = "none"} IN
  /\ reason' = [o \in Operations |-> IF o \in hit THEN why ELSE reason[o]]
  /\ wait' = [o \in Operations |-> IF o \in hit /\ wait[o] = "pending" THEN "aborted" ELSE wait[o]]
  /\ active' = active \ hit /\ timer' = timer \ hit
  /\ body' = [o \in Operations |->
       IF o \in hit \cap Streams /\ body[o] = "reading" THEN "cancelled" ELSE body[o]]

(* The AbortSignal of the caller. *)
CallerAborts(o) ==
  /\ o \in active
  /\ Abort({o}, "request_aborted")
  /\ UNCHANGED <<open, at, buffered, outcome, fetching, cleanup, closers>>

TimerFires(o) ==
  /\ o \in timer
  /\ Abort({o}, "request_timeout")
  /\ UNCHANGED <<open, at, buffered, outcome, fetching, cleanup, closers>>

(* return() and throw() of the iterator. A generator that waits for its consumer ends at once.      *)
Dispose(s) ==
  /\ at[s] # "over"
  /\ Abort({s}, "stream_disposed")
  /\ IF at[s] \in {"idle", "yielded"}
     THEN at' = [at EXCEPT ![s] = "over"] /\ outcome' = [outcome EXCEPT ![s] = "finished"]
     ELSE UNCHANGED <<at, outcome>>
  /\ UNCHANGED <<open, buffered, fetching, cleanup, closers>>

(* close(): the cleanup starts with the first one. *)
Close ==
  /\ closers = "none"
  /\ open' = FALSE /\ closers' = "waiting" /\ cleanup' = "running"
  /\ Abort(active, "transport_closed")
  /\ UNCHANGED <<at, buffered, outcome, fetching>>

CleanupSettles(how) ==
  /\ cleanup = "running"
  /\ cleanup' = how /\ closers' = "settled"
  /\ UNCHANGED <<open, active, reason, timer, at, wait, buffered, outcome, fetching, body>>

-------------------------------------------------------------------------------
(* The other side: fetch settles, and the bodies it returns. *)

(* Mutant: nobody looks at the answer of an operation that was aborted. *)
LateBodyLeft(o) ==
  /\ o \in fetching
  /\ fetching' = fetching \ {o}
  /\ body' = [body EXCEPT ![o] = "open"]
  /\ wait' = [wait EXCEPT ![o] = IF @ = "pending" THEN "value" ELSE @]
  /\ UNCHANGED <<open, active, reason, timer, at, buffered, outcome, cleanup, closers>>

(* A response. After a local abort waitForResponse cancels its body. *)
FetchResponds(o) ==
  /\ o \in fetching
  /\ fetching' = fetching \ {o}
  /\ body' = [body EXCEPT ![o] = IF wait[o] = "pending" THEN "open" ELSE "cancelled"]
  /\ wait' = [wait EXCEPT ![o] = IF @ = "pending" THEN "value" ELSE @]
  /\ UNCHANGED <<open, active, reason, timer, at, buffered, outcome, cleanup, closers>>

FetchFails(o) ==
  /\ o \in fetching
  /\ fetching' = fetching \ {o}
  /\ wait' = [wait EXCEPT ![o] = IF @ = "pending" THEN "failed" ELSE @]
  /\ UNCHANGED <<open, active, reason, timer, at, buffered, outcome, body, cleanup, closers>>

(* A read: a chunk, the end, an error of the stream, or bytes the limits or the parser reject.       *)
ReadSettles(o, what) ==
  /\ at[o] = "read" /\ wait[o] = "pending"
  /\ wait' = [wait EXCEPT ![o] = what]
  /\ body' = [body EXCEPT ![o] = IF what = "done" THEN "ended" ELSE @]
  /\ UNCHANGED <<open, active, reason, timer, at, buffered, outcome, fetching, cleanup, closers>>

-------------------------------------------------------------------------------
(* Continuations of request() and of the generator iterateSse(). *)

(* mapOperationError: a local reason comes before what the operation saw. *)
Mapped(o, error) == IF reason[o] # "none" THEN reason[o] ELSE error

(* catch and finally: the outcome, and finish() of an operation that was not aborted. A stream       *)
(* that was disposed of or whose transport was closed ends without an error.                        *)
End(o, result) ==
  /\ at' = [at EXCEPT ![o] = "over"]
  /\ outcome' = [outcome EXCEPT ![o] =
       IF o \in Streams /\ result \in {"stream_disposed", "transport_closed"} THEN "finished" ELSE result]
  /\ active' = active \ {o} /\ timer' = timer \ {o}

(* End, for an operation that has a response: its body is cancelled if it is not at its end.        *)
EndWithBody(o, result) ==
  /\ End(o, result)
  /\ body' = [body EXCEPT ![o] = IF @ \in {"open", "reading"} THEN "cancelled" ELSE @]

(* waitForResponse, after fetch or an abort. A response that is too late by now is cancelled.        *)
ResponseReturns(o) ==
  /\ at[o] = "fetch" /\ wait[o] # "pending"
  /\ IF wait[o] = "value" /\ reason[o] = "none"
     THEN /\ at' = [at EXCEPT ![o] = "response"]
          /\ UNCHANGED <<active, timer, outcome, body>>
     ELSE EndWithBody(o, Mapped(o, "network_failure"))
  /\ UNCHANGED <<open, reason, wait, buffered, fetching, cleanup, closers>>

StartRead(o) ==
  /\ at' = [at EXCEPT ![o] = "read"]
  /\ wait' = [wait EXCEPT ![o] = IF reason[o] = "none" THEN "pending" ELSE "aborted"]

(* throwForResponseAbort, then readBoundedBody, or the checks of iterateSse, whose connect timer     *)
(* ends here. A status that is no success and a response that is no stream are refused (ok FALSE).  *)
ResponseAccepted(o, ok) ==
  /\ at[o] = "response" /\ reason[o] = "none" /\ ok
  /\ StartRead(o)
  /\ timer' = timer \ (Streams \cap {o})
  /\ body' = [body EXCEPT ![o] = "reading"]
  /\ UNCHANGED <<open, active, reason, buffered, outcome, fetching, cleanup, closers>>

ResponseRefused(o, ok) ==
  /\ at[o] = "response" /\ (reason[o] # "none" \/ ~ok) /\ (o \in Requests => ok)
  /\ EndWithBody(o, Mapped(o, "http_status"))
  /\ UNCHANGED <<open, reason, wait, buffered, fetching, cleanup, closers>>

ReadError(o) ==
  CASE wait[o] = "rejected" -> "limit_exceeded"
    [] wait[o] = "done"     -> "stream_ended"
    [] OTHER                -> "response_stream_failed"

(* Mutant: the end of the body makes a result, also after an abort. *)
BodyReadUnchecked(r) ==
  /\ r \in Requests /\ at[r] = "read" /\ wait[r] # "pending"
  /\ IF wait[r] = "chunk"
     THEN StartRead(r) /\ UNCHANGED <<active, timer, outcome, body>>
     ELSE /\ EndWithBody(r, IF wait[r] = "done" THEN "result" ELSE Mapped(r, ReadError(r)))
          /\ UNCHANGED wait
  /\ UNCHANGED <<open, reason, buffered, fetching, cleanup, closers>>

(* readBoundedBody, and request() after it. *)
BodyRead(r) ==
  /\ r \in Requests /\ at[r] = "read" /\ wait[r] # "pending"
  /\ IF wait[r] = "chunk"
     THEN StartRead(r) /\ UNCHANGED <<active, timer, outcome, body>>
     ELSE /\ EndWithBody(r, Mapped(r, IF wait[r] = "done" THEN "result" ELSE ReadError(r)))
          /\ UNCHANGED wait
  /\ UNCHANGED <<open, reason, buffered, fetching, cleanup, closers>>

(* The parser yields, unless the operation was aborted, or reads on. *)
YieldOrRead(s, events) ==
  IF events > 0
  THEN IF reason[s] = "none"
       THEN /\ at' = [at EXCEPT ![s] = "yielded"] /\ buffered' = [buffered EXCEPT ![s] = events - 1]
            /\ UNCHANGED <<active, timer, wait, outcome, body>>
       ELSE EndWithBody(s, reason[s]) /\ UNCHANGED <<buffered, wait>>
  ELSE StartRead(s) /\ UNCHANGED <<active, timer, buffered, outcome, body>>

ChunkRead(s, events) ==
  /\ s \in Streams /\ at[s] = "read" /\ wait[s] = "chunk"
  /\ YieldOrRead(s, events)
  /\ UNCHANGED <<open, reason, fetching, cleanup, closers>>

StreamFails(s) ==
  /\ s \in Streams /\ at[s] = "read" /\ wait[s] \notin {"pending", "chunk"}
  /\ EndWithBody(s, Mapped(s, ReadError(s)))
  /\ UNCHANGED <<open, reason, wait, buffered, fetching, cleanup, closers>>

(* next() of the consumer, after an event. *)
NextEvent(s) ==
  /\ at[s] = "yielded"
  /\ YieldOrRead(s, buffered[s])
  /\ UNCHANGED <<open, reason, fetching, cleanup, closers>>

-------------------------------------------------------------------------------
Continue(o) ==
  \/ ResponseReturns(o)
  \/ \E ok \in BOOLEAN : ResponseAccepted(o, ok) \/ ResponseRefused(o, ok)
  \/ BodyRead(o) \/ StreamFails(o)
  \/ \E n \in 0..MaxEventsPerChunk : ChunkRead(o, n)

Next ==
  \/ Close \/ \E how \in {"done", "failed"} : CleanupSettles(how)
  \/ \E o \in Operations :
       \/ Begin(o) \/ \E error \in {"invalid_request", "request_aborted"} : Refuse(o, error)
       \/ CallerAborts(o) \/ TimerFires(o) \/ Continue(o)
       \/ FetchResponds(o) \/ FetchFails(o) \/ \E what \in ReadResults : ReadSettles(o, what)
  \/ \E s \in Streams : Dispose(s) \/ NextEvent(s)

Spec == Init /\ [][Next]_vars

(* Timers fire, continuations run, the cleanup of the caller settles. The other side need not answer. *)
Fairness ==
  /\ \A o \in Operations : WF_vars(TimerFires(o)) /\ WF_vars(Continue(o))
  /\ WF_vars(\E how \in {"done", "failed"} : CleanupSettles(how))

FairSpec == Spec /\ Fairness

-------------------------------------------------------------------------------
(* "Abort active operations" (close), bounded slots and best-effort disposal: an operation has its  *)
(* slot exactly from its start to its end or its abort, whichever is first, so that a closed        *)
(* transport has none; and no body is left open or unread behind an operation that is over.         *)
ResourcesReturned ==
  /\ TypeOK
  /\ active = {o \in Operations : at[o] \notin {"idle", "over"} /\ reason[o] = "none"}
  /\ open \/ active = {}
  /\ \A o \in Operations : /\ Cardinality(active \cap OfKind(o)) <= Limit(o)
                           /\ at[o] = "over" => body[o] \in {"none", "ended", "cancelled"}

(* What the caller learns is what happened: a result was read to its end without an abort before it,  *)
(* an aborted operation names the first reason, whatever fetch or the stream answered afterwards,   *)
(* and only a stream that was disposed of or closed ends without an error.                          *)
OutcomesTruthful ==
  /\ \A o \in Operations : at[o] = "over" <=> outcome[o] # "none"
  /\ \A r \in Requests : /\ outcome[r] = "result" => body[r] = "ended" /\ reason[r] = "none"
                         /\ at[r] = "over" /\ reason[r] # "none" => outcome[r] = reason[r]
  /\ \A s \in Streams : /\ at[s] = "over" /\ reason[s] \in {"request_aborted", "request_timeout"}
                             => outcome[s] \in {reason[s], "finished"}
                        /\ outcome[s] = "stream_ended" => body[s] = "ended"

(* Slots and bodies of fetch operations go back, and their outcomes are what happened.              *)
(* transport-http-sse/src/index.ts.                                                                 *)
HttpSound == ResourcesReturned /\ OutcomesTruthful

(* A request settles, and so does an operation that was aborted and the connecting of a stream; the  *)
(* consumer of a stream has to come back for it. Close() settles.                                   *)
OperationsSettle ==
  /\ \A r \in Requests : at[r] = "fetch" ~> at[r] = "over"
  /\ \A s \in Streams : /\ at[s] = "fetch" ~> at[s] \in {"read", "yielded", "over"}
                        /\ reason[s] # "none" ~> at[s] \in {"yielded", "over"}
  /\ closers = "waiting" ~> closers = "settled"
================================================================================
