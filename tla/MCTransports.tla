------------------------------ MODULE MCTransports ------------------------------
(* Instances of JsonlTransport, HttpSse and SseParser for TLC, which share nothing: a behaviour is    *)
(* one of the first, of the second or of the third.                                                 *)
EXTENDS Naturals, Sequences, FiniteSets

CONSTANTS
  Sends, Closers, MaxPendingWrites, MaxBufferedMessages, MaxInbound,
  Requests, Streams, MaxConcurrentRequests, MaxConcurrentStreams, MaxEventsPerChunk,
  MaxOperations,          \* bound: requests and streams begun
  MaxLineBytes, MaxEventBytes, MaxChunk, MaxText

VARIABLES
  which,
  end, wait, writeTail, writing, physical, errorOwed, values, received, delivered, consumer, cleanup, guards, closers,
  open, active, reason, httpTimer, httpAt, httpWait, buffered, httpOutcome, fetching, body, httpCleanup, httpClosers,
  parser, yielded, text

Jsonl == INSTANCE JsonlTransport
Http == INSTANCE HttpSse WITH
  timer <- httpTimer, at <- httpAt, wait <- httpWait, outcome <- httpOutcome, cleanup <- httpCleanup,
  closers <- httpClosers
Sse == INSTANCE SseParser

ASSUME TransportsAssumption ==
  Jsonl!LimitsAssumption /\ Http!SlotsAssumption /\ Http!KindAssumption /\ Sse!ParserLimits

jsonl ==
  <<end, wait, writeTail, writing, physical, errorOwed, values, received, delivered, consumer, cleanup, guards, closers>>
http ==
  <<open, active, reason, httpTimer, httpAt, httpWait, buffered, httpOutcome, fetching, body, httpCleanup, httpClosers>>
sse == <<parser, yielded, text>>

(* The bound holds back inputs only, and none of them is under fairness. *)
Step ==
  /\ UNCHANGED which
  /\ \/ which = "jsonl" /\ Jsonl!Next /\ UNCHANGED <<http, sse>>
     \/ /\ which = "http" /\ Http!Next /\ UNCHANGED <<jsonl, sse>>
        /\ Cardinality({o \in Http!Operations : httpAt'[o] # "idle"}) <= MaxOperations
     \/ which = "sse" /\ Sse!ParserNext /\ UNCHANGED <<jsonl, http>>

MCInit == which \in {"jsonl", "http", "sse"} /\ Jsonl!Init /\ Http!Init /\ Sse!ParserInit

MCSpec ==
  /\ MCInit /\ [][Step]_<<which, jsonl, http, sse>>
  /\ Jsonl!Fairness /\ Http!Fairness

(* What the process wrote is yielded in order and once, and a write never meets a stream that is not *)
(* guarded. transport-jsonl-process/src/index.ts.                                                   *)
JsonlSound == Jsonl!JsonlSound

(* Slots and bodies of fetch operations go back, and their outcomes are what happened.              *)
(* transport-http-sse/src/index.ts.                                                                 *)
HttpSound == Http!HttpSound

(* The events of a stream are those its text means, however it was cut.                             *)
(* transport-http-sse/src/index.ts.                                                                 *)
ParsedAsMeant == Sse!ParsedAsMeant

(* Every call on both transports settles. *)
CallsSettle == Jsonl!CallersSettle /\ Http!OperationsSettle
================================================================================
