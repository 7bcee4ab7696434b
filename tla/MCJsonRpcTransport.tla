------------------------ MODULE MCJsonRpcTransport ------------------------
(* An instance of JsonRpcTransport for TLC: requests, a notification, a    *)
(* close and messages of the peer, in any combination of a few.  Requests  *)
(* are numbered and made in order, as which has which number makes no      *)
(* difference.                                                             *)
EXTENDS JsonRpcTransport

CONSTANT MaxInputs      \* bound: calls of the host and messages of the peer,
                        \* a request that finds every identifier given out counting twice

Begun == {c \in Calls : calls[c].outcome # "idle"}

Inputs ==
  Cardinality(Begun) + Cardinality({c \in Begun : c > MaxRequestId}) + Cardinality({n \in Notices : notices[n] # "idle"})
  + Cardinality({x \in Closers : closers[x] # "idle"}) + inboundSequence

(* The bound holds back inputs only, and none of them is under fairness.   *)
MCSpec ==
  /\ Init
  /\ [][Next /\ Inputs' <= MaxInputs /\ Begun' = 1..Cardinality(Begun')]_vars
  /\ Fairness

(* A request takes its own answer only, is not written for a caller that  *)
(* is gone, and settles.  transport-jsonrpc-stdio/src/index.ts.            *)
WritesAndCallsSettle ==
  []AnsweredByOwnResponse /\ OnlyLiveRequestsWritten /\ RequestsSettle
============================================================================
