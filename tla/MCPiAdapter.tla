------------------------------ MODULE MCPiAdapter ------------------------------
(* Instances of PiAdapter and PiSdk for TLC, which share nothing: a behaviour is one of the one or   *)
(* of the other. The calls of the host share one bound.                                             *)
EXTENDS PiAdapter

CONSTANTS
  MaxSdkSessions,         \* of a Client of the SDK
  MaxInputs               \* bound: openings, Runs, cancels, reads, dialogs and closes together, weighted

VARIABLES which, closed, openings, claimed, sdkSessions, sdkRuns, natives, working

Sdk == INSTANCE PiSdk WITH
  Natives <- Sessions, Openings <- Handles, MaxSessions <- MaxSdkSessions, NoNative <- NoSession, NoOpening <- NoHandle,
  sessions <- sdkSessions, runs <- sdkRuns

ASSUME ConnectionsAssumption == Sdk!SdkAssumption

sdk == <<closed, openings, claimed, sdkSessions, sdkRuns, natives, working>>

Count(S, weight) == weight * Cardinality(S)

(* A second process, a read and a dialog count double. *)
Inputs ==
  Count({h \in Handles : handles[h].at # "free" /\ h > 1}, 2) + Count({r \in Runs : runs[r].start # "idle"}, 1)
  + Count({r \in Runs : runs[r].cancel # "none"}, 1) + Count({h \in Handles : handles[h].forced # "none"}, 1)
  + Count({h \in Handles : reads[h] + abandoned[h] > 0}, 2) + Count({n \in 1..Len(dialogs) : n = 1}, 2)

SdkInputs ==
  Count({o \in Handles : openings[o].call # "free" /\ o > 1}, 2) + Count({r \in Runs : sdkRuns[r].owner # NoHandle}, 1)
  + Count({r \in Runs : sdkRuns[r].cancel # "none"}, 1)

(* Sessions, handles and Runs are numbers, taken in their order: which of them is taken makes no     *)
(* difference.                                                                                      *)
Ordered(S) == \A i \in S : i > 1 => i - 1 \in S

InOrder ==
  /\ Ordered(created) /\ Ordered({h \in Handles : handles[h].at # "free"})
  /\ Ordered({r \in Runs : runs[r].start # "idle"})
  /\ Ordered(claimed) /\ Ordered({o \in Handles : openings[o].call # "free"})
  /\ Ordered({r \in Runs : sdkRuns[r].owner # NoHandle})

(* The bounds hold back inputs only, and none of them is under fairness. *)
Step ==
  /\ UNCHANGED which
  /\ \/ which = "rpc" /\ Next /\ Inputs' <= MaxInputs /\ UNCHANGED sdk
     \/ which = "sdk" /\ Sdk!SdkNext /\ SdkInputs' <= MaxInputs /\ UNCHANGED vars
  /\ InOrder'

MCInit == which \in {"rpc", "sdk"} /\ Init /\ Sdk!SdkInit

MCSpec ==
  /\ MCInit /\ [][Step]_<<which, vars, sdk>>
  /\ Fairness /\ Sdk!SdkFairness

(* Sessions have one Run, processes an owner, and Runs end as the process says. adapter.ts.          *)
PiSound == SessionsExclusive /\ ProcessesOwned /\ EndsTruthful

(* Native Sessions of the SDK belong to one Session until they are disposed of, and its Runs end as  *)
(* their prompts and aborts did: sdk-adapter.ts, sdk-run.ts.                                        *)
SdkSound == Sdk!NativesOwned /\ Sdk!SdkEndsTruthful

(* The Runs of both connections behave as the contract of a Run says. *)
RunsImplementContract == ImplementsRunContract /\ Sdk!SdkImplementsRunContract

(* Every call on both connections settles. *)
CallsSettle == PiSettles /\ Sdk!SdkSettles
================================================================================
