------------------------------ MODULE MCDshAdapter ------------------------------
(* Instances of DshGateway and DshAdapter for TLC, which share nothing: a behaviour is one of the    *)
(* one or of the other.                                                                             *)
EXTENDS DshGateway

CONSTANTS
  Children, MaxRunEvents, MaxWire, MaxSays,   \* of DshAdapter
  MaxInputs                                   \* bound: Sessions, Runs and oddities together

VARIABLES
  which,
  shut, pipe, closing, sessions, current, dshRuns, replying,                      \* of DshAdapter
  inbox, turn, says, busy, done, answers, subagents, ended, wire, strange

Dsh == INSTANCE DshAdapter WITH
  Native <- Foreign, closed <- shut, active <- current, runs <- dshRuns, responding <- replying, worked <- done,
  oddities <- strange

HarnessAssumption == Dsh!DshAssumption /\ GatewayAssumption

ASSUME HarnessAssumption

process == <<shut, pipe, closing, sessions, current, dshRuns, replying,
             inbox, turn, says, busy, done, answers, subagents, ended, wire, strange>>

(* A Session that is closed counts twice. *)
Inputs ==
  Cardinality({s \in Sessions : sessions[s] = "closed"}) + Cardinality({s \in Sessions : s > 1 /\ sessions[s] # "none"}) + Cardinality({r \in Runs : dshRuns[r].call # "idle"}) + strange

GatewayInputs ==
  Cardinality({s \in Sessions : s > 1 /\ native[s].exists}) + Cardinality({r \in Runs : runs[r].call # "idle"}) + oddities

(* Sessions, subagents and Runs are numbers, taken in their order. *)
Ordered(S) == \A i \in S : (i > 1 /\ i # 11) => i - 1 \in S

InOrder ==
  /\ Ordered({s \in Sessions : sessions[s] # "none"}) /\ Ordered({s \in Sessions : native[s].exists})
  /\ Ordered({c \in Children : subagents[c] # NoSession \/ c \in ended})
  /\ Ordered({r \in Runs : dshRuns[r].call # "idle"}) /\ Ordered({r \in Runs : runs[r].call # "idle"})

(* The bounds hold back inputs only, and none of them is under fairness. *)
Step ==
  /\ UNCHANGED which
  /\ \/ which = "process" /\ Dsh!Next /\ Inputs' <= MaxInputs /\ UNCHANGED gatewayVars
     \/ which = "gateway" /\ GatewayNext /\ GatewayInputs' <= MaxInputs /\ UNCHANGED process
  /\ InOrder'

MCInit == which \in {"process", "gateway"} /\ Dsh!Init /\ GatewayInit

MCSpec ==
  /\ MCInit /\ [][Step]_<<which, process, gatewayVars>>
  /\ Dsh!Fairness /\ GatewayFairness

(* Native work has a Run or ends the connection, and Runs end as the Harness says. adapter.ts.       *)
DshSound == Dsh!WorkOwned /\ Dsh!EndsTruthful

(* The Runs of both connections behave as the contract of a Run says. *)
RunsImplementContract == Dsh!ImplementsRunContract /\ GatewayImplementsRunContract

(* Every call on both connections settles. *)
CallsSettle == Dsh!RunsSettle /\ GatewaySettles
================================================================================
