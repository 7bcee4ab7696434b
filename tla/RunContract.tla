---------------------------- MODULE RunContract ----------------------------
(***************************************************************************)
(* What a Run of any Provider promises its host: the interface HarnessRun  *)
(* of packages/core/src/contracts.ts with the event rules every adapter    *)
(* enforces in its Run class.  A Run starts once, reports interactions     *)
(* and their resolution, ends in one terminal state, and says nothing      *)
(* after it.  Adapters are shown to implement this module.                 *)
(***************************************************************************)
CONSTANTS
  Runs,               \* the Runs a client hands out
  Interactions        \* identifiers of interaction requests

VARIABLES
  status,             \* per Run: not started, active, or its RunStatus
  requested,          \* per Run: interaction.requested events of its stream
  resolved            \* per Run: interaction.resolved events of its stream

runVars == <<status, requested, resolved>>

RunStatus == {"completed", "cancelled", "failed", "connection_aborted"}

TypeOK ==
  /\ status \in [Runs -> {"none", "active"} \cup RunStatus]
  /\ requested \in [Runs -> SUBSET Interactions]
  /\ resolved \in [Runs -> SUBSET Interactions]

Init ==
  /\ status = [r \in Runs |-> "none"]
  /\ requested = [r \in Runs |-> {}]
  /\ resolved = [r \in Runs |-> {}]

(* Events only accumulate, and only what was asked is reported resolved. *)
Reports(r) ==
  /\ requested[r] \subseteq requested'[r]
  /\ resolved[r] \subseteq resolved'[r]
  /\ resolved'[r] \subseteq requested'[r]

Silent(r) == requested'[r] = requested[r] /\ resolved'[r] = resolved[r]

Start(r)    == status[r] = "none" /\ status'[r] = "active" /\ Reports(r)
Progress(r) == status[r] = "active" /\ status'[r] = "active" /\ Reports(r)
Settle(r)   == status[r] = "active" /\ status'[r] \in RunStatus /\ Reports(r)
Rest(r)     == status'[r] = status[r] /\ Silent(r)

(* One step of the program may move several Runs: the loss of a connection *)
(* settles all of them. *)
RunStep(r) == Start(r) \/ Progress(r) \/ Settle(r) \/ Rest(r)

Next ==
  /\ \A r \in Runs : RunStep(r)
  /\ status' \in [Runs -> {"none", "active"} \cup RunStatus]
  /\ requested' \in [Runs -> SUBSET Interactions]
  /\ resolved' \in [Runs -> SUBSET Interactions]

Spec == Init /\ [][Next]_runVars
============================================================================
