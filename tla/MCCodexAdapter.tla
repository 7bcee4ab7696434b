---------------------------- MODULE MCCodexAdapter ----------------------------
(* Instances of CodexAdapter and CodexClient for TLC. A behaviour is one of four: two Threads with a  *)
(* Run each or one after the other; two Runs in turn on one Thread; one Run with several             *)
(* interactions; or one of the Client with its process and Sessions.                                *)
EXTENDS CodexAdapter

CONSTANTS Calls, NoCall

VARIABLES which, child, termination, connect, wire, clientClosed, closing, calls, sessions,
          knownThreads, ephemeralThreads, turns

Client == INSTANCE CodexClient WITH Turns <- Runs

ASSUME ClientsAssumption == Client!ClientAssumption

client == <<child, termination, connect, wire, clientClosed, closing, calls, sessions, knownThreads,
            ephemeralThreads, turns>>

Used(t) == forks[t] # "none" \/ \E r \in Runs : runs[r].thread = t

(* Runs and Threads are numbers, taken in order as they are interchangeable. *)
InOrder ==
  /\ \A q, r \in Runs : q < r /\ runs[r].phase # "idle" => runs[q].phase # "idle"
  /\ forks[2] # "none" \/ runs[1].thread = 2 => Used(1)

NoneCancelled == \A r \in Runs : runs[r].cancel = "none" /\ ~runs[r].timedOut

(* What the host and the Provider do in a scenario. *)
Within ==
  CASE which = "threads" -> InOrder /\ sent <= 1 /\ Len(interactions) <= 1 /\ NoneCancelled
    [] which = "turns" -> /\ InOrder /\ sent <= 2 /\ interactions = <<>> /\ NoneCancelled
                          /\ ~Used(2) /\ forks[1] = "none"
    [] which = "interactions" -> /\ runs[2].phase = "idle" /\ ~Used(2) /\ forks[1] = "none"
                                 /\ sent <= 2 \/ ~runs[1].timedOut

(* The bounds hold back inputs only, and none of them is under fairness. *)
Step ==
  /\ UNCHANGED which
  /\ \/ which = "client" /\ Client!ClientNext /\ UNCHANGED vars
     \/ which # "client" /\ Next /\ Within' /\ UNCHANGED client

MCInit == which \in {"threads", "turns", "interactions", "client"} /\ Init /\ Client!ClientInit

MCSpec ==
  /\ MCInit /\ [][Step]_<<which, vars, client>>
  /\ Fairness /\ Client!ClientFairness

(* The process of a connection has an owner, and a closed Session no Run. adapter.ts.               *)
ClientSound == Client!ClientTypeOK /\ Client!ChildOwned /\ Client!ClosedSessionsIdle

(* No end of a Run and no forked Thread is another's. adapter.ts.                                   *)
NothingMixedUp == EndsByItsTurn /\ Client!ForksFresh

(* A cancellation, connecting, closing and calls for Sessions end. adapter.ts.                      *)
CallsSettle == CancellationSettles /\ Client!ConnectionSettles
================================================================================
