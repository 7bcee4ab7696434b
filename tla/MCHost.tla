--------------------------------- MODULE MCHost ---------------------------------
(* Instances of HostRuntime, FakeProvider and Publication for TLC, which share nothing: a behaviour   *)
(* is one of the first, of the second or of the third.                                              *)
EXTENDS HostRuntime

CONSTANTS
  Clients, Natives, SessionHandles, Runs, Readers, NoRun,
  MaxInputs,              \* bound: calls on the Fake Provider that open, start and close
  MaxEntries, MaxJobs

VARIABLES
  which,
  options, shut, activeRuns, natives, handles, fakeRuns, readers,
  entries, older, accepted, tag, shown, tagShown, job, statuses, waiting, jobs

Fake == INSTANCE FakeProvider WITH Handles <- SessionHandles
Npm == INSTANCE Publication

ASSUME HostsAssumption == Fake!NoRunAssumption /\ Npm!PublicationBounds

fake == <<options, shut, activeRuns, natives, handles, fakeRuns, readers>>
npm == <<entries, older, accepted, tag, shown, tagShown, job, statuses, waiting, jobs>>

Inputs ==
  Cardinality(shut) + Cardinality({h \in SessionHandles : handles'[h].at # "none"})
    + Cardinality({h \in SessionHandles : handles'[h].at = "closed"})
    + Cardinality({r \in Runs : fakeRuns'[r].at # "none"})

(* Clients, handles and Runs are numbers, taken in their order. *)
Ordered(S) == \A i \in S : i > 1 => i - 1 \in S

InOrder ==
  /\ Ordered({h \in SessionHandles : handles'[h].at # "none"}) /\ Ordered({r \in Runs : fakeRuns'[r].at # "none"})
  /\ handles'[1].at # "none" => handles'[1].client = 1

(* The bounds hold back inputs only, and none of them is under fairness. *)
Step ==
  /\ UNCHANGED which
  /\ \/ which = "host" /\ Next /\ UNCHANGED <<fake, npm>>
     \/ which = "fake" /\ Fake!FakeNext /\ Inputs <= MaxInputs /\ InOrder /\ UNCHANGED <<vars, npm>>
     \/ which = "npm" /\ Npm!PublicationNext /\ UNCHANGED <<vars, fake>>

(* The fairness of HostRuntime, of its own behaviours. *)
HostFairness ==
  /\ WF_vars(which = "host" /\ Deadline) /\ WF_vars(which = "host" /\ ClientCleanedUp)
  /\ WF_vars(which = "host" /\ SessionCleanedUp) /\ WF_vars(which = "host" /\ ChatCloseProceeds)
  /\ \A c \in Sends : WF_vars(which = "host" /\ SendDeadline(c)) /\ WF_vars(which = "host" /\ SendRejects(c))

(* What the modules that are not chosen begin with does not matter. *)
Idle ==
  /\ which # "host" => kind = "run"
  /\ which # "fake" => options = [cancelMode |-> "native", interaction |-> FALSE]
  /\ which # "npm" => entries = {1} /\ older = {}

MCInit == which \in {"host", "fake", "npm"} /\ Init /\ Fake!FakeInit /\ Npm!PublicationInit /\ Idle

MCSpec ==
  /\ MCInit /\ [][Step]_<<which, vars, fake, npm>>
  /\ HostFairness /\ Fake!FakeFairness

(* The Fake Provider lets go of every Run that ends, over handles, clients, answers, timers and       *)
(* closes. conformance/src/fake-provider.ts.                                                        *)
FakeProviderSound == Fake!FakeSound

(* Publication writes nothing beside what it could not verify, and success means verified, over jobs *)
(* that are killed and started again. scripts/publish-packages.mjs.                                 *)
PublicationSound == Npm!SuccessIsVerified /\ Npm!WritesAreSafe

(* Whichever path closes the handles of a host closes each once, the Session under no Run of an open *)
(* Client (run.ts, session.ts); and Runs of the Fake Provider keep to the contract of a Run.         *)
StepsInOrder == ClosesOnceInOrder /\ Fake!FakeImplementsRunContract

(* Every call of a host settles, whatever the provider does, and so do the Runs and iterators of the *)
(* Fake Provider.                                                                                   *)
CallsSettled == (which = "host" => CallsSettle) /\ Fake!FakeSettles
================================================================================
