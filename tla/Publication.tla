------------------------------ MODULE Publication ------------------------------
(* The publication of a release to npm: scripts/publish-packages.mjs with the loops of               *)
(* scripts/lib/package-publication.mjs. The workflow runs one job at a time; a job can fail or be    *)
(* killed between any two steps and is then started again. The registry accepts a version for good,  *)
(* shows it and its dist-tag later, and others may publish to it.                                   *)
EXTENDS Naturals, FiniteSets

CONSTANTS MaxEntries, MaxJobs       \* bounds: entries of the policy, jobs started

PublicationBounds == MaxEntries \in Nat \ {0} /\ MaxJobs \in Nat

Contents == {"ours", "foreign", "misattested"}
Tags == {"none", "older", "this", "newer"}

VARIABLES
  entries,                \* of the policy: numbers, dependencies first
  older,                  \* the names with an older release
  accepted,               \* the registry: the content of the version
  tag,                    \* the registry: what the dist-tag of the release names
  shown, tagShown,        \* what its replicas answer: versions, and the tag
  job,                    \* the job under way
  statuses,               \* of the job: what it has inspected
  waiting,                \* of the job: the entries waitForRegistryAvailability has not seen
  jobs

registry == <<accepted, tag, shown, tagShown>>
publicationVars == <<entries, older, registry, job, statuses, waiting, jobs>>

Phases == {"idle", "mode", "inspect", "waitPending", "auditExisting", "publish", "waitMissing", "auditAll",
           "final", "succeeded"}

PublicationTypeOK ==
  /\ accepted \in [entries -> Contents \cup {"none"}] /\ shown \subseteq entries
  /\ tag \in [entries -> Tags] /\ tagShown \in [entries -> Tags] /\ older \subseteq entries
  /\ job.at \in Phases /\ job.bootstrap \in BOOLEAN /\ waiting \subseteq entries
  /\ DOMAIN statuses \subseteq entries
  /\ \A e \in DOMAIN statuses : statuses[e] \in {"missing", "pending", "verified"}
  /\ jobs \in 0..MaxJobs

Nothing == [e \in {} |-> "missing"]

PublicationInit ==
  /\ entries \in {1..n : n \in 1..MaxEntries} /\ older \in SUBSET entries
  /\ accepted = [e \in entries |-> "none"] /\ shown = {}
  /\ tag = [e \in entries |-> IF e \in older THEN "older" ELSE "none"] /\ tagShown = tag
  /\ job = [at |-> "idle", bootstrap |-> FALSE]
  /\ statuses = Nothing /\ waiting = {} /\ jobs = 0

-------------------------------------------------------------------------------
(* The registry. *)

(* npm takes a version once; its dist-tag follows. *)
Accepts(e, content) ==
  /\ accepted[e] = "none"
  /\ accepted' = [accepted EXCEPT ![e] = content]
  /\ tag' = [tag EXCEPT ![e] = IF @ = "newer" THEN @ ELSE "this"]

OthersPublish(e, content) ==
  /\ content # "ours" /\ Accepts(e, content)
  /\ UNCHANGED <<entries, older, shown, tagShown, job, statuses, waiting, jobs>>

NewerRelease(e) ==
  /\ accepted[e] # "none" /\ tag[e] # "newer"
  /\ tag' = [tag EXCEPT ![e] = "newer"]
  /\ UNCHANGED <<entries, older, accepted, shown, tagShown, job, statuses, waiting, jobs>>

Shows(e) ==
  /\ \/ accepted[e] # "none" /\ shown' = shown \cup {e} /\ shown' # shown /\ UNCHANGED tagShown
     \/ tagShown' = [tagShown EXCEPT ![e] = tag[e]] /\ tagShown' # tagShown /\ UNCHANGED shown
  /\ UNCHANGED <<entries, older, accepted, tag, job, statuses, waiting, jobs>>

-------------------------------------------------------------------------------
(* The checks. *)

(* validatePublicationMode, for one entry: only the first release of the one package may bootstrap.  *)
ModeAllows(e) ==
  LET known == e \in older \cup shown IN
  IF job.bootstrap THEN Cardinality(entries) = 1 /\ e \notin older /\ tagShown[e] # "newer" ELSE known

(* Mutant: the dist-tag is not looked at. *)
MetadataUntagged(e) == e \in shown /\ accepted[e] # "foreign"

(* validateRegistryDistribution and validateRegistryDistTag. *)
MetadataFits(e) == e \in shown /\ accepted[e] # "foreign" /\ tagShown[e] = "this"

(* validateRegistryAudit: content and provenance, as npm verified them. *)
AuditPasses(audited) == \A e \in audited : accepted[e] = "ours"

-------------------------------------------------------------------------------
(* A job. *)

Go(phase) == job' = [job EXCEPT !.at = phase]

Stay == UNCHANGED <<entries, older, jobs>>

(* The tarballs it packs are those of the immutable release. *)
Begin(bootstrap) ==
  /\ job.at \in {"idle", "succeeded"} /\ jobs < MaxJobs
  /\ job' = [at |-> "mode", bootstrap |-> bootstrap] /\ jobs' = jobs + 1
  /\ statuses' = Nothing /\ waiting' = {}
  /\ UNCHANGED <<entries, older, registry>>

(* fail(): a check, a command, a registry answer that is none, or the end of the job's process.      *)
JobFails ==
  /\ job.at \notin {"idle", "succeeded"}
  /\ Go("idle") /\ statuses' = Nothing /\ waiting' = {}
  /\ Stay /\ UNCHANGED registry

ModeChecked ==
  /\ job.at = "mode" /\ \A e \in entries : ModeAllows(e)
  /\ Go("inspect")
  /\ Stay /\ UNCHANGED <<registry, statuses, waiting>>

Of(status) == {e \in entries : e \in DOMAIN statuses /\ statuses[e] = status}

(* inspectExisting, entry after entry. *)
Inspect(e) ==
  /\ job.at = "inspect" /\ DOMAIN statuses = {d \in entries : d < e}
  /\ e \in shown => MetadataFits(e)
  /\ statuses' = [d \in 1..e |->
       IF d < e THEN statuses[d]
       ELSE IF e \in shown THEN "verified" ELSE IF tagShown[e] = "this" THEN "pending" ELSE "missing"]
  /\ UNCHANGED <<job, waiting>> /\ Stay /\ UNCHANGED registry

Inspected ==
  /\ job.at = "inspect" /\ DOMAIN statuses = entries
  /\ Go("waitPending") /\ waiting' = Of("pending")
  /\ Stay /\ UNCHANGED <<registry, statuses>>

(* waitForRegistryAvailability: a version that shows must be the released one, and has to have its   *)
(* tag; until the deadline nothing else is an error.                                                *)
Available(e) ==
  /\ job.at \in {"waitPending", "waitMissing"} /\ e \in waiting
  /\ MetadataFits(e)
  /\ waiting' = waiting \ {e}
  /\ UNCHANGED <<job, statuses>> /\ Stay /\ UNCHANGED registry

Waited ==
  /\ job.at \in {"waitPending", "waitMissing"} /\ waiting = {}
  /\ Go(IF job.at = "waitPending" THEN "auditExisting" ELSE "auditAll")
  /\ Stay /\ UNCHANGED <<registry, statuses, waiting>>

(* Mutant: what is there already is audited with the rest, at the end. *)
AuditLater ==
  /\ job.at = "auditExisting"
  /\ Go("publish")
  /\ Stay /\ UNCHANGED <<registry, statuses, waiting>>

AuditExisting ==
  /\ job.at = "auditExisting" /\ AuditPasses(entries \ Of("missing"))
  /\ Go("publish")
  /\ Stay /\ UNCHANGED <<registry, statuses, waiting>>

(* Mutant: entries are published in any order. *)
PublishAnyOrder(e) ==
  /\ job.at = "publish" /\ e \in Of("missing")
  /\ Accepts(e, "ours") /\ statuses' = [statuses EXCEPT ![e] = "pending"] /\ waiting' = waiting \cup {e}
  /\ UNCHANGED <<job, shown, tagShown>> /\ Stay

(* npm publish of the next entry that is missing. A version the registry has is refused, which fails *)
(* the job; so does an answer that is lost. An entry that was accepted waits like one that was.      *)
Publish(e) ==
  /\ job.at = "publish" /\ e \in Of("missing") /\ \A d \in Of("missing") : e <= d
  /\ Accepts(e, "ours") /\ statuses' = [statuses EXCEPT ![e] = "pending"] /\ waiting' = waiting \cup {e}
  /\ UNCHANGED <<job, shown, tagShown>> /\ Stay

(* Nothing was missing, or all of it is accepted now. *)
Published ==
  /\ job.at = "publish" /\ Of("missing") = {}
  /\ Go(IF waiting = {} THEN "final" ELSE "waitMissing")
  /\ Stay /\ UNCHANGED <<registry, statuses, waiting>>

AuditAll ==
  /\ job.at = "auditAll" /\ AuditPasses(entries)
  /\ Go("final")
  /\ Stay /\ UNCHANGED <<registry, statuses, waiting>>

FinalCheck ==
  /\ job.at = "final" /\ \A e \in entries : MetadataFits(e)
  /\ Go("succeeded")
  /\ Stay /\ UNCHANGED <<registry, statuses, waiting>>

JobStep ==
  \/ JobFails \/ ModeChecked \/ Inspected \/ Waited \/ AuditExisting \/ Published \/ AuditAll \/ FinalCheck
  \/ \E e \in entries : Inspect(e) \/ Available(e) \/ Publish(e)

PublicationNext ==
  \/ JobStep
  \/ \E bootstrap \in BOOLEAN : Begin(bootstrap)
  \/ \E e \in entries : Shows(e) \/ NewerRelease(e) \/ \E content \in Contents : OthersPublish(e, content)

PublicationSpec == PublicationInit /\ [][PublicationNext]_publicationVars

-------------------------------------------------------------------------------
(* Whatever the registry shows late, however often a job was started again and whoever else          *)
(* publishes: a job that reports success leaves every entry with the released content and its        *)
(* provenance, under a tag that named it. "Resume partial npm publication from its immutable tag     *)
(* after reauthorization; its timeout covers pre-write and post-write scans" (RELEASING.md:105-106). *)
SuccessIsVerified ==
  /\ PublicationTypeOK
  /\ job.at = "succeeded" => \A e \in entries : accepted[e] = "ours" /\ e \in shown /\ tagShown[e] \in {"this", "newer"}

(* Nothing is written beside a version that is not the release: what the job found published is      *)
(* verified before its first write, and a version is written only after everything listed before it, *)
(* whichever job that was ("dependency order").                                                     *)
WritesAreSafe ==
  /\ \A e \in entries : accepted[e] = "ours" => \A d \in entries : d < e => accepted[d] = "ours"
  /\ job.at \in {"publish", "waitMissing", "auditAll", "final"}
       => \A d \in DOMAIN statuses : statuses[d] # "missing" => accepted[d] = "ours"
================================================================================
