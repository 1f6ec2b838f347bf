------------------------- MODULE KnowledgePipeline -------------------------
(***************************************************************************)
(* From an uploaded document to its place in the indexes, and out of them. *)
(* Three queues in the database – extraction requests, ingestion requests, *)
(* projection jobs (the outbox) – are worked off by an extraction process  *)
(* and by the knowledge runtime of the core process, while request threads *)
(* upload, delete and rebuild.  Each step of an actor is one transaction,  *)
(* or one call to an index.                                                *)
(*                                                                         *)
(* A document is one extraction request with one extracted item; backoff   *)
(* keeps a row "failed" until it is due, then it counts as "pending".      *)
(***************************************************************************)
EXTENDS Naturals, Sequences, FiniteSets, Functions

CONSTANTS Docs,        \* documents: extraction requests, and their items
          Workers,     \* extraction worker processes
          MaxAttempts, \* max_attempts of every queue
          Classifier,  \* whether a classification provider is configured
          MaxAsks,     \* bound: deletions and rebuilds asked of a document
          MaxFaults,   \* bound: how many of the hazards happen
          Hazards      \* what may happen

Kinds == {"extract", "ingest", "project",  \* a step raises
          "elsewhere",                     \* another node has the extractor
          "progress",                      \* an update of the task raises
          "reload", "crash"}               \* an actor is stopped

ASSUME KnowledgeAssumption ==
    /\ IsFiniteSet(Docs)
    /\ MaxAttempts \in Nat \ {0}
    /\ Classifier \in BOOLEAN
    /\ MaxAsks \in Nat /\ MaxFaults \in Nat
    /\ Hazards \subseteq Kinds

VARIABLES task,       \* background task of a document
          extraction, \* its extraction request
          extracted,  \* its extracted items
          ingestion,  \* the ingestion requests, oldest first
          source,     \* its source
          item,       \* its knowledge item
          jobs,       \* the outbox, oldest first
          synced,     \* projection states, by document and backend
          index,      \* what the stores behind the indexes hold
          deletion,   \* a deletion whose jobs are not enqueued yet
          asked,      \* how many deletions and rebuilds were asked
          worker,     \* what each extraction worker has in hand
          runtime,    \* the knowledge runtime
          faults      \* how often each hazard was met

vars == <<task, extraction, extracted, ingestion, source, item, jobs, synced,
          index, deletion, asked, worker, runtime, faults>>

Projections == {"vector", "kg", "classification"}

\* Rows of projection states differ by backend, and the two classification
\* topics name two of them.
Backends == {"vector", "kg", "classifier", "database"}

Settled == {"completed", "dead_letter", "cancelled", "deleted", "purged"}
Open == {"pending", "failed", "processing"}

Extractions == [status : {"none"} \cup Open \cup Settled, attempts : 0 .. MaxAttempts]
Ingestions == [doc : Docs, status : Open \cup Settled, attempts : 0 .. MaxAttempts]

\* An outbox job; the dedupe key is topic, version and rebuild suffix.
Jobs == [doc : Docs, does : {"upsert", "delete"}, projection : Projections,
         version : Nat, suffix : Nat, force : BOOLEAN,
         status : Open \cup Settled, attempts : 0 .. MaxAttempts]

Items == [there : BOOLEAN, live : BOOLEAN, version : Nat, embedded : BOOLEAN,
          vector : {"pending", "ready", "synced", "deleted"},
          kg : {"pending", "synced", "deleted"}]

NoItem == [there |-> FALSE, live |-> FALSE, version |-> 0, embedded |-> FALSE,
           vector |-> "pending", kg |-> "pending"]

\* Vectors, the graph's item node, and its evidence, by item version.
Empty == [vector |-> FALSE, kg |-> FALSE, evidence |-> {}]

\* What the runtime has in hand: its step, the requests and jobs it claimed
\* and has yet to do, the one it is at, and a version it read.
Hands == [at : {"poll", "payload", "source", "item", "enqueue", "complete",
                "report", "tell",
                "outbox", "read", "embed", "write", "mark", "done", "purge"},
          rows : SUBSET Nat, jobs : SUBSET Nat, now : Nat, version : Nat]

Resting == [at |-> "poll", rows |-> {}, jobs |-> {}, now |-> 0, version |-> 0]

NoDeletion == [open |-> FALSE, force |-> FALSE, version |-> 0]

TypeOK ==
    /\ task \in [Docs -> {"none", "running", "completed", "failed"}]
    /\ extraction \in [Docs -> Extractions]
    /\ extracted \in [Docs -> {"none", "pending", "ingested"}]
    /\ ingestion \in Seq(Ingestions)
    /\ source \in [Docs -> {"none", "active", "deleted"}]
    /\ item \in [Docs -> Items]
    /\ jobs \in Seq(Jobs)
    /\ synced \in [Docs -> [Backends -> {"none", "synced", "deleted"}]]
    /\ index \in [Docs -> [vector : BOOLEAN, kg : BOOLEAN, evidence : SUBSET Nat]]
    /\ deletion \in [Docs -> [open : BOOLEAN, force : BOOLEAN, version : Nat]]
    /\ asked \in [Docs -> 0 .. MaxAsks]
    /\ worker \in [Workers -> SUBSET Docs]
    /\ runtime \in Hands
    /\ faults \in [Kinds -> Nat]

Init ==
    /\ task = [d \in Docs |-> "none"]
    /\ extraction = [d \in Docs |-> [status |-> "none", attempts |-> 0]]
    /\ extracted = [d \in Docs |-> "none"]
    /\ ingestion = <<>>
    /\ source = [d \in Docs |-> "none"]
    /\ item = [d \in Docs |-> NoItem]
    /\ jobs = <<>>
    /\ synced = [d \in Docs |-> [b \in Backends |-> "none"]]
    /\ index = [d \in Docs |-> Empty]
    /\ deletion = [d \in Docs |-> NoDeletion]
    /\ asked = [d \in Docs |-> 0]
    /\ worker = [w \in Workers |-> {}]
    /\ runtime = Resting
    /\ faults = [h \in Kinds |-> 0]

-----------------------------------------------------------------------------
(* Rows. *)

\* Deviations: one attempt too many; attempts that are not counted.
FailedLate(r) ==
    [r EXCEPT !.attempts = @ + 1,
              !.status = IF r.attempts >= MaxAttempts THEN "dead_letter" ELSE "failed"]
FailedUncounted(r) ==
    [r EXCEPT !.status = IF r.attempts + 1 >= MaxAttempts THEN "dead_letter" ELSE "failed"]

\* fail_extraction_request, fail_ingestion_request, fail_outbox_job: whatever
\* the status was
Failed(r) ==
    [r EXCEPT !.attempts = @ + 1,
              !.status = IF r.attempts + 1 >= MaxAttempts THEN "dead_letter" ELSE "failed"]

\* claim_ingestion_requests and claim_outbox_jobs: the due rows
Due(rows) == {i \in DOMAIN rows : rows[i].status = "pending"}

Claimed(rows) ==
    [i \in DOMAIN rows |-> IF rows[i].status = "pending"
                           THEN [rows[i] EXCEPT !.status = "processing"] ELSE rows[i]]

Job(d, does, p, version, suffix, force) ==
    [doc |-> d, does |-> does, projection |-> p, version |-> version,
     suffix |-> suffix, force |-> force, status |-> "pending", attempts |-> 0]

\* Deviation: the version is not part of the key.
SameTopic(a, b) == a.doc = b.doc /\ a.does = b.does /\ a.projection = b.projection

\* dedupe_key
SameKey(a, b) == /\ a.doc = b.doc /\ a.does = b.does /\ a.projection = b.projection
                 /\ a.version = b.version /\ a.suffix = b.suffix

Known(rows, j) ==
    \E i \in DOMAIN rows : rows[i].status # "purged" /\ SameKey(rows[i], j)

\* enqueue_projection_job: no row has its dedupe key
With(rows, j) == IF Known(rows, j) THEN rows ELSE Append(rows, j)

\* ... for the projections of one version
Enqueued(d, does, version, suffix, force, classification) ==
    LET new(p) == Job(d, does, p, version, suffix, force)
        both == With(With(jobs, new("vector")), new("kg"))
    IN  IF classification THEN With(both, new("classification")) ELSE both

\* Hazard h happens.
Met(h) == /\ h \in Hazards
          /\ FoldFunction(+, 0, faults) < MaxFaults
          /\ faults' = [faults EXCEPT ![h] = @ + 1]

Stored == <<extraction, extracted, ingestion, source, item, jobs, synced, index>>

-----------------------------------------------------------------------------
(* Request threads. *)

\* an upload: create_extraction_task, enqueue_media_extraction
Upload(d) ==
    /\ extraction[d].status = "none"
    /\ task' = [task EXCEPT ![d] = "running"]
    /\ extraction' = [extraction EXCEPT ![d].status = "pending"]
    /\ UNCHANGED <<extracted, ingestion, source, item, jobs, synced, index,
                   deletion, asked, worker, runtime, faults>>

Asked(d) == /\ extraction[d].status # "none" /\ ~deletion[d].open
            /\ asked[d] < MaxAsks
            /\ asked' = [asked EXCEPT ![d] = @ + 1]

\* An item that is marked as deleted.
Deleted(i) == [i EXCEPT !.live = FALSE, !.version = @ + 1,
                        !.vector = "pending", !.kg = "pending"]

\* soft_delete_source
DeleteSource(d) ==
    /\ Asked(d) /\ source[d] # "none"
    /\ source' = [source EXCEPT ![d] = "deleted"]
    /\ IF item[d].there
       THEN /\ item' = [item EXCEPT ![d] = Deleted(@)]
            /\ deletion' = [deletion EXCEPT ![d] =
                   [open |-> TRUE, force |-> FALSE, version |-> item[d].version + 1]]
       ELSE UNCHANGED <<item, deletion>>
    /\ UNCHANGED <<task, extraction, extracted, ingestion, jobs, synced, index,
                   worker, runtime, faults>>

\* delete_by_metadata: one transaction over sources, items and both queues.
\* It neither sees a deleted source nor the items of one, and leaves the
\* background task as it is.
DeleteByMetadata(d, force) ==
    /\ Asked(d)
    /\ LET live == source[d] = "active" IN
       /\ source' = [source EXCEPT ![d] = IF live THEN "deleted" ELSE @]
       /\ IF live /\ item[d].live
          THEN /\ item' = [item EXCEPT ![d] = Deleted(@)]
               /\ deletion' = [deletion EXCEPT ![d] =
                      [open |-> TRUE, force |-> force, version |-> item[d].version + 1]]
          ELSE UNCHANGED <<item, deletion>>
    /\ ingestion' = [i \in DOMAIN ingestion |->
           IF ingestion[i].doc # d THEN ingestion[i]
           ELSE CASE force -> [ingestion[i] EXCEPT !.status = "deleted"]
                  [] ~force /\ ingestion[i].status \in {"pending", "failed"} ->
                        [ingestion[i] EXCEPT !.status = "cancelled"]
                  [] OTHER -> ingestion[i]]
    /\ extraction' = [extraction EXCEPT ![d].status = "cancelled"]
    /\ extracted' = [extracted EXCEPT ![d] = "none"]
    /\ UNCHANGED <<task, jobs, synced, index, worker, runtime, faults>>

\* delete_source and _enqueue_delete_jobs, after their transaction
EnqueueDeletes(d) ==
    /\ deletion[d].open
    /\ jobs' = Enqueued(d, "delete", deletion[d].version, 0, deletion[d].force, TRUE)
    /\ deletion' = [deletion EXCEPT ![d] = NoDeletion]
    /\ UNCHANGED <<task, extraction, extracted, ingestion, source, item, synced,
                   index, asked, worker, runtime, faults>>

\* rebuild_source
Rebuild(d) ==
    /\ Asked(d) /\ source[d] = "active" /\ item[d].live
    /\ jobs' = Enqueued(d, "upsert", item[d].version, asked[d] + 1, FALSE, Classifier)
    /\ UNCHANGED <<task, extraction, extracted, ingestion, source, item, synced,
                   index, deletion, worker, runtime, faults>>

-----------------------------------------------------------------------------
(* An extraction worker, a process without a task manager: what it reports  *)
(* about the background task goes nowhere.                                 *)

ClaimExtraction(w, d) ==
    /\ worker[w] = {} /\ extraction[d].status = "pending"
    /\ extraction' = [extraction EXCEPT ![d].status = "processing"]
    /\ worker' = [worker EXCEPT ![w] = {d}]
    /\ UNCHANGED <<task, extracted, ingestion, source, item, jobs, synced, index,
                   deletion, asked, runtime, faults>>

\* complete_extraction_with_items: whatever the status has become
Extract(w, d) ==
    /\ d \in worker[w]
    /\ extraction' = [extraction EXCEPT ![d].status = "completed"]
    /\ extracted' = [extracted EXCEPT ![d] = "pending"]
    /\ ingestion' = Append(ingestion, [doc |-> d, status |-> "pending", attempts |-> 0])
    /\ worker' = [worker EXCEPT ![w] = {}]
    /\ UNCHANGED <<task, source, item, jobs, synced, index, deletion, asked,
                   runtime, faults>>

ExtractFails(w, d) ==
    /\ d \in worker[w] /\ Met("extract")
    /\ extraction' = [extraction EXCEPT ![d] = Failed(@)]
    /\ worker' = [worker EXCEPT ![w] = {}]
    /\ UNCHANGED <<task, extracted, ingestion, source, item, jobs, synced, index,
                   deletion, asked, runtime>>

\* release_extraction_request: another node has the extractor
Release(w, d) ==
    /\ d \in worker[w] /\ Met("elsewhere")
    /\ extraction' = [extraction EXCEPT ![d].status =
           IF @ = "processing" THEN "failed" ELSE @]
    /\ worker' = [worker EXCEPT ![w] = {}]
    /\ UNCHANGED <<task, extracted, ingestion, source, item, jobs, synced, index,
                   deletion, asked, runtime>>

WorkerStep(w) == \E d \in Docs : \/ ClaimExtraction(w, d) \/ Extract(w, d)
                                 \/ ExtractFails(w, d) \/ Release(w, d)

-----------------------------------------------------------------------------
(* The knowledge runtime: a batch of ingestion requests, one after the      *)
(* other, then a batch of projection jobs, and again.                       *)

\* The oldest row, or job, of a batch is taken up.
Oldest(batch, i) == \A k \in batch : i <= k

TakeRow(batch) ==
    \/ batch = {} /\ runtime' = [Resting EXCEPT !.at = "outbox"]
    \/ \E i \in batch :
          /\ Oldest(batch, i)
          /\ runtime' = [Resting EXCEPT !.at = "payload", !.rows = batch, !.now = i]

TakeJob(batch) ==
    \/ batch = {} /\ runtime' = Resting
    \/ \E i \in batch :
          /\ Oldest(batch, i)
          /\ runtime' = [Resting EXCEPT !.at = "read", !.jobs = batch, !.now = i]

\* Deviation: the jobs after the one at hand are dropped.
NextJobNone == runtime' = Resting

NextRow == TakeRow(runtime.rows \ {runtime.now})
NextJob == TakeJob(runtime.jobs \ {runtime.now})

\* claim_ingestion_requests
ClaimRows ==
    /\ runtime.at = "poll"
    /\ ingestion' = Claimed(ingestion)
    /\ TakeRow(Due(ingestion))
    /\ UNCHANGED <<task, extraction, extracted, source, item, jobs, synced, index,
                   deletion, asked, worker, faults>>

row == runtime.now
rowDoc == ingestion[row].doc
To(step) == runtime' = [runtime EXCEPT !.at = step]

\* Deviation: the last attempt is taken for one that will be retried.
RowFailsQuietly ==
    /\ ingestion' = [ingestion EXCEPT ![row] =
           IF @.status = "deleted" THEN @ ELSE Failed(@)]
    /\ NextRow
    /\ UNCHANGED <<task, extraction, extracted, source, item, jobs, synced, index,
                   deletion, asked, worker>>

\* the except branch of process_batch
RowFails ==
    /\ ingestion' = [ingestion EXCEPT ![row] =
           IF @.status = "deleted" THEN @ ELSE Failed(@)]
    /\ IF ingestion[row].attempts + 1 >= MaxAttempts THEN To("tell") ELSE NextRow
    /\ UNCHANGED <<task, extraction, extracted, source, item, jobs, synced, index,
                   deletion, asked, worker>>

\* build_ingestion_request_payload
Payload ==
    /\ runtime.at = "payload" /\ extracted[rowDoc] = "pending"
    /\ To("source")
    /\ UNCHANGED <<Stored, task, deletion, asked, worker, faults>>

\* upsert_source
UpsertSource ==
    /\ runtime.at = "source"
    /\ source' = [source EXCEPT ![rowDoc] = "active"]
    /\ To("item")
    /\ UNCHANGED <<task, extraction, extracted, ingestion, item, jobs, synced, index,
                   deletion, asked, worker, faults>>

\* upsert_item and replace_item_graph: an item that was deleted lives again
UpsertItem ==
    /\ runtime.at = "item" /\ source[rowDoc] # "none"
    /\ item' = [item EXCEPT ![rowDoc] =
           [there |-> TRUE, live |-> TRUE, version |-> @.version + 1,
            embedded |-> FALSE, vector |-> "pending", kg |-> "pending"]]
    /\ runtime' = [runtime EXCEPT !.at = "enqueue", !.version = item[rowDoc].version + 1]
    /\ UNCHANGED <<task, extraction, extracted, ingestion, source, jobs, synced, index,
                   deletion, asked, worker, faults>>

EnqueueUpserts ==
    /\ runtime.at = "enqueue"
    /\ jobs' = Enqueued(rowDoc, "upsert", runtime.version, 0, FALSE, Classifier)
    /\ runtime' = [runtime EXCEPT !.at = "complete", !.version = 0]
    /\ UNCHANGED <<task, extraction, extracted, ingestion, source, item, synced, index,
                   deletion, asked, worker, faults>>

\* Deviation: the extracted items stay pending.
CompleteRowOnly ==
    /\ runtime.at = "complete"
    /\ ingestion' = [ingestion EXCEPT ![row].status = IF @ = "deleted" THEN @ ELSE "completed"]
    /\ To("report")
    /\ UNCHANGED <<task, extraction, extracted, source, item, jobs, synced, index,
                   deletion, asked, worker, faults>>

\* complete_ingestion_request: the row may be deleted by now
CompleteRow ==
    /\ runtime.at = "complete"
    /\ IF ingestion[row].status = "deleted" THEN UNCHANGED <<ingestion, extracted>>
       ELSE /\ ingestion' = [ingestion EXCEPT ![row].status = "completed"]
            /\ extracted' = [extracted EXCEPT ![rowDoc] =
                   IF @ = "pending" THEN "ingested" ELSE @]
    /\ To("report")
    /\ UNCHANGED <<task, extraction, source, item, jobs, synced, index, deletion,
                   asked, worker, faults>>

\* complete_extraction_task: whatever the task's status was
Report ==
    /\ runtime.at = "report"
    /\ task' = [task EXCEPT ![rowDoc] = "completed"]
    /\ NextRow
    /\ UNCHANGED <<Stored, deletion, asked, worker, faults>>

\* nothing is pending, the source is gone, or a step raises
IngestFails ==
    /\ \/ /\ \/ runtime.at = "payload" /\ extracted[rowDoc] # "pending"
             \/ runtime.at = "item" /\ source[rowDoc] = "none"
          /\ UNCHANGED faults
       \/ runtime.at \in {"item", "complete"} /\ Met("ingest")
       \/ runtime.at = "report" /\ Met("progress")
    /\ RowFails

\* fail_extraction_task
Tell ==
    /\ runtime.at = "tell"
    /\ task' = [task EXCEPT ![rowDoc] = "failed"]
    /\ NextRow
    /\ UNCHANGED <<Stored, deletion, asked, worker, faults>>

\* update_extraction_task raises before the try: _runner gives up its batch
AnnounceFails ==
    /\ runtime.at = "payload" /\ Met("progress")
    /\ runtime' = Resting
    /\ UNCHANGED <<Stored, task, deletion, asked, worker>>

\* claim_outbox_jobs
ClaimJobs ==
    /\ runtime.at = "outbox"
    /\ jobs' = Claimed(jobs)
    /\ TakeJob(Due(jobs))
    /\ UNCHANGED <<task, extraction, extracted, ingestion, source, item, synced, index,
                   deletion, asked, worker, faults>>

job == jobs[runtime.now]

\* Deviation: a job projects an item that was deleted.
SkipsGone == ~item[job.doc].there

\* An upsert of an item that is deleted or gone, or a delete of one that is
\* gone, has nothing to do; deleting classifications does not look.
Skips == CASE job.does = "upsert" -> ~item[job.doc].live
           [] job.does = "delete" -> /\ ~item[job.doc].there
                                     /\ job.projection # "classification"

\* get_item, at the head of every process_*_job
ReadItem ==
    /\ runtime.at = "read"
    /\ runtime' = [runtime EXCEPT
           !.version = item[job.doc].version,
           !.at = CASE Skips -> "done"
                    [] ~Skips /\ job.projection = "classification" -> "mark"
                    [] ~Skips /\ job.does = "upsert" /\ job.projection = "vector"
                         /\ ~item[job.doc].embedded -> "embed"
                    [] OTHER -> "write"]
    /\ UNCHANGED <<Stored, task, deletion, asked, worker, faults>>

\* set_item_embedding, on the item as it is by now: deleted perhaps, but not
\* purged, which only the runtime does
Embed ==
    /\ runtime.at = "embed"
    /\ item' = [item EXCEPT ![job.doc].embedded = TRUE, ![job.doc].vector = "ready"]
    /\ To("write")
    /\ UNCHANGED <<task, extraction, extracted, ingestion, source, jobs, synced, index,
                   deletion, asked, worker, faults>>

\* Evidence that a forced deletion removes: of two versions.
Removed == IF job.force THEN {job.version, IF job.version > 1 THEN job.version - 1 ELSE 1}
           ELSE {}

\* the calls to the vector store or the graph
Write ==
    /\ runtime.at = "write"
    /\ LET held == index[job.doc] IN
       index' = [index EXCEPT ![job.doc] =
           CASE job.projection = "vector" -> [held EXCEPT !.vector = (job.does = "upsert")]
             [] job.projection = "kg" /\ job.does = "upsert" ->
                    [held EXCEPT !.kg = TRUE, !.evidence = held.evidence \cup {runtime.version}]
             [] job.projection = "kg" /\ job.does = "delete" ->
                    [held EXCEPT !.kg = FALSE, !.evidence = held.evidence \ Removed]]
    /\ To("mark")
    /\ UNCHANGED <<task, extraction, extracted, ingestion, source, item, jobs, synced,
                   deletion, asked, worker, faults>>

\* The backend under which a projection state is kept.
Backend == CASE job.projection # "classification" -> job.projection
             [] job.projection = "classification" /\ job.does = "upsert" -> "classifier"
             [] OTHER -> "database"

\* mark_item_status and upsert_projection_state
Mark ==
    /\ runtime.at = "mark"
    /\ LET status == IF job.does = "upsert" THEN "synced" ELSE "deleted" IN
       /\ item' = [item EXCEPT ![job.doc] =
              CASE ~@.there \/ job.projection = "classification" -> @
                [] @.there /\ job.projection = "vector" -> [@ EXCEPT !.vector = status]
                [] @.there /\ job.projection = "kg" -> [@ EXCEPT !.kg = status]]
       /\ synced' = [synced EXCEPT ![job.doc][Backend] = status]
    /\ To("done")
    /\ UNCHANGED <<task, extraction, extracted, ingestion, source, jobs, index,
                   deletion, asked, worker, faults>>

\* complete_outbox_job
CompleteJob ==
    /\ runtime.at = "done"
    /\ jobs' = [jobs EXCEPT ![runtime.now].status = "completed"]
    /\ IF job.force THEN To("purge") ELSE NextJob
    /\ UNCHANGED <<task, extraction, extracted, ingestion, source, item, synced, index,
                   deletion, asked, worker, faults>>

\* Deviation: the first projection that is deleted lets the item go.
PurgeableEarly(d) == item[d].there /\ ~item[d].live

\* All derived data of a deleted item is deleted and no job is unfinished.
Purgeable(d) ==
    /\ item[d].there /\ ~item[d].live
    /\ item[d].vector = "deleted" /\ item[d].kg = "deleted"
    /\ \A b \in Backends : synced[d][b] # "synced"
    /\ \A i \in DOMAIN jobs : jobs[i].doc = d => jobs[i].status \in {"completed", "purged"}

\* purge_deleted_item_if_ready
Purge ==
    /\ runtime.at = "purge"
    /\ LET d == job.doc IN
       IF Purgeable(d)
       THEN /\ item' = [item EXCEPT ![d] = NoItem]
            /\ synced' = [synced EXCEPT ![d] = [b \in Backends |-> "none"]]
            /\ jobs' = [i \in DOMAIN jobs |->
                   IF jobs[i].doc = d THEN [jobs[i] EXCEPT !.status = "purged"] ELSE jobs[i]]
            /\ source' = [source EXCEPT ![d] = IF @ = "deleted" THEN "none" ELSE @]
       ELSE UNCHANGED <<item, synced, jobs, source>>
    /\ NextJob
    /\ UNCHANGED <<task, extraction, extracted, ingestion, index, deletion, asked,
                   worker, faults>>

\* the except branch of process_outbox_once
ProjectFails ==
    /\ runtime.at \in {"embed", "write"} /\ Met("project")
    /\ jobs' = [jobs EXCEPT ![runtime.now] = Failed(@)]
    /\ NextJob
    /\ UNCHANGED <<task, extraction, extracted, ingestion, source, item, synced, index,
                   deletion, asked, worker>>

RuntimeStep ==
    \/ ClaimRows \/ Payload \/ UpsertSource \/ UpsertItem \/ EnqueueUpserts
    \/ CompleteRow \/ Report \/ IngestFails \/ Tell \/ AnnounceFails
    \/ ClaimJobs \/ ReadItem \/ Embed \/ Write \/ Mark \/ CompleteJob \/ Purge
    \/ ProjectFails

-----------------------------------------------------------------------------
(* The clock, and processes that stop. *)

\* available_at of a failed or released row is reached
ExtractionDue(d) ==
    /\ extraction[d].status = "failed"
    /\ extraction' = [extraction EXCEPT ![d].status = "pending"]
    /\ UNCHANGED <<task, extracted, ingestion, source, item, jobs, synced, index,
                   deletion, asked, worker, runtime, faults>>

IngestionDue(i) ==
    /\ i \in DOMAIN ingestion /\ ingestion[i].status = "failed"
    /\ ingestion' = [ingestion EXCEPT ![i].status = "pending"]
    /\ UNCHANGED <<task, extraction, extracted, source, item, jobs, synced, index,
                   deletion, asked, worker, runtime, faults>>

JobDue(i) ==
    /\ i \in DOMAIN jobs /\ jobs[i].status = "failed"
    /\ jobs' = [jobs EXCEPT ![i].status = "pending"]
    /\ UNCHANGED <<task, extraction, extracted, ingestion, source, item, synced, index,
                   deletion, asked, worker, runtime, faults>>

\* reload_knowledge_runtime: stop() cancels the runner, which notices at an
\* await; a new one starts with nothing in hand
Reload ==
    /\ runtime.at \in {"write", "mark"} /\ Met("reload")
    /\ runtime' = Resting
    /\ UNCHANGED <<Stored, task, deletion, asked, worker>>

\* the core process dies and is started again; recover_from_db keeps the
\* tasks of extractions as they were
CrashCore ==
    /\ Met("crash")
    /\ runtime' = Resting
    /\ deletion' = [d \in Docs |-> NoDeletion]
    /\ UNCHANGED <<Stored, task, asked, worker>>

CrashWorker(w) ==
    /\ Met("crash") /\ worker[w] # {}
    /\ worker' = [worker EXCEPT ![w] = {}]
    /\ UNCHANGED <<Stored, task, deletion, asked, runtime>>

Next ==
    \/ \E d \in Docs : \/ Upload(d) \/ DeleteSource(d) \/ EnqueueDeletes(d) \/ Rebuild(d)
                       \/ \E force \in BOOLEAN : DeleteByMetadata(d, force)
                       \/ ExtractionDue(d)
    \/ \E w \in Workers : WorkerStep(w) \/ CrashWorker(w)
    \/ RuntimeStep
    \/ \E i \in DOMAIN ingestion : IngestionDue(i)
    \/ \E i \in DOMAIN jobs : JobDue(i)
    \/ Reload \/ CrashCore

Spec == Init /\ [][Next]_vars

\* Actors act, and what waits becomes due.  Nothing obliges a step to raise.
Fairness ==
    /\ \A w \in Workers : WF_vars(\E d \in Docs : ClaimExtraction(w, d) \/ Extract(w, d))
    /\ WF_vars(RuntimeStep)
    /\ \A d \in Docs : WF_vars(EnqueueDeletes(d)) /\ WF_vars(ExtractionDue(d))
    /\ WF_vars(\E i \in DOMAIN ingestion : IngestionDue(i))
    /\ WF_vars(\E i \in DOMAIN jobs : JobDue(i))

FairSpec == Spec /\ Fairness

-----------------------------------------------------------------------------
(* Properties. *)

Waiting == {"pending", "failed"}

\* Rows of document d that somebody will get to, or has in hand.
Busy(d) ==
    \/ deletion[d].open
    \/ extraction[d].status \in Waiting \/ \E w \in Workers : d \in worker[w]
    \/ \E i \in DOMAIN ingestion :
          /\ ingestion[i].doc = d
          /\ \/ ingestion[i].status \in Waiting
             \/ i \in runtime.rows
    \/ \E i \in DOMAIN jobs :
          /\ jobs[i].doc = d
          /\ \/ jobs[i].status \in Waiting
             \/ i \in runtime.jobs

\* Rows that are processing though nobody has them in hand: no claim takes
\* them again.
LeftBehind(d) ==
    \/ extraction[d].status = "processing" /\ \A w \in Workers : d \notin worker[w]
    \/ \E i \in DOMAIN ingestion :
          /\ ingestion[i].doc = d /\ ingestion[i].status = "processing"
          /\ i \notin runtime.rows
    \/ \E i \in DOMAIN jobs :
          /\ jobs[i].doc = d /\ jobs[i].status = "processing"
          /\ i \notin runtime.jobs

Interrupted == faults["crash"] + faults["reload"] + faults["progress"] > 0

\* Everything asked about d was done: nothing is on its way, nothing was lost,
\* and no job was given up.
Done(d) ==
    /\ ~Busy(d) /\ ~LeftBehind(d)
    /\ faults["crash"] = 0
    /\ \A i \in DOMAIN jobs : jobs[i].doc = d => jobs[i].status # "dead_letter"

\* Only an actor that is stopped, or fails before its try, leaves a row behind
\* that no lease brings back: no other failure, deletion or retry does.
OnlyStopsStrand == \A d \in Docs : LeftBehind(d) => Interrupted

\* An item that lives, and was never deleted, is in both indexes and says so,
\* however its upserts failed, were retried, or met a rebuild.
LiveIsIndexed ==
    \A d \in Docs :
        /\ Done(d) /\ item[d].live
        /\ \A i \in DOMAIN jobs : jobs[i].doc = d => jobs[i].does = "upsert"
        => /\ index[d].vector /\ index[d].kg
           /\ item[d].vector = "synced" /\ item[d].kg = "synced"

\* An item that was deleted is in neither index, though its upserts and its
\* deletes overtake each other by failing and waiting.
DeletedIsUnindexed ==
    \A d \in Docs : Done(d) /\ item[d].there /\ ~item[d].live
                        => ~index[d].vector /\ ~index[d].kg

\* No purged item can be found through an index: what is removed for good
\* was removed from them before (purge_deleted_item_if_ready).
PurgedIsUnindexed ==
    \A d \in Docs : ~item[d].there => ~index[d].vector /\ ~index[d].kg

\* Extracted content is not forgotten: an ingestion request for it is open,
\* or was given up after its attempts.
ExtractedIsQueued ==
    \A d \in Docs : extracted[d] = "pending" =>
        \E i \in DOMAIN ingestion : /\ ingestion[i].doc = d
                                    /\ ingestion[i].status \in Open \cup {"dead_letter"}

\* The background task of a document ends with its processing, unless the
\* document was deleted or could not be extracted.
TaskEnds ==
    \A d \in Docs :
        /\ Done(d) /\ faults["progress"] = 0
        /\ extraction[d].status \notin {"none", "cancelled", "dead_letter"}
        /\ \A i \in DOMAIN ingestion : ingestion[i].status # "cancelled"
        => task[d] # "running"

\* Whatever is on its way gets somewhere: no actor waits for ever.
PipelineDrains == \A d \in Docs : []<>~Busy(d)

\* A forced deletion whose jobs are all completed leaves no item and no
\* evidence behind.
ForcedIsPurged ==
    \A d \in Docs :
        /\ Done(d) /\ ~item[d].live
        /\ \E i \in DOMAIN jobs : jobs[i].doc = d /\ jobs[i].force
        => ~item[d].there /\ index[d].evidence = {}

-----------------------------------------------------------------------------
(* The invariant behind the safety properties *)

RowSteps == {"payload", "source", "item", "enqueue", "complete", "report", "tell"}
JobSteps == {"read", "embed", "write", "mark", "done", "purge"}

\* What the runtime has in hand are rows of one queue, the one it is at among them.
InHand ==
    /\ runtime.rows \subseteq DOMAIN ingestion /\ runtime.jobs \subseteq DOMAIN jobs
    /\ runtime.at \in RowSteps => runtime.now \in runtime.rows
    /\ runtime.at \in JobSteps => runtime.now \in runtime.jobs
    /\ runtime.at \notin RowSteps => runtime.rows = {}
    /\ runtime.at \notin JobSteps => runtime.jobs = {}

\* An extraction request is in the hands of one worker, that has no other, and
\* nobody can claim it.
Holders ==
    /\ \A w \in Workers : \A d \in worker[w] :
          /\ extraction[d].status \notin Waiting \cup {"none"}
          /\ extraction[d].attempts < MaxAttempts
    /\ \A w, v \in Workers : \A d \in worker[w], e \in worker[v] : d = e <=> w = v

\* What is open, or in hand, has an attempt left.
Tries ==
    /\ \A d \in Docs : extraction[d].status \in Open \cup {"none"}
                         => extraction[d].attempts < MaxAttempts
    /\ \A i \in DOMAIN ingestion :
          \/ ingestion[i].status \in Open
          \/ i \in runtime.rows /\ ~(runtime.at = "tell" /\ i = runtime.now)
          => ingestion[i].attempts < MaxAttempts
    /\ \A i \in DOMAIN jobs : jobs[i].status \in Open \/ i \in runtime.jobs
                                => jobs[i].attempts < MaxAttempts

\* What is processing is in somebody's hands, and what they are done with is
\* no longer processing.
Claims ==
    /\ OnlyStopsStrand
    /\ runtime.at \in {"report", "tell"} => ingestion[row].status # "processing"
    /\ runtime.at = "purge" => job.status # "processing"

\* A projection p of item i that was deleted since is not marked as deleted
\* while an upsert writes it.
Unmarked(i, p) == ~i.live => (IF p = "vector" THEN i.vector ELSE i.kg) # "deleted"

\* The item at hand is there until its projection is marked; a projection that
\* is marked deleted, or whose item is gone, is in no index.
Gone ==
    /\ PurgedIsUnindexed
    /\ \A d \in Docs :
          /\ ~item[d].there => ~item[d].live
          /\ ~item[d].live /\ item[d].vector = "deleted" => ~index[d].vector
          /\ ~item[d].live /\ item[d].kg = "deleted" => ~index[d].kg
    /\ runtime.at \in {"embed", "write"} => job.projection # "classification"
    /\ runtime.at = "embed" => job.does = "upsert" /\ job.projection = "vector"
    /\ runtime.at \in {"embed", "write", "mark"} /\ job.projection # "classification" =>
          /\ item[job.doc].there
          /\ job.does = "upsert" => Unmarked(item[job.doc], job.projection)
    /\ runtime.at = "mark" /\ job.does = "delete" =>
          /\ job.projection = "vector" => ~index[job.doc].vector
          /\ job.projection = "kg" => ~index[job.doc].kg

Inv == TypeOK /\ InHand /\ Holders /\ Tries /\ Claims /\ Gone /\ ExtractedIsQueued
=============================================================================
