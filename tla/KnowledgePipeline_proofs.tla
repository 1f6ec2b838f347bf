----------------------- MODULE KnowledgePipeline_proofs -----------------------
(***************************************************************************)
(* Type correctness and the safety of KnowledgePipeline, for any documents *)
(* and workers and any bounds.  Inv says who has which row in hand and how *)
(* items, marks and indexes agree: what is purged is in no index,          *)
(* extracted content is queued, and only stops strand a row.  Following    *)
(* says what is still to come of a document: once all is done, its task    *)
(* has ended, and the indexes hold it if and only if it lives.             *)
(***************************************************************************)
EXTENDS KnowledgePipeline, TLAPS

Steps == {"poll", "outbox"} \cup RowSteps \cup JobSteps

-----------------------------------------------------------------------------
(* Rows, jobs and hands *)

LEMMA HandsAre ==
    Hands = [at : Steps, rows : SUBSET Nat, jobs : SUBSET Nat, now : Nat, version : Nat]
<1>1. Steps = {"poll", "payload", "source", "item", "enqueue", "complete", "report",
               "tell", "outbox", "read", "embed", "write", "mark", "done", "purge"}
  BY DEF Steps, RowSteps, JobSteps
<1>. QED
  BY <1>1 DEF Hands

LEMMA RestingTyped ==
    /\ Resting \in Hands
    /\ [Resting EXCEPT !.at = "outbox"] \in Hands
BY DEF Resting, Hands

\* A failed row counts the attempt, and waits while there are more.
LEMMA FailedWaits ==
    ASSUME NEW k \in 0 .. MaxAttempts, k < MaxAttempts
    PROVE  k + 1 \in 0 .. MaxAttempts /\ (k + 1 < MaxAttempts \/ k + 1 >= MaxAttempts)
BY KnowledgeAssumption

LEMMA FailedExtraction ==
    ASSUME NEW r \in Extractions, r.attempts < MaxAttempts
    PROVE  /\ Failed(r) \in Extractions
           /\ Failed(r).attempts = r.attempts + 1
           /\ Failed(r).status \in {"failed", "dead_letter"}
           /\ Failed(r).status = "failed" => Failed(r).attempts < MaxAttempts
<1>. DEFINE a == r.attempts + 1
            s == IF r.attempts + 1 >= MaxAttempts THEN "dead_letter" ELSE "failed"
<1>1. r.attempts \in 0 .. MaxAttempts
  BY DEF Extractions
<1>2. a \in 0 .. MaxAttempts /\ s \in {"failed", "dead_letter"}
  BY <1>1, FailedWaits
<1>3. s = "failed" => a < MaxAttempts
  BY <1>1, FailedWaits
<1>4. s \in Open \cup Settled
  BY <1>2 DEF Open, Settled
<1>. DEFINE After == [r EXCEPT !.attempts = a, !.status = s]
<1>5. Failed(r) = After
  BY DEF Failed
<1>. HIDE DEF a, s
<1>6. After \in Extractions /\ After.attempts = a /\ After.status = s
  BY <1>2, <1>4 DEF Extractions
<1>. HIDE DEF After
<1>. QED
  BY <1>2, <1>3, <1>5, <1>6 DEF a

LEMMA FailedIngestion ==
    ASSUME NEW r \in Ingestions, r.attempts < MaxAttempts
    PROVE  /\ Failed(r) \in Ingestions
           /\ Failed(r).doc = r.doc
           /\ Failed(r).attempts = r.attempts + 1
           /\ Failed(r).status \in {"failed", "dead_letter"}
           /\ Failed(r).status = "failed" => Failed(r).attempts < MaxAttempts
<1>. DEFINE a == r.attempts + 1
            s == IF r.attempts + 1 >= MaxAttempts THEN "dead_letter" ELSE "failed"
<1>1. r.attempts \in 0 .. MaxAttempts
  BY DEF Ingestions
<1>2. a \in 0 .. MaxAttempts /\ s \in {"failed", "dead_letter"}
  BY <1>1, FailedWaits
<1>3. s = "failed" => a < MaxAttempts
  BY <1>1, FailedWaits
<1>4. s \in Open \cup Settled
  BY <1>2 DEF Open, Settled
<1>. DEFINE After == [r EXCEPT !.attempts = a, !.status = s]
<1>5. Failed(r) = After
  BY DEF Failed
<1>. HIDE DEF a, s
<1>6. After \in Ingestions /\ After.attempts = a /\ After.status = s /\ After.doc = r.doc
  BY <1>2, <1>4 DEF Ingestions
<1>. HIDE DEF After
<1>. QED
  BY <1>2, <1>3, <1>5, <1>6 DEF a

LEMMA FailedJob ==
    ASSUME NEW r \in Jobs, r.attempts < MaxAttempts
    PROVE  /\ Failed(r) \in Jobs
           /\ Failed(r).doc = r.doc
           /\ Failed(r).does = r.does
           /\ Failed(r).projection = r.projection
           /\ Failed(r).attempts = r.attempts + 1
           /\ Failed(r).status \in {"failed", "dead_letter"}
           /\ Failed(r).status = "failed" => Failed(r).attempts < MaxAttempts
<1>. DEFINE a == r.attempts + 1
            s == IF r.attempts + 1 >= MaxAttempts THEN "dead_letter" ELSE "failed"
<1>1. r.attempts \in 0 .. MaxAttempts
  BY DEF Jobs
<1>2. a \in 0 .. MaxAttempts /\ s \in {"failed", "dead_letter"}
  BY <1>1, FailedWaits
<1>3. s = "failed" => a < MaxAttempts
  BY <1>1, FailedWaits
<1>4. s \in Open \cup Settled
  BY <1>2 DEF Open, Settled
<1>. DEFINE After == [r EXCEPT !.attempts = a, !.status = s]
<1>5. Failed(r) = After
  BY DEF Failed
<1>. HIDE DEF a, s
<1>6. After \in Jobs /\ After.attempts = a /\ After.status = s /\ After.doc = r.doc /\ After.does = r.does /\ After.projection = r.projection
  BY <1>2, <1>4 DEF Jobs
<1>. HIDE DEF After
<1>. QED
  BY <1>2, <1>3, <1>5, <1>6 DEF a

LEMMA JobTyped ==
    ASSUME NEW d \in Docs, NEW does \in {"upsert", "delete"}, NEW p \in Projections,
           NEW v \in Nat, NEW s \in Nat, NEW force \in BOOLEAN
    PROVE  /\ Job(d, does, p, v, s, force) \in Jobs
           /\ Job(d, does, p, v, s, force).status = "pending"
           /\ Job(d, does, p, v, s, force).attempts < MaxAttempts
BY KnowledgeAssumption DEF Job, Jobs, Open

\* The rows that are added wait and have all their attempts.
Grows(old, new) ==
    /\ new \in Seq(Jobs)
    /\ DOMAIN old \subseteq DOMAIN new
    /\ \A i \in DOMAIN new : \/ i \in DOMAIN old /\ new[i] = old[i]
                             \/ i \notin DOMAIN old /\ new[i].status = "pending"
                                /\ new[i].attempts < MaxAttempts

LEMMA WithGrows ==
    ASSUME NEW rows \in Seq(Jobs), NEW j \in Jobs, j.status = "pending",
           j.attempts < MaxAttempts
    PROVE  Grows(rows, With(rows, j))
BY DEF With, Grows

LEMMA GrowsTransitive ==
    ASSUME NEW a, NEW b, NEW c, Grows(a, b), Grows(b, c)
    PROVE  Grows(a, c)
BY DEF Grows

LEMMA EnqueuedGrows ==
    ASSUME jobs \in Seq(Jobs),
           NEW d \in Docs, NEW does \in {"upsert", "delete"}, NEW v \in Nat,
           NEW s \in Nat, NEW force \in BOOLEAN, NEW c \in BOOLEAN
    PROVE  Grows(jobs, Enqueued(d, does, v, s, force, c))
<1>. DEFINE new(p) == Job(d, does, p, v, s, force)
            one == With(jobs, new("vector"))
            two == With(one, new("kg"))
            three == With(two, new("classification"))
<1>1. \A p \in Projections : /\ new(p) \in Jobs /\ new(p).status = "pending"
                             /\ new(p).attempts < MaxAttempts
  BY JobTyped
<1>2. /\ "vector" \in Projections /\ "kg" \in Projections
      /\ "classification" \in Projections
  BY DEF Projections
<1>. HIDE DEF new
<1>3. Grows(jobs, one)
  BY <1>1, <1>2, WithGrows
<1>4. Grows(one, two)
  BY <1>1, <1>2, <1>3, WithGrows DEF Grows
<1>. HIDE DEF one
<1>5. Grows(two, three)
  BY <1>1, <1>2, <1>4, WithGrows DEF Grows
<1>. HIDE DEF two, three
<1>6. Grows(jobs, two) /\ Grows(jobs, three)
  BY <1>3, <1>4, <1>5, GrowsTransitive
<1>7. Enqueued(d, does, v, s, force, c) = IF c THEN three ELSE two
  BY DEF Enqueued, one, two, three, new
<1>. QED
  BY <1>6, <1>7

\* Taking up a batch
LEMMA TakeRowTyped ==
    ASSUME NEW batch \in SUBSET Nat, TakeRow(batch)
    PROVE  /\ runtime' \in Hands
           /\ runtime'.rows = batch /\ runtime'.jobs = {}
           /\ \/ runtime'.at = "outbox" /\ batch = {}
              \/ runtime'.at = "payload" /\ runtime'.now \in batch
<1>1. CASE batch = {} /\ runtime' = [Resting EXCEPT !.at = "outbox"]
  BY <1>1, RestingTyped DEF Resting
<1>2. CASE \E i \in batch : runtime' =
             [Resting EXCEPT !.at = "payload", !.rows = batch, !.now = i]
  <2>1. PICK i \in batch : runtime' =
             [Resting EXCEPT !.at = "payload", !.rows = batch, !.now = i]
    BY <1>2
  <2>2. runtime' = [at |-> "payload", rows |-> batch, jobs |-> {}, now |-> i,
                    version |-> 0]
    BY <2>1 DEF Resting
  <2>. QED
    BY <2>2 DEF Hands
<1>. QED
  BY <1>1, <1>2 DEF TakeRow

LEMMA TakeJobTyped ==
    ASSUME NEW batch \in SUBSET Nat, TakeJob(batch)
    PROVE  /\ runtime' \in Hands
           /\ runtime'.jobs = batch /\ runtime'.rows = {}
           /\ \/ runtime'.at = "poll" /\ batch = {}
              \/ runtime'.at = "read" /\ runtime'.now \in batch
<1>1. CASE batch = {} /\ runtime' = Resting
  BY <1>1, RestingTyped DEF Resting
<1>2. CASE \E i \in batch : runtime' =
             [Resting EXCEPT !.at = "read", !.jobs = batch, !.now = i]
  <2>1. PICK i \in batch : runtime' =
             [Resting EXCEPT !.at = "read", !.jobs = batch, !.now = i]
    BY <1>2
  <2>2. runtime' = [at |-> "read", rows |-> {}, jobs |-> batch, now |-> i,
                    version |-> 0]
    BY <2>1 DEF Resting
  <2>. QED
    BY <2>2 DEF Hands
<1>. QED
  BY <1>1, <1>2 DEF TakeJob

LEMMA ToTyped ==
    ASSUME runtime \in Hands, NEW s \in Steps, To(s)
    PROVE  /\ runtime' \in Hands
           /\ runtime'.at = s /\ runtime'.now = runtime.now
           /\ runtime'.rows = runtime.rows /\ runtime'.jobs = runtime.jobs
           /\ runtime'.version = runtime.version
BY HandsAre DEF To

\* What a batch is taken from, and what is at hand, exists.
LEMMA AtHand ==
    ASSUME TypeOK, InHand
    PROVE  /\ runtime.at \in RowSteps =>
                /\ row \in DOMAIN ingestion /\ ingestion[row] \in Ingestions
                /\ rowDoc \in Docs
           /\ runtime.at \in JobSteps =>
                /\ runtime.now \in DOMAIN jobs /\ job \in Jobs /\ job.doc \in Docs
           /\ runtime.rows \in SUBSET Nat /\ runtime.jobs \in SUBSET Nat
           /\ Due(ingestion) \in SUBSET Nat /\ Due(jobs) \in SUBSET Nat
           /\ DOMAIN ingestion \subseteq Nat /\ DOMAIN jobs \subseteq Nat
<1>1. /\ DOMAIN ingestion \subseteq Nat /\ DOMAIN jobs \subseteq Nat
      /\ \A i \in DOMAIN ingestion : ingestion[i] \in Ingestions
      /\ \A i \in DOMAIN jobs : jobs[i] \in Jobs
  BY DEF TypeOK
<1>2. \A r \in Ingestions : r.doc \in Docs
  BY DEF Ingestions
<1>3. \A j \in Jobs : j.doc \in Docs
  BY DEF Jobs
<1>. QED
  BY <1>1, <1>2, <1>3 DEF InHand, row, rowDoc, job, Due

\* Rows and jobs that are claimed
LEMMA ClaimedTyped ==
    ASSUME NEW S, NEW rows \in Seq(S), S = Ingestions \/ S = Jobs
    PROVE  /\ Claimed(rows) \in Seq(S)
           /\ DOMAIN Claimed(rows) = DOMAIN rows
           /\ \A i \in DOMAIN rows :
                /\ rows[i].status # "pending" => Claimed(rows)[i] = rows[i]
                /\ rows[i].status = "pending" =>
                     Claimed(rows)[i] = [rows[i] EXCEPT !.status = "processing"]
<1>1. \A r \in S : [r EXCEPT !.status = "processing"] \in S
  <2>1. CASE S = Ingestions
    <3>1. \A r \in Ingestions : [r EXCEPT !.status = "processing"] \in Ingestions
      BY DEF Ingestions, Open
    <3>. QED
      BY <2>1, <3>1
  <2>2. CASE S = Jobs
    <3>1. \A r \in Jobs : [r EXCEPT !.status = "processing"] \in Jobs
      BY DEF Jobs, Open
    <3>. QED
      BY <2>2, <3>1
  <2>. QED
    BY <2>1, <2>2
<1>2. \A i \in DOMAIN rows : rows[i] \in S
  OBVIOUS
<1>3. /\ DOMAIN Claimed(rows) = DOMAIN rows
      /\ \A i \in DOMAIN rows :
           /\ rows[i].status # "pending" => Claimed(rows)[i] = rows[i]
           /\ rows[i].status = "pending" =>
                Claimed(rows)[i] = [rows[i] EXCEPT !.status = "processing"]
  BY DEF Claimed
<1>4. \A i \in DOMAIN rows : Claimed(rows)[i] \in S
  BY <1>1, <1>2, <1>3
<1>5. Claimed(rows) \in Seq(S)
  <2>1. DOMAIN rows = 1 .. Len(rows) /\ Len(rows) \in Nat
    OBVIOUS
  <2>2. Claimed(rows) \in [1 .. Len(rows) -> S]
    BY <1>3, <1>4, <2>1 DEF Claimed
  <2>. QED
    BY <2>1, <2>2
<1>. QED
  BY <1>3, <1>5

-----------------------------------------------------------------------------
(* Type correctness *)

LEMMA InitTyped == Init => TypeOK
BY KnowledgeAssumption, RestingTyped
   DEF Init, TypeOK, Extractions, Items, NoItem, Empty, NoDeletion, Ingestions

LEMMA MetTyped ==
    ASSUME TypeOK, NEW h \in Kinds, Met(h)
    PROVE  /\ faults' \in [Kinds -> Nat]
           /\ faults'[h] = faults[h] + 1
           /\ \A k \in Kinds : faults'[k] >= faults[k]
<1>1. faults' = [faults EXCEPT ![h] = @ + 1]
  BY DEF Met
<1>. QED
  BY <1>1 DEF TypeOK

\* The status of an extraction request is set.
LEMMA ExtractionSet ==
    ASSUME TypeOK, NEW d \in Docs, NEW s \in Open \cup Settled,
           extraction' = [extraction EXCEPT ![d].status = s]
    PROVE  /\ extraction' \in [Docs -> Extractions]
           /\ extraction'[d].status = s /\ extraction'[d].attempts = extraction[d].attempts
           /\ \A e \in Docs \ {d} : extraction'[e] = extraction[e]
<1>1. extraction[d] \in Extractions
  BY DEF TypeOK
<1>. DEFINE after == [extraction[d] EXCEPT !.status = s]
<1>2. /\ after \in Extractions /\ after.status = s
      /\ after.attempts = extraction[d].attempts
  BY <1>1 DEF Extractions
<1>3. extraction' = [extraction EXCEPT ![d] = after]
  OBVIOUS
<1>4. extraction \in [Docs -> Extractions]
  BY DEF TypeOK
<1>. HIDE DEF after
<1>. QED
  BY <1>2, <1>3, <1>4

LEMMA UploadTyped ==
    ASSUME TypeOK, NEW d \in Docs, Upload(d) PROVE TypeOK'
<1>1. extraction' \in [Docs -> Extractions]
  BY ExtractionSet DEF Upload, Open
<1>2. task' \in [Docs -> {"none", "running", "completed", "failed"}]
  BY DEF Upload, TypeOK
<1>. QED
  BY <1>1, <1>2 DEF Upload, TypeOK

LEMMA AskedTyped ==
    ASSUME TypeOK, NEW d \in Docs, Asked(d)
    PROVE  asked' \in [Docs -> 0 .. MaxAsks]
BY KnowledgeAssumption DEF Asked, TypeOK

LEMMA DeletedTyped ==
    ASSUME TypeOK, NEW d \in Docs, NEW force \in BOOLEAN
    PROVE  /\ item[d] \in Items /\ Deleted(item[d]) \in Items
           /\ Deleted(item[d]).there = item[d].there /\ ~Deleted(item[d]).live
           /\ Deleted(item[d]).vector = "pending" /\ Deleted(item[d]).kg = "pending"
           /\ [item EXCEPT ![d] = Deleted(@)] \in [Docs -> Items]
           /\ [deletion EXCEPT ![d] =
                  [open |-> TRUE, force |-> force, version |-> item[d].version + 1]]
                \in [Docs -> [open : BOOLEAN, force : BOOLEAN, version : Nat]]
<1>1. item[d] \in Items /\ item[d].version + 1 \in Nat
  BY DEF TypeOK, Items
<1>2. /\ Deleted(item[d]) \in Items
      /\ Deleted(item[d]).there = item[d].there /\ ~Deleted(item[d]).live
      /\ Deleted(item[d]).vector = "pending" /\ Deleted(item[d]).kg = "pending"
  BY <1>1 DEF Deleted, Items
<1>3. [item EXCEPT ![d] = Deleted(@)] \in [Docs -> Items]
  BY <1>2 DEF TypeOK
<1>. QED
  BY <1>1, <1>2, <1>3 DEF TypeOK

LEMMA DeleteSourceTyped ==
    ASSUME TypeOK, NEW d \in Docs, DeleteSource(d) PROVE TypeOK'
<1>1. /\ item' \in [Docs -> Items]
      /\ deletion' \in [Docs -> [open : BOOLEAN, force : BOOLEAN, version : Nat]]
  <2>1. CASE item[d].there
    <3>1. /\ item' = [item EXCEPT ![d] = Deleted(@)]
          /\ deletion' = [deletion EXCEPT ![d] =
                [open |-> TRUE, force |-> FALSE, version |-> item[d].version + 1]]
      BY <2>1 DEF DeleteSource
    <3>2. FALSE \in BOOLEAN
      OBVIOUS
    <3>. QED
      BY <3>1, <3>2, DeletedTyped
  <2>2. CASE ~(item[d].there)
    BY <2>2 DEF DeleteSource, TypeOK
  <2>. QED
    BY <2>1, <2>2
<1>2. source' \in [Docs -> {"none", "active", "deleted"}]
  BY DEF DeleteSource, TypeOK
<1>3. asked' \in [Docs -> 0 .. MaxAsks]
  BY AskedTyped DEF DeleteSource
<1>. QED
  BY <1>1, <1>2, <1>3 DEF DeleteSource, TypeOK

\* Rows that only change their status keep everything else.
Marked(old, new) ==
    /\ new \in Seq(Ingestions) /\ DOMAIN new = DOMAIN old
    /\ \A i \in DOMAIN old :
         /\ new[i].doc = old[i].doc /\ new[i].attempts = old[i].attempts
         /\ new[i].status \in {old[i].status, "deleted", "cancelled", "completed"}

LEMMA DeleteByMetadataMarks ==
    ASSUME TypeOK, NEW d \in Docs, NEW force \in BOOLEAN, DeleteByMetadata(d, force)
    PROVE  Marked(ingestion, ingestion')
<1>. DEFINE After(i) ==
           IF ingestion[i].doc # d THEN ingestion[i]
           ELSE CASE force -> [ingestion[i] EXCEPT !.status = "deleted"]
                  [] ~force /\ ingestion[i].status \in {"pending", "failed"} ->
                        [ingestion[i] EXCEPT !.status = "cancelled"]
                  [] OTHER -> ingestion[i]
<1>1. ingestion' = [i \in DOMAIN ingestion |-> After(i)]
  BY DEF DeleteByMetadata
<1>2. \A r \in Ingestions, s \in Settled :
         /\ [r EXCEPT !.status = s] \in Ingestions
         /\ [r EXCEPT !.status = s].doc = r.doc
         /\ [r EXCEPT !.status = s].attempts = r.attempts
         /\ [r EXCEPT !.status = s].status = s
  BY DEF Ingestions
<1>3. \A i \in DOMAIN ingestion : ingestion[i] \in Ingestions
  BY DEF TypeOK
<1>4. "deleted" \in Settled /\ "cancelled" \in Settled
  BY DEF Settled
<1>5. \A i \in DOMAIN ingestion :
         \/ After(i) = ingestion[i]
         \/ After(i) = [ingestion[i] EXCEPT !.status = "deleted"]
         \/ After(i) = [ingestion[i] EXCEPT !.status = "cancelled"]
  OBVIOUS
<1>. HIDE DEF After
<1>6. \A i \in DOMAIN ingestion :
         /\ After(i) \in Ingestions
         /\ After(i).doc = ingestion[i].doc /\ After(i).attempts = ingestion[i].attempts
         /\ After(i).status \in {ingestion[i].status, "deleted", "cancelled", "completed"}
  <2>. TAKE i \in DOMAIN ingestion
  <2>1. CASE After(i) = ingestion[i]
    BY <1>3, <2>1
  <2>2. CASE After(i) = [ingestion[i] EXCEPT !.status = "deleted"]
    BY <1>2, <1>3, <1>4, <2>2
  <2>3. CASE After(i) = [ingestion[i] EXCEPT !.status = "cancelled"]
    BY <1>2, <1>3, <1>4, <2>3
  <2>. QED
    BY <1>5, <2>1, <2>2, <2>3
<1>7. DOMAIN ingestion = 1 .. Len(ingestion) /\ Len(ingestion) \in Nat
  BY DEF TypeOK
<1>8. ingestion' \in Seq(Ingestions) /\ DOMAIN ingestion' = DOMAIN ingestion
  BY <1>1, <1>6, <1>7
<1>. QED
  BY <1>1, <1>6, <1>8 DEF Marked

LEMMA DeleteByMetadataTyped ==
    ASSUME TypeOK, NEW d \in Docs, NEW force \in BOOLEAN, DeleteByMetadata(d, force)
    PROVE  TypeOK'
<1>1. /\ item' \in [Docs -> Items]
      /\ deletion' \in [Docs -> [open : BOOLEAN, force : BOOLEAN, version : Nat]]
  <2>1. CASE source[d] = "active" /\ item[d].live
    <3>1. /\ item' = [item EXCEPT ![d] = Deleted(@)]
          /\ deletion' = [deletion EXCEPT ![d] =
                [open |-> TRUE, force |-> force, version |-> item[d].version + 1]]
      BY <2>1 DEF DeleteByMetadata
    <3>2. force \in BOOLEAN
      OBVIOUS
    <3>. QED
      BY <3>1, <3>2, DeletedTyped
  <2>2. CASE ~(source[d] = "active" /\ item[d].live)
    BY <2>2 DEF DeleteByMetadata, TypeOK
  <2>. QED
    BY <2>1, <2>2
<1>2. source' \in [Docs -> {"none", "active", "deleted"}]
  BY DEF DeleteByMetadata, TypeOK
<1>3. asked' \in [Docs -> 0 .. MaxAsks]
  BY AskedTyped DEF DeleteByMetadata
<1>4. ingestion' \in Seq(Ingestions)
  BY DeleteByMetadataMarks DEF Marked
<1>5. extraction' \in [Docs -> Extractions]
  BY ExtractionSet DEF DeleteByMetadata, Settled
<1>6. extracted' \in [Docs -> {"none", "pending", "ingested"}]
  BY DEF DeleteByMetadata, TypeOK
<1>. QED
  BY <1>1, <1>2, <1>3, <1>4, <1>5, <1>6 DEF DeleteByMetadata, TypeOK

LEMMA EnqueueDeletesTyped ==
    ASSUME TypeOK, NEW d \in Docs, EnqueueDeletes(d)
    PROVE  TypeOK' /\ Grows(jobs, jobs')
<1>1. deletion[d].version \in Nat /\ deletion[d].force \in BOOLEAN
  BY DEF TypeOK
<1>2. Grows(jobs, jobs')
  BY <1>1, EnqueuedGrows DEF EnqueueDeletes, TypeOK
<1>3. deletion' \in [Docs -> [open : BOOLEAN, force : BOOLEAN, version : Nat]]
  BY DEF EnqueueDeletes, TypeOK, NoDeletion
<1>. QED
  BY <1>2, <1>3 DEF EnqueueDeletes, TypeOK, Grows

LEMMA RebuildTyped ==
    ASSUME TypeOK, NEW d \in Docs, Rebuild(d)
    PROVE  TypeOK' /\ Grows(jobs, jobs')
<1>1. item[d].version \in Nat /\ asked[d] + 1 \in Nat
  BY DEF TypeOK, Items
<1>2. Grows(jobs, jobs')
  BY <1>1, EnqueuedGrows, KnowledgeAssumption DEF Rebuild, TypeOK
<1>3. asked' \in [Docs -> 0 .. MaxAsks]
  BY AskedTyped DEF Rebuild
<1>. QED
  BY <1>2, <1>3 DEF Rebuild, TypeOK, Grows

LEMMA WorkerTyped ==
    ASSUME TypeOK, Holders, NEW w \in Workers, NEW d \in Docs,
           ClaimExtraction(w, d) \/ Extract(w, d) \/ ExtractFails(w, d) \/ Release(w, d)
    PROVE  TypeOK'
<1>1. worker' \in [Workers -> SUBSET Docs]
  BY DEF ClaimExtraction, Extract, ExtractFails, Release, TypeOK
<1>2. extraction' \in [Docs -> Extractions]
  <2>1. CASE ClaimExtraction(w, d)
    BY <2>1, ExtractionSet DEF ClaimExtraction, Open
  <2>2. CASE Extract(w, d)
    BY <2>2, ExtractionSet DEF Extract, Settled
  <2>3. CASE ExtractFails(w, d)
    <3>1. Failed(extraction[d]) \in Extractions
      BY <2>3, FailedExtraction DEF ExtractFails, Holders, TypeOK
    <3>. QED
      BY <2>3, <3>1 DEF ExtractFails, TypeOK
  <2>4. CASE Release(w, d)
    <3>1. extraction' = [extraction EXCEPT ![d].status = "failed"] \/ extraction' = extraction
      BY <2>4 DEF Release, TypeOK, Extractions
    <3>. QED
      BY <3>1, ExtractionSet DEF Open, TypeOK
  <2>. QED
    BY <2>1, <2>2, <2>3, <2>4
<1>3. extracted' \in [Docs -> {"none", "pending", "ingested"}]
  BY DEF ClaimExtraction, Extract, ExtractFails, Release, TypeOK
<1>4. ingestion' \in Seq(Ingestions)
  <2>1. CASE Extract(w, d)
    <3>1. [doc |-> d, status |-> "pending", attempts |-> 0] \in Ingestions
      BY KnowledgeAssumption DEF Ingestions, Open
    <3>. QED
      BY <2>1, <3>1 DEF Extract, TypeOK
  <2>2. CASE ~Extract(w, d)
    BY <2>2 DEF ClaimExtraction, ExtractFails, Release, TypeOK
  <2>. QED
    BY <2>1, <2>2
<1>5. faults' \in [Kinds -> Nat]
  <2>1. "extract" \in Kinds /\ "elsewhere" \in Kinds
    BY DEF Kinds
  <2>. QED
    BY <2>1, MetTyped DEF ClaimExtraction, Extract, ExtractFails, Release, TypeOK
<1>6. UNCHANGED <<task, source, item, jobs, synced, index, deletion, asked, runtime>>
  BY DEF ClaimExtraction, Extract, ExtractFails, Release
<1>. QED
  BY <1>1, <1>2, <1>3, <1>4, <1>5, <1>6 DEF TypeOK

-----------------------------------------------------------------------------
(* ... of the knowledge runtime *)

\* The row at hand gets a new value.
LEMMA RowSet ==
    ASSUME TypeOK, NEW i \in DOMAIN ingestion, NEW r \in Ingestions,
           ingestion' = [ingestion EXCEPT ![i] = r]
    PROVE  /\ ingestion' \in Seq(Ingestions) /\ DOMAIN ingestion' = DOMAIN ingestion
           /\ ingestion'[i] = r
           /\ \A k \in DOMAIN ingestion \ {i} : ingestion'[k] = ingestion[k]
<1>1. ingestion \in Seq(Ingestions)
  BY DEF TypeOK
<1>. QED
  BY <1>1

LEMMA JobSet ==
    ASSUME TypeOK, NEW i \in DOMAIN jobs, NEW r \in Jobs,
           jobs' = [jobs EXCEPT ![i] = r]
    PROVE  /\ jobs' \in Seq(Jobs) /\ DOMAIN jobs' = DOMAIN jobs
           /\ jobs'[i] = r
           /\ \A k \in DOMAIN jobs \ {i} : jobs'[k] = jobs[k]
<1>1. jobs \in Seq(Jobs)
  BY DEF TypeOK
<1>. QED
  BY <1>1

LEMMA ClaimRowsTyped ==
    ASSUME TypeOK, InHand, ClaimRows PROVE TypeOK'
<1>1. ingestion' \in Seq(Ingestions)
  BY ClaimedTyped DEF ClaimRows, TypeOK
<1>2. runtime' \in Hands
  BY AtHand, TakeRowTyped DEF ClaimRows
<1>. QED
  BY <1>1, <1>2 DEF ClaimRows, TypeOK

LEMMA ClaimJobsTyped ==
    ASSUME TypeOK, InHand, ClaimJobs PROVE TypeOK'
<1>1. jobs' \in Seq(Jobs)
  BY ClaimedTyped DEF ClaimJobs, TypeOK
<1>2. runtime' \in Hands
  BY AtHand, TakeJobTyped DEF ClaimJobs
<1>. QED
  BY <1>1, <1>2 DEF ClaimJobs, TypeOK

\* The steps in which the runtime only goes on.
LEMMA StepsTyped ==
    ASSUME TypeOK, InHand, Payload \/ Report \/ Tell \/ AnnounceFails \/ ReadItem
    PROVE  TypeOK'
<1>1. CASE Payload
  <2>1. "source" \in Steps
    BY DEF Steps, RowSteps
  <2>2. runtime' \in Hands
    BY <1>1, <2>1, ToTyped DEF Payload, TypeOK
  <2>. QED
    BY <1>1, <2>2 DEF Payload, TypeOK, Stored
<1>2. CASE Report \/ Tell
  <2>1. rowDoc \in Docs /\ runtime.rows \ {runtime.now} \in SUBSET Nat
    BY <1>2, AtHand DEF Report, Tell, RowSteps
  <2>2. runtime' \in Hands
    BY <1>2, <2>1, TakeRowTyped DEF Report, Tell, NextRow
  <2>3. task' \in [Docs -> {"none", "running", "completed", "failed"}]
    BY <1>2, <2>1 DEF Report, Tell, TypeOK
  <2>4. UNCHANGED <<Stored, deletion, asked, worker, faults>>
    BY <1>2 DEF Report, Tell
  <2>. QED
    BY <2>2, <2>3, <2>4 DEF TypeOK, Stored
<1>3. CASE AnnounceFails
  <2>1. faults' \in [Kinds -> Nat] /\ runtime' \in Hands
    BY <1>3, MetTyped, RestingTyped DEF AnnounceFails, Kinds
  <2>. QED
    BY <1>3, <2>1 DEF AnnounceFails, TypeOK, Stored
<1>4. CASE ReadItem
  <2>1. job.doc \in Docs /\ item[job.doc].version \in Nat
    BY <1>4, AtHand DEF ReadItem, JobSteps, TypeOK, Items
  <2>2. {"done", "mark", "embed", "write"} \subseteq Steps
    BY DEF Steps, JobSteps
  <2>3. PICK s \in Steps : runtime' =
            [runtime EXCEPT !.version = item[job.doc].version, !.at = s]
    BY <1>4, <2>2 DEF ReadItem
  <2>4. runtime' \in Hands
    BY <2>1, <2>3, HandsAre DEF TypeOK
  <2>. QED
    BY <1>4, <2>4 DEF ReadItem, TypeOK, Stored
<1>. QED
  BY <1>1, <1>2, <1>3, <1>4

LEMMA UpsertSourceTyped ==
    ASSUME TypeOK, InHand, UpsertSource PROVE TypeOK'
<1>1. "item" \in Steps
  BY DEF Steps, RowSteps
<1>2. runtime' \in Hands
  BY <1>1, ToTyped DEF UpsertSource, TypeOK
<1>3. source' \in [Docs -> {"none", "active", "deleted"}]
  BY DEF UpsertSource, TypeOK
<1>. QED
  BY <1>2, <1>3 DEF UpsertSource, TypeOK

LEMMA UpsertItemTyped ==
    ASSUME TypeOK, InHand, UpsertItem PROVE TypeOK'
<1>1. rowDoc \in Docs
  BY AtHand DEF UpsertItem, RowSteps
<1>2. item[rowDoc].version + 1 \in Nat
  BY <1>1 DEF TypeOK, Items
<1>3. item' \in [Docs -> Items]
  BY <1>1, <1>2 DEF UpsertItem, TypeOK, Items
<1>4. runtime' \in Hands
  BY <1>2 DEF UpsertItem, TypeOK, Hands
<1>. QED
  BY <1>3, <1>4 DEF UpsertItem, TypeOK

LEMMA EnqueueUpsertsTyped ==
    ASSUME TypeOK, InHand, EnqueueUpserts
    PROVE  TypeOK' /\ Grows(jobs, jobs')
<1>1. rowDoc \in Docs
  BY AtHand DEF EnqueueUpserts, RowSteps
<1>2. runtime.version \in Nat /\ Classifier \in BOOLEAN
  BY KnowledgeAssumption DEF TypeOK, Hands
<1>3. Grows(jobs, jobs')
  BY <1>1, <1>2, EnqueuedGrows DEF EnqueueUpserts, TypeOK
<1>4. runtime' \in Hands
  BY DEF EnqueueUpserts, TypeOK, Hands
<1>. QED
  BY <1>3, <1>4 DEF EnqueueUpserts, TypeOK, Grows

LEMMA CompleteRowTyped ==
    ASSUME TypeOK, InHand, CompleteRow
    PROVE  /\ TypeOK'
           /\ Marked(ingestion, ingestion')
           /\ ingestion'[row].status \in {"completed", "deleted"}
           /\ \A i \in DOMAIN ingestion : i # row => ingestion'[i] = ingestion[i]
<1>1. rowDoc \in Docs /\ row \in DOMAIN ingestion /\ ingestion[row] \in Ingestions
  BY AtHand DEF CompleteRow, RowSteps
<1>2. "report" \in Steps
  BY DEF Steps, RowSteps
<1>3. runtime' \in Hands
  BY <1>2, ToTyped DEF CompleteRow, TypeOK
<1>4. extracted' \in [Docs -> {"none", "pending", "ingested"}]
  <2>1. \/ extracted' = extracted
        \/ extracted' = [extracted EXCEPT ![rowDoc] = "ingested"]
        \/ extracted' = [extracted EXCEPT ![rowDoc] = extracted[rowDoc]]
    BY DEF CompleteRow
  <2>2. extracted \in [Docs -> {"none", "pending", "ingested"}]
    BY DEF TypeOK
  <2>. QED
    BY <1>1, <2>1, <2>2
<1>. DEFINE after == [ingestion[row] EXCEPT !.status = "completed"]
<1>5. /\ after \in Ingestions /\ after.doc = ingestion[row].doc
      /\ after.attempts = ingestion[row].attempts /\ after.status = "completed"
  BY <1>1 DEF Ingestions, Settled
<1>6. \/ ingestion' = ingestion /\ ingestion[row].status = "deleted"
      \/ ingestion' = [ingestion EXCEPT ![row] = after]
  BY DEF CompleteRow
<1>. HIDE DEF after
<1>7. /\ Marked(ingestion, ingestion')
      /\ ingestion'[row].status \in {"completed", "deleted"}
      /\ \A i \in DOMAIN ingestion : i # row => ingestion'[i] = ingestion[i]
  <2>1. CASE ingestion' = ingestion /\ ingestion[row].status = "deleted"
    BY <2>1 DEF Marked, TypeOK
  <2>2. CASE ingestion' = [ingestion EXCEPT ![row] = after]
    BY <1>1, <1>5, <2>2, RowSet DEF Marked
  <2>. QED
    BY <1>6, <2>1, <2>2
<1>. QED
  BY <1>3, <1>4, <1>7 DEF CompleteRow, TypeOK, Marked

\* The except branch of a row that has an attempt left
LEMMA RowFailsTyped ==
    ASSUME TypeOK, InHand, Tries, runtime.at \in RowSteps, runtime.at # "tell", RowFails
    PROVE  /\ ingestion' \in Seq(Ingestions) /\ DOMAIN ingestion' = DOMAIN ingestion
           /\ ingestion'[row].doc = ingestion[row].doc
           /\ \/ ingestion'[row] = ingestion[row] /\ ingestion[row].status = "deleted"
              \/ ingestion'[row] = Failed(ingestion[row])
           /\ ingestion'[row].status \in {"failed", "dead_letter", "deleted"}
           /\ ingestion'[row].status = "failed" => ingestion'[row].attempts < MaxAttempts
           /\ \A i \in DOMAIN ingestion \ {row} : ingestion'[i] = ingestion[i]
           /\ runtime' \in Hands
           /\ runtime'.jobs = {}
           /\ \/ /\ runtime'.at = "tell" /\ runtime'.now = row
                 /\ runtime'.rows = runtime.rows
              \/ runtime'.at = "outbox" /\ runtime'.rows = {} /\ runtime.rows \ {row} = {}
              \/ /\ runtime'.at = "payload" /\ runtime'.now \in runtime'.rows
                 /\ runtime'.rows = runtime.rows \ {row}
<1>1. row \in DOMAIN ingestion /\ ingestion[row] \in Ingestions
  BY AtHand
<1>2. ingestion[row].attempts < MaxAttempts
  BY <1>1 DEF Tries, InHand, row
<1>. DEFINE after == IF ingestion[row].status = "deleted" THEN ingestion[row]
                     ELSE Failed(ingestion[row])
<1>3. ingestion' = [ingestion EXCEPT ![row] = after]
  BY DEF RowFails
<1>4. /\ after \in Ingestions /\ after.doc = ingestion[row].doc
      /\ \/ after = ingestion[row] /\ ingestion[row].status = "deleted"
         \/ after = Failed(ingestion[row])
      /\ after.status \in {"failed", "dead_letter", "deleted"}
      /\ after.status = "failed" => after.attempts < MaxAttempts
  BY <1>1, <1>2, FailedIngestion
<1>. HIDE DEF after
<1>5. /\ ingestion' \in Seq(Ingestions) /\ DOMAIN ingestion' = DOMAIN ingestion
      /\ ingestion'[row] = after
      /\ \A i \in DOMAIN ingestion \ {row} : ingestion'[i] = ingestion[i]
  BY <1>1, <1>3, <1>4, RowSet
<1>6. CASE To("tell")
  <2>1. "tell" \in Steps
    BY DEF Steps, RowSteps
  <2>2. /\ runtime' \in Hands /\ runtime'.at = "tell" /\ runtime'.now = runtime.now
        /\ runtime'.rows = runtime.rows /\ runtime'.jobs = runtime.jobs
    BY <1>6, <2>1, ToTyped DEF TypeOK
  <2>3. runtime.jobs = {}
    BY DEF InHand, RowSteps, JobSteps
  <2>. QED
    BY <1>4, <1>5, <2>2, <2>3 DEF row
<1>7. CASE NextRow
  <2>1. runtime.rows \ {runtime.now} \in SUBSET Nat
    BY AtHand
  <2>2. /\ runtime' \in Hands
        /\ runtime'.rows = runtime.rows \ {runtime.now} /\ runtime'.jobs = {}
        /\ \/ runtime'.at = "outbox" /\ runtime.rows \ {runtime.now} = {}
           \/ runtime'.at = "payload" /\ runtime'.now \in runtime.rows \ {runtime.now}
    BY <1>7, <2>1, TakeRowTyped DEF NextRow
  <2>. QED
    BY <1>4, <1>5, <2>2 DEF row
<1>. QED
  BY <1>6, <1>7 DEF RowFails

LEMMA IngestFailsTyped ==
    ASSUME TypeOK, InHand, Tries, IngestFails PROVE TypeOK'
<1>1. runtime.at \in RowSteps /\ runtime.at # "tell" /\ RowFails
  BY DEF IngestFails, RowSteps
<1>2. faults' \in [Kinds -> Nat]
  <2>1. "ingest" \in Kinds /\ "progress" \in Kinds
    BY DEF Kinds
  <2>. QED
    BY <2>1, MetTyped DEF IngestFails, TypeOK
<1>3. ingestion' \in Seq(Ingestions) /\ runtime' \in Hands
  BY <1>1, RowFailsTyped
<1>4. UNCHANGED <<task, extraction, extracted, source, item, jobs, synced, index,
                  deletion, asked, worker>>
  BY <1>1 DEF RowFails
<1>. QED
  BY <1>2, <1>3, <1>4 DEF TypeOK

LEMMA EmbedTyped ==
    ASSUME TypeOK, InHand, Embed PROVE TypeOK'
<1>1. job.doc \in Docs
  BY AtHand DEF Embed, JobSteps
<1>2. item[job.doc] \in Items
  BY <1>1 DEF TypeOK
<1>. DEFINE after == [item[job.doc] EXCEPT !.embedded = TRUE, !.vector = "ready"]
<1>3. after \in Items
  BY <1>2 DEF Items
<1>4. item' = [item EXCEPT ![job.doc] = after]
  BY <1>1 DEF Embed, TypeOK
<1>. HIDE DEF after
<1>5. item' \in [Docs -> Items]
  BY <1>1, <1>3, <1>4 DEF TypeOK
<1>6. runtime' \in Hands
  BY ToTyped DEF Embed, TypeOK, Steps, JobSteps
<1>. QED
  BY <1>5, <1>6 DEF Embed, TypeOK

LEMMA RemovedTyped ==
    ASSUME TypeOK, InHand, runtime.at \in JobSteps
    PROVE  Removed \in SUBSET Nat
<1>1. job.version \in Nat
  BY AtHand DEF Jobs
<1>. QED
  BY <1>1 DEF Removed

\* What becomes of the index when the projection at hand is written
LEMMA WriteDoes ==
    ASSUME TypeOK, InHand, Write, job.projection # "classification"
    PROVE  /\ index' \in [Docs -> [vector : BOOLEAN, kg : BOOLEAN, evidence : SUBSET Nat]]
           /\ \A d \in Docs : d # job.doc => index'[d] = index[d]
           /\ job.projection = "vector" =>
                /\ index'[job.doc].vector = (job.does = "upsert")
                /\ index'[job.doc].kg = index[job.doc].kg
           /\ job.projection = "kg" =>
                /\ index'[job.doc].kg = (job.does = "upsert")
                /\ index'[job.doc].vector = index[job.doc].vector
<1>. DEFINE d == job.doc
<1>1. d \in Docs /\ job \in Jobs /\ runtime.at \in JobSteps
  BY AtHand DEF Write, JobSteps
<1>2. Removed \in SUBSET Nat /\ runtime.version \in Nat
  BY <1>1, RemovedTyped DEF TypeOK, Hands
<1>3. job.projection \in {"vector", "kg"} /\ job.does \in {"upsert", "delete"}
  BY <1>1 DEF Jobs, Projections
<1>. DEFINE I == [vector : BOOLEAN, kg : BOOLEAN, evidence : SUBSET Nat]
<1>4. index[d] \in I /\ index \in [Docs -> I]
  BY <1>1 DEF TypeOK
<1>5. CASE job.projection = "vector"
  <2>. DEFINE after == [index[d] EXCEPT !.vector = (job.does = "upsert")]
  <2>1. after \in I /\ after.vector = (job.does = "upsert") /\ after.kg = index[d].kg
    BY <1>4
  <2>2. index' = [index EXCEPT ![d] = after]
    BY <1>5 DEF Write
  <2>. HIDE DEF after
  <2>. QED
    BY <1>1, <1>4, <1>5, <2>1, <2>2
<1>6. CASE job.projection = "kg" /\ job.does = "upsert"
  <2>. DEFINE after == [index[d] EXCEPT !.kg = TRUE, !.evidence = index[d].evidence \cup {runtime.version}]
  <2>1. after \in I /\ after.kg = TRUE /\ after.vector = index[d].vector
    BY <1>2, <1>4
  <2>2. index' = [index EXCEPT ![d] = after]
    BY <1>6 DEF Write
  <2>. HIDE DEF after
  <2>. QED
    BY <1>1, <1>4, <1>6, <2>1, <2>2
<1>7. CASE job.projection = "kg" /\ job.does = "delete"
  <2>. DEFINE after == [index[d] EXCEPT !.kg = FALSE, !.evidence = index[d].evidence \ Removed]
  <2>1. after \in I /\ after.kg = FALSE /\ after.vector = index[d].vector
    BY <1>4
  <2>2. index' = [index EXCEPT ![d] = after]
    BY <1>7 DEF Write
  <2>. HIDE DEF after
  <2>. QED
    BY <1>1, <1>4, <1>7, <2>1, <2>2
<1>. QED
  BY <1>3, <1>5, <1>6, <1>7

LEMMA WriteTyped ==
    ASSUME TypeOK, InHand, Gone, Write PROVE TypeOK'
<1>1. job.projection # "classification"
  BY DEF Gone, Write
<1>2. runtime' \in Hands
  BY ToTyped DEF Write, TypeOK, Steps, JobSteps
<1>. QED
  BY <1>1, <1>2, WriteDoes DEF Write, TypeOK

\* What becomes of the item when the projection at hand is marked
LEMMA MarkDoes ==
    ASSUME TypeOK, InHand, Mark
    PROVE  /\ item' \in [Docs -> Items]
           /\ \A d \in Docs : d # job.doc => item'[d] = item[d]
           /\ item'[job.doc].there = item[job.doc].there
           /\ item'[job.doc].live = item[job.doc].live
           /\ item'[job.doc].version = item[job.doc].version
           /\ LET s == IF job.does = "upsert" THEN "synced" ELSE "deleted" IN
              /\ IF item[job.doc].there /\ job.projection = "vector"
                 THEN item'[job.doc].vector = s
                 ELSE item'[job.doc].vector = item[job.doc].vector
              /\ IF item[job.doc].there /\ job.projection = "kg"
                 THEN item'[job.doc].kg = s
                 ELSE item'[job.doc].kg = item[job.doc].kg
<1>. DEFINE d == job.doc
            s == IF job.does = "upsert" THEN "synced" ELSE "deleted"
            v == [item[d] EXCEPT !.vector = s]
            k == [item[d] EXCEPT !.kg = s]
<1>1. d \in Docs /\ job \in Jobs
  BY AtHand DEF Mark, JobSteps
<1>2. item[d] \in Items /\ item \in [Docs -> Items]
  BY <1>1 DEF TypeOK
<1>3. s \in {"synced", "deleted"}
  OBVIOUS
<1>4. job.projection \in {"vector", "kg", "classification"}
  BY <1>1 DEF Jobs, Projections
<1>5. /\ ~item[d].there \/ job.projection = "classification" => item' = [item EXCEPT ![d] = item[d]]
      /\ item[d].there /\ job.projection = "vector" => item' = [item EXCEPT ![d] = v]
      /\ item[d].there /\ job.projection = "kg" => item' = [item EXCEPT ![d] = k]
  BY <1>4 DEF Mark
<1>. HIDE DEF s
<1>6. /\ v \in Items /\ v.there = item[d].there /\ v.live = item[d].live
      /\ v.vector = s /\ v.kg = item[d].kg
      /\ k \in Items /\ k.there = item[d].there /\ k.live = item[d].live
      /\ k.kg = s /\ k.vector = item[d].vector
      /\ v.version = item[d].version /\ k.version = item[d].version
  BY <1>2, <1>3 DEF Items
<1>. HIDE DEF v, k
<1>7. CASE ~item[d].there \/ job.projection = "classification"
  BY <1>1, <1>2, <1>5, <1>7
<1>8. CASE item[d].there /\ job.projection = "vector"
  BY <1>1, <1>2, <1>5, <1>6, <1>8 DEF s
<1>9. CASE item[d].there /\ job.projection = "kg"
  BY <1>1, <1>2, <1>5, <1>6, <1>9 DEF s
<1>. QED
  BY <1>4, <1>7, <1>8, <1>9

LEMMA MarkTyped ==
    ASSUME TypeOK, InHand, Mark PROVE TypeOK'
<1>1. job.doc \in Docs /\ job \in Jobs
  BY AtHand DEF Mark, JobSteps
<1>2. Backend \in Backends
  BY <1>1 DEF Backend, Backends, Jobs, Projections
<1>3. synced' \in [Docs -> [Backends -> {"none", "synced", "deleted"}]]
  <2>1. PICK s \in {"synced", "deleted"} : synced' = [synced EXCEPT ![job.doc][Backend] = s]
    BY DEF Mark
  <2>. QED
    BY <1>1, <1>2, <2>1 DEF TypeOK
<1>4. runtime' \in Hands
  BY ToTyped DEF Mark, TypeOK, Steps, JobSteps
<1>. QED
  BY <1>3, <1>4, MarkDoes DEF Mark, TypeOK

\* A job that is over: its status changes, and it leaves the batch or is purged.
Ended(i) ==
    /\ jobs' \in Seq(Jobs) /\ DOMAIN jobs' = DOMAIN jobs
    /\ \A k \in DOMAIN jobs : /\ jobs'[k].doc = jobs[k].doc
                              /\ jobs'[k].does = jobs[k].does
                              /\ jobs'[k].projection = jobs[k].projection
    /\ \A k \in DOMAIN jobs :
          \/ jobs'[k] = jobs[k] /\ k # i
          \/ jobs'[k].attempts = jobs[k].attempts /\ jobs'[k].status \notin Open
          \/ /\ k = i /\ jobs'[k].status # "processing"
             /\ jobs'[k].status \in Open => jobs'[k].attempts < MaxAttempts
    /\ runtime' \in Hands
    /\ \/ /\ runtime'.jobs = runtime.jobs /\ runtime'.rows = {}
          /\ runtime'.at = "purge" /\ runtime'.now = i
          /\ \A k \in DOMAIN jobs : jobs'[k].attempts = jobs[k].attempts
       \/ /\ runtime'.jobs = runtime.jobs \ {i} /\ runtime'.rows = {}
          /\ \/ runtime'.at = "read" /\ runtime'.now \in runtime'.jobs
             \/ runtime'.at = "poll" /\ runtime'.jobs = {}

LEMMA NextJobTyped ==
    ASSUME TypeOK, InHand, NextJob
    PROVE  /\ runtime' \in Hands
           /\ runtime'.jobs = runtime.jobs \ {runtime.now} /\ runtime'.rows = {}
           /\ \/ runtime'.at = "read" /\ runtime'.now \in runtime'.jobs
              \/ runtime'.at = "poll" /\ runtime'.jobs = {}
<1>1. runtime.jobs \ {runtime.now} \in SUBSET Nat
  BY AtHand
<1>. QED
  BY <1>1, TakeJobTyped DEF NextJob

LEMMA CompleteJobTyped ==
    ASSUME TypeOK, InHand, CompleteJob PROVE TypeOK' /\ Ended(runtime.now)
<1>. DEFINE i == runtime.now
            after == [jobs[i] EXCEPT !.status = "completed"]
<1>1. i \in DOMAIN jobs /\ jobs[i] \in Jobs
  BY AtHand DEF CompleteJob, JobSteps, job
<1>2. /\ after \in Jobs /\ after.doc = jobs[i].doc /\ after.does = jobs[i].does
      /\ after.projection = jobs[i].projection /\ after.status = "completed"
      /\ after.attempts = jobs[i].attempts
  BY <1>1 DEF Jobs, Settled
<1>3. jobs' = [jobs EXCEPT ![i] = after]
  BY DEF CompleteJob
<1>. HIDE DEF after
<1>4. /\ jobs' \in Seq(Jobs) /\ DOMAIN jobs' = DOMAIN jobs /\ jobs'[i] = after
      /\ \A k \in DOMAIN jobs \ {i} : jobs'[k] = jobs[k]
  BY <1>1, <1>2, <1>3, JobSet
<1>5. "completed" \notin Open
  BY DEF Open
<1>6. CASE To("purge")
  <2>1. /\ runtime' \in Hands /\ runtime'.at = "purge" /\ runtime'.now = i
        /\ runtime'.rows = runtime.rows /\ runtime'.jobs = runtime.jobs
    BY <1>6, ToTyped DEF TypeOK, Steps, JobSteps
  <2>2. runtime.rows = {}
    BY DEF CompleteJob, InHand, RowSteps
  <2>. QED
    BY <1>2, <1>4, <1>5, <2>1, <2>2 DEF Ended, CompleteJob, TypeOK
<1>7. CASE NextJob
  BY <1>2, <1>4, <1>5, <1>7, NextJobTyped DEF Ended, CompleteJob, TypeOK
<1>. QED
  BY <1>6, <1>7 DEF CompleteJob

LEMMA ProjectFailsTyped ==
    ASSUME TypeOK, InHand, Tries, ProjectFails PROVE TypeOK' /\ Ended(runtime.now)
<1>. DEFINE i == runtime.now
            after == Failed(jobs[i])
<1>1. i \in DOMAIN jobs /\ jobs[i] \in Jobs /\ i \in runtime.jobs
  BY AtHand DEF ProjectFails, JobSteps, job, InHand
<1>2. /\ after \in Jobs /\ after.doc = jobs[i].doc /\ after.does = jobs[i].does
      /\ after.projection = jobs[i].projection
      /\ after.status \in {"failed", "dead_letter"}
      /\ after.status = "failed" => after.attempts < MaxAttempts
  BY <1>1, FailedJob DEF Tries
<1>3. jobs' = [jobs EXCEPT ![i] = after]
  BY DEF ProjectFails
<1>. HIDE DEF after
<1>4. /\ jobs' \in Seq(Jobs) /\ DOMAIN jobs' = DOMAIN jobs /\ jobs'[i] = after
      /\ \A k \in DOMAIN jobs \ {i} : jobs'[k] = jobs[k]
  BY <1>1, <1>2, <1>3, JobSet
<1>5. "dead_letter" \notin Open
  BY DEF Open
<1>6. faults' \in [Kinds -> Nat]
  BY MetTyped DEF ProjectFails, Kinds
<1>7. NextJob
  BY DEF ProjectFails
<1>8. Ended(i)
  BY <1>2, <1>4, <1>5, <1>7, NextJobTyped DEF Ended
<1>. QED
  BY <1>4, <1>6, <1>7, <1>8, NextJobTyped DEF ProjectFails, TypeOK

LEMMA PurgeTyped ==
    ASSUME TypeOK, InHand, Purge, job.status # "processing", Tries
    PROVE  TypeOK' /\ Ended(runtime.now)
<1>. DEFINE d == job.doc
            after(i) == IF jobs[i].doc = d THEN [jobs[i] EXCEPT !.status = "purged"] ELSE jobs[i]
<1>1. /\ d \in Docs /\ runtime.now \in DOMAIN jobs /\ NextJob
      /\ runtime.now \in runtime.jobs
  BY AtHand DEF Purge, JobSteps, InHand
<1>2. /\ runtime' \in Hands
      /\ runtime'.jobs = runtime.jobs \ {runtime.now} /\ runtime'.rows = {}
      /\ \/ runtime'.at = "read" /\ runtime'.now \in runtime'.jobs
         \/ runtime'.at = "poll" /\ runtime'.jobs = {}
  BY <1>1, NextJobTyped
<1>3. CASE UNCHANGED <<item, synced, jobs, source>>
  <2>1. jobs[runtime.now].attempts < MaxAttempts
    BY <1>1 DEF Tries
  <2>2. Ended(runtime.now)
    BY <1>1, <1>2, <1>3, <2>1 DEF Ended, TypeOK, job
  <2>. QED
    BY <1>2, <1>3, <2>2 DEF Purge, TypeOK
<1>4. CASE /\ item' = [item EXCEPT ![d] = NoItem]
           /\ synced' = [synced EXCEPT ![d] = [b \in Backends |-> "none"]]
           /\ jobs' = [i \in DOMAIN jobs |-> after(i)]
           /\ source' = [source EXCEPT ![d] = IF @ = "deleted" THEN "none" ELSE @]
  <2>1. \A j \in Jobs : LET p == [j EXCEPT !.status = "purged"] IN
           /\ p \in Jobs /\ p.doc = j.doc /\ p.does = j.does
           /\ p.projection = j.projection /\ p.status = "purged"
           /\ p.attempts = j.attempts
    BY DEF Jobs, Settled
  <2>2. \A i \in DOMAIN jobs : jobs[i] \in Jobs
    BY DEF TypeOK
  <2>3. \A i \in DOMAIN jobs :
           /\ after(i) \in Jobs
           /\ after(i).doc = jobs[i].doc /\ after(i).does = jobs[i].does
           /\ after(i).projection = jobs[i].projection
           /\ after(i).attempts = jobs[i].attempts
           /\ (after(i) = jobs[i] /\ jobs[i].doc # d) \/ after(i).status = "purged"
    BY <2>1, <2>2
  <2>. HIDE DEF after
  <2>4. DOMAIN jobs = 1 .. Len(jobs) /\ Len(jobs) \in Nat
    BY DEF TypeOK
  <2>5. jobs' \in Seq(Jobs) /\ DOMAIN jobs' = DOMAIN jobs
    BY <1>4, <2>3, <2>4
  <2>6. item' \in [Docs -> Items]
    BY <1>1, <1>4 DEF TypeOK, NoItem, Items
  <2>7. synced' \in [Docs -> [Backends -> {"none", "synced", "deleted"}]]
    BY <1>1, <1>4 DEF TypeOK
  <2>8. source' \in [Docs -> {"none", "active", "deleted"}]
    BY <1>1, <1>4 DEF TypeOK
  <2>9. "purged" \notin Open
    BY DEF Open
  <2>10. Ended(runtime.now)
    BY <1>1, <1>2, <1>4, <2>3, <2>5, <2>9 DEF Ended, job
  <2>. QED
    BY <1>2, <2>5, <2>6, <2>7, <2>8, <2>10 DEF Purge, TypeOK
<1>. QED
  BY <1>3, <1>4 DEF Purge

\* What waits becomes due.
LEMMA DueTyped ==
    ASSUME TypeOK,
           \/ \E d \in Docs : ExtractionDue(d)
           \/ \E i \in DOMAIN ingestion : IngestionDue(i)
           \/ \E i \in DOMAIN jobs : JobDue(i)
    PROVE  TypeOK'
<1>1. ASSUME NEW d \in Docs, ExtractionDue(d) PROVE TypeOK'
  <2>1. extraction' \in [Docs -> Extractions]
    BY <1>1, ExtractionSet DEF ExtractionDue, Open
  <2>. QED
    BY <1>1, <2>1 DEF ExtractionDue, TypeOK
<1>2. ASSUME NEW i \in DOMAIN ingestion, IngestionDue(i) PROVE TypeOK'
  <2>0. ingestion[i] \in Ingestions
    BY DEF TypeOK
  <2>1. [ingestion[i] EXCEPT !.status = "pending"] \in Ingestions
    BY <2>0 DEF Ingestions, Open
  <2>2. ingestion' = [ingestion EXCEPT ![i] = [ingestion[i] EXCEPT !.status = "pending"]]
    BY <1>2 DEF IngestionDue
  <2>3. ingestion' \in Seq(Ingestions)
    BY <2>1, <2>2, RowSet
  <2>. QED
    BY <1>2, <2>3 DEF IngestionDue, TypeOK
<1>3. ASSUME NEW i \in DOMAIN jobs, JobDue(i) PROVE TypeOK'
  <2>0. jobs[i] \in Jobs
    BY DEF TypeOK
  <2>1. [jobs[i] EXCEPT !.status = "pending"] \in Jobs
    BY <2>0 DEF Jobs, Open
  <2>2. jobs' = [jobs EXCEPT ![i] = [jobs[i] EXCEPT !.status = "pending"]]
    BY <1>3 DEF JobDue
  <2>3. jobs' \in Seq(Jobs)
    BY <2>1, <2>2, JobSet
  <2>. QED
    BY <1>3, <2>3 DEF JobDue, TypeOK
<1>. QED
  BY <1>1, <1>2, <1>3

\* Actors that are stopped
LEMMA StopTyped ==
    ASSUME TypeOK, Reload \/ CrashCore \/ \E w \in Workers : CrashWorker(w)
    PROVE  TypeOK'
<1>1. faults' \in [Kinds -> Nat]
  BY MetTyped DEF Reload, CrashCore, CrashWorker, Kinds
<1>2. runtime' \in Hands
  BY RestingTyped DEF Reload, CrashCore, CrashWorker, TypeOK
<1>3. worker' \in [Workers -> SUBSET Docs]
  BY DEF Reload, CrashCore, CrashWorker, TypeOK
<1>4. deletion' \in [Docs -> [open : BOOLEAN, force : BOOLEAN, version : Nat]]
  <2>1. NoDeletion \in [open : BOOLEAN, force : BOOLEAN, version : Nat]
    BY DEF NoDeletion
  <2>2. deletion' = deletion \/ deletion' = [d \in Docs |-> NoDeletion]
    BY DEF Reload, CrashCore, CrashWorker
  <2>. QED
    BY <2>1, <2>2 DEF TypeOK
<1>5. UNCHANGED <<Stored, task, asked>>
  BY DEF Reload, CrashCore, CrashWorker
<1>. QED
  BY <1>1, <1>2, <1>3, <1>4, <1>5 DEF TypeOK, Stored

LEMMA NextTyped ==
    ASSUME Inv, [Next]_vars PROVE TypeOK'
<1>. USE DEF Inv
<1>1. CASE UNCHANGED vars
  BY <1>1 DEF TypeOK, vars
<1>2. CASE \E d \in Docs : \/ Upload(d) \/ DeleteSource(d) \/ EnqueueDeletes(d)
                           \/ Rebuild(d) \/ \E force \in BOOLEAN : DeleteByMetadata(d, force)
                           \/ ExtractionDue(d)
  BY <1>2, UploadTyped, DeleteSourceTyped, EnqueueDeletesTyped, RebuildTyped,
     DeleteByMetadataTyped, DueTyped
<1>3. CASE \E w \in Workers : WorkerStep(w) \/ CrashWorker(w)
  BY <1>3, WorkerTyped, StopTyped DEF WorkerStep
<1>4. CASE RuntimeStep
  <2>1. CASE \/ ClaimRows \/ Payload \/ UpsertSource \/ UpsertItem \/ EnqueueUpserts
             \/ CompleteRow \/ Report \/ IngestFails \/ Tell \/ AnnounceFails
    BY <2>1, ClaimRowsTyped, StepsTyped, UpsertSourceTyped, UpsertItemTyped,
       EnqueueUpsertsTyped, CompleteRowTyped, IngestFailsTyped
  <2>2. CASE \/ ClaimJobs \/ ReadItem \/ Embed \/ Write \/ Mark \/ CompleteJob
             \/ ProjectFails
    BY <2>2, ClaimJobsTyped, StepsTyped, EmbedTyped, WriteTyped, MarkTyped,
       CompleteJobTyped, ProjectFailsTyped
  <2>3. CASE Purge
    BY <2>3, PurgeTyped DEF Claims, Purge
  <2>. QED
    BY <1>4, <2>1, <2>2, <2>3 DEF RuntimeStep
<1>5. CASE \/ \E i \in DOMAIN ingestion : IngestionDue(i)
           \/ \E i \in DOMAIN jobs : JobDue(i)
  BY <1>5, DueTyped
<1>6. CASE Reload \/ CrashCore
  BY <1>6, StopTyped
<1>. QED
  BY <1>1, <1>2, <1>3, <1>4, <1>5, <1>6 DEF Next

-----------------------------------------------------------------------------
(* What steps leave of rows, jobs and faults *)

RowsKept ==
    /\ DOMAIN ingestion \subseteq DOMAIN ingestion'
    /\ \A i \in DOMAIN ingestion' :
          \/ /\ i \in DOMAIN ingestion
             /\ ingestion'[i].doc = ingestion[i].doc
             /\ ingestion'[i].attempts = ingestion[i].attempts
             /\ \/ ingestion'[i].status = ingestion[i].status
                \/ ingestion'[i].status \in Settled
                \/ ingestion[i].status = "failed" /\ ingestion'[i].status = "pending"
          \/ /\ i \notin DOMAIN ingestion
             /\ ingestion'[i].status = "pending"
             /\ ingestion'[i].attempts < MaxAttempts

JobsKept ==
    /\ DOMAIN jobs \subseteq DOMAIN jobs'
    /\ \A i \in DOMAIN jobs' :
          \/ /\ i \in DOMAIN jobs
             /\ jobs'[i].doc = jobs[i].doc /\ jobs'[i].does = jobs[i].does
             /\ jobs'[i].projection = jobs[i].projection
             /\ jobs'[i].attempts = jobs[i].attempts
             /\ \/ jobs'[i].status = jobs[i].status
                \/ jobs[i].status = "failed" /\ jobs'[i].status = "pending"
          \/ /\ i \notin DOMAIN jobs
             /\ jobs'[i].status = "pending" /\ jobs'[i].attempts < MaxAttempts

LEMMA SameKept ==
    /\ ingestion' = ingestion => RowsKept
    /\ jobs' = jobs => JobsKept
BY DEF RowsKept, JobsKept

LEMMA GrowsKept == ASSUME Grows(jobs, jobs') PROVE JobsKept
BY DEF Grows, JobsKept

LEMMA MarkedKept == ASSUME Marked(ingestion, ingestion') PROVE RowsKept
BY DEF Marked, RowsKept, Settled

\* Rows of each queue that are processing are in somebody's hands.
Unstranded ==
    Interrupted \/
      /\ \A d \in Docs : extraction[d].status = "processing" => \E w \in Workers : d \in worker[w]
      /\ \A i \in DOMAIN ingestion : ingestion[i].status = "processing" => i \in runtime.rows
      /\ \A i \in DOMAIN jobs : jobs[i].status = "processing" => i \in runtime.jobs

LEMMA StrandedIs ==
    ASSUME TypeOK PROVE OnlyStopsStrand <=> Unstranded
<1>1. /\ \A i \in DOMAIN ingestion : ingestion[i].doc \in Docs
      /\ \A i \in DOMAIN jobs : jobs[i].doc \in Docs
  <2>1. /\ \A i \in DOMAIN ingestion : ingestion[i] \in Ingestions
        /\ \A i \in DOMAIN jobs : jobs[i] \in Jobs
    BY DEF TypeOK
  <2>. QED
    BY <2>1 DEF Ingestions, Jobs
<1>. QED
  BY <1>1 DEF OnlyStopsStrand, Unstranded, LeftBehind

LEMMA StrandedIsNext ==
    ASSUME TypeOK' PROVE OnlyStopsStrand' <=> Unstranded'
<1>1. /\ \A i \in DOMAIN ingestion' : ingestion'[i].doc \in Docs
      /\ \A i \in DOMAIN jobs' : jobs'[i].doc \in Docs
  <2>1. /\ \A i \in DOMAIN ingestion' : ingestion'[i] \in Ingestions
        /\ \A i \in DOMAIN jobs' : jobs'[i] \in Jobs
    BY DEF TypeOK
  <2>. QED
    BY <2>1 DEF Ingestions, Jobs
<1>. QED
  BY <1>1 DEF OnlyStopsStrand, Unstranded, LeftBehind

\* What was interrupted stays so.
LEMMA FaultsGrow ==
    ASSUME TypeOK, UNCHANGED faults \/ \E h \in Kinds : Met(h)
    PROVE  /\ Interrupted => Interrupted'
           /\ Met("crash") \/ Met("reload") \/ Met("progress") => Interrupted'
<1>1. {"crash", "reload", "progress"} \subseteq Kinds
  BY DEF Kinds
<1>2. \A k \in Kinds : faults[k] \in Nat
  BY DEF TypeOK
<1>3. CASE UNCHANGED faults /\ \A h \in Kinds : ~Met(h)
  BY <1>1, <1>3 DEF Interrupted
<1>4. ASSUME NEW h \in Kinds, Met(h)
      PROVE  /\ Interrupted => Interrupted'
             /\ h \in {"crash", "reload", "progress"} => Interrupted'
  <2>1. /\ \A k \in Kinds : faults'[k] \in Nat /\ faults'[k] >= faults[k]
        /\ faults'[h] = faults[h] + 1
    BY <1>4, MetTyped
  <2>. QED
    BY <1>1, <1>2, <2>1 DEF Interrupted
<1>. QED
  BY <1>1, <1>3, <1>4

-----------------------------------------------------------------------------
(* What is in hand, the attempts and the claims *)

Hold == InHand /\ Holders /\ Tries /\ Claims

Unheld == \A d \in Docs :
    /\ extraction'[d].status \in Open \cup {"none"} => extraction'[d].attempts < MaxAttempts
    /\ extraction'[d].status = "processing" =>
          \/ Interrupted
          \/ \E w \in Workers : d \in worker'[w]

\* The runtime does nothing.
LEMMA AsideHolds ==
    ASSUME TypeOK, TypeOK', Hold, UNCHANGED runtime, RowsKept, JobsKept, Holders', Unheld,
           UNCHANGED faults \/ \E h \in Kinds : Met(h)
    PROVE  Hold'
<1>1. InHand'
  BY DEF Hold, InHand, RowsKept, JobsKept
<1>2. Tries'
  <2>1. \A i \in DOMAIN ingestion' :
          \/ ingestion'[i].status \in Open
          \/ i \in runtime'.rows /\ ~(runtime'.at = "tell" /\ i = runtime'.now)
          => ingestion'[i].attempts < MaxAttempts
    BY DEF Hold, Tries, InHand, RowsKept, Open, Settled
  <2>2. \A i \in DOMAIN jobs' : jobs'[i].status \in Open \/ i \in runtime'.jobs
                                => jobs'[i].attempts < MaxAttempts
    BY DEF Hold, Tries, InHand, JobsKept, Open
  <2>. QED
    BY <2>1, <2>2 DEF Tries, Unheld
<1>3. Unstranded'
  <2>1. Unstranded /\ (Interrupted => Interrupted')
    BY StrandedIs, FaultsGrow DEF Hold, Claims
  <2>2. \A i \in DOMAIN ingestion' : ingestion'[i].status = "processing" =>
            i \in DOMAIN ingestion /\ ingestion[i].status = "processing"
    BY DEF RowsKept, Settled
  <2>3. \A i \in DOMAIN jobs' : jobs'[i].status = "processing" =>
            i \in DOMAIN jobs /\ jobs[i].status = "processing"
    BY DEF JobsKept
  <2>. QED
    BY <2>1, <2>2, <2>3 DEF Unstranded, Unheld
<1>4. /\ runtime'.at \in {"report", "tell"} => ingestion'[runtime'.now].status # "processing"
      /\ runtime'.at = "purge" => jobs'[runtime'.now].status # "processing"
  BY DEF Hold, Claims, InHand, RowsKept, JobsKept, row, job, RowSteps, JobSteps, Settled
<1>. QED
  BY <1>1, <1>2, <1>3, <1>4, StrandedIsNext DEF Hold, Claims, row, job

\* The extraction side is left alone.
LEMMA HoldersKept ==
    ASSUME TypeOK, Hold, UNCHANGED <<extraction, worker>>
    PROVE  Holders' /\ Unheld
<1>1. Unstranded
  BY StrandedIs DEF Hold, Claims
<1>. QED
  BY <1>1 DEF Hold, Holders, Tries, Unheld, Unstranded

\* The runtime goes on with what it has in hand.
LEMMA StepHolds ==
    ASSUME TypeOK, TypeOK', Hold, UNCHANGED <<extraction, worker, faults>>,
           RowsKept, JobsKept,
           runtime'.rows = runtime.rows, runtime'.jobs = runtime.jobs,
           runtime'.now = runtime.now,
           \/ runtime.at \in RowSteps /\ runtime'.at \in RowSteps \ {"tell"}
           \/ runtime.at \in JobSteps /\ runtime'.at \in JobSteps \ {"purge"},
           runtime.at # "tell",
           runtime'.at = "report" => ingestion'[row].status # "processing"
    PROVE  Hold'
<1>1. InHand'
  BY DEF Hold, InHand, RowsKept, JobsKept, RowSteps, JobSteps
<1>2. Holders' /\ Unheld
  BY HoldersKept
<1>3. Tries'
  <2>1. \A i \in DOMAIN ingestion' :
          \/ ingestion'[i].status \in Open
          \/ i \in runtime'.rows /\ ~(runtime'.at = "tell" /\ i = runtime'.now)
          => ingestion'[i].attempts < MaxAttempts
    BY DEF Hold, Tries, InHand, RowsKept, Open, Settled
  <2>2. \A i \in DOMAIN jobs' : jobs'[i].status \in Open \/ i \in runtime'.jobs
                                => jobs'[i].attempts < MaxAttempts
    BY DEF Hold, Tries, InHand, JobsKept, Open
  <2>. QED
    BY <1>2, <2>1, <2>2 DEF Tries, Unheld
<1>4. Unstranded'
  <2>1. Unstranded /\ (Interrupted' <=> Interrupted)
    BY StrandedIs DEF Hold, Claims, Interrupted
  <2>2. \A i \in DOMAIN ingestion' : ingestion'[i].status = "processing" =>
            i \in DOMAIN ingestion /\ ingestion[i].status = "processing"
    BY DEF RowsKept, Settled
  <2>3. \A i \in DOMAIN jobs' : jobs'[i].status = "processing" =>
            i \in DOMAIN jobs /\ jobs[i].status = "processing"
    BY DEF JobsKept
  <2>. QED
    BY <2>1, <2>2, <2>3 DEF Unstranded
<1>5. /\ runtime'.at \in {"report", "tell"} => ingestion'[runtime'.now].status # "processing"
      /\ runtime'.at = "purge" => jobs'[runtime'.now].status # "processing"
  BY DEF row, RowSteps, JobSteps
<1>. QED
  BY <1>1, <1>2, <1>3, <1>4, <1>5, StrandedIsNext DEF Hold, Claims, row, job

\* The runtime lets everything go.
LEMMA RestHolds ==
    ASSUME TypeOK, TypeOK', Hold, runtime' = Resting,
           UNCHANGED <<extraction, worker, ingestion, jobs>>,
           Met("crash") \/ Met("reload") \/ Met("progress")
    PROVE  Hold'
<1>1. Holders' /\ Unheld
  BY HoldersKept
<1>2. InHand'
  BY DEF InHand, Resting, RowSteps, JobSteps
<1>3. Tries'
  BY <1>1 DEF Hold, Tries, Unheld, Resting
<1>4. Unstranded'
  <2>1. {"crash", "reload", "progress"} \subseteq Kinds
    BY DEF Kinds
  <2>. QED
    BY <2>1, FaultsGrow DEF Unstranded
<1>5. Claims'
  BY <1>4, StrandedIsNext DEF Claims, Resting
<1>. QED
  BY <1>1, <1>2, <1>3, <1>5 DEF Hold

-----------------------------------------------------------------------------
(* ... action by action *)

LEMMA RequestHolds ==
    ASSUME TypeOK, TypeOK', Hold, NEW d \in Docs,
           \/ Upload(d) \/ DeleteSource(d) \/ EnqueueDeletes(d) \/ Rebuild(d)
           \/ \E force \in BOOLEAN : DeleteByMetadata(d, force)
           \/ ExtractionDue(d)
    PROVE  Hold'
<1>1. UNCHANGED <<runtime, worker, faults>>
  BY DEF Upload, DeleteSource, EnqueueDeletes, Rebuild, DeleteByMetadata, ExtractionDue
<1>2. RowsKept
  BY DeleteByMetadataMarks, MarkedKept, SameKept
     DEF Upload, DeleteSource, EnqueueDeletes, Rebuild, ExtractionDue
<1>3. JobsKept
  BY EnqueueDeletesTyped, RebuildTyped, GrowsKept, SameKept
     DEF Upload, DeleteSource, DeleteByMetadata, ExtractionDue
<1>4. \/ UNCHANGED extraction
      \/ \E s \in {"pending", "cancelled"} :
            /\ extraction' = [extraction EXCEPT ![d].status = s]
            /\ s = "pending" => extraction[d].status \in {"none", "failed"}
  BY DEF Upload, DeleteSource, EnqueueDeletes, Rebuild, DeleteByMetadata, ExtractionDue
<1>5. Holders' /\ Unheld
  <2>1. CASE UNCHANGED extraction
    BY <1>1, <2>1, HoldersKept
  <2>2. ASSUME NEW s \in {"pending", "cancelled"},
               extraction' = [extraction EXCEPT ![d].status = s],
               s = "pending" => extraction[d].status \in {"none", "failed"}
        PROVE  Holders' /\ Unheld
    <3>1. /\ extraction'[d].status = s /\ extraction'[d].attempts = extraction[d].attempts
          /\ \A e \in Docs \ {d} : extraction'[e] = extraction[e]
      BY <2>2, ExtractionSet DEF Open, Settled
    <3>2. s \notin Waiting \cup {"none"} \/ \A w \in Workers : d \notin worker[w]
      BY <2>2 DEF Hold, Holders, Waiting
    <3>3. Holders'
      <4>1. ASSUME NEW v \in Workers, NEW e \in worker[v]
            PROVE  /\ extraction'[e].status \notin Waiting \cup {"none"}
                   /\ extraction'[e].attempts < MaxAttempts
        <5>1. /\ e \in Docs
              /\ extraction[e].status \notin Waiting \cup {"none"}
              /\ extraction[e].attempts < MaxAttempts
          BY DEF Hold, Holders, TypeOK
        <5>. QED
          BY <3>1, <3>2, <5>1
      <4>. QED
        BY <1>1, <4>1 DEF Hold, Holders
    <3>4. Unstranded
      BY StrandedIs DEF Hold, Claims
    <3>5. s \in Open => extraction[d].attempts < MaxAttempts
      BY <2>2 DEF Hold, Tries, Open
    <3>6. Unheld
      BY <1>1, <3>1, <3>4, <3>5 DEF Hold, Unheld, Unstranded, Tries
    <3>. QED
      BY <3>3, <3>6
  <2>. QED
    BY <1>4, <2>1, <2>2
<1>. QED
  BY <1>1, <1>2, <1>3, <1>5, AsideHolds

LEMMA JobDueKept ==
    ASSUME TypeOK, NEW i \in DOMAIN jobs, JobDue(i) PROVE JobsKept
<1>. DEFINE after == [jobs[i] EXCEPT !.status = "pending"]
<1>1. jobs[i] \in Jobs
  BY DEF TypeOK
<1>2. /\ after \in Jobs /\ after.status = "pending"
      /\ after.doc = jobs[i].doc /\ after.does = jobs[i].does
      /\ after.projection = jobs[i].projection /\ after.attempts = jobs[i].attempts
  BY <1>1 DEF Jobs, Open
<1>3. jobs' = [jobs EXCEPT ![i] = after] /\ jobs[i].status = "failed"
  BY DEF JobDue
<1>. HIDE DEF after
<1>4. /\ DOMAIN jobs' = DOMAIN jobs /\ jobs'[i] = after
      /\ \A k \in DOMAIN jobs \ {i} : jobs'[k] = jobs[k]
  BY <1>2, <1>3, JobSet
<1>. QED
  BY <1>2, <1>3, <1>4 DEF JobsKept

LEMMA DueHolds ==
    ASSUME TypeOK, TypeOK', Hold,
           \/ \E i \in DOMAIN ingestion : IngestionDue(i)
           \/ \E i \in DOMAIN jobs : JobDue(i)
    PROVE  Hold'
<1>1. UNCHANGED <<runtime, worker, extraction, faults>>
  BY DEF IngestionDue, JobDue
<1>2. RowsKept
  <2>1. ASSUME NEW i \in DOMAIN ingestion, IngestionDue(i) PROVE RowsKept
    <3>. DEFINE after == [ingestion[i] EXCEPT !.status = "pending"]
    <3>1. ingestion[i] \in Ingestions
      BY DEF TypeOK
    <3>2. /\ after \in Ingestions /\ after.status = "pending"
          /\ after.doc = ingestion[i].doc /\ after.attempts = ingestion[i].attempts
      BY <3>1 DEF Ingestions, Open
    <3>3. ingestion' = [ingestion EXCEPT ![i] = after] /\ ingestion[i].status = "failed"
      BY <2>1 DEF IngestionDue
    <3>. HIDE DEF after
    <3>4. /\ DOMAIN ingestion' = DOMAIN ingestion /\ ingestion'[i] = after
          /\ \A k \in DOMAIN ingestion \ {i} : ingestion'[k] = ingestion[k]
      BY <3>2, <3>3, RowSet
    <3>. QED
      BY <3>2, <3>3, <3>4 DEF RowsKept
  <2>. QED
    BY <2>1, SameKept DEF JobDue
<1>3. JobsKept
  BY JobDueKept, SameKept DEF IngestionDue
<1>. QED
  BY <1>1, <1>2, <1>3, AsideHolds, HoldersKept

LEMMA WorkerHolds ==
    ASSUME TypeOK, TypeOK', Hold, NEW w \in Workers, NEW d \in Docs,
           ClaimExtraction(w, d) \/ Extract(w, d) \/ ExtractFails(w, d) \/ Release(w, d)
    PROVE  Hold'
<1>1. UNCHANGED <<runtime, jobs>>
  BY DEF ClaimExtraction, Extract, ExtractFails, Release
<1>2. RowsKept
  <2>1. CASE Extract(w, d)
    <3>. DEFINE r == [doc |-> d, status |-> "pending", attempts |-> 0]
    <3>1. r.status = "pending" /\ r.attempts < MaxAttempts
      BY KnowledgeAssumption
    <3>2. ingestion' = Append(ingestion, r) /\ ingestion \in Seq(Ingestions)
      BY <2>1 DEF Extract, TypeOK
    <3>. HIDE DEF r
    <3>3. /\ DOMAIN ingestion' = 1 .. Len(ingestion) + 1
          /\ DOMAIN ingestion = 1 .. Len(ingestion) /\ Len(ingestion) \in Nat
          /\ ingestion'[Len(ingestion) + 1] = r
          /\ \A i \in DOMAIN ingestion : ingestion'[i] = ingestion[i]
      BY <3>2
    <3>. QED
      BY <3>1, <3>3 DEF RowsKept
  <2>. QED
    BY <2>1, SameKept DEF ClaimExtraction, ExtractFails, Release
<1>3. /\ \A e \in Docs \ {d} : extraction'[e] = extraction[e]
      /\ \/ extraction'[d].attempts = extraction[d].attempts
         \/ extraction'[d].status \in Open => extraction'[d].attempts < MaxAttempts
      /\ \/ ClaimExtraction(w, d) /\ extraction'[d].status = "processing"
         \/ /\ d \in worker[w] /\ worker' = [worker EXCEPT ![w] = {}]
            /\ extraction'[d].status # "none"
            /\ extraction'[d].status # "processing"
  <2>1. CASE ClaimExtraction(w, d)
    BY <2>1, ExtractionSet DEF ClaimExtraction, Open
  <2>2. CASE Extract(w, d)
    <3>1. /\ extraction'[d].status = "completed"
          /\ extraction'[d].attempts = extraction[d].attempts
          /\ \A e \in Docs \ {d} : extraction'[e] = extraction[e]
      BY <2>2, ExtractionSet DEF Extract, Settled
    <3>2. d \in worker[w] /\ worker' = [worker EXCEPT ![w] = {}]
      BY <2>2 DEF Extract
    <3>. QED
      BY <3>1, <3>2
  <2>3. CASE ExtractFails(w, d)
    <3>. DEFINE after == Failed(extraction[d])
    <3>1. /\ after \in Extractions /\ after.status \in {"failed", "dead_letter"}
          /\ after.status = "failed" => after.attempts < MaxAttempts
      BY <2>3, FailedExtraction DEF ExtractFails, Hold, Holders, TypeOK
    <3>2. extraction' = [extraction EXCEPT ![d] = after]
      BY <2>3 DEF ExtractFails
    <3>3. extraction \in [Docs -> Extractions]
      BY DEF TypeOK
    <3>. HIDE DEF after
    <3>4. extraction'[d] = after /\ \A e \in Docs \ {d} : extraction'[e] = extraction[e]
      BY <3>2, <3>3
    <3>5. "dead_letter" \notin Open
      BY DEF Open
    <3>6. d \in worker[w] /\ worker' = [worker EXCEPT ![w] = {}]
      BY <2>3 DEF ExtractFails
    <3>. QED
      BY <3>1, <3>4, <3>5, <3>6
  <2>4. CASE Release(w, d)
    <3>1. /\ extraction'[d].attempts = extraction[d].attempts
          /\ extraction'[d].status \in {"failed", extraction[d].status} \ {"processing"}
          /\ \A e \in Docs \ {d} : extraction'[e] = extraction[e]
      <4>. DEFINE s == IF extraction[d].status = "processing" THEN "failed"
                       ELSE extraction[d].status
      <4>1. extraction[d] \in Extractions /\ extraction[d].status # "none"
        BY <2>4 DEF Release, TypeOK, Hold, Holders
      <4>2. s \in Open \cup Settled
        BY <4>1 DEF Extractions, Open
      <4>3. extraction' = [extraction EXCEPT ![d].status = s]
        BY <2>4 DEF Release
      <4>4. s \in {"failed", extraction[d].status} \ {"processing"}
        OBVIOUS
      <4>. HIDE DEF s
      <4>. QED
        BY <4>2, <4>3, <4>4, ExtractionSet
    <3>2. d \in worker[w] /\ worker' = [worker EXCEPT ![w] = {}]
      BY <2>4 DEF Release
    <3>3. extraction[d].status # "none"
      BY <3>2 DEF Hold, Holders
    <3>. QED
      BY <3>1, <3>2, <3>3
  <2>. QED
    BY <2>1, <2>2, <2>3, <2>4
<1>4. extraction[d].attempts < MaxAttempts
  BY DEF ClaimExtraction, Extract, ExtractFails, Release, Hold, Holders, Tries, Open
<1>5. Unstranded
  BY StrandedIs DEF Hold, Claims
<1>6. worker \in [Workers -> SUBSET Docs]
  BY DEF TypeOK
<1>7. CASE ClaimExtraction(w, d)
  <2>1. /\ worker' = [worker EXCEPT ![w] = {d}] /\ worker[w] = {}
        /\ extraction[d].status = "pending"
        /\ extraction'[d].status = "processing"
        /\ extraction'[d].attempts = extraction[d].attempts
    BY <1>7, ExtractionSet DEF ClaimExtraction, Open
  <2>2. \A v \in Workers : d \notin worker[v]
    BY <2>1 DEF Hold, Holders, Waiting
  <2>3. worker'[w] = {d} /\ \A v \in Workers \ {w} : worker'[v] = worker[v]
    BY <1>6, <2>1
  <2>4. Holders'
    <3>1. \A v \in Workers : \A e \in worker'[v] :
             \/ e = d /\ v = w
             \/ e # d /\ v # w /\ e \in worker[v] /\ e \in Docs
      <4>. TAKE v \in Workers
      <4>. TAKE e \in worker'[v]
      <4>1. CASE v = w
        BY <2>3, <4>1
      <4>2. CASE v # w
        <5>1. worker'[v] = worker[v] /\ d \notin worker[v] /\ worker[v] \in SUBSET Docs
          BY <1>6, <2>2, <2>3, <4>2
        <5>. QED
          BY <4>2, <5>1
      <4>. QED
        BY <4>1, <4>2
    <3>2. \A e \in Docs \ {d} : extraction'[e] = extraction[e]
      BY <1>3
    <3>3. \A v \in Workers : \A e \in worker'[v] :
             /\ extraction'[e].status \notin Waiting \cup {"none"}
             /\ extraction'[e].attempts < MaxAttempts
      BY <1>4, <2>1, <3>1, <3>2 DEF Hold, Holders, Waiting
    <3>4. \A u, v \in Workers : \A e \in worker'[u], f \in worker'[v] : e = f <=> u = v
      BY <3>1 DEF Hold, Holders
    <3>. QED
      BY <3>3, <3>4 DEF Holders
  <2>5. Unheld
    BY <1>3, <1>4, <1>5, <2>1, <2>3 DEF Hold, Unheld, Unstranded, Tries
  <2>. QED
    BY <1>1, <1>2, <1>7, <2>4, <2>5, AsideHolds, SameKept DEF ClaimExtraction
<1>8. CASE d \in worker[w] /\ worker' = [worker EXCEPT ![w] = {}]
  <2>1. worker'[w] = {} /\ \A v \in Workers \ {w} : worker'[v] = worker[v]
    BY <1>6, <1>8
  <2>2. \A v \in Workers : d \notin worker'[v]
    BY <1>8, <2>1 DEF Hold, Holders
  <2>3. \A e \in worker[w] : e = d
    BY <1>8 DEF Hold, Holders
  <2>4. Holders'
    BY <1>3, <2>1, <2>2, <1>6 DEF Hold, Holders
  <2>5. extraction'[d].status # "processing" /\ extraction'[d].status # "none"
    BY <1>3, <1>8 DEF ClaimExtraction
  <2>6. Unheld
    BY <1>3, <1>4, <1>5, <2>1, <2>3, <2>5 DEF Hold, Unheld, Unstranded, Tries
  <2>7. UNCHANGED faults \/ \E h \in Kinds : Met(h)
    BY DEF ClaimExtraction, Extract, ExtractFails, Release, Kinds
  <2>. QED
    BY <1>1, <1>2, <2>4, <2>6, <2>7, AsideHolds, SameKept
<1>. QED
  BY <1>3, <1>7, <1>8

LEMMA CrashWorkerHolds ==
    ASSUME TypeOK, TypeOK', Hold, NEW w \in Workers, CrashWorker(w)
    PROVE  Hold'
<1>1. UNCHANGED <<runtime, jobs, ingestion, extraction>> /\ Met("crash")
  BY DEF CrashWorker, Stored
<1>2. worker'[w] = {} /\ \A v \in Workers \ {w} : worker'[v] = worker[v]
  BY DEF CrashWorker, TypeOK
<1>3. Holders'
  BY <1>1, <1>2 DEF Hold, Holders
<1>4. "crash" \in Kinds
  BY DEF Kinds
<1>5. Interrupted'
  BY <1>1, <1>4, FaultsGrow
<1>6. InHand' /\ Tries'
  BY <1>1 DEF Hold, InHand, Tries
<1>7. Unstranded'
  BY <1>5 DEF Unstranded
<1>8. Claims'
  BY <1>1, <1>7, StrandedIsNext DEF Hold, Claims, row, job
<1>. QED
  BY <1>3, <1>6, <1>8 DEF Hold

LEMMA StepsHold ==
    ASSUME TypeOK, TypeOK', Hold,
           \/ Payload \/ UpsertSource \/ UpsertItem \/ EnqueueUpserts \/ CompleteRow
           \/ ReadItem \/ Embed \/ Write \/ Mark
    PROVE  Hold'
<1>1. runtime \in Hands
  BY DEF TypeOK
<1>2. UNCHANGED <<extraction, worker, faults>>
  BY DEF Payload, UpsertSource, UpsertItem, EnqueueUpserts, CompleteRow, ReadItem,
     Embed, Write, Mark, Stored
<1>3. RowsKept
  BY SameKept, MarkedKept, CompleteRowTyped
     DEF Payload, UpsertSource, UpsertItem, EnqueueUpserts, ReadItem,
     Embed, Write, Mark, Stored, Hold
<1>4. JobsKept
  BY SameKept, GrowsKept, EnqueueUpsertsTyped
     DEF Payload, UpsertSource, UpsertItem, CompleteRow, ReadItem,
     Embed, Write, Mark, Stored, Hold
<1>5. /\ runtime'.rows = runtime.rows /\ runtime'.jobs = runtime.jobs
      /\ runtime'.now = runtime.now
      /\ \/ runtime.at \in RowSteps /\ runtime'.at \in RowSteps \ {"tell"}
         \/ runtime.at \in JobSteps /\ runtime'.at \in JobSteps \ {"purge"}
      /\ runtime.at # "tell"
      /\ runtime'.at = "report" => CompleteRow
  BY <1>1 DEF Payload, UpsertSource, UpsertItem, EnqueueUpserts, CompleteRow, ReadItem,
     Embed, Write, Mark, To, Hands, RowSteps, JobSteps
<1>6. CompleteRow => ingestion'[row].status # "processing"
  BY CompleteRowTyped DEF Hold
<1>. QED
  BY <1>2, <1>3, <1>4, <1>5, <1>6, StepHolds

\* The row at hand is dropped, or told to have failed.
LEMMA DropHolds ==
    ASSUME TypeOK, TypeOK', Hold, Report \/ Tell \/ IngestFails
    PROVE  Hold'
<1>1. /\ runtime.at \in RowSteps /\ row \in DOMAIN ingestion
      /\ runtime.rows \ {runtime.now} \in SUBSET Nat
  BY AtHand DEF Hold, Report, Tell, IngestFails, RowSteps
<1>2. UNCHANGED <<extraction, worker, jobs>>
  BY DEF Report, Tell, IngestFails, RowFails, Stored
<1>3. /\ DOMAIN ingestion' = DOMAIN ingestion
      /\ \A i \in DOMAIN ingestion \ {row} : ingestion'[i] = ingestion[i]
      /\ ingestion'[row].status # "processing"
      /\ ingestion'[row].status \in Open => ingestion'[row].attempts < MaxAttempts
  <2>1. CASE Report \/ Tell
    <3>1. ingestion' = ingestion
      BY <2>1 DEF Report, Tell, Stored
    <3>. QED
      BY <1>1, <2>1, <3>1 DEF Hold, Claims, Tries, Report, Tell
  <2>2. CASE IngestFails
    <3>1. RowFails /\ runtime.at # "tell"
      BY <2>2 DEF IngestFails
    <3>. QED
      BY <1>1, <3>1, RowFailsTyped DEF Hold, Open
  <2>. QED
    BY <2>1, <2>2
<1>4. /\ runtime'.jobs = {}
      /\ \/ /\ runtime'.at = "tell" /\ runtime'.now = row
            /\ runtime'.rows = runtime.rows
         \/ /\ runtime'.at = "outbox" /\ runtime'.rows = {}
            /\ runtime.rows \ {row} = {}
         \/ /\ runtime'.at = "payload" /\ runtime'.now \in runtime'.rows
            /\ runtime'.rows = runtime.rows \ {row}
  <2>1. CASE Report \/ Tell
    BY <1>1, <2>1, TakeRowTyped DEF Report, Tell, NextRow, row
  <2>2. CASE IngestFails
    <3>1. RowFails /\ runtime.at # "tell"
      BY <2>2 DEF IngestFails
    <3>. QED
      BY <1>1, <3>1, RowFailsTyped DEF Hold
  <2>. QED
    BY <2>1, <2>2
<1>5. InHand'
  <2>1. runtime.rows \subseteq DOMAIN ingestion /\ row \in runtime.rows
    BY <1>1 DEF Hold, InHand, row
  <2>2. runtime'.rows \subseteq DOMAIN ingestion' /\ runtime'.jobs \subseteq DOMAIN jobs'
    BY <1>2, <1>3, <1>4, <2>1
  <2>3. \/ runtime'.at \in RowSteps /\ runtime'.now \in runtime'.rows
        \/ runtime'.at \notin RowSteps /\ runtime'.rows = {}
    BY <1>4, <2>1 DEF RowSteps
  <2>4. runtime'.at \notin JobSteps
    BY <1>4 DEF JobSteps
  <2>. QED
    BY <1>4, <2>2, <2>3, <2>4 DEF InHand
<1>6. Holders' /\ Unheld
  BY <1>2, HoldersKept
<1>7. Tries'
  <2>1. \A i \in DOMAIN ingestion' :
          \/ ingestion'[i].status \in Open
          \/ i \in runtime'.rows /\ ~(runtime'.at = "tell" /\ i = runtime'.now)
          => ingestion'[i].attempts < MaxAttempts
    BY <1>3, <1>4 DEF Hold, Tries, row
  <2>. QED
    BY <1>2, <1>4, <1>6, <2>1 DEF Hold, Tries, Unheld
<1>8. Unstranded'
  <2>1. Unstranded
    BY StrandedIs DEF Hold, Claims
  <2>2. Interrupted => Interrupted'
    BY FaultsGrow DEF Report, Tell, IngestFails, Kinds
  <2>3. runtime.jobs = {}
    BY <1>1 DEF Hold, InHand, RowSteps, JobSteps
  <2>. QED
    BY <1>2, <1>3, <1>4, <2>1, <2>2, <2>3 DEF Unstranded
<1>9. Claims'
  BY <1>3, <1>4, <1>8, StrandedIsNext DEF Claims, row, job
<1>. QED
  BY <1>5, <1>6, <1>7, <1>9 DEF Hold

LEMMA ClaimRowsHolds ==
    ASSUME TypeOK, TypeOK', Hold, ClaimRows PROVE Hold'
<1>1. UNCHANGED <<extraction, worker, jobs, faults>>
  BY DEF ClaimRows
<1>2. /\ ingestion' = Claimed(ingestion)
      /\ DOMAIN ingestion' = DOMAIN ingestion
      /\ \A i \in DOMAIN ingestion :
           /\ ingestion[i].status # "pending" => ingestion'[i] = ingestion[i]
           /\ ingestion[i].status = "pending" =>
                ingestion'[i] = [ingestion[i] EXCEPT !.status = "processing"]
  BY ClaimedTyped DEF ClaimRows, TypeOK
<1>3. /\ runtime'.rows = Due(ingestion) /\ runtime'.jobs = {}
      /\ \/ runtime'.at = "outbox" /\ runtime'.rows = {}
         \/ runtime'.at = "payload" /\ runtime'.now \in runtime'.rows
  BY AtHand, TakeRowTyped DEF ClaimRows, Hold
<1>4. runtime.rows = {} /\ runtime.jobs = {}
  BY DEF ClaimRows, Hold, InHand, RowSteps, JobSteps
<1>5. \A i \in DOMAIN ingestion :
          /\ ingestion'[i].attempts = ingestion[i].attempts
          /\ ingestion'[i].status \in Open => ingestion[i].status \in Open
          /\ ingestion'[i].status = "processing" =>
                ingestion[i].status \in {"pending", "processing"}
  <2>1. \A i \in DOMAIN ingestion : ingestion[i] \in Ingestions
    BY DEF TypeOK
  <2>. QED
    BY <1>2, <2>1 DEF Open, Ingestions
<1>6. InHand'
  BY <1>1, <1>2, <1>3 DEF InHand, Due, RowSteps, JobSteps
<1>7. Holders' /\ Unheld
  BY <1>1, HoldersKept
<1>8. Tries'
  BY <1>1, <1>2, <1>3, <1>5, <1>7 DEF Hold, Tries, Unheld, Due, Open
<1>9. Unstranded'
  <2>1. Unstranded /\ (Interrupted' <=> Interrupted)
    BY <1>1, StrandedIs DEF Hold, Claims, Interrupted
  <2>. QED
    BY <1>1, <1>2, <1>3, <1>4, <1>5, <2>1 DEF Unstranded, Due
<1>10. Claims'
  BY <1>3, <1>9, StrandedIsNext DEF Claims
<1>. QED
  BY <1>6, <1>7, <1>8, <1>10 DEF Hold

LEMMA ClaimJobsHolds ==
    ASSUME TypeOK, TypeOK', Hold, ClaimJobs PROVE Hold'
<1>1. UNCHANGED <<extraction, worker, ingestion, faults>>
  BY DEF ClaimJobs
<1>2. /\ jobs' = Claimed(jobs)
      /\ DOMAIN jobs' = DOMAIN jobs
      /\ \A i \in DOMAIN jobs :
           /\ jobs[i].status # "pending" => jobs'[i] = jobs[i]
           /\ jobs[i].status = "pending" =>
                jobs'[i] = [jobs[i] EXCEPT !.status = "processing"]
  BY ClaimedTyped DEF ClaimJobs, TypeOK
<1>3. /\ runtime'.jobs = Due(jobs) /\ runtime'.rows = {}
      /\ \/ runtime'.at = "poll" /\ runtime'.jobs = {}
         \/ runtime'.at = "read" /\ runtime'.now \in runtime'.jobs
  BY AtHand, TakeJobTyped DEF ClaimJobs, Hold
<1>4. runtime.rows = {} /\ runtime.jobs = {}
  BY DEF ClaimJobs, Hold, InHand, RowSteps, JobSteps
<1>5. \A i \in DOMAIN jobs :
          /\ jobs'[i].attempts = jobs[i].attempts
          /\ jobs'[i].status \in Open => jobs[i].status \in Open
          /\ jobs'[i].status = "processing" => jobs[i].status \in {"pending", "processing"}
  <2>1. \A i \in DOMAIN jobs : jobs[i] \in Jobs
    BY DEF TypeOK
  <2>. QED
    BY <1>2, <2>1 DEF Open, Jobs
<1>6. InHand'
  BY <1>1, <1>2, <1>3 DEF InHand, Due, RowSteps, JobSteps
<1>7. Holders' /\ Unheld
  BY <1>1, HoldersKept
<1>8. Tries'
  BY <1>1, <1>2, <1>3, <1>5, <1>7 DEF Hold, Tries, Unheld, Due, Open
<1>9. Unstranded'
  <2>1. Unstranded /\ (Interrupted' <=> Interrupted)
    BY <1>1, StrandedIs DEF Hold, Claims, Interrupted
  <2>. QED
    BY <1>1, <1>2, <1>3, <1>4, <1>5, <2>1 DEF Unstranded, Due
<1>10. Claims'
  BY <1>3, <1>9, StrandedIsNext DEF Claims
<1>. QED
  BY <1>6, <1>7, <1>8, <1>10 DEF Hold

\* The job at hand is over.
LEMMA EndedHolds ==
    ASSUME TypeOK, TypeOK', Hold, runtime.at \in JobSteps, Ended(runtime.now),
           UNCHANGED <<extraction, worker, ingestion>>,
           UNCHANGED faults \/ \E h \in Kinds : Met(h),
           runtime'.at = "purge" => jobs'[runtime.now].status # "processing",
           jobs'[runtime.now].status # "processing"
    PROVE  Hold'
<1>1. runtime.now \in runtime.jobs /\ runtime.rows = {}
  BY DEF Hold, InHand, RowSteps, JobSteps
<1>2. InHand'
  BY <1>1 DEF Hold, InHand, Ended, RowSteps, JobSteps
<1>3. Holders' /\ Unheld
  BY HoldersKept
<1>4. Tries'
  <2>1. \A k \in DOMAIN jobs' : jobs'[k].status \in Open \/ k \in runtime'.jobs
                                  => jobs'[k].attempts < MaxAttempts
    BY <1>1 DEF Hold, Tries, Ended, Open
  <2>2. \A i \in DOMAIN ingestion' :
          \/ ingestion'[i].status \in Open
          \/ i \in runtime'.rows /\ ~(runtime'.at = "tell" /\ i = runtime'.now)
          => ingestion'[i].attempts < MaxAttempts
    BY DEF Hold, Tries, Ended
  <2>. QED
    BY <1>3, <2>1, <2>2 DEF Tries, Unheld
<1>5. Unstranded'
  <2>1. Unstranded /\ (Interrupted => Interrupted')
    BY StrandedIs, FaultsGrow DEF Hold, Claims
  <2>2. \A k \in DOMAIN jobs' : jobs'[k].status = "processing" =>
            k # runtime.now /\ jobs[k].status = "processing"
    BY DEF Ended, Open
  <2>. QED
    BY <1>1, <2>1, <2>2 DEF Unstranded, Ended
<1>6. Claims'
  BY <1>5, StrandedIsNext DEF Claims, Ended, job
<1>. QED
  BY <1>2, <1>3, <1>4, <1>6 DEF Hold

LEMMA JobEndsHold ==
    ASSUME TypeOK, TypeOK', Hold, CompleteJob \/ ProjectFails \/ Purge
    PROVE  Hold'
<1>1. /\ runtime.at \in JobSteps /\ runtime.now \in DOMAIN jobs
      /\ runtime.now \in runtime.jobs /\ jobs[runtime.now] \in Jobs
  BY AtHand DEF Hold, CompleteJob, ProjectFails, Purge, JobSteps, InHand, job
<1>2. Purge => job.status # "processing"
  BY DEF Hold, Claims, Purge
<1>3. Ended(runtime.now)
  BY <1>2, CompleteJobTyped, ProjectFailsTyped, PurgeTyped DEF Hold
<1>4. UNCHANGED <<extraction, worker, ingestion>>
  BY DEF CompleteJob, ProjectFails, Purge
<1>5. UNCHANGED faults \/ \E h \in Kinds : Met(h)
  BY DEF CompleteJob, ProjectFails, Purge, Kinds
<1>6. jobs'[runtime.now].status # "processing"
  <2>1. jobs'[runtime.now] # jobs[runtime.now] => jobs'[runtime.now].status # "processing"
    BY <1>1, <1>3 DEF Ended, Open
  <2>2. CASE CompleteJob
    BY <1>1, <1>3, <2>2 DEF Ended, Open
  <2>3. CASE ProjectFails \/ Purge
    BY <1>1, <1>3, <2>3 DEF Ended, Open
  <2>. QED
    BY <2>2, <2>3
<1>. QED
  BY <1>1, <1>3, <1>4, <1>5, <1>6, EndedHolds

LEMMA NextHolds ==
    ASSUME Inv, [Next]_vars PROVE Hold'
<1>0. TypeOK /\ TypeOK' /\ Hold
  BY NextTyped DEF Inv, Hold
<1>1. CASE UNCHANGED vars
  <2>1. Unstranded' <=> Unstranded
    BY <1>1 DEF vars, Unstranded, Interrupted
  <2>. QED
    BY <1>0, <1>1, <2>1, StrandedIs, StrandedIsNext
       DEF vars, Hold, InHand, Holders, Tries, Claims, row, job
<1>2. CASE \E d \in Docs : \/ Upload(d) \/ DeleteSource(d) \/ EnqueueDeletes(d)
                           \/ Rebuild(d) \/ \E force \in BOOLEAN : DeleteByMetadata(d, force)
                           \/ ExtractionDue(d)
  BY <1>0, <1>2, RequestHolds
<1>3. CASE \E w \in Workers : WorkerStep(w) \/ CrashWorker(w)
  BY <1>0, <1>3, WorkerHolds, CrashWorkerHolds DEF WorkerStep
<1>4. CASE RuntimeStep
  <2>1. CASE AnnounceFails
    <3>1. /\ runtime' = Resting /\ Met("progress")
          /\ UNCHANGED <<extraction, worker, ingestion, jobs>>
      BY <2>1 DEF AnnounceFails, Stored
    <3>. QED
      BY <1>0, <3>1, RestHolds
  <2>2. CASE \/ Payload \/ UpsertSource \/ UpsertItem \/ EnqueueUpserts \/ CompleteRow
             \/ ReadItem \/ Embed \/ Write \/ Mark
    BY <1>0, <2>2, StepsHold
  <2>3. CASE Report \/ Tell \/ IngestFails
    BY <1>0, <2>3, DropHolds
  <2>4. CASE ClaimRows \/ ClaimJobs
    BY <1>0, <2>4, ClaimRowsHolds, ClaimJobsHolds
  <2>5. CASE CompleteJob \/ ProjectFails \/ Purge
    BY <1>0, <2>5, JobEndsHold
  <2>. QED
    BY <1>4, <2>1, <2>2, <2>3, <2>4, <2>5 DEF RuntimeStep
<1>5. CASE \/ \E i \in DOMAIN ingestion : IngestionDue(i)
           \/ \E i \in DOMAIN jobs : JobDue(i)
  BY <1>0, <1>5, DueHolds
<1>6. CASE Reload \/ CrashCore
  <2>2. runtime' = Resting
    BY <1>6 DEF Reload, CrashCore
  <2>3. UNCHANGED <<extraction, worker, ingestion, jobs>> /\ (Met("reload") \/ Met("crash"))
    BY <1>6 DEF Reload, CrashCore, Stored
  <2>. QED
    BY <1>0, <2>2, <2>3, RestHolds
<1>. QED
  BY <1>1, <1>2, <1>3, <1>4, <1>5, <1>6 DEF Next

-----------------------------------------------------------------------------
(* What is gone *)

\* Nothing is written, and no item comes, goes or is marked.
LEMMA GoneStays ==
    ASSUME TypeOK, InHand, Gone, UNCHANGED index,
           \A d \in Docs : \/ item'[d] = item[d]
                           \/ /\ item'[d].there = item[d].there /\ ~item'[d].live
                              /\ item'[d].vector = "pending" /\ item'[d].kg = "pending",
           \/ runtime'.at \notin {"embed", "write", "mark"}
           \/ UNCHANGED runtime /\ JobsKept
    PROVE  Gone'
<1>1. /\ PurgedIsUnindexed'
      /\ \A d \in Docs :
            /\ ~item'[d].there => ~item'[d].live
            /\ ~item'[d].live /\ item'[d].vector = "deleted" => ~index'[d].vector
            /\ ~item'[d].live /\ item'[d].kg = "deleted" => ~index'[d].kg
  BY DEF Gone, PurgedIsUnindexed
<1>2. CASE runtime'.at \notin {"embed", "write", "mark"}
  BY <1>1, <1>2 DEF Gone
<1>3. CASE UNCHANGED runtime /\ JobsKept /\ runtime.at \in {"embed", "write", "mark"}
  <2>1. runtime.now \in DOMAIN jobs /\ job.doc \in Docs
    BY <1>3, AtHand DEF JobSteps
  <2>2. /\ job'.doc = job.doc /\ job'.does = job.does
        /\ job'.projection = job.projection
    BY <1>3, <2>1 DEF JobsKept, job
  <2>. DEFINE d == job.doc
  <2>3. /\ runtime.at \in {"embed", "write"} => job.projection # "classification"
        /\ runtime.at = "embed" => job.does = "upsert" /\ job.projection = "vector"
        /\ job.projection # "classification" =>
              /\ item[d].there
              /\ job.does = "upsert" => Unmarked(item[d], job.projection)
        /\ runtime.at = "mark" /\ job.does = "delete" =>
              /\ job.projection = "vector" => ~index[d].vector
              /\ job.projection = "kg" => ~index[d].kg
    BY <1>3 DEF Gone
  <2>4. /\ item'[d].there = item[d].there
        /\ Unmarked(item[d], job.projection) => Unmarked(item'[d], job.projection)
    BY <2>1 DEF Unmarked
  <2>. HIDE DEF d
  <2>. QED
    BY <1>1, <1>3, <2>2, <2>3, <2>4 DEF Gone, d
<1>. QED
  BY <1>2, <1>3

LEMMA UpsertItemGone ==
    ASSUME TypeOK, InHand, Gone, UpsertItem PROVE Gone'
<1>. DEFINE i == [there |-> TRUE, live |-> TRUE, version |-> item[rowDoc].version + 1,
                  embedded |-> FALSE, vector |-> "pending", kg |-> "pending"]
<1>1. rowDoc \in Docs
  BY AtHand DEF UpsertItem, RowSteps
<1>2. item' = [item EXCEPT ![rowDoc] = i] /\ UNCHANGED index /\ i.there /\ i.live
  BY DEF UpsertItem
<1>. HIDE DEF i
<1>3. item'[rowDoc] = i /\ \A d \in Docs \ {rowDoc} : item'[d] = item[d]
  BY <1>1, <1>2 DEF TypeOK
<1>4. runtime'.at = "enqueue"
  BY DEF UpsertItem, TypeOK, Hands
<1>. QED
  BY <1>1, <1>2, <1>3, <1>4 DEF Gone, PurgedIsUnindexed

\* An item that is read for its projection is there, and alive for an upsert.
LEMMA ReadItemGone ==
    ASSUME TypeOK, InHand, Gone, ReadItem PROVE Gone'
<1>1. job.doc \in Docs /\ job \in Jobs
  BY AtHand DEF ReadItem, JobSteps
<1>2. job.projection \in {"vector", "kg", "classification"} /\ job.does \in {"upsert", "delete"}
  BY <1>1 DEF Jobs, Projections
<1>3. UNCHANGED <<item, index, jobs>> /\ runtime'.now = runtime.now
  BY DEF ReadItem, Stored, TypeOK, Hands
<1>4. runtime'.at = CASE Skips -> "done"
                      [] ~Skips /\ job.projection = "classification" -> "mark"
                      [] ~Skips /\ job.does = "upsert" /\ job.projection = "vector"
                           /\ ~item[job.doc].embedded -> "embed"
                      [] OTHER -> "write"
  BY DEF ReadItem, TypeOK, Hands
<1>5. /\ runtime'.at = "mark" => job.projection = "classification"
      /\ runtime'.at \in {"embed", "write"} => ~Skips /\ job.projection # "classification"
      /\ runtime'.at = "embed" => job.does = "upsert" /\ job.projection = "vector"
  BY <1>4
<1>6. ~Skips => /\ job.does = "upsert" => item[job.doc].live
                /\ job.does = "delete" =>
                      item[job.doc].there \/ job.projection = "classification"
  BY <1>2 DEF Skips
<1>7. item[job.doc].live => item[job.doc].there
  BY <1>1 DEF Gone
<1>8. job' = job
  BY <1>3 DEF job
<1>9. PurgedIsUnindexed'
  BY <1>3 DEF Gone, PurgedIsUnindexed
<1>. QED
  BY <1>2, <1>3, <1>5, <1>6, <1>7, <1>8, <1>9 DEF Gone, Unmarked

LEMMA EmbedGone ==
    ASSUME TypeOK, InHand, Gone, Embed PROVE Gone'
<1>. DEFINE d == job.doc
            i == [item[d] EXCEPT !.embedded = TRUE, !.vector = "ready"]
<1>1. d \in Docs
  BY AtHand DEF Embed, JobSteps
<1>2. item[d] \in Items /\ item \in [Docs -> Items]
  BY <1>1 DEF TypeOK
<1>3. /\ i.there = item[d].there /\ i.live = item[d].live
      /\ i.vector = "ready" /\ i.kg = item[d].kg
  BY <1>2 DEF Items
<1>4. item' = [item EXCEPT ![d] = i] /\ UNCHANGED <<index, jobs>>
  BY DEF Embed
<1>. HIDE DEF i
<1>5. item'[d] = i /\ \A e \in Docs \ {d} : item'[e] = item[e]
  BY <1>1, <1>2, <1>4
<1>6. runtime'.at = "write" /\ job' = job
  BY <1>4, ToTyped DEF Embed, TypeOK, Steps, JobSteps, job
<1>7. item[d].there /\ job.does = "upsert" /\ job.projection = "vector"
  BY DEF Embed, Gone
<1>8. PurgedIsUnindexed'
  BY <1>1, <1>3, <1>4, <1>5 DEF Gone, PurgedIsUnindexed
<1>9. \A e \in Docs :
          /\ ~item'[e].there => ~item'[e].live
          /\ ~item'[e].live /\ item'[e].vector = "deleted" => ~index'[e].vector
          /\ ~item'[e].live /\ item'[e].kg = "deleted" => ~index'[e].kg
  BY <1>1, <1>3, <1>4, <1>5 DEF Gone
<1>10. item'[job'.doc].there /\ Unmarked(item'[job'.doc], "vector")
  BY <1>3, <1>5, <1>6, <1>7 DEF Unmarked
<1>. QED
  BY <1>6, <1>7, <1>8, <1>9, <1>10 DEF Gone

\* An upsert writes an item that is not marked as deleted.
LEMMA WriteGone ==
    ASSUME TypeOK, InHand, Gone, Write PROVE Gone'
<1>. DEFINE d == job.doc
<1>1. d \in Docs /\ job \in Jobs
  BY AtHand DEF Write, JobSteps
<1>2. job.projection \in {"vector", "kg", "classification"} /\ job.does \in {"upsert", "delete"}
  BY <1>1 DEF Jobs, Projections
<1>3. /\ job.projection # "classification" /\ item[d].there
      /\ job.does = "upsert" => Unmarked(item[d], job.projection)
  BY DEF Write, Gone
<1>4. /\ \A e \in Docs : e # d => index'[e] = index[e]
      /\ job.projection = "vector" => /\ index'[d].vector = (job.does = "upsert")
                                      /\ index'[d].kg = index[d].kg
      /\ job.projection = "kg" => /\ index'[d].kg = (job.does = "upsert")
                                  /\ index'[d].vector = index[d].vector
  BY <1>3, WriteDoes
<1>5. UNCHANGED <<item, jobs>> /\ runtime'.at = "mark" /\ job' = job
  BY ToTyped DEF Write, TypeOK, Steps, JobSteps, job
<1>6. PurgedIsUnindexed'
  <2>. SUFFICES ASSUME NEW e \in Docs, ~item[e].there
                PROVE  ~index'[e].vector /\ ~index'[e].kg
    BY <1>5 DEF PurgedIsUnindexed
  <2>. QED
    BY <1>3, <1>4 DEF Gone, PurgedIsUnindexed
<1>7. \A e \in Docs :
          /\ ~item'[e].there => ~item'[e].live
          /\ ~item'[e].live /\ item'[e].vector = "deleted" => ~index'[e].vector
          /\ ~item'[e].live /\ item'[e].kg = "deleted" => ~index'[e].kg
  <2>. TAKE e \in Docs
  <2>1. /\ ~item[e].there => ~item[e].live
        /\ ~item[e].live /\ item[e].vector = "deleted" => ~index[e].vector
        /\ ~item[e].live /\ item[e].kg = "deleted" => ~index[e].kg
    BY DEF Gone
  <2>2. CASE e # d
    BY <1>4, <1>5, <2>1, <2>2
  <2>3. CASE e = d
    BY <1>2, <1>3, <1>4, <1>5, <2>1, <2>3 DEF Unmarked
  <2>. QED
    BY <2>2, <2>3
<1>8. job.does = "delete" => /\ job.projection = "vector" => ~index'[d].vector
                             /\ job.projection = "kg" => ~index'[d].kg
  BY <1>4
<1>9. job.does = "upsert" => Unmarked(item'[d], job.projection)
  BY <1>3, <1>5
<1>. QED
  BY <1>3, <1>5, <1>6, <1>7, <1>8, <1>9 DEF Gone

\* What is marked as deleted was removed from the index before.
LEMMA MarkGone ==
    ASSUME TypeOK, InHand, Gone, Mark PROVE Gone'
<1>. DEFINE d == job.doc
<1>1. d \in Docs /\ job \in Jobs
  BY AtHand DEF Mark, JobSteps
<1>2. job.does \in {"upsert", "delete"}
  BY <1>1 DEF Jobs
<1>3. UNCHANGED index /\ runtime'.at = "done"
  BY ToTyped DEF Mark, TypeOK, Steps, JobSteps
<1>4. /\ \A e \in Docs : e # d => item'[e] = item[e]
      /\ item'[d].there = item[d].there /\ item'[d].live = item[d].live
      /\ item'[d].vector = "deleted" =>
            \/ item[d].vector = "deleted"
            \/ job.projection = "vector" /\ job.does = "delete"
      /\ item'[d].kg = "deleted" =>
            \/ item[d].kg = "deleted"
            \/ job.projection = "kg" /\ job.does = "delete"
  BY <1>2, MarkDoes
<1>5. job.does = "delete" => /\ job.projection = "vector" => ~index[d].vector
                             /\ job.projection = "kg" => ~index[d].kg
  BY DEF Mark, Gone
<1>6. PurgedIsUnindexed'
  BY <1>1, <1>3, <1>4 DEF Gone, PurgedIsUnindexed
<1>7. \A e \in Docs :
          /\ ~item'[e].there => ~item'[e].live
          /\ ~item'[e].live /\ item'[e].vector = "deleted" => ~index'[e].vector
          /\ ~item'[e].live /\ item'[e].kg = "deleted" => ~index'[e].kg
  <2>. TAKE e \in Docs
  <2>1. /\ ~item[e].there => ~item[e].live
        /\ ~item[e].live /\ item[e].vector = "deleted" => ~index[e].vector
        /\ ~item[e].live /\ item[e].kg = "deleted" => ~index[e].kg
    BY DEF Gone
  <2>. QED
    BY <1>3, <1>4, <1>5, <2>1
<1>. QED
  BY <1>3, <1>6, <1>7 DEF Gone

\* What is purged is marked as deleted in both indexes.
LEMMA PurgeGone ==
    ASSUME TypeOK, InHand, Gone, Purge PROVE Gone'
<1>. DEFINE d == job.doc
<1>1. d \in Docs /\ UNCHANGED index
  BY AtHand DEF Purge, JobSteps
<1>2. runtime'.at \in {"read", "poll"}
  BY NextJobTyped DEF Purge
<1>3. CASE ~Purgeable(d)
  <2>1. UNCHANGED item
    BY <1>3 DEF Purge
  <2>. QED
    BY <1>1, <1>2, <2>1, GoneStays
<1>4. CASE Purgeable(d)
  <2>1. item' = [item EXCEPT ![d] = NoItem]
    BY <1>4 DEF Purge
  <2>2. item'[d] = NoItem /\ \A e \in Docs \ {d} : item'[e] = item[e]
    BY <1>1, <2>1 DEF TypeOK
  <2>3. ~index[d].vector /\ ~index[d].kg
    BY <1>1, <1>4 DEF Purgeable, Gone
  <2>4. PurgedIsUnindexed'
    BY <1>1, <2>2, <2>3 DEF Gone, PurgedIsUnindexed
  <2>. QED
    BY <1>1, <1>2, <2>2, <2>3, <2>4 DEF Gone, NoItem
<1>. QED
  BY <1>3, <1>4

LEMMA NextGone ==
    ASSUME Inv, [Next]_vars PROVE Gone'
<1>0. TypeOK /\ InHand /\ Gone /\ Hold
  BY DEF Inv, Hold
<1>1. CASE UNCHANGED vars
  BY <1>0, <1>1, GoneStays, SameKept DEF vars
<1>2. CASE \E d \in Docs : \/ Upload(d) \/ DeleteSource(d) \/ EnqueueDeletes(d)
                           \/ Rebuild(d) \/ \E force \in BOOLEAN : DeleteByMetadata(d, force)
                           \/ ExtractionDue(d)
  <2>1. PICK d \in Docs : \/ Upload(d) \/ DeleteSource(d) \/ EnqueueDeletes(d)
                          \/ Rebuild(d) \/ \E force \in BOOLEAN : DeleteByMetadata(d, force)
                          \/ ExtractionDue(d)
    BY <1>2
  <2>2. UNCHANGED <<runtime, index>>
    BY <2>1 DEF Upload, DeleteSource, EnqueueDeletes, Rebuild, DeleteByMetadata,
       ExtractionDue
  <2>3. JobsKept
    BY <1>0, <2>1, EnqueueDeletesTyped, RebuildTyped, GrowsKept, SameKept
       DEF Upload, DeleteSource, DeleteByMetadata, ExtractionDue
  <2>4. item' = item \/ item' = [item EXCEPT ![d] = Deleted(item[d])]
    BY <2>1 DEF Upload, DeleteSource, EnqueueDeletes, Rebuild, DeleteByMetadata,
       ExtractionDue
  <2>5. FALSE \in BOOLEAN
    OBVIOUS
  <2>6. \A e \in Docs : \/ item'[e] = item[e]
                        \/ /\ item'[e].there = item[e].there /\ ~item'[e].live
                           /\ item'[e].vector = "pending" /\ item'[e].kg = "pending"
    BY <1>0, <2>4, <2>5, DeletedTyped DEF TypeOK
  <2>. QED
    BY <1>0, <2>2, <2>3, <2>6, GoneStays
<1>3. CASE \/ \E w \in Workers : WorkerStep(w) \/ CrashWorker(w)
           \/ \E i \in DOMAIN ingestion : IngestionDue(i)
           \/ \E i \in DOMAIN jobs : JobDue(i)
  <2>1. UNCHANGED <<runtime, index, item>>
    BY <1>3 DEF WorkerStep, ClaimExtraction, Extract, ExtractFails, Release, CrashWorker,
       Stored, IngestionDue, JobDue
  <2>2. JobsKept
    <3>1. CASE \E i \in DOMAIN jobs : JobDue(i)
      BY <1>0, <3>1, JobDueKept
    <3>2. CASE UNCHANGED jobs
      BY <3>2, SameKept
    <3>. QED
      BY <1>3, <3>1, <3>2 DEF WorkerStep, ClaimExtraction, Extract, ExtractFails, Release,
         CrashWorker, Stored, IngestionDue
  <2>. QED
    BY <1>0, <2>1, <2>2, GoneStays
<1>4. CASE \/ Payload \/ UpsertSource \/ EnqueueUpserts \/ CompleteRow \/ Report \/ Tell
           \/ IngestFails \/ AnnounceFails \/ ClaimRows \/ ClaimJobs \/ CompleteJob
           \/ ProjectFails \/ Reload \/ CrashCore
  <2>1. UNCHANGED <<index, item>>
    BY <1>4 DEF Payload, UpsertSource, EnqueueUpserts, CompleteRow, Report, Tell,
       IngestFails, RowFails, AnnounceFails, ClaimRows, ClaimJobs, CompleteJob,
       ProjectFails, Reload, CrashCore, Stored
  <2>2. runtime'.at \notin {"embed", "write", "mark"}
    <3>1. CASE Payload \/ UpsertSource \/ EnqueueUpserts \/ CompleteRow
      BY <1>0, <3>1 DEF Payload, UpsertSource, EnqueueUpserts, CompleteRow, To, TypeOK, Hands
    <3>2. CASE Report \/ Tell
      BY <1>0, <3>2, AtHand, TakeRowTyped DEF Report, Tell, NextRow
    <3>3. CASE IngestFails
      BY <1>0, <3>3, RowFailsTyped DEF IngestFails, Hold, RowSteps
    <3>4. CASE AnnounceFails \/ Reload \/ CrashCore
      BY <3>4 DEF AnnounceFails, Reload, CrashCore, Resting
    <3>5. CASE ClaimRows \/ ClaimJobs
      BY <1>0, <3>5, AtHand, TakeRowTyped, TakeJobTyped DEF ClaimRows, ClaimJobs
    <3>6. CASE CompleteJob \/ ProjectFails
      BY <1>0, <3>6, CompleteJobTyped, ProjectFailsTyped DEF Ended, Hold
    <3>. QED
      BY <1>4, <3>1, <3>2, <3>3, <3>4, <3>5, <3>6
  <2>. QED
    BY <1>0, <2>1, <2>2, GoneStays
<1>5. CASE UpsertItem \/ ReadItem \/ Embed \/ Write \/ Mark \/ Purge
  BY <1>0, <1>5, UpsertItemGone, ReadItemGone, EmbedGone, WriteGone, MarkGone, PurgeGone
<1>. QED
  BY <1>1, <1>2, <1>3, <1>4, <1>5 DEF Next, RuntimeStep

-----------------------------------------------------------------------------
(* What was extracted *)

Wanted == Open \cup {"dead_letter"}

LEMMA QueuedKept ==
    ASSUME TypeOK, ExtractedIsQueued,
           \A d \in Docs : extracted'[d] = "pending" =>
              \/ \E i \in DOMAIN ingestion' : /\ ingestion'[i].doc = d
                                              /\ ingestion'[i].status \in Wanted
              \/ /\ extracted[d] = "pending"
                 /\ \A i \in DOMAIN ingestion : ingestion[i].doc = d =>
                      /\ i \in DOMAIN ingestion' /\ ingestion'[i].doc = d
                      /\ ingestion[i].status \in Wanted => ingestion'[i].status \in Wanted
    PROVE  ExtractedIsQueued'
BY DEF ExtractedIsQueued, Wanted

LEMMA NextQueued ==
    ASSUME Inv, [Next]_vars PROVE ExtractedIsQueued'
<1>0. TypeOK /\ TypeOK' /\ InHand /\ Tries /\ Gone /\ ExtractedIsQueued
  BY NextTyped DEF Inv
<1>1. CASE UNCHANGED <<ingestion, extracted>>
  BY <1>0, <1>1, QueuedKept
<1>2. ASSUME NEW d \in Docs, NEW force \in BOOLEAN, DeleteByMetadata(d, force)
      PROVE  ExtractedIsQueued'
  <2>1. extracted'[d] # "pending" /\ \A e \in Docs \ {d} : extracted'[e] = extracted[e]
    BY <1>0, <1>2 DEF DeleteByMetadata, TypeOK
  <2>2. /\ DOMAIN ingestion' = DOMAIN ingestion
        /\ \A i \in DOMAIN ingestion : ingestion[i].doc # d => ingestion'[i] = ingestion[i]
    BY <1>2 DEF DeleteByMetadata
  <2>. QED
    BY <1>0, <2>1, <2>2, QueuedKept
<1>3. ASSUME NEW w \in Workers, NEW d \in Docs, Extract(w, d) PROVE ExtractedIsQueued'
  <2>. DEFINE r == [doc |-> d, status |-> "pending", attempts |-> 0]
  <2>1. ingestion' = Append(ingestion, r) /\ ingestion \in Seq(Ingestions)
    BY <1>0, <1>3 DEF Extract, TypeOK
  <2>2. r.doc = d /\ r.status \in Wanted
    BY DEF Wanted, Open
  <2>. HIDE DEF r
  <2>3. /\ DOMAIN ingestion' = 1 .. Len(ingestion) + 1
        /\ DOMAIN ingestion = 1 .. Len(ingestion) /\ Len(ingestion) \in Nat
        /\ ingestion'[Len(ingestion) + 1] = r
        /\ \A i \in DOMAIN ingestion : ingestion'[i] = ingestion[i]
    BY <2>1
  <2>4. Len(ingestion) + 1 \in DOMAIN ingestion'
    BY <2>3
  <2>5. \A e \in Docs \ {d} : extracted'[e] = extracted[e]
    BY <1>0, <1>3 DEF Extract, TypeOK
  <2>6. \A i \in DOMAIN ingestion : i \in DOMAIN ingestion'
    BY <2>3
  <2>. HIDE DEF Wanted
  <2>. QED
    BY <1>0, <2>2, <2>3, <2>4, <2>5, <2>6, QueuedKept
<1>4. CASE CompleteRow
  <2>1. /\ DOMAIN ingestion' = DOMAIN ingestion
        /\ \A i \in DOMAIN ingestion : i # row => ingestion'[i] = ingestion[i]
    BY <1>0, <1>4, CompleteRowTyped DEF Marked
  <2>2. CASE ingestion[row].status = "deleted"
    BY <1>1, <1>4, <2>2 DEF CompleteRow
  <2>3. CASE ingestion[row].status # "deleted"
    <3>1. extracted' = [extracted EXCEPT ![rowDoc] =
             IF extracted[rowDoc] = "pending" THEN "ingested" ELSE extracted[rowDoc]]
      BY <1>4, <2>3 DEF CompleteRow
    <3>2. /\ extracted'[rowDoc] # "pending"
          /\ \A e \in Docs \ {rowDoc} : extracted'[e] = extracted[e]
      BY <1>0, <3>1 DEF TypeOK
    <3>. QED
      BY <1>0, <2>1, <3>2, QueuedKept DEF rowDoc
  <2>. QED
    BY <2>2, <2>3
<1>5. CASE IngestFails
  <2>1. runtime.at \in RowSteps /\ runtime.at # "tell" /\ RowFails
    BY <1>5 DEF IngestFails, RowSteps
  <2>2. /\ DOMAIN ingestion' = DOMAIN ingestion
        /\ ingestion'[row].doc = ingestion[row].doc
        /\ \/ ingestion'[row] = ingestion[row]
           \/ ingestion'[row].status \in {"failed", "dead_letter"}
        /\ \A i \in DOMAIN ingestion \ {row} : ingestion'[i] = ingestion[i]
    BY <1>0, <2>1, RowFailsTyped, FailedIngestion, AtHand DEF Tries, InHand, row
  <2>3. extracted' = extracted
    BY <2>1 DEF RowFails
  <2>4. {"failed", "dead_letter"} \subseteq Wanted
    BY DEF Wanted, Open
  <2>. QED
    BY <1>0, <2>2, <2>3, <2>4, QueuedKept
<1>6. CASE ClaimRows
  <2>1. /\ DOMAIN ingestion' = DOMAIN ingestion /\ extracted' = extracted
        /\ \A i \in DOMAIN ingestion :
             /\ ingestion[i].status # "pending" => ingestion'[i] = ingestion[i]
             /\ ingestion[i].status = "pending" =>
                  ingestion'[i] = [ingestion[i] EXCEPT !.status = "processing"]
    BY <1>0, <1>6, ClaimedTyped DEF ClaimRows, TypeOK
  <2>2. \A i \in DOMAIN ingestion : ingestion[i] \in Ingestions
    BY <1>0 DEF TypeOK
  <2>3. \A i \in DOMAIN ingestion :
          /\ ingestion'[i].doc = ingestion[i].doc
          /\ ingestion[i].status \in Wanted => ingestion'[i].status \in Wanted
    BY <2>1, <2>2 DEF Ingestions, Wanted, Open
  <2>. QED
    BY <1>0, <2>1, <2>3, QueuedKept
<1>7. ASSUME NEW i \in DOMAIN ingestion, IngestionDue(i) PROVE ExtractedIsQueued'
  <2>. DEFINE after == [ingestion[i] EXCEPT !.status = "pending"]
  <2>1. ingestion[i] \in Ingestions
    BY <1>0 DEF TypeOK
  <2>2. after \in Ingestions /\ after.status \in Wanted /\ after.doc = ingestion[i].doc
    BY <2>1 DEF Ingestions, Open, Wanted
  <2>3. ingestion' = [ingestion EXCEPT ![i] = after] /\ extracted' = extracted
    BY <1>7 DEF IngestionDue
  <2>. HIDE DEF after
  <2>4. /\ DOMAIN ingestion' = DOMAIN ingestion /\ ingestion'[i] = after
        /\ \A k \in DOMAIN ingestion \ {i} : ingestion'[k] = ingestion[k]
    BY <1>0, <2>2, <2>3, RowSet
  <2>. QED
    BY <1>0, <2>2, <2>3, <2>4, QueuedKept
<1>8. \/ UNCHANGED <<ingestion, extracted>>
      \/ \E d \in Docs, force \in BOOLEAN : DeleteByMetadata(d, force)
      \/ \E w \in Workers, d \in Docs : Extract(w, d)
      \/ CompleteRow \/ IngestFails \/ ClaimRows
      \/ \E i \in DOMAIN ingestion : IngestionDue(i)
  <2>1. RuntimeStep => \/ UNCHANGED <<ingestion, extracted>>
                       \/ CompleteRow \/ IngestFails \/ ClaimRows
    BY DEF RuntimeStep, Payload, UpsertSource, UpsertItem, EnqueueUpserts, Report, Tell,
       AnnounceFails, ClaimJobs, ReadItem, Embed, Write, Mark, CompleteJob, Purge,
       ProjectFails, Stored
  <2>2. CASE UNCHANGED vars
    BY <2>2 DEF vars
  <2>3. CASE Next
    BY <2>1, <2>3 DEF Next, Upload, DeleteSource, EnqueueDeletes, Rebuild, ExtractionDue,
       WorkerStep, ClaimExtraction, ExtractFails, Release, CrashWorker, JobDue, Reload,
       CrashCore, Stored
  <2>. QED
    BY <2>2, <2>3
<1>. QED
  BY <1>1, <1>2, <1>3, <1>4, <1>5, <1>6, <1>7, <1>8

-----------------------------------------------------------------------------
(* Theorems *)

LEMMA InitHolds == Init => Inv
<1>. SUFFICES ASSUME Init PROVE Inv
  OBVIOUS
<1>1. TypeOK
  BY InitTyped
<1>2. /\ ingestion = <<>> /\ jobs = <<>> /\ worker = [w \in Workers |-> {}]
      /\ runtime.at = "poll" /\ runtime.rows = {} /\ runtime.jobs = {}
      /\ \A d \in Docs : /\ extraction[d].status = "none" /\ extraction[d].attempts = 0
                         /\ item[d] = NoItem /\ index[d] = Empty
                         /\ extracted[d] = "none"
  BY DEF Init, Resting
<1>3. DOMAIN ingestion = {} /\ DOMAIN jobs = {}
  BY <1>2
<1>4. InHand /\ Holders /\ ExtractedIsQueued
  BY <1>2, <1>3 DEF InHand, Holders, ExtractedIsQueued, RowSteps, JobSteps
<1>5. Tries
  BY <1>2, <1>3, KnowledgeAssumption DEF Tries, Open
<1>6. Claims
  BY <1>1, <1>2, <1>3, StrandedIs DEF Claims, Unstranded
<1>7. Gone
  BY <1>2 DEF Gone, PurgedIsUnindexed, NoItem, Empty
<1>. QED
  BY <1>1, <1>4, <1>5, <1>6, <1>7 DEF Inv

LEMMA NextKeeps == ASSUME Inv, [Next]_vars PROVE Inv'
BY NextTyped, NextHolds, NextGone, NextQueued DEF Inv, Hold

\* The inductive invariant: who has which row in hand, that there is an attempt
\* left for it, and how items, their marks and the indexes agree.
THEOREM Invariant == Spec => []Inv
<1>1. Inv /\ [Next]_vars => Inv'
  BY NextKeeps
<1>. QED
  BY InitHolds, <1>1, PTL DEF Spec

\* Every variable keeps its type (KnowledgePipeline!TypeOK).
THEOREM TypeCorrect == Spec => []TypeOK
<1>1. Inv => TypeOK
  BY DEF Inv
<1>. QED
  BY Invariant, <1>1, PTL

\* What purge_deleted_item_if_ready removed for good is in no index, however
\* jobs were retried, reloaded or given up before.
THEOREM PurgedAreUnindexed == Spec => []PurgedIsUnindexed
<1>1. Inv => PurgedIsUnindexed
  BY DEF Inv, Gone
<1>. QED
  BY Invariant, <1>1, PTL

\* complete_extraction_with_items and what follows never lose extracted content:
\* an ingestion request for it is open or was given up.
THEOREM ExtractedAreQueued == Spec => []ExtractedIsQueued
<1>1. Inv => ExtractedIsQueued
  BY DEF Inv
<1>. QED
  BY Invariant, <1>1, PTL

\* A row that is processing in nobody's hands was left by an actor that was
\* stopped, or failed before its try, and by nothing else.
THEOREM OnlyStopsStrandRows == Spec => []OnlyStopsStrand
<1>1. Inv => OnlyStopsStrand
  BY DEF Inv, Claims
<1>. QED
  BY Invariant, <1>1, PTL
-----------------------------------------------------------------------------
(* What a step does to the ingestion requests and who has them in hand *)

RowsOf(d) == {i \in DOMAIN ingestion : ingestion[i].doc = d}

\* The row at hand fails, is given up, or is completed.
RowEnds(i) ==
    /\ i = row /\ runtime.at \in RowSteps /\ ingestion[i].status # "deleted"
    /\ \/ ingestion'[i].status = "failed"
       \/ /\ ingestion'[i].status = "dead_letter"
          /\ runtime'.at = "tell" /\ runtime'.now = i
       \/ /\ ingestion'[i].status = "completed"
          /\ runtime'.at = "report" /\ runtime'.now = i

RowMoves(i) ==
    /\ i \in DOMAIN ingestion' /\ ingestion'[i].doc = ingestion[i].doc
    /\ \/ ingestion'[i].status = ingestion[i].status
       \/ ingestion[i].status = "pending" /\ ingestion'[i].status = "processing"
       \/ ingestion[i].status = "failed" /\ ingestion'[i].status = "pending"
       \/ /\ ingestion[i].status \in {"pending", "failed"}
          /\ ingestion'[i].status = "cancelled"
       \/ /\ ingestion'[i].status = "deleted"
          /\ extraction'[ingestion[i].doc].status = "cancelled"
       \/ RowEnds(i)

\* A row is added by an extraction, and comes into hand when it waits.
RowsMove ==
    /\ \A i \in DOMAIN ingestion : RowMoves(i)
    /\ \A i \in DOMAIN ingestion' \ DOMAIN ingestion :
          /\ ingestion'[i].status = "pending" /\ ingestion'[i].doc \in Docs
          /\ \E w \in Workers : Extract(w, ingestion'[i].doc)
    /\ \A i \in runtime'.rows : \/ i \in runtime.rows
                                \/ i \in DOMAIN ingestion /\ ingestion[i].status = "pending"

LEMMA RowsStay ==
    ASSUME ingestion' = ingestion, runtime'.rows \subseteq runtime.rows PROVE RowsMove
BY DEF RowsMove, RowMoves

\* A deletion marks all rows of its document, or those that wait.
LEMMA DeleteByMetadataDoes ==
    ASSUME TypeOK, NEW d \in Docs, NEW force \in BOOLEAN, DeleteByMetadata(d, force)
    PROVE  /\ DOMAIN ingestion' = DOMAIN ingestion
           /\ \A i \in DOMAIN ingestion :
                /\ ingestion'[i].doc = ingestion[i].doc
                /\ ingestion[i].doc # d => ingestion'[i].status = ingestion[i].status
                /\ ingestion[i].doc = d /\ force => ingestion'[i].status = "deleted"
                /\ \/ ingestion'[i].status = ingestion[i].status
                   \/ ingestion[i].doc = d /\ ingestion'[i].status = "deleted"
                   \/ /\ ingestion[i].status \in {"pending", "failed"}
                      /\ ingestion'[i].status = "cancelled"
           /\ extraction'[d].status = "cancelled"
           /\ \A e \in Docs \ {d} : extraction'[e] = extraction[e]
<1>. DEFINE After(i) ==
           IF ingestion[i].doc # d THEN ingestion[i]
           ELSE CASE force -> [ingestion[i] EXCEPT !.status = "deleted"]
                  [] ~force /\ ingestion[i].status \in {"pending", "failed"} ->
                        [ingestion[i] EXCEPT !.status = "cancelled"]
                  [] OTHER -> ingestion[i]
<1>1. ingestion' = [i \in DOMAIN ingestion |-> After(i)]
  BY DEF DeleteByMetadata
<1>2. \A r \in Ingestions : \A s \in {"deleted", "cancelled"} :
         /\ [r EXCEPT !.status = s].doc = r.doc
         /\ [r EXCEPT !.status = s].status = s
  BY DEF Ingestions
<1>3. \A i \in DOMAIN ingestion : ingestion[i] \in Ingestions
  BY DEF TypeOK
<1>4. \A i \in DOMAIN ingestion :
         \/ After(i) = ingestion[i] /\ (ingestion[i].doc # d \/ ~force)
         \/ After(i) = [ingestion[i] EXCEPT !.status = "deleted"] /\ ingestion[i].doc = d
         \/ /\ After(i) = [ingestion[i] EXCEPT !.status = "cancelled"]
            /\ ingestion[i].doc = d /\ ~force
            /\ ingestion[i].status \in {"pending", "failed"}
  OBVIOUS
<1>. HIDE DEF After
<1>5. /\ extraction'[d].status = "cancelled"
      /\ \A e \in Docs \ {d} : extraction'[e] = extraction[e]
  BY ExtractionSet DEF DeleteByMetadata, Settled
<1>6. DOMAIN ingestion' = DOMAIN ingestion
  BY <1>1
<1>7. ASSUME NEW i \in DOMAIN ingestion
      PROVE  /\ ingestion'[i].doc = ingestion[i].doc
             /\ ingestion[i].doc # d => ingestion'[i].status = ingestion[i].status
             /\ ingestion[i].doc = d /\ force => ingestion'[i].status = "deleted"
             /\ \/ ingestion'[i].status = ingestion[i].status
                \/ ingestion[i].doc = d /\ ingestion'[i].status = "deleted"
                \/ /\ ingestion[i].status \in {"pending", "failed"}
                   /\ ingestion'[i].status = "cancelled"
  <2>1. ingestion'[i] = After(i)
    BY <1>1
  <2>2. CASE After(i) = ingestion[i] /\ (ingestion[i].doc # d \/ ~force)
    BY <2>1, <2>2
  <2>3. CASE /\ After(i) = [ingestion[i] EXCEPT !.status = "deleted"]
             /\ ingestion[i].doc = d
    BY <1>2, <1>3, <2>1, <2>3
  <2>4. CASE /\ After(i) = [ingestion[i] EXCEPT !.status = "cancelled"]
             /\ ingestion[i].doc = d /\ ~force
             /\ ingestion[i].status \in {"pending", "failed"}
    BY <1>2, <1>3, <2>1, <2>4
  <2>. QED
    BY <1>4, <2>2, <2>3, <2>4
<1>. QED
  BY <1>5, <1>6, <1>7

LEMMA DeleteByMetadataMovesRows ==
    ASSUME TypeOK, NEW d \in Docs, NEW force \in BOOLEAN, DeleteByMetadata(d, force)
    PROVE  RowsMove
<1>1. runtime' = runtime
  BY DEF DeleteByMetadata
<1>. QED
  BY <1>1, DeleteByMetadataDoes DEF RowsMove, RowMoves

\* What an extraction adds
LEMMA ExtractAdds ==
    ASSUME TypeOK, NEW w \in Workers, NEW d \in Docs, Extract(w, d)
    PROVE  /\ DOMAIN ingestion' = DOMAIN ingestion \cup {Len(ingestion) + 1}
           /\ Len(ingestion) + 1 \notin DOMAIN ingestion
           /\ \A i \in DOMAIN ingestion : ingestion'[i] = ingestion[i]
           /\ ingestion'[Len(ingestion) + 1].doc = d
           /\ ingestion'[Len(ingestion) + 1].status = "pending"
           /\ extraction'[d].status = "completed"
           /\ \A e \in Docs \ {d} : extraction'[e] = extraction[e]
<1>. DEFINE r == [doc |-> d, status |-> "pending", attempts |-> 0]
<1>1. ingestion' = Append(ingestion, r) /\ ingestion \in Seq(Ingestions)
  BY DEF Extract, TypeOK
<1>2. r.doc = d /\ r.status = "pending"
  OBVIOUS
<1>. HIDE DEF r
<1>3. /\ DOMAIN ingestion' = 1 .. Len(ingestion) + 1
      /\ DOMAIN ingestion = 1 .. Len(ingestion) /\ Len(ingestion) \in Nat
      /\ ingestion'[Len(ingestion) + 1] = r
      /\ \A i \in DOMAIN ingestion : ingestion'[i] = ingestion[i]
  BY <1>1
<1>4. /\ extraction'[d].status = "completed"
      /\ \A e \in Docs \ {d} : extraction'[e] = extraction[e]
  BY ExtractionSet DEF Extract, Settled
<1>5. /\ DOMAIN ingestion' = DOMAIN ingestion \cup {Len(ingestion) + 1}
      /\ Len(ingestion) + 1 \notin DOMAIN ingestion
  BY <1>3
<1>. QED
  BY <1>2, <1>3, <1>4, <1>5

LEMMA ExtractMovesRows ==
    ASSUME TypeOK, NEW w \in Workers, NEW d \in Docs, Extract(w, d)
    PROVE  RowsMove
<1>1. runtime' = runtime
  BY DEF Extract
<1>2. \A i \in DOMAIN ingestion : RowMoves(i)
  BY ExtractAdds DEF RowMoves
<1>3. ASSUME NEW i \in DOMAIN ingestion' \ DOMAIN ingestion
      PROVE  ingestion'[i].status = "pending" /\ ingestion'[i].doc = d
  BY ExtractAdds
<1>. QED
  BY <1>1, <1>2, <1>3 DEF RowsMove

LEMMA IngestionDueDoes ==
    ASSUME TypeOK, NEW i \in DOMAIN ingestion, IngestionDue(i)
    PROVE  /\ DOMAIN ingestion' = DOMAIN ingestion
           /\ ingestion[i].status = "failed" /\ ingestion'[i].status = "pending"
           /\ ingestion'[i].doc = ingestion[i].doc
           /\ \A k \in DOMAIN ingestion \ {i} : ingestion'[k] = ingestion[k]
<1>. DEFINE after == [ingestion[i] EXCEPT !.status = "pending"]
<1>1. ingestion[i] \in Ingestions
  BY DEF TypeOK
<1>2. after \in Ingestions /\ after.status = "pending" /\ after.doc = ingestion[i].doc
  BY <1>1 DEF Ingestions, Open
<1>3. ingestion' = [ingestion EXCEPT ![i] = after] /\ ingestion[i].status = "failed"
  BY DEF IngestionDue
<1>. HIDE DEF after
<1>. QED
  BY <1>2, <1>3, RowSet

LEMMA IngestionDueMovesRows ==
    ASSUME TypeOK, NEW i \in DOMAIN ingestion, IngestionDue(i) PROVE RowsMove
<1>1. runtime' = runtime
  BY DEF IngestionDue
<1>. QED
  BY <1>1, IngestionDueDoes DEF RowsMove, RowMoves

LEMMA ClaimRowsDoes ==
    ASSUME TypeOK, InHand, ClaimRows
    PROVE  /\ DOMAIN ingestion' = DOMAIN ingestion
           /\ \A i \in DOMAIN ingestion :
                /\ ingestion'[i].doc = ingestion[i].doc
                /\ \/ ingestion'[i].status = ingestion[i].status
                   \/ /\ ingestion[i].status = "pending"
                      /\ ingestion'[i].status = "processing"
           /\ runtime'.rows = Due(ingestion) /\ runtime'.jobs = {}
           /\ runtime'.at \in {"outbox", "payload"}
<1>1. /\ DOMAIN ingestion' = DOMAIN ingestion
      /\ \A i \in DOMAIN ingestion :
           /\ ingestion[i].status # "pending" => ingestion'[i] = ingestion[i]
           /\ ingestion[i].status = "pending" =>
                ingestion'[i] = [ingestion[i] EXCEPT !.status = "processing"]
  BY ClaimedTyped DEF ClaimRows, TypeOK
<1>2. \A i \in DOMAIN ingestion : ingestion[i] \in Ingestions
  BY DEF TypeOK
<1>3. \A i \in DOMAIN ingestion :
         /\ [ingestion[i] EXCEPT !.status = "processing"].doc = ingestion[i].doc
         /\ [ingestion[i] EXCEPT !.status = "processing"].status = "processing"
  BY <1>2 DEF Ingestions
<1>4. runtime'.rows = Due(ingestion) /\ runtime'.jobs = {}
      /\ runtime'.at \in {"outbox", "payload"}
  BY AtHand, TakeRowTyped DEF ClaimRows
<1>. QED
  BY <1>1, <1>3, <1>4

LEMMA ClaimRowsMovesRows == ASSUME TypeOK, InHand, ClaimRows PROVE RowsMove
BY ClaimRowsDoes DEF RowsMove, RowMoves, Due

LEMMA CompleteRowMovesRows == ASSUME TypeOK, InHand, CompleteRow PROVE RowsMove
<1>1. row \in DOMAIN ingestion /\ runtime.at = "complete" /\ runtime.at \in RowSteps
  BY AtHand DEF CompleteRow, RowSteps
<1>2. /\ runtime'.at = "report" /\ runtime'.now = runtime.now
      /\ runtime'.rows = runtime.rows
  BY ToTyped DEF CompleteRow, TypeOK, Steps, RowSteps
<1>3. /\ DOMAIN ingestion' = DOMAIN ingestion
      /\ ingestion'[row].doc = ingestion[row].doc
      /\ ingestion'[row].status \in {"completed", "deleted"}
      /\ \A i \in DOMAIN ingestion : i # row => ingestion'[i] = ingestion[i]
  BY <1>1, CompleteRowTyped DEF Marked
<1>4. \/ ingestion[row].status = "deleted" /\ ingestion' = ingestion
      \/ ingestion[row].status # "deleted" /\ ingestion'[row].status = "completed"
  <2>1. CASE ingestion[row].status = "deleted"
    BY <2>1 DEF CompleteRow
  <2>2. CASE ingestion[row].status # "deleted"
    <3>1. ingestion' = [ingestion EXCEPT ![row].status = "completed"]
      BY <2>2 DEF CompleteRow
    <3>2. ingestion \in Seq(Ingestions) /\ ingestion[row] \in Ingestions
      BY <1>1 DEF TypeOK
    <3>. QED
      BY <1>1, <2>2, <3>1, <3>2 DEF Ingestions
  <2>. QED
    BY <2>1, <2>2
<1>5. RowMoves(row)
  BY <1>1, <1>2, <1>3, <1>4 DEF RowMoves, RowEnds, row
<1>. QED
  BY <1>2, <1>3, <1>5 DEF RowsMove, RowMoves

\* What becomes of a row whose step raises
LEMMA IngestFailsDoes ==
    ASSUME TypeOK, InHand, Tries, IngestFails
    PROVE  /\ row \in DOMAIN ingestion /\ runtime.at \in RowSteps
           /\ DOMAIN ingestion' = DOMAIN ingestion
           /\ ingestion'[row].doc = ingestion[row].doc
           /\ \A i \in DOMAIN ingestion \ {row} : ingestion'[i] = ingestion[i]
           /\ \/ ingestion'[row] = ingestion[row]
              \/ ingestion[row].status # "deleted" /\ ingestion'[row].status = "failed"
              \/ /\ ingestion[row].status # "deleted"
                 /\ ingestion'[row].status = "dead_letter"
                 /\ runtime'.at = "tell" /\ runtime'.now = row
           /\ runtime'.rows \subseteq runtime.rows /\ runtime'.jobs = {}
           /\ runtime'.at \in {"tell", "outbox", "payload"}
<1>1. runtime.at \in RowSteps /\ runtime.at # "tell" /\ RowFails
  BY DEF IngestFails, RowSteps
<1>2. row \in DOMAIN ingestion /\ ingestion[row] \in Ingestions /\ row \in runtime.rows
  BY <1>1, AtHand DEF InHand, row
<1>3. /\ DOMAIN ingestion' = DOMAIN ingestion
      /\ ingestion'[row].doc = ingestion[row].doc
      /\ ingestion'[row].status \in {"failed", "dead_letter", "deleted"}
      /\ \A i \in DOMAIN ingestion \ {row} : ingestion'[i] = ingestion[i]
      /\ runtime'.jobs = {}
      /\ \/ /\ runtime'.at = "tell" /\ runtime'.now = row
            /\ runtime'.rows = runtime.rows
         \/ runtime'.at = "outbox" /\ runtime'.rows = {} /\ runtime.rows \ {row} = {}
         \/ /\ runtime'.at = "payload" /\ runtime'.now \in runtime'.rows
            /\ runtime'.rows = runtime.rows \ {row}
  BY <1>1, RowFailsTyped
<1>. DEFINE after == IF ingestion[row].status = "deleted" THEN ingestion[row]
                     ELSE Failed(ingestion[row])
<1>4. ingestion'[row] = after
  BY <1>1, <1>2 DEF RowFails, TypeOK
<1>5. CASE ingestion[row].status = "deleted"
  BY <1>1, <1>2, <1>3, <1>4, <1>5
<1>6. CASE ingestion[row].status # "deleted"
  <2>1. ingestion'[row] = Failed(ingestion[row])
    BY <1>4, <1>6
  <2>2. ingestion'[row].status = IF ingestion[row].attempts + 1 >= MaxAttempts
                                 THEN "dead_letter" ELSE "failed"
    BY <1>2, <2>1 DEF Failed, Ingestions
  <2>3. ingestion[row].attempts + 1 >= MaxAttempts => To("tell")
    BY <1>1 DEF RowFails
  <2>4. To("tell") => runtime'.at = "tell" /\ runtime'.now = row
    BY ToTyped DEF TypeOK, Steps, RowSteps, row
  <2>. QED
    BY <1>1, <1>2, <1>3, <1>6, <2>2, <2>3, <2>4
<1>. QED
  BY <1>5, <1>6

LEMMA IngestFailsMovesRows == ASSUME TypeOK, InHand, Tries, IngestFails PROVE RowsMove
<1>1. RowMoves(row)
  BY IngestFailsDoes DEF RowMoves, RowEnds
<1>. QED
  BY <1>1, IngestFailsDoes DEF RowsMove, RowMoves

LEMMA NextMovesRows == ASSUME Inv, [Next]_vars PROVE RowsMove
<1>0. TypeOK /\ InHand /\ Tries /\ Hold
  BY DEF Inv, Hold
<1>1. CASE UNCHANGED vars
  BY <1>1, RowsStay DEF vars
<1>2. ASSUME NEW d \in Docs, Upload(d) \/ DeleteSource(d) \/ EnqueueDeletes(d) \/ Rebuild(d)
                             \/ ExtractionDue(d)
      PROVE  RowsMove
  BY <1>2, RowsStay DEF Upload, DeleteSource, EnqueueDeletes, Rebuild, ExtractionDue
<1>3. ASSUME NEW w \in Workers, CrashWorker(w) PROVE RowsMove
  BY <1>3, RowsStay DEF CrashWorker, Stored
<1>4. ASSUME NEW w \in Workers, NEW d \in Docs,
             ClaimExtraction(w, d) \/ ExtractFails(w, d) \/ Release(w, d)
      PROVE  RowsMove
  BY <1>4, RowsStay DEF ClaimExtraction, ExtractFails, Release
<1>5. CASE Reload \/ CrashCore \/ AnnounceFails \/ \E i \in DOMAIN jobs : JobDue(i)
  <2>1. ingestion' = ingestion /\ runtime' \in {runtime, Resting}
    BY <1>5 DEF Reload, CrashCore, AnnounceFails, JobDue, Stored
  <2>. QED
    BY <2>1, RowsStay DEF Resting
<1>6. CASE \/ Payload \/ UpsertSource \/ UpsertItem \/ EnqueueUpserts \/ ReadItem
           \/ Embed \/ Write \/ Mark
  <2>1. ingestion' = ingestion
    BY <1>6 DEF Payload, UpsertSource, UpsertItem, EnqueueUpserts, ReadItem, Embed, Write,
       Mark, Stored
  <2>2. runtime'.rows = runtime.rows
    BY <1>0, <1>6 DEF Payload, UpsertSource, UpsertItem, EnqueueUpserts, ReadItem, Embed,
       Write, Mark, To, TypeOK, Hands
  <2>. QED
    BY <2>1, <2>2, RowsStay
<1>7. CASE Report \/ Tell
  <2>1. ingestion' = ingestion /\ NextRow
    BY <1>7 DEF Report, Tell, Stored
  <2>2. runtime'.rows = runtime.rows \ {runtime.now}
    BY <1>0, <2>1, AtHand, TakeRowTyped DEF NextRow
  <2>. QED
    BY <2>1, <2>2, RowsStay
<1>8. CASE ClaimJobs \/ CompleteJob \/ Purge \/ ProjectFails
  <2>1. ingestion' = ingestion
    BY <1>8 DEF ClaimJobs, CompleteJob, Purge, ProjectFails
  <2>2. runtime.rows = {}
    BY <1>0, <1>8 DEF InHand, RowSteps, ClaimJobs, CompleteJob, Purge, ProjectFails
  <2>3. CASE ClaimJobs
    BY <1>0, <2>1, <2>3, AtHand, TakeJobTyped, RowsStay DEF ClaimJobs
  <2>4. CASE CompleteJob \/ Purge \/ ProjectFails
    <3>1. To("purge") \/ NextJob
      BY <2>4 DEF CompleteJob, Purge, ProjectFails
    <3>2. runtime'.rows = {}
      BY <1>0, <2>2, <3>1, NextJobTyped, ToTyped DEF TypeOK, Steps, JobSteps
    <3>. QED
      BY <2>1, <3>2, RowsStay
  <2>. QED
    BY <1>8, <2>3, <2>4
<1>9. CASE Next
  BY <1>0, <1>2, <1>3, <1>4, <1>5, <1>6, <1>7, <1>8, <1>9, DeleteByMetadataMovesRows,
     ExtractMovesRows, IngestionDueMovesRows, ClaimRowsMovesRows, CompleteRowMovesRows,
     IngestFailsMovesRows DEF Next, RuntimeStep, WorkerStep
<1>. QED
  BY <1>1, <1>9

-----------------------------------------------------------------------------
(* The task of a document that is being processed *)

\* What the task of document d waits for: its extraction, an ingestion request,
\* or to be told; or d was deleted, or could not be extracted.
Underway(d) ==
    \/ extraction[d].status \in Open \cup {"cancelled", "dead_letter"}
    \/ \E i \in RowsOf(d) : \/ ingestion[i].status \in Open \cup {"cancelled"}
                            \/ i = row /\ runtime.at \in {"report", "tell"}

Tracked == \A d \in Docs :
    task[d] = "running" /\ faults["crash"] = 0 /\ faults["progress"] = 0 => Underway(d)

\* No fault is forgotten.
LEMMA FaultsStay ==
    ASSUME Inv, [Next]_vars
    PROVE  /\ \A h \in Kinds : faults'[h] = 0 => faults[h] = 0
           /\ \A h \in Kinds : Met(h) => faults'[h] # 0
           /\ TypeOK
<1>0. TypeOK /\ (\A h \in Kinds : faults[h] \in Nat)
  BY DEF Inv, TypeOK
<1>1. \A h \in Kinds : Met(h) => /\ faults'[h] = faults[h] + 1
                                 /\ \A k \in Kinds : faults'[k] >= faults[k] /\ faults'[k] \in Nat
  BY <1>0, MetTyped
<1>2. {"extract", "ingest", "project", "elsewhere", "progress", "reload", "crash"} \subseteq Kinds
  BY DEF Kinds
<1>3. UNCHANGED faults \/ \E h \in Kinds : Met(h)
  <2>1. CASE RuntimeStep
    BY <1>2, <2>1 DEF RuntimeStep, ClaimRows, Payload, UpsertSource, UpsertItem,
       EnqueueUpserts, CompleteRow, Report, IngestFails, Tell, AnnounceFails, ClaimJobs,
       ReadItem, Embed, Write, Mark, CompleteJob, Purge, ProjectFails
  <2>2. CASE Next /\ ~RuntimeStep
    BY <1>2, <2>2 DEF Next, Upload, DeleteSource, EnqueueDeletes, Rebuild,
       DeleteByMetadata, ExtractionDue, WorkerStep, ClaimExtraction, Extract,
       ExtractFails, Release, CrashWorker, IngestionDue, JobDue, Reload, CrashCore
  <2>3. CASE UNCHANGED vars
    BY <2>3 DEF vars
  <2>. QED
    BY <2>1, <2>2, <2>3
<1>4. CASE UNCHANGED faults /\ \A h \in Kinds : ~Met(h)
  BY <1>0, <1>4
<1>5. CASE \E h \in Kinds : Met(h)
  <2>1. \A k \in Kinds : faults'[k] >= faults[k] /\ faults'[k] \in Nat
    BY <1>1, <1>5
  <2>. QED
    BY <1>0, <1>1, <2>1
<1>. QED
  BY <1>0, <1>3, <1>4, <1>5

\* What a step does to the extraction of a document
ExtractionMoves(d) ==
    \/ extraction'[d].status = extraction[d].status
    \/ extraction'[d].status \in Open \cup {"cancelled", "dead_letter"}
    \/ \E w \in Workers : Extract(w, d)

LEMMA WorkerMovesExtraction ==
    ASSUME TypeOK, Hold, NEW w \in Workers, NEW e \in Docs,
           ClaimExtraction(w, e) \/ ExtractFails(w, e) \/ Release(w, e)
    PROVE  /\ \A d \in Docs \ {e} : extraction'[d] = extraction[d]
           /\ \/ extraction'[e].status = extraction[e].status
              \/ extraction'[e].status \in {"processing", "failed", "dead_letter"}
<1>1. extraction[e] \in Extractions /\ extraction \in [Docs -> Extractions]
  BY DEF TypeOK
<1>2. CASE ClaimExtraction(w, e)
  BY <1>2, ExtractionSet DEF ClaimExtraction, Open
<1>3. CASE ExtractFails(w, e)
  <2>1. extraction[e].attempts < MaxAttempts
    BY <1>3 DEF ExtractFails, Hold, Holders
  <2>2. Failed(extraction[e]).status \in {"failed", "dead_letter"}
    BY <1>1, <2>1, FailedExtraction
  <2>3. extraction' = [extraction EXCEPT ![e] = Failed(extraction[e])]
    BY <1>3 DEF ExtractFails
  <2>. QED
    BY <1>1, <2>2, <2>3
<1>4. CASE Release(w, e)
  <2>. DEFINE s == IF extraction[e].status = "processing" THEN "failed"
                   ELSE extraction[e].status
  <2>1. extraction' = [extraction EXCEPT ![e].status = s]
    BY <1>1, <1>4 DEF Release
  <2>. QED
    BY <1>1, <2>1 DEF Extractions
<1>. QED
  BY <1>2, <1>3, <1>4

LEMMA ExtractionsMove ==
    ASSUME Inv, [Next]_vars PROVE \A d \in Docs : ExtractionMoves(d)
<1>0. TypeOK /\ Hold
  BY DEF Inv, Hold
<1>1. CASE UNCHANGED extraction
  BY <1>1 DEF ExtractionMoves
<1>2. ASSUME NEW e \in Docs, Upload(e) \/ ExtractionDue(e)
      PROVE  \A d \in Docs : ExtractionMoves(d)
  <2>1. extraction' = [extraction EXCEPT ![e].status = "pending"]
    BY <1>2 DEF Upload, ExtractionDue
  <2>2. extraction'[e].status = "pending" /\ "pending" \in Open
        /\ \A d \in Docs \ {e} : extraction'[d] = extraction[d]
    BY <1>0, <2>1, ExtractionSet DEF Open
  <2>. QED
    BY <2>2 DEF ExtractionMoves
<1>3. ASSUME NEW e \in Docs, NEW force \in BOOLEAN, DeleteByMetadata(e, force)
      PROVE  \A d \in Docs : ExtractionMoves(d)
  <2>1. /\ extraction'[e].status = "cancelled"
        /\ \A d \in Docs \ {e} : extraction'[d] = extraction[d]
    BY <1>0, <1>3, DeleteByMetadataDoes
  <2>. QED
    BY <2>1 DEF ExtractionMoves
<1>4. ASSUME NEW w \in Workers, NEW e \in Docs,
             ClaimExtraction(w, e) \/ ExtractFails(w, e) \/ Release(w, e)
      PROVE  \A d \in Docs : ExtractionMoves(d)
  BY <1>0, <1>4, WorkerMovesExtraction DEF ExtractionMoves, Open
<1>5. ASSUME NEW w \in Workers, NEW e \in Docs, Extract(w, e)
      PROVE  \A d \in Docs : ExtractionMoves(d)
  BY <1>0, <1>5, ExtractAdds DEF ExtractionMoves
<1>6. RuntimeStep => UNCHANGED extraction
  BY DEF RuntimeStep, ClaimRows, Payload, UpsertSource, UpsertItem, EnqueueUpserts,
     CompleteRow, Report, IngestFails, RowFails, Tell, AnnounceFails, ClaimJobs, ReadItem,
     Embed, Write, Mark, CompleteJob, Purge, ProjectFails, Stored
<1>7. CASE Next
  BY <1>1, <1>2, <1>3, <1>4, <1>5, <1>6, <1>7 DEF Next, WorkerStep, DeleteSource,
     EnqueueDeletes, Rebuild, CrashWorker, IngestionDue, JobDue, Reload, CrashCore, Stored
<1>. QED
  BY <1>1, <1>7 DEF vars

\* Only an upload sets a task running; a report, or its failure, ends it.
LEMMA TasksMove ==
    ASSUME Inv, [Next]_vars
    PROVE  /\ \A d \in Docs : task'[d] = "running" =>
                 \/ task[d] = "running"
                 \/ extraction'[d].status = "pending"
           /\ runtime.at \in {"report", "tell"} =>
                 \/ runtime' = runtime
                 \/ task'[rowDoc] # "running"
                 \/ faults'["progress"] # 0 \/ faults'["crash"] # 0
<1>0. /\ TypeOK /\ Hold /\ InHand
      /\ task \in [Docs -> {"none", "running", "completed", "failed"}]
  BY DEF Inv, Hold, TypeOK
<1>1. "progress" \in Kinds /\ "crash" \in Kinds
  BY DEF Kinds
<1>2. ASSUME NEW e \in Docs, Upload(e)
      PROVE  /\ \A d \in Docs : task'[d] = "running" =>
                   task[d] = "running" \/ extraction'[d].status = "pending"
             /\ runtime' = runtime
  <2>1. extraction'[e].status = "pending"
    BY <1>0, <1>2, ExtractionSet DEF Upload, Open
  <2>. QED
    BY <1>0, <1>2, <2>1 DEF Upload
<1>3. CASE Report \/ Tell
  <2>1. rowDoc \in Docs
    BY <1>0, <1>3, AtHand DEF Report, Tell, RowSteps
  <2>. QED
    BY <1>0, <1>3, <2>1 DEF Report, Tell
<1>4. CASE RuntimeStep /\ ~Report /\ ~Tell
  <2>1. UNCHANGED task
    BY <1>4 DEF RuntimeStep, ClaimRows, Payload, UpsertSource, UpsertItem, EnqueueUpserts,
       CompleteRow, IngestFails, RowFails, AnnounceFails, ClaimJobs, ReadItem, Embed,
       Write, Mark, CompleteJob, Purge, ProjectFails, Stored
  <2>2. runtime.at \in {"report", "tell"} => Met("progress")
    BY <1>4 DEF RuntimeStep, ClaimRows, Payload, UpsertSource, UpsertItem, EnqueueUpserts,
       CompleteRow, IngestFails, AnnounceFails, ClaimJobs, ReadItem, Embed,
       Write, Mark, CompleteJob, Purge, ProjectFails
  <2>. QED
    BY <1>1, <2>1, <2>2, FaultsStay
<1>5. CASE Reload \/ CrashCore
  <2>1. UNCHANGED task /\ (Reload => runtime.at \in {"write", "mark"})
        /\ (CrashCore => Met("crash"))
    BY <1>5 DEF Reload, CrashCore
  <2>. QED
    BY <1>1, <1>5, <2>1, FaultsStay
<1>6. CASE Next /\ ~RuntimeStep /\ ~Reload /\ ~CrashCore /\ \A e \in Docs : ~Upload(e)
  <2>1. UNCHANGED <<task, runtime>>
    BY <1>6 DEF Next, DeleteSource, EnqueueDeletes, Rebuild, DeleteByMetadata,
       ExtractionDue, WorkerStep, ClaimExtraction, Extract, ExtractFails, Release,
       CrashWorker, IngestionDue, JobDue
  <2>. QED
    BY <2>1
<1>. QED
  BY <1>2, <1>3, <1>4, <1>5, <1>6 DEF Next, vars

LEMMA TrackedNext == ASSUME Inv, Tracked, [Next]_vars PROVE Tracked'
<1>. SUFFICES ASSUME NEW d \in Docs, task'[d] = "running", faults'["crash"] = 0,
                     faults'["progress"] = 0
              PROVE  Underway(d)'
  BY DEF Tracked
<1>0. TypeOK /\ InHand /\ RowsMove /\ ExtractionMoves(d)
  BY NextMovesRows, ExtractionsMove DEF Inv
<1>1. CASE extraction'[d].status \in Open \cup {"cancelled", "dead_letter"}
  BY <1>1 DEF Underway
<1>2. ASSUME NEW w \in Workers, Extract(w, d) PROVE Underway(d)'
  <2>1. /\ Len(ingestion) + 1 \in DOMAIN ingestion'
        /\ ingestion'[Len(ingestion) + 1].doc = d
        /\ ingestion'[Len(ingestion) + 1].status = "pending"
    BY <1>0, <1>2, ExtractAdds
  <2>. QED
    BY <2>1 DEF Underway, RowsOf, Open
<1>3. CASE extraction'[d].status = extraction[d].status /\ extraction'[d].status
              \notin Open \cup {"cancelled", "dead_letter"}
  <2>1. Underway(d)
    BY <1>3, TasksMove, FaultsStay DEF Tracked, Open, Kinds
  <2>2. PICK i \in RowsOf(d) : \/ ingestion[i].status \in Open \cup {"cancelled"}
                               \/ i = row /\ runtime.at \in {"report", "tell"}
    BY <1>3, <2>1 DEF Underway
  <2>3. i \in RowsOf(d)' /\ RowMoves(i) /\ i \in DOMAIN ingestion /\ ingestion[i].doc = d
    BY <1>0, <2>2 DEF RowsMove, RowMoves, RowsOf
  <2>4. ingestion'[i].status # "deleted" \/ ingestion[i].status = "deleted"
    BY <1>3, <2>3 DEF RowMoves, RowEnds
  <2>5. CASE ingestion[i].status \in Open \cup {"cancelled"}
    <3>1. \/ ingestion'[i].status \in Open \cup {"cancelled"}
          \/ i = runtime'.now /\ runtime'.at \in {"report", "tell"}
      BY <2>3, <2>4, <2>5 DEF RowMoves, RowEnds, Open
    <3>. QED
      BY <2>3, <3>1 DEF Underway, row
  <2>6. CASE i = row /\ runtime.at \in {"report", "tell"}
    <3>1. rowDoc = d
      BY <2>3, <2>6 DEF rowDoc
    <3>2. runtime' = runtime
      BY <2>6, <3>1, TasksMove
    <3>. QED
      BY <2>3, <2>6, <3>2 DEF Underway, row
  <2>. QED
    BY <2>2, <2>5, <2>6
<1>. QED
  BY <1>0, <1>1, <1>2, <1>3 DEF ExtractionMoves

\* While nothing is lost, a document that is done, was extracted and has no
\* cancelled request has told its task.
LEMMA TrackedEnds == ASSUME Inv, Tracked PROVE TaskEnds
<1>. SUFFICES ASSUME NEW d \in Docs, Done(d), faults["progress"] = 0,
                     extraction[d].status \notin {"none", "cancelled", "dead_letter"},
                     \A i \in DOMAIN ingestion : ingestion[i].status # "cancelled",
                     task[d] = "running"
              PROVE  FALSE
  BY DEF TaskEnds
<1>1. /\ ~Busy(d) /\ ~LeftBehind(d) /\ Underway(d) /\ InHand
  BY DEF Done, Tracked, Inv
<1>2. CASE extraction[d].status \in Open \cup {"cancelled", "dead_letter"}
  BY <1>1, <1>2 DEF Busy, LeftBehind, Open, Waiting
<1>3. ASSUME NEW i \in RowsOf(d), \/ ingestion[i].status \in Open \cup {"cancelled"}
                                  \/ i = row /\ runtime.at \in {"report", "tell"}
      PROVE  FALSE
  <2>1. i \in DOMAIN ingestion /\ ingestion[i].doc = d
    BY DEF RowsOf
  <2>2. ingestion[i].status \notin Waiting /\ i \notin runtime.rows
        /\ ingestion[i].status # "processing"
    BY <1>1, <2>1 DEF Busy, LeftBehind
  <2>3. i = row /\ runtime.at \in {"report", "tell"}
    BY <1>3, <2>1, <2>2 DEF Open, Waiting
  <2>. QED
    BY <1>1, <2>2, <2>3 DEF InHand, RowSteps, row
<1>. QED
  BY <1>1, <1>2, <1>3 DEF Underway

-----------------------------------------------------------------------------
(* What a step does to the outbox *)

JobsOf(d) == {i \in DOMAIN jobs : jobs[i].doc = d}

SameJob(a, b) == SameKey(a, b) /\ a.force = b.force

\* A batch of jobs is claimed and done; its rows are processing until then.
InBatch == \A i \in runtime.jobs : \/ jobs[i].status = "processing"
                                   \/ i = runtime.now /\ runtime.at = "purge"

JobMoves(i) ==
    /\ i \in DOMAIN jobs' /\ SameJob(jobs'[i], jobs[i])
    /\ \/ jobs'[i].status = jobs[i].status
       \/ jobs[i].status = "pending" /\ jobs'[i].status = "processing"
       \/ jobs[i].status = "failed" /\ jobs'[i].status = "pending"
       \/ /\ i = runtime.now /\ jobs[i].status = "processing" /\ ProjectFails
          /\ jobs'[i].status \in {"failed", "dead_letter"}
       \/ /\ i = runtime.now /\ jobs[i].status = "processing" /\ CompleteJob
          /\ jobs'[i].status = "completed"
       \/ /\ Purge /\ Purgeable(jobs[i].doc) /\ ~item'[jobs[i].doc].there
          /\ jobs'[i].status = "purged"

\* The jobs that are added all belong to one version of a document, which gets
\* those it lacks.
Adds(d, does, version, suffix, force) ==
    /\ DOMAIN jobs \subseteq DOMAIN jobs'
    /\ \A i \in DOMAIN jobs : jobs'[i] = jobs[i]
    /\ \A i \in DOMAIN jobs' \ DOMAIN jobs :
          /\ jobs'[i].status = "pending" /\ jobs'[i].force = force
          /\ \E p \in Projections : SameKey(jobs'[i], Job(d, does, p, version, suffix, force))
    /\ \A p \in {"vector", "kg"} :
          \/ Known(jobs, Job(d, does, p, version, suffix, force))
          \/ \E i \in DOMAIN jobs' : /\ jobs'[i].status = "pending"
                                     /\ SameKey(jobs'[i], Job(d, does, p, version, suffix, force))

DeletesAdded(d) == /\ EnqueueDeletes(d)
                   /\ Adds(d, "delete", deletion[d].version, 0, deletion[d].force)
UpsertsAdded == /\ EnqueueUpserts /\ runtime.at = "enqueue"
                /\ Adds(rowDoc, "upsert", runtime.version, 0, FALSE)
RebuildAdded(d) == /\ Rebuild(d)
                   /\ Adds(d, "upsert", item[d].version, asked[d] + 1, FALSE)

JobsMove ==
    /\ \A i \in DOMAIN jobs : JobMoves(i)
    /\ \/ DOMAIN jobs' = DOMAIN jobs
       \/ \E d \in Docs : DeletesAdded(d) \/ RebuildAdded(d)
       \/ UpsertsAdded

LEMMA SameJobs ==
    ASSUME TypeOK, jobs' = jobs PROVE JobsMove
BY DEF JobsMove, JobMoves, SameJob, SameKey

LEMMA AddsMove ==
    ASSUME NEW d, NEW does, NEW v, NEW s, NEW f, Adds(d, does, v, s, f)
    PROVE  \A i \in DOMAIN jobs : JobMoves(i)
BY DEF Adds, JobMoves, SameJob, SameKey

\* One job is added unless it is known.
LEMMA WithDoes ==
    ASSUME NEW rows \in Seq(Jobs), NEW j \in Jobs
    PROVE  LET new == With(rows, j) IN
           /\ new \in Seq(Jobs)
           /\ DOMAIN rows \subseteq DOMAIN new
           /\ \A i \in DOMAIN rows : new[i] = rows[i]
           /\ \A i \in DOMAIN new \ DOMAIN rows : new[i] = j
           /\ Known(rows, j) \/ \E i \in DOMAIN new : i \notin DOMAIN rows /\ new[i] = j
<1>1. CASE Known(rows, j)
  BY <1>1 DEF With
<1>2. CASE ~Known(rows, j)
  <2>1. With(rows, j) = Append(rows, j)
    BY <1>2 DEF With
  <2>2. /\ Append(rows, j) \in Seq(Jobs)
        /\ DOMAIN Append(rows, j) = 1 .. Len(rows) + 1
        /\ DOMAIN rows = 1 .. Len(rows) /\ Len(rows) \in Nat
        /\ Append(rows, j)[Len(rows) + 1] = j
        /\ \A i \in DOMAIN rows : Append(rows, j)[i] = rows[i]
    OBVIOUS
  <2>3. /\ Len(rows) + 1 \in DOMAIN Append(rows, j) /\ Len(rows) + 1 \notin DOMAIN rows
        /\ DOMAIN rows \subseteq DOMAIN Append(rows, j)
        /\ \A i \in DOMAIN Append(rows, j) \ DOMAIN rows : i = Len(rows) + 1
    BY <2>2
  <2>. QED
    BY <2>1, <2>2, <2>3
<1>. QED
  BY <1>1, <1>2

LEMMA EnqueuedAdds ==
    ASSUME TypeOK, NEW d \in Docs, NEW does \in {"upsert", "delete"}, NEW v \in Nat,
           NEW s \in Nat, NEW force \in BOOLEAN, NEW c \in BOOLEAN,
           jobs' = Enqueued(d, does, v, s, force, c)
    PROVE  Adds(d, does, v, s, force)
<1>. DEFINE new(p) == Job(d, does, p, v, s, force)
            one == With(jobs, new("vector"))
            two == With(one, new("kg"))
            three == With(two, new("classification"))
<1>1. \A p \in Projections : new(p) \in Jobs
  BY JobTyped
<1>2. Projections = {"vector", "kg", "classification"}
  BY DEF Projections
<1>3. \A p \in Projections : /\ new(p).doc = d /\ new(p).does = does
                             /\ new(p).projection = p /\ new(p).version = v
                             /\ new(p).suffix = s /\ new(p).force = force
                             /\ new(p).status = "pending"
  BY DEF Job
<1>4. jobs' = IF c THEN three ELSE two
  BY DEF Enqueued
<1>5. jobs \in Seq(Jobs)
  BY DEF TypeOK
<1>. HIDE DEF new
<1>6. /\ one \in Seq(Jobs) /\ DOMAIN jobs \subseteq DOMAIN one
      /\ \A i \in DOMAIN jobs : one[i] = jobs[i]
      /\ \A i \in DOMAIN one \ DOMAIN jobs : one[i] = new("vector")
      /\ \/ Known(jobs, new("vector"))
         \/ \E i \in DOMAIN one : i \notin DOMAIN jobs /\ one[i] = new("vector")
  BY <1>1, <1>2, <1>5, WithDoes
<1>. HIDE DEF one
<1>7. /\ two \in Seq(Jobs) /\ DOMAIN one \subseteq DOMAIN two
      /\ \A i \in DOMAIN one : two[i] = one[i]
      /\ \A i \in DOMAIN two \ DOMAIN one : two[i] = new("kg")
      /\ \/ Known(one, new("kg"))
         \/ \E i \in DOMAIN two : i \notin DOMAIN one /\ two[i] = new("kg")
  BY <1>1, <1>2, <1>6, WithDoes
<1>. HIDE DEF two
<1>8. /\ DOMAIN two \subseteq DOMAIN three
      /\ \A i \in DOMAIN two : three[i] = two[i]
      /\ \A i \in DOMAIN three \ DOMAIN two : three[i] = new("classification")
  BY <1>1, <1>2, <1>7, WithDoes
<1>. HIDE DEF three
<1>9. /\ DOMAIN two \subseteq DOMAIN jobs'
      /\ \A i \in DOMAIN two : jobs'[i] = two[i]
      /\ \A i \in DOMAIN jobs' \ DOMAIN two : jobs'[i] = new("classification")
  BY <1>4, <1>8
<1>10. /\ DOMAIN jobs \subseteq DOMAIN jobs'
       /\ \A i \in DOMAIN jobs : jobs'[i] = jobs[i]
       /\ \A i \in DOMAIN jobs' \ DOMAIN jobs : \E p \in Projections : jobs'[i] = new(p)
  BY <1>2, <1>6, <1>7, <1>9
<1>11. Known(one, new("kg")) => Known(jobs, new("kg"))
  <2>. SUFFICES ASSUME Known(one, new("kg")) PROVE Known(jobs, new("kg"))
    OBVIOUS
  <2>1. PICK i \in DOMAIN one : one[i].status # "purged" /\ SameKey(one[i], new("kg"))
    BY DEF Known
  <2>2. i \in DOMAIN jobs
    BY <1>2, <1>3, <1>6, <2>1 DEF SameKey
  <2>. QED
    BY <1>6, <2>1, <2>2 DEF Known
<1>12. \A p \in {"vector", "kg"} :
          Known(jobs, new(p)) \/ \E i \in DOMAIN jobs' : jobs'[i] = new(p)
  BY <1>6, <1>7, <1>9, <1>11
<1>13. \A p \in Projections : SameKey(new(p), new(p))
  BY DEF SameKey
<1>. QED
  BY <1>2, <1>3, <1>10, <1>12, <1>13 DEF Adds, new

\* A job whose status alone is set
LEMMA StatusSet ==
    ASSUME NEW j \in Jobs, NEW s
    PROVE  SameJob([j EXCEPT !.status = s], j) /\ [j EXCEPT !.status = s].status = s
BY DEF SameJob, SameKey, Jobs

LEMMA EnqueueDeletesAdds ==
    ASSUME TypeOK, NEW d \in Docs, EnqueueDeletes(d) PROVE DeletesAdded(d)
<1>1. deletion[d].version \in Nat /\ deletion[d].force \in BOOLEAN
  BY DEF TypeOK
<1>. QED
  BY <1>1, EnqueuedAdds DEF EnqueueDeletes, DeletesAdded

LEMMA RebuildAdds ==
    ASSUME TypeOK, NEW d \in Docs, Rebuild(d) PROVE RebuildAdded(d)
<1>1. item[d].version \in Nat /\ asked[d] + 1 \in Nat /\ Classifier \in BOOLEAN
  BY KnowledgeAssumption DEF TypeOK, Items
<1>. QED
  BY <1>1, EnqueuedAdds DEF Rebuild, RebuildAdded

LEMMA EnqueueUpsertsAdds ==
    ASSUME TypeOK, InHand, EnqueueUpserts PROVE UpsertsAdded
<1>1. rowDoc \in Docs /\ runtime.version \in Nat /\ Classifier \in BOOLEAN
  BY KnowledgeAssumption, AtHand DEF TypeOK, Hands, EnqueueUpserts, RowSteps
<1>. QED
  BY <1>1, EnqueuedAdds DEF EnqueueUpserts, UpsertsAdded

LEMMA ClaimJobsDoes ==
    ASSUME TypeOK, InHand, ClaimJobs
    PROVE  /\ DOMAIN jobs' = DOMAIN jobs
           /\ \A i \in DOMAIN jobs :
                /\ SameJob(jobs'[i], jobs[i])
                /\ \/ jobs'[i].status = jobs[i].status /\ jobs[i].status # "pending"
                   \/ jobs[i].status = "pending" /\ jobs'[i].status = "processing"
           /\ runtime'.jobs = Due(jobs) /\ runtime'.rows = {}
           /\ runtime'.at \in {"poll", "read"}
<1>1. /\ DOMAIN jobs' = DOMAIN jobs
      /\ \A i \in DOMAIN jobs :
           /\ jobs[i].status # "pending" => jobs'[i] = jobs[i]
           /\ jobs[i].status = "pending" =>
                jobs'[i] = [jobs[i] EXCEPT !.status = "processing"]
  BY ClaimedTyped DEF ClaimJobs, TypeOK
<1>2. \A i \in DOMAIN jobs : jobs[i] \in Jobs
  BY DEF TypeOK
<1>3. runtime'.jobs = Due(jobs) /\ runtime'.rows = {}
      /\ runtime'.at \in {"poll", "read"}
  BY AtHand, TakeJobTyped DEF ClaimJobs
<1>4. ASSUME NEW i \in DOMAIN jobs
      PROVE  /\ SameJob(jobs'[i], jobs[i])
             /\ \/ jobs'[i].status = jobs[i].status /\ jobs[i].status # "pending"
                \/ jobs[i].status = "pending" /\ jobs'[i].status = "processing"
  <2>1. CASE jobs[i].status # "pending"
    BY <1>1, <2>1 DEF SameJob, SameKey
  <2>2. CASE jobs[i].status = "pending"
    <3>1. jobs'[i] = [jobs[i] EXCEPT !.status = "processing"]
      BY <1>1, <2>2
    <3>. QED
      BY <1>2, <2>2, <3>1, StatusSet
  <2>. QED
    BY <2>1, <2>2
<1>. QED
  BY <1>1, <1>3, <1>4

LEMMA JobDueDoes ==
    ASSUME TypeOK, NEW i \in DOMAIN jobs, JobDue(i)
    PROVE  /\ DOMAIN jobs' = DOMAIN jobs
           /\ SameJob(jobs'[i], jobs[i])
           /\ jobs[i].status = "failed" /\ jobs'[i].status = "pending"
           /\ \A k \in DOMAIN jobs \ {i} : jobs'[k] = jobs[k]
<1>. DEFINE after == [jobs[i] EXCEPT !.status = "pending"]
<1>1. jobs[i] \in Jobs
  BY DEF TypeOK
<1>2. after \in Jobs /\ after.status = "pending" /\ SameJob(after, jobs[i])
  BY <1>1, StatusSet DEF Jobs, Open
<1>3. jobs' = [jobs EXCEPT ![i] = after] /\ jobs[i].status = "failed"
  BY DEF JobDue
<1>. HIDE DEF after
<1>. QED
  BY <1>2, <1>3, JobSet

\* The job at hand is processing until it is done.
LEMMA JobAtHand ==
    ASSUME TypeOK, InHand, InBatch, runtime.at \in JobSteps \ {"purge"}
    PROVE  /\ runtime.now \in DOMAIN jobs /\ jobs[runtime.now] \in Jobs
           /\ runtime.now \in runtime.jobs /\ jobs[runtime.now].status = "processing"
BY AtHand DEF InHand, InBatch, job

LEMMA CompleteJobDoes ==
    ASSUME TypeOK, InHand, InBatch, CompleteJob
    PROVE  /\ DOMAIN jobs' = DOMAIN jobs
           /\ SameJob(jobs'[runtime.now], jobs[runtime.now])
           /\ jobs[runtime.now].status = "processing"
           /\ jobs'[runtime.now].status = "completed"
           /\ \A k \in DOMAIN jobs \ {runtime.now} : jobs'[k] = jobs[k]
<1>. DEFINE i == runtime.now
            after == [jobs[i] EXCEPT !.status = "completed"]
<1>1. /\ i \in DOMAIN jobs /\ jobs[i] \in Jobs /\ jobs[i].status = "processing"
  BY JobAtHand DEF CompleteJob, JobSteps
<1>2. after \in Jobs /\ after.status = "completed" /\ SameJob(after, jobs[i])
  BY <1>1, StatusSet DEF Jobs, Settled
<1>3. jobs' = [jobs EXCEPT ![i] = after]
  BY DEF CompleteJob
<1>. HIDE DEF after
<1>. QED
  BY <1>1, <1>2, <1>3, JobSet

LEMMA FailedSame ==
    ASSUME NEW j \in Jobs PROVE SameJob(Failed(j), j)
<1>. DEFINE a == j.attempts + 1
            s == IF j.attempts + 1 >= MaxAttempts THEN "dead_letter" ELSE "failed"
<1>1. Failed(j) = [j EXCEPT !.attempts = a, !.status = s]
  BY DEF Failed
<1>. HIDE DEF a, s
<1>. QED
  BY <1>1 DEF SameJob, SameKey, Jobs

LEMMA ProjectFailsDoes ==
    ASSUME TypeOK, InHand, Tries, InBatch, ProjectFails
    PROVE  /\ DOMAIN jobs' = DOMAIN jobs
           /\ SameJob(jobs'[runtime.now], jobs[runtime.now])
           /\ jobs[runtime.now].status = "processing"
           /\ jobs'[runtime.now].status \in {"failed", "dead_letter"}
           /\ \A k \in DOMAIN jobs \ {runtime.now} : jobs'[k] = jobs[k]
<1>. DEFINE i == runtime.now
            after == Failed(jobs[i])
<1>1. /\ i \in DOMAIN jobs /\ jobs[i] \in Jobs /\ jobs[i].status = "processing"
      /\ i \in runtime.jobs
  BY JobAtHand DEF ProjectFails, JobSteps
<1>2. jobs[i].attempts < MaxAttempts
  BY <1>1 DEF Tries
<1>3. after \in Jobs /\ after.status \in {"failed", "dead_letter"} /\ SameJob(after, jobs[i])
  BY <1>1, <1>2, FailedJob, FailedSame
<1>4. jobs' = [jobs EXCEPT ![i] = after]
  BY DEF ProjectFails
<1>. HIDE DEF after
<1>. QED
  BY <1>1, <1>3, <1>4, JobSet

\* A purge takes an item that may go, with its jobs, and no other.
LEMMA PurgeDoes ==
    ASSUME TypeOK, InHand, Purge
    PROVE  /\ job.doc \in Docs
           /\ \/ ~Purgeable(job.doc) /\ jobs' = jobs /\ item' = item
              \/ /\ Purgeable(job.doc)
                 /\ DOMAIN jobs' = DOMAIN jobs
                 /\ \A i \in DOMAIN jobs :
                      /\ SameJob(jobs'[i], jobs[i])
                      /\ jobs[i].doc = job.doc => jobs'[i].status = "purged"
                      /\ jobs[i].doc # job.doc => jobs'[i] = jobs[i]
                 /\ item'[job.doc] = NoItem
                 /\ \A d \in Docs \ {job.doc} : item'[d] = item[d]
<1>. DEFINE d == job.doc
            after(i) == IF jobs[i].doc = d THEN [jobs[i] EXCEPT !.status = "purged"] ELSE jobs[i]
<1>1. d \in Docs
  BY AtHand DEF Purge, JobSteps
<1>2. CASE ~Purgeable(d)
  BY <1>1, <1>2 DEF Purge
<1>3. CASE Purgeable(d)
  <2>1. item' = [item EXCEPT ![d] = NoItem] /\ jobs' = [i \in DOMAIN jobs |-> after(i)]
    BY <1>3 DEF Purge
  <2>2. \A i \in DOMAIN jobs : jobs[i] \in Jobs
    BY DEF TypeOK
  <2>3. \A j : SameJob(j, j)
    BY DEF SameJob, SameKey
  <2>4. \A i \in DOMAIN jobs :
          /\ SameJob(after(i), jobs[i])
          /\ jobs[i].doc = d => after(i).status = "purged"
          /\ jobs[i].doc # d => after(i) = jobs[i]
    <3>. TAKE i \in DOMAIN jobs
    <3>1. CASE jobs[i].doc = d
      BY <2>2, <3>1, StatusSet
    <3>2. CASE jobs[i].doc # d
      BY <2>3, <3>2
    <3>. QED
      BY <3>1, <3>2
  <2>. HIDE DEF after
  <2>5. DOMAIN jobs' = DOMAIN jobs /\ \A i \in DOMAIN jobs : jobs'[i] = after(i)
    BY <2>1
  <2>6. item'[d] = NoItem /\ \A e \in Docs \ {d} : item'[e] = item[e]
    BY <1>1, <2>1 DEF TypeOK
  <2>. HIDE DEF d
  <2>7. \A i \in DOMAIN jobs : /\ SameJob(jobs'[i], jobs[i])
                               /\ jobs[i].doc = d => jobs'[i].status = "purged"
                               /\ jobs[i].doc # d => jobs'[i] = jobs[i]
    BY <2>4, <2>5
  <2>. QED
    BY <1>1, <1>3, <2>5, <2>6, <2>7 DEF d
<1>. QED
  BY <1>2, <1>3

LEMMA NextMovesJobs == ASSUME Inv, InBatch, [Next]_vars PROVE JobsMove
<1>0. TypeOK /\ InHand /\ Tries
  BY DEF Inv
<1>1. \A j : SameJob(j, j)
  BY DEF SameJob, SameKey
<1>2. CASE jobs' = jobs
  BY <1>0, <1>2, SameJobs
<1>3. ASSUME NEW d \in Docs, EnqueueDeletes(d) \/ Rebuild(d) PROVE JobsMove
  BY <1>0, <1>3, EnqueueDeletesAdds, RebuildAdds, AddsMove
     DEF JobsMove, DeletesAdded, RebuildAdded
<1>4. CASE EnqueueUpserts
  BY <1>0, <1>4, EnqueueUpsertsAdds, AddsMove DEF JobsMove, UpsertsAdded
<1>5. CASE ClaimJobs
  BY <1>0, <1>5, ClaimJobsDoes DEF JobsMove, JobMoves
<1>6. ASSUME NEW i \in DOMAIN jobs, JobDue(i) PROVE JobsMove
  BY <1>0, <1>1, <1>6, JobDueDoes DEF JobsMove, JobMoves
<1>7. CASE CompleteJob
  BY <1>0, <1>1, <1>7, CompleteJobDoes DEF JobsMove, JobMoves
<1>8. CASE ProjectFails
  BY <1>0, <1>1, <1>8, ProjectFailsDoes DEF JobsMove, JobMoves
<1>9. CASE Purge
  <2>1. CASE jobs' = jobs
    BY <1>2, <2>1
  <2>2. CASE jobs' # jobs
    <3>1. /\ DOMAIN jobs' = DOMAIN jobs /\ Purgeable(job.doc) /\ ~item'[job.doc].there
          /\ \A i \in DOMAIN jobs :
               /\ SameJob(jobs'[i], jobs[i])
               /\ jobs[i].doc = job.doc => jobs'[i].status = "purged"
               /\ jobs[i].doc # job.doc => jobs'[i] = jobs[i]
      BY <1>0, <1>9, <2>2, PurgeDoes DEF NoItem
    <3>. HIDE DEF job
    <3>2. \A i \in DOMAIN jobs : JobMoves(i)
      BY <1>9, <3>1 DEF JobMoves
    <3>. QED
      BY <3>1, <3>2 DEF JobsMove
  <2>. QED
    BY <2>1, <2>2
<1>10. RuntimeStep => \/ jobs' = jobs \/ EnqueueUpserts \/ ClaimJobs \/ CompleteJob
                      \/ ProjectFails \/ Purge
  BY DEF RuntimeStep, ClaimRows, Payload, UpsertSource, UpsertItem, CompleteRow, Report,
     IngestFails, RowFails, Tell, AnnounceFails, ReadItem, Embed, Write, Mark, Stored
<1>11. CASE Next /\ ~RuntimeStep
  BY <1>2, <1>3, <1>6, <1>11 DEF Next, Upload, DeleteSource, DeleteByMetadata,
     ExtractionDue, WorkerStep, ClaimExtraction, Extract, ExtractFails, Release,
     CrashWorker, IngestionDue, Reload, CrashCore, Stored
<1>. QED
  BY <1>2, <1>4, <1>5, <1>7, <1>8, <1>9, <1>10, <1>11 DEF vars

-----------------------------------------------------------------------------
(* What a step does to an item, and to a deletion that is under way *)

\* Document d is deleted: its jobs are to be enqueued, and a forced deletion
\* leaves none of its rows.
Deletes(d) ==
    /\ item[d].there /\ item'[d].there /\ ~item'[d].live
    /\ item'[d].version = item[d].version + 1
    /\ deletion'[d].open /\ deletion'[d].version = item'[d].version
    /\ UNCHANGED <<jobs, runtime, index>>
    /\ deletion'[d].force => \A i \in RowsOf(d)' : ingestion'[i].status = "deleted"

ItemMoves(d) ==
    \/ item'[d] = item[d]
    \/ Deletes(d)
    \/ /\ UpsertItem /\ d = rowDoc
       /\ item'[d].there /\ item'[d].live /\ item'[d].version = item[d].version + 1
       /\ runtime'.at = "enqueue" /\ runtime'.now = runtime.now
       /\ runtime'.rows = runtime.rows /\ runtime'.version = item'[d].version
       /\ UNCHANGED <<ingestion, jobs, deletion>>
    \/ /\ Embed \/ Mark
       /\ d = job.doc /\ item'[d].there = item[d].there /\ item'[d].live = item[d].live
       /\ item'[d].version = item[d].version
       /\ UNCHANGED <<ingestion, jobs, deletion>>
    \/ Purge /\ d = job.doc /\ Purgeable(d) /\ ~item'[d].there

DeletionMoves(d) ==
    \/ deletion'[d] = deletion[d]
    \/ Deletes(d)
    \/ ~deletion'[d].open /\ (EnqueueDeletes(d) \/ faults'["crash"] # 0)

\* An item that is deleted gets a new version, and a deletion of that version.
LEMMA DeletedDoes ==
    ASSUME TypeOK, NEW d \in Docs, NEW force \in BOOLEAN, item[d].there,
           item' = [item EXCEPT ![d] = Deleted(@)],
           deletion' = [deletion EXCEPT ![d] =
               [open |-> TRUE, force |-> force, version |-> item[d].version + 1]]
    PROVE  /\ item'[d].there /\ ~item'[d].live
           /\ item'[d].version = item[d].version + 1
           /\ deletion'[d].open /\ deletion'[d].version = item[d].version + 1
           /\ deletion'[d].force = force
           /\ \A e \in Docs \ {d} : item'[e] = item[e] /\ deletion'[e] = deletion[e]
<1>1. item[d] \in Items /\ item \in [Docs -> Items]
  BY DEF TypeOK
<1>2. /\ Deleted(item[d]).there = item[d].there /\ ~Deleted(item[d]).live
      /\ Deleted(item[d]).version = item[d].version + 1
  BY <1>1 DEF Deleted, Items
<1>3. item'[d] = Deleted(item[d]) /\ \A e \in Docs \ {d} : item'[e] = item[e]
  BY <1>1
<1>4. /\ deletion'[d] = [open |-> TRUE, force |-> force, version |-> item[d].version + 1]
      /\ \A e \in Docs \ {d} : deletion'[e] = deletion[e]
  BY DEF TypeOK
<1>5. /\ deletion'[d].open /\ deletion'[d].version = item[d].version + 1
      /\ deletion'[d].force = force
  BY <1>4
<1>6. /\ item'[d].there /\ ~item'[d].live /\ item'[d].version = item[d].version + 1
  BY <1>2, <1>3
<1>. QED
  BY <1>3, <1>4, <1>5, <1>6

LEMMA DeleteSourceMoves ==
    ASSUME TypeOK, NEW e \in Docs, DeleteSource(e)
    PROVE  \A d \in Docs : ItemMoves(d) /\ DeletionMoves(d)
<1>1. UNCHANGED <<jobs, runtime, index>>
  BY DEF DeleteSource
<1>2. CASE item[e].there
  <2>1. /\ item' = [item EXCEPT ![e] = Deleted(@)]
        /\ deletion' = [deletion EXCEPT ![e] =
               [open |-> TRUE, force |-> FALSE, version |-> item[e].version + 1]]
    BY <1>2 DEF DeleteSource
  <2>2. FALSE \in BOOLEAN
    OBVIOUS
  <2>3. /\ item'[e].there /\ ~item'[e].live
        /\ item'[e].version = item[e].version + 1
        /\ deletion'[e].open /\ deletion'[e].version = item[e].version + 1
        /\ deletion'[e].force = FALSE
        /\ \A d \in Docs \ {e} : item'[d] = item[d] /\ deletion'[d] = deletion[d]
    BY <1>2, <2>1, <2>2, DeletedDoes
  <2>. QED
    BY <1>1, <1>2, <2>3 DEF ItemMoves, DeletionMoves, Deletes
<1>3. CASE ~item[e].there
  BY <1>3 DEF DeleteSource, ItemMoves, DeletionMoves
<1>. QED
  BY <1>2, <1>3

LEMMA DeleteByMetadataMoves ==
    ASSUME TypeOK, Gone, NEW e \in Docs, NEW force \in BOOLEAN, DeleteByMetadata(e, force)
    PROVE  \A d \in Docs : ItemMoves(d) /\ DeletionMoves(d)
<1>1. UNCHANGED <<jobs, runtime, index>>
  BY DEF DeleteByMetadata
<1>2. CASE source[e] = "active" /\ item[e].live
  <2>1. /\ item' = [item EXCEPT ![e] = Deleted(@)]
        /\ deletion' = [deletion EXCEPT ![e] =
               [open |-> TRUE, force |-> force, version |-> item[e].version + 1]]
    BY <1>2 DEF DeleteByMetadata
  <2>2. item[e].there
    BY <1>2 DEF Gone
  <2>3. /\ item'[e].there /\ ~item'[e].live
        /\ item'[e].version = item[e].version + 1
        /\ deletion'[e].open /\ deletion'[e].version = item[e].version + 1
        /\ deletion'[e].force = force
        /\ \A d \in Docs \ {e} : item'[d] = item[d] /\ deletion'[d] = deletion[d]
    BY <2>1, <2>2, DeletedDoes
  <2>4. force => \A i \in RowsOf(e)' : ingestion'[i].status = "deleted"
    <3>1. /\ DOMAIN ingestion' = DOMAIN ingestion
          /\ \A i \in DOMAIN ingestion :
               /\ ingestion'[i].doc = ingestion[i].doc
               /\ ingestion[i].doc = e /\ force => ingestion'[i].status = "deleted"
      BY DeleteByMetadataDoes
    <3>. QED
      BY <3>1 DEF RowsOf
  <2>. QED
    BY <1>1, <2>2, <2>3, <2>4 DEF ItemMoves, DeletionMoves, Deletes
<1>3. CASE ~(source[e] = "active" /\ item[e].live)
  BY <1>3 DEF DeleteByMetadata, ItemMoves, DeletionMoves
<1>. QED
  BY <1>2, <1>3

LEMMA EnqueueDeletesMoves ==
    ASSUME TypeOK, NEW e \in Docs, EnqueueDeletes(e)
    PROVE  \A d \in Docs : ItemMoves(d) /\ DeletionMoves(d)
<1>1. item' = item /\ deletion' = [deletion EXCEPT ![e] = NoDeletion]
  BY DEF EnqueueDeletes
<1>2. ~deletion'[e].open /\ \A d \in Docs \ {e} : deletion'[d] = deletion[d]
  BY <1>1 DEF TypeOK, NoDeletion
<1>. QED
  BY <1>1, <1>2 DEF ItemMoves, DeletionMoves

LEMMA UpsertItemDoes ==
    ASSUME TypeOK, InHand, UpsertItem
    PROVE  /\ rowDoc \in Docs
           /\ item'[rowDoc].there /\ item'[rowDoc].live
           /\ item'[rowDoc].version = item[rowDoc].version + 1
           /\ \A d \in Docs \ {rowDoc} : item'[d] = item[d]
           /\ runtime'.at = "enqueue" /\ runtime'.now = runtime.now
           /\ runtime'.rows = runtime.rows /\ runtime'.version = item'[rowDoc].version
           /\ UNCHANGED <<ingestion, jobs, deletion>>
<1>. DEFINE i == [there |-> TRUE, live |-> TRUE, version |-> item[rowDoc].version + 1,
                  embedded |-> FALSE, vector |-> "pending", kg |-> "pending"]
<1>1. rowDoc \in Docs
  BY AtHand DEF UpsertItem, RowSteps
<1>2. item' = [item EXCEPT ![rowDoc] = i]
  BY DEF UpsertItem
<1>3. i.there /\ i.live /\ i.version = item[rowDoc].version + 1
  OBVIOUS
<1>. HIDE DEF i
<1>4. item'[rowDoc] = i /\ \A d \in Docs \ {rowDoc} : item'[d] = item[d]
  BY <1>1, <1>2 DEF TypeOK
<1>5. /\ runtime'.at = "enqueue" /\ runtime'.now = runtime.now
      /\ runtime'.rows = runtime.rows /\ runtime'.version = item[rowDoc].version + 1
  BY DEF UpsertItem, TypeOK, Hands
<1>. QED
  BY <1>1, <1>3, <1>4, <1>5 DEF UpsertItem

\* What becomes of an item whose vector is computed
LEMMA EmbedDoes ==
    ASSUME TypeOK, InHand, Embed
    PROVE  /\ job.doc \in Docs
           /\ item'[job.doc].there = item[job.doc].there
           /\ item'[job.doc].live = item[job.doc].live
           /\ item'[job.doc].version = item[job.doc].version
           /\ item'[job.doc].kg = item[job.doc].kg
           /\ \A d \in Docs \ {job.doc} : item'[d] = item[d]
           /\ UNCHANGED <<ingestion, jobs, deletion, index>>
           /\ runtime'.at = "write" /\ runtime'.now = runtime.now
<1>. DEFINE d == job.doc
            i == [item[d] EXCEPT !.embedded = TRUE, !.vector = "ready"]
<1>1. d \in Docs
  BY AtHand DEF Embed, JobSteps
<1>2. item[d] \in Items /\ item \in [Docs -> Items]
  BY <1>1 DEF TypeOK
<1>3. /\ i.there = item[d].there /\ i.live = item[d].live
      /\ i.version = item[d].version /\ i.kg = item[d].kg
  BY <1>2 DEF Items
<1>4. item' = [item EXCEPT ![d] = i]
  BY DEF Embed
<1>. HIDE DEF i
<1>5. item'[d] = i /\ \A e \in Docs \ {d} : item'[e] = item[e]
  BY <1>1, <1>2, <1>4
<1>6. runtime'.at = "write" /\ runtime'.now = runtime.now
  BY ToTyped DEF Embed, TypeOK, Steps, JobSteps
<1>7. UNCHANGED <<ingestion, jobs, deletion, index>>
  BY DEF Embed
<1>. HIDE DEF d
<1>8. /\ item'[d].there = item[d].there /\ item'[d].live = item[d].live
      /\ item'[d].version = item[d].version /\ item'[d].kg = item[d].kg
  BY <1>3, <1>5
<1>. QED
  BY <1>1, <1>5, <1>6, <1>7, <1>8 DEF d

LEMMA NextMovesItems ==
    ASSUME Inv, [Next]_vars PROVE \A d \in Docs : ItemMoves(d) /\ DeletionMoves(d)
<1>0. TypeOK /\ InHand /\ Gone
  BY DEF Inv
<1>1. CASE UNCHANGED <<item, deletion>>
  BY <1>1 DEF ItemMoves, DeletionMoves
<1>2. CASE CrashCore
  <2>1. /\ UNCHANGED item /\ faults'["crash"] # 0
        /\ \A d \in Docs : deletion'[d] = NoDeletion
    BY <1>2, FaultsStay DEF CrashCore, Stored, Kinds
  <2>. QED
    BY <2>1 DEF ItemMoves, DeletionMoves, NoDeletion
<1>3. CASE UpsertItem
  BY <1>0, <1>3, UpsertItemDoes DEF ItemMoves, DeletionMoves
<1>4. CASE Embed
  BY <1>0, <1>4, EmbedDoes DEF ItemMoves, DeletionMoves
<1>5. CASE Mark
  <2>1. UNCHANGED <<ingestion, jobs, deletion>>
    BY <1>5 DEF Mark
  <2>2. /\ \A d \in Docs : d # job.doc => item'[d] = item[d]
        /\ item'[job.doc].there = item[job.doc].there
        /\ item'[job.doc].live = item[job.doc].live
        /\ item'[job.doc].version = item[job.doc].version
    BY <1>0, <1>5, MarkDoes
  <2>. QED
    BY <1>5, <2>1, <2>2 DEF ItemMoves, DeletionMoves
<1>6. CASE Purge
  <2>1. UNCHANGED deletion
    BY <1>6 DEF Purge
  <2>. QED
    BY <1>0, <1>6, <2>1, PurgeDoes DEF ItemMoves, DeletionMoves, NoItem
<1>7. RuntimeStep => \/ UNCHANGED <<item, deletion>>
                     \/ UpsertItem \/ Embed \/ Mark \/ Purge
  BY DEF RuntimeStep, ClaimRows, Payload, UpsertSource, EnqueueUpserts, CompleteRow, Report,
     IngestFails, RowFails, Tell, AnnounceFails, ClaimJobs, ReadItem, Write, CompleteJob,
     ProjectFails, Stored
<1>8. CASE Next /\ ~RuntimeStep /\ ~CrashCore
  BY <1>0, <1>1, <1>8, DeleteSourceMoves, DeleteByMetadataMoves, EnqueueDeletesMoves
     DEF Next, Upload, Rebuild, ExtractionDue, WorkerStep, ClaimExtraction, Extract,
     ExtractFails, Release, CrashWorker, IngestionDue, JobDue, Reload, Stored
<1>. QED
  BY <1>1, <1>2, <1>3, <1>4, <1>5, <1>6, <1>7, <1>8 DEF vars

-----------------------------------------------------------------------------
(* Where the runtime comes from *)

HandsMove ==
    /\ runtime'.at = "enqueue" => runtime' = runtime \/ UpsertItem
    /\ runtime'.at = "mark" =>
          \/ runtime' = runtime
          \/ /\ runtime'.now = runtime.now
             /\ Write \/ (ReadItem /\ job.projection = "classification")
    /\ runtime'.at = "done" =>
          \/ runtime' = runtime
          \/ runtime'.now = runtime.now /\ ((ReadItem /\ Skips) \/ Mark)
    /\ runtime'.at = "purge" =>
          \/ runtime' = runtime
          \/ runtime'.now = runtime.now /\ CompleteJob /\ job.force
    /\ runtime.at = "enqueue" =>
          runtime' = runtime \/ EnqueueUpserts \/ faults'["crash"] # 0
    /\ UNCHANGED index \/ Write

LEMMA ReadItemDoes ==
    ASSUME TypeOK, InHand, ReadItem
    PROVE  /\ runtime'.now = runtime.now /\ runtime'.jobs = runtime.jobs
           /\ UNCHANGED <<item, index, jobs, deletion, ingestion>>
           /\ runtime'.at = "mark" => ~Skips /\ job.projection = "classification"
           /\ runtime'.at = "done" => Skips
           /\ runtime'.at \in {"mark", "done", "embed", "write"}
<1>1. /\ runtime'.now = runtime.now /\ runtime'.jobs = runtime.jobs
      /\ runtime'.at = CASE Skips -> "done"
                         [] ~Skips /\ job.projection = "classification" -> "mark"
                         [] ~Skips /\ job.does = "upsert" /\ job.projection = "vector"
                              /\ ~item[job.doc].embedded -> "embed"
                         [] OTHER -> "write"
  BY DEF ReadItem, TypeOK, Hands
<1>2. UNCHANGED <<item, index, jobs, deletion, ingestion>>
  BY DEF ReadItem, Stored
<1>. QED
  BY <1>1, <1>2

\* Where a step that only goes on leads
LEMMA GoesOn ==
    ASSUME TypeOK, InHand
    PROVE  /\ Payload => runtime'.at = "source"
           /\ UpsertSource => runtime'.at = "item"
           /\ EnqueueUpserts => runtime'.at = "complete"
           /\ CompleteRow => runtime'.at = "report"
           /\ Embed => runtime'.at = "write" /\ runtime'.now = runtime.now
           /\ Write => runtime'.at = "mark" /\ runtime'.now = runtime.now
           /\ Mark => runtime'.at = "done" /\ runtime'.now = runtime.now
           /\ Payload \/ UpsertSource \/ UpsertItem \/ EnqueueUpserts \/ CompleteRow
              \/ Embed \/ Write \/ Mark => runtime'.jobs = runtime.jobs
           /\ AnnounceFails \/ Reload \/ CrashCore =>
                 runtime'.at = "poll" /\ runtime'.jobs = {}
           /\ Report \/ Tell => runtime'.at \in {"outbox", "payload"} /\ runtime'.jobs = {}
           /\ ProjectFails \/ Purge =>
                 /\ runtime'.at \in {"read", "poll"}
                 /\ runtime'.jobs = runtime.jobs \ {runtime.now}
           /\ CompleteJob =>
                 \/ job.force /\ runtime'.at = "purge" /\ runtime'.now = runtime.now
                    /\ runtime'.jobs = runtime.jobs
                 \/ /\ runtime'.at \in {"read", "poll"}
                    /\ runtime'.jobs = runtime.jobs \ {runtime.now}
<1>1. /\ Payload => runtime'.at = "source"
      /\ UpsertSource => runtime'.at = "item"
      /\ EnqueueUpserts => runtime'.at = "complete"
      /\ CompleteRow => runtime'.at = "report"
  BY DEF Payload, UpsertSource, EnqueueUpserts, CompleteRow, To, TypeOK, Hands
<1>2. /\ Embed => runtime'.at = "write" /\ runtime'.now = runtime.now
      /\ Write => runtime'.at = "mark" /\ runtime'.now = runtime.now
      /\ Mark => runtime'.at = "done" /\ runtime'.now = runtime.now
  BY DEF Embed, Write, Mark, To, TypeOK, Hands
<1>3. Payload \/ UpsertSource \/ UpsertItem \/ EnqueueUpserts \/ CompleteRow
      \/ Embed \/ Write \/ Mark => runtime'.jobs = runtime.jobs
  BY DEF Payload, UpsertSource, UpsertItem, EnqueueUpserts, CompleteRow, Embed, Write, Mark,
     To, TypeOK, Hands
<1>4. AnnounceFails \/ Reload \/ CrashCore => runtime'.at = "poll" /\ runtime'.jobs = {}
  BY DEF AnnounceFails, Reload, CrashCore, Resting
<1>5. Report \/ Tell => runtime'.at \in {"outbox", "payload"} /\ runtime'.jobs = {}
  BY AtHand, TakeRowTyped DEF Report, Tell, NextRow
<1>6. NextJob => /\ runtime'.at \in {"read", "poll"}
                 /\ runtime'.jobs = runtime.jobs \ {runtime.now}
  BY NextJobTyped
<1>7. ProjectFails \/ Purge => NextJob
  BY DEF ProjectFails, Purge
<1>8. CompleteJob => (job.force /\ To("purge")) \/ NextJob
  BY DEF CompleteJob
<1>9. To("purge") => /\ runtime'.at = "purge" /\ runtime'.now = runtime.now
                     /\ runtime'.jobs = runtime.jobs
  BY DEF To, TypeOK, Hands
<1>. QED
  BY <1>1, <1>2, <1>3, <1>4, <1>5, <1>6, <1>7, <1>8, <1>9

LEMMA NextMovesHands == ASSUME Inv, [Next]_vars PROVE HandsMove
<1>0. TypeOK /\ InHand /\ Tries /\ "crash" \in Kinds
  BY DEF Inv, Kinds
<1>1. CASE UNCHANGED <<runtime, index>>
  BY <1>1 DEF HandsMove
<1>2. CASE ReadItem
  BY <1>0, <1>2, ReadItemDoes DEF HandsMove, ReadItem
<1>3. CASE \/ Payload \/ UpsertSource \/ CompleteRow \/ Report \/ Tell \/ AnnounceFails
           \/ ProjectFails \/ Purge \/ Embed
  <2>1. UNCHANGED index /\ runtime.at # "enqueue"
    BY <1>3 DEF Payload, UpsertSource, CompleteRow, Report, Tell, AnnounceFails,
       ProjectFails, Purge, Embed, Stored
  <2>2. runtime'.at \notin {"enqueue", "mark", "done", "purge"}
    BY <1>0, <1>3, GoesOn
  <2>. QED
    BY <2>1, <2>2 DEF HandsMove
<1>4. CASE EnqueueUpserts
  BY <1>0, <1>4, GoesOn DEF HandsMove, EnqueueUpserts
<1>5. CASE UpsertItem
  BY <1>0, <1>5, UpsertItemDoes DEF HandsMove, UpsertItem
<1>6. CASE Write
  BY <1>0, <1>6, GoesOn DEF HandsMove, Write
<1>7. CASE Mark
  BY <1>0, <1>7, GoesOn DEF HandsMove, Mark
<1>8. CASE CompleteJob
  BY <1>0, <1>8, GoesOn DEF HandsMove, CompleteJob
<1>9. CASE Reload
  BY <1>0, <1>9, GoesOn DEF HandsMove, Reload, Stored
<1>10. CASE CrashCore
  BY <1>0, <1>10, GoesOn, FaultsStay DEF HandsMove, CrashCore, Stored
<1>11. CASE ClaimRows \/ ClaimJobs
  <2>1. UNCHANGED index /\ runtime.at \in {"poll", "outbox"}
    BY <1>11 DEF ClaimRows, ClaimJobs
  <2>2. runtime'.at \in {"outbox", "payload", "poll", "read"}
    BY <1>0, <1>11, ClaimRowsDoes, ClaimJobsDoes
  <2>. QED
    BY <2>1, <2>2 DEF HandsMove
<1>12. CASE IngestFails
  <2>1. UNCHANGED index /\ runtime.at # "enqueue"
    BY <1>12 DEF IngestFails, RowFails
  <2>2. runtime'.at \in {"tell", "outbox", "payload"}
    BY <1>0, <1>12, IngestFailsDoes
  <2>. QED
    BY <2>1, <2>2 DEF HandsMove
<1>13. CASE RuntimeStep
  BY <1>2, <1>3, <1>4, <1>5, <1>6, <1>7, <1>8, <1>11, <1>12, <1>13 DEF RuntimeStep
<1>14. CASE Next /\ ~RuntimeStep
  BY <1>1, <1>9, <1>10, <1>14 DEF Next, Upload, DeleteSource, EnqueueDeletes, Rebuild,
     DeleteByMetadata, ExtractionDue, WorkerStep, ClaimExtraction, Extract,
     ExtractFails, Release, CrashWorker, IngestionDue, JobDue, Stored
<1>. QED
  BY <1>1, <1>13, <1>14 DEF vars

\* What is in a batch stays there until it is done.
LEMMA InBatchNext == ASSUME Inv, InBatch, [Next]_vars PROVE InBatch'
<1>0. TypeOK /\ InHand /\ Tries /\ JobsMove /\ runtime.jobs \subseteq DOMAIN jobs
      /\ (runtime.at \notin JobSteps => runtime.jobs = {})
  BY NextMovesJobs DEF Inv, InHand
<1>1. CASE /\ runtime'.jobs \subseteq runtime.jobs
           /\ runtime' = runtime \/ runtime.at # "purge"
           /\ ~ProjectFails /\ ~CompleteJob
  <2>1. ~Purge
    BY <1>0, <1>1, GoesOn DEF Purge
  <2>. SUFFICES ASSUME NEW i \in runtime'.jobs
                PROVE  \/ jobs'[i].status = "processing"
                       \/ i = runtime'.now /\ runtime'.at = "purge"
    BY DEF InBatch
  <2>2. \/ jobs[i].status = "processing"
        \/ i = runtime.now /\ runtime.at = "purge" /\ runtime' = runtime
    BY <1>1 DEF InBatch
  <2>3. i \in DOMAIN jobs /\ JobMoves(i)
    BY <1>0, <1>1 DEF JobsMove
  <2>. QED
    BY <1>1, <2>1, <2>2, <2>3 DEF JobMoves
<1>2. CASE ProjectFails \/ Purge
  <2>1. runtime'.jobs = runtime.jobs \ {runtime.now}
    BY <1>0, <1>2, GoesOn
  <2>. SUFFICES ASSUME NEW i \in runtime'.jobs PROVE jobs'[i].status = "processing"
    BY DEF InBatch
  <2>2. jobs[i].status = "processing" /\ i # runtime.now /\ i \in DOMAIN jobs
    BY <1>0, <2>1 DEF InBatch
  <2>3. ~(Purge /\ Purgeable(jobs[i].doc))
    BY <2>2 DEF Purgeable
  <2>. QED
    BY <1>0, <2>2, <2>3 DEF JobsMove, JobMoves
<1>3. CASE CompleteJob
  <2>1. \A i \in DOMAIN jobs \ {runtime.now} : jobs'[i] = jobs[i]
    BY <1>0, <1>3, CompleteJobDoes
  <2>2. \/ runtime'.at = "purge" /\ runtime'.now = runtime.now /\ runtime'.jobs = runtime.jobs
        \/ runtime'.jobs = runtime.jobs \ {runtime.now}
    BY <1>0, <1>3, GoesOn
  <2>. QED
    BY <1>0, <1>3, <2>1, <2>2 DEF InBatch, CompleteJob
<1>4. CASE ClaimJobs
  BY <1>0, <1>4, ClaimJobsDoes DEF InBatch, Due
<1>5. CASE RuntimeStep /\ ~ProjectFails /\ ~Purge /\ ~CompleteJob /\ ~ClaimJobs
  <2>1. runtime'.jobs \subseteq runtime.jobs
    BY <1>0, <1>5, GoesOn, ReadItemDoes, ClaimRowsDoes, IngestFailsDoes DEF RuntimeStep
  <2>2. runtime.at # "purge"
    BY <1>5 DEF RuntimeStep, ClaimRows, Payload, UpsertSource, UpsertItem, EnqueueUpserts,
       CompleteRow, Report, IngestFails, Tell, AnnounceFails, ReadItem, Embed,
       Write, Mark
  <2>. QED
    BY <1>1, <1>5, <2>1, <2>2
<1>6. CASE Reload \/ CrashCore
  BY <1>0, <1>6, GoesOn DEF InBatch
<1>7. CASE ([Next]_vars) /\ ~RuntimeStep /\ ~Reload /\ ~CrashCore
  <2>1. runtime' = runtime
    BY <1>7 DEF Next, Upload, DeleteSource, EnqueueDeletes, Rebuild,
       DeleteByMetadata, ExtractionDue, WorkerStep, ClaimExtraction, Extract,
       ExtractFails, Release, CrashWorker, IngestionDue, JobDue, Stored, vars
  <2>. QED
    BY <1>1, <1>7, <2>1 DEF RuntimeStep
<1>. QED
  BY <1>2, <1>3, <1>4, <1>5, <1>6, <1>7

-----------------------------------------------------------------------------
(* A document is extracted once, and what was removed for good stays gone *)

Projected(d) == deletion[d].open \/ JobsOf(d) # {}

\* A document has ingestion requests after its only extraction; what is
\* projected comes from one of them.
Sourced == \A d \in Docs :
    /\ RowsOf(d) # {} => /\ extraction[d].status \in {"completed", "cancelled"}
                         /\ \A w \in Workers : d \notin worker[w]
    /\ item[d].there \/ Projected(d) => RowsOf(d) # {}

\* A forced deletion leaves no ingestion request that could bring the item back.
Forced ==
    /\ \A d \in Docs : \/ deletion[d].open /\ deletion[d].force
                       \/ \E i \in JobsOf(d) : jobs[i].force
          => \A i \in RowsOf(d) : ingestion[i].status = "deleted"
    /\ runtime.at = "purge" => job.force

\* An item that was there and is gone does not come back.
Spent == \A d \in Docs : ~item[d].there /\ Projected(d) =>
    \A i \in RowsOf(d) : ingestion[i].status = "deleted" /\ i \notin runtime.rows

\* The jobs of an item belong to its versions, and a deletion to a new one.
Versioned == \A d \in Docs : item[d].there =>
    /\ \A i \in JobsOf(d) : jobs[i].status # "purged" => jobs[i].version <= item[d].version
    /\ deletion[d].open =>
          /\ deletion[d].version <= item[d].version
          /\ \A i \in JobsOf(d) : jobs[i].status # "purged" /\ jobs[i].does = "delete" =>
                jobs[i].version < deletion[d].version

\* A version that is about to be enqueued has no upserts yet but those of a
\* rebuild.
Enqueuing == runtime.at = "enqueue" =>
    /\ item[rowDoc].there /\ runtime.version <= item[rowDoc].version
    /\ \A i \in JobsOf(rowDoc) :
          jobs[i].status # "purged" /\ jobs[i].does = "upsert" /\ jobs[i].suffix = 0 =>
             jobs[i].version < runtime.version

\* The jobs a step adds
LEMMA NewJobs ==
    ASSUME TypeOK, JobsMove, NEW i \in DOMAIN jobs' \ DOMAIN jobs, NEW d \in Docs,
           jobs'[i].doc = d
    PROVE  /\ jobs'[i].status = "pending"
           /\ \/ /\ DeletesAdded(d) /\ jobs'[i].does = "delete"
                 /\ jobs'[i].version = deletion[d].version
                 /\ jobs'[i].force = deletion[d].force
              \/ /\ UpsertsAdded /\ d = rowDoc /\ jobs'[i].does = "upsert"
                 /\ jobs'[i].version = runtime.version /\ jobs'[i].force = FALSE
              \/ /\ RebuildAdded(d) /\ jobs'[i].does = "upsert"
                 /\ jobs'[i].version = item[d].version /\ jobs'[i].suffix # 0
                 /\ jobs'[i].force = FALSE
<1>1. \/ \E e \in Docs : DeletesAdded(e) \/ RebuildAdded(e)
      \/ UpsertsAdded
  BY DEF JobsMove
<1>2. ASSUME NEW e, NEW does, NEW v, NEW s, NEW f, Adds(e, does, v, s, f)
      PROVE  /\ d = e /\ jobs'[i].does = does /\ jobs'[i].version = v
             /\ jobs'[i].suffix = s /\ jobs'[i].force = f /\ jobs'[i].status = "pending"
  BY <1>2 DEF Adds, SameKey, Job
<1>3. ASSUME NEW e \in Docs, DeletesAdded(e)
      PROVE  /\ jobs'[i].status = "pending"
             /\ DeletesAdded(d) /\ jobs'[i].does = "delete"
             /\ jobs'[i].version = deletion[d].version
             /\ jobs'[i].force = deletion[d].force
  <2>1. Adds(e, "delete", deletion[e].version, 0, deletion[e].force)
    BY <1>3 DEF DeletesAdded
  <2>2. /\ d = e /\ jobs'[i].does = "delete" /\ jobs'[i].version = deletion[e].version
        /\ jobs'[i].force = deletion[e].force /\ jobs'[i].status = "pending"
    BY <1>2, <2>1
  <2>. QED
    BY <1>3, <2>2
<1>4. ASSUME NEW e \in Docs, RebuildAdded(e)
      PROVE  /\ jobs'[i].status = "pending"
             /\ RebuildAdded(d) /\ jobs'[i].does = "upsert"
             /\ jobs'[i].version = item[d].version /\ jobs'[i].suffix # 0
             /\ jobs'[i].force = FALSE
  <2>1. Adds(e, "upsert", item[e].version, asked[e] + 1, FALSE)
    BY <1>4 DEF RebuildAdded
  <2>2. /\ d = e /\ jobs'[i].does = "upsert" /\ jobs'[i].version = item[e].version
        /\ jobs'[i].suffix = asked[e] + 1 /\ jobs'[i].force = FALSE
        /\ jobs'[i].status = "pending"
    BY <1>2, <2>1
  <2>3. asked[e] + 1 # 0
    BY KnowledgeAssumption DEF TypeOK
  <2>. QED
    BY <1>4, <2>2, <2>3
<1>5. CASE UpsertsAdded
  <2>1. Adds(rowDoc, "upsert", runtime.version, 0, FALSE)
    BY <1>5 DEF UpsertsAdded
  <2>2. /\ d = rowDoc /\ jobs'[i].does = "upsert" /\ jobs'[i].version = runtime.version
        /\ jobs'[i].force = FALSE /\ jobs'[i].status = "pending"
    BY <1>2, <2>1
  <2>. QED
    BY <1>5, <2>2
<1>. QED
  BY <1>1, <1>3, <1>4, <1>5

\* An extraction that is over is not taken up again.
LEMMA ExtractionOver ==
    ASSUME Inv, [Next]_vars, NEW d \in Docs,
           extraction[d].status \in {"completed", "cancelled"},
           \A w \in Workers : d \notin worker[w]
    PROVE  /\ extraction'[d].status \in {"completed", "cancelled"}
           /\ \A w \in Workers : d \notin worker'[w]
<1>0. TypeOK /\ Hold
  BY DEF Inv, Hold
<1>1. CASE UNCHANGED <<extraction, worker>>
  BY <1>1
<1>2. ASSUME NEW e \in Docs, Upload(e) \/ ExtractionDue(e)
      PROVE  extraction'[d].status \in {"completed", "cancelled"} /\ UNCHANGED worker
  <2>1. /\ extraction' = [extraction EXCEPT ![e].status = "pending"] /\ e # d
        /\ UNCHANGED worker
    BY <1>2 DEF Upload, ExtractionDue
  <2>. QED
    BY <1>0, <2>1, ExtractionSet DEF Open
<1>3. ASSUME NEW e \in Docs, NEW force \in BOOLEAN, DeleteByMetadata(e, force)
      PROVE  extraction'[d].status \in {"completed", "cancelled"} /\ UNCHANGED worker
  <2>1. UNCHANGED worker
    BY <1>3 DEF DeleteByMetadata
  <2>. QED
    BY <1>0, <1>3, <2>1, DeleteByMetadataDoes
<1>4. ASSUME NEW v \in Workers, NEW e \in Docs,
             ClaimExtraction(v, e) \/ ExtractFails(v, e) \/ Release(v, e) \/ Extract(v, e)
      PROVE  /\ extraction'[d].status \in {"completed", "cancelled"}
             /\ \A w \in Workers : d \notin worker'[w]
  <2>1. e # d /\ worker' \in {[worker EXCEPT ![v] = {e}], [worker EXCEPT ![v] = {}]}
    BY <1>4 DEF ClaimExtraction, ExtractFails, Release, Extract
  <2>2. extraction'[d] = extraction[d]
    BY <1>0, <1>4, <2>1, WorkerMovesExtraction, ExtractAdds
  <2>3. \A w \in Workers : d \notin worker'[w]
    <3>1. worker \in [Workers -> SUBSET Docs]
      BY <1>0 DEF TypeOK
    <3>2. CASE worker' = [worker EXCEPT ![v] = {e}]
      BY <2>1, <3>1, <3>2
    <3>3. CASE worker' = [worker EXCEPT ![v] = {}]
      BY <3>1, <3>3
    <3>. QED
      BY <2>1, <3>2, <3>3
  <2>. QED
    BY <2>2, <2>3
<1>5. ASSUME NEW v \in Workers, CrashWorker(v)
      PROVE  /\ extraction'[d].status \in {"completed", "cancelled"}
             /\ \A w \in Workers : d \notin worker'[w]
  BY <1>0, <1>5 DEF CrashWorker, Stored, TypeOK
<1>6. RuntimeStep => UNCHANGED <<extraction, worker>>
  BY DEF RuntimeStep, ClaimRows, Payload, UpsertSource, UpsertItem, EnqueueUpserts,
     CompleteRow, Report, IngestFails, RowFails, Tell, AnnounceFails, ClaimJobs, ReadItem,
     Embed, Write, Mark, CompleteJob, Purge, ProjectFails, Stored
<1>7. CASE Next
  BY <1>1, <1>2, <1>3, <1>4, <1>5, <1>6, <1>7 DEF Next, WorkerStep, DeleteSource,
     EnqueueDeletes, Rebuild, IngestionDue, JobDue, Reload, CrashCore, Stored
<1>. QED
  BY <1>1, <1>7 DEF vars

LEMMA SourcedNext == ASSUME Inv, InBatch, Sourced, [Next]_vars PROVE Sourced'
<1>. SUFFICES ASSUME NEW d \in Docs
              PROVE  /\ RowsOf(d)' # {} =>
                          /\ extraction'[d].status \in {"completed", "cancelled"}
                          /\ \A w \in Workers : d \notin worker'[w]
                     /\ item'[d].there \/ Projected(d)' => RowsOf(d)' # {}
  BY DEF Sourced
<1>0. /\ TypeOK /\ InHand /\ Hold /\ Gone /\ RowsMove /\ JobsMove
      /\ ItemMoves(d) /\ DeletionMoves(d)
  BY NextMovesRows, NextMovesJobs, NextMovesItems DEF Inv, Hold
<1>1. ASSUME NEW i \in RowsOf(d)'
      PROVE  /\ extraction'[d].status \in {"completed", "cancelled"}
             /\ \A w \in Workers : d \notin worker'[w]
  <2>1. i \in DOMAIN ingestion' /\ ingestion'[i].doc = d
    BY DEF RowsOf
  <2>2. CASE i \in DOMAIN ingestion
    <3>1. i \in RowsOf(d)
      BY <1>0, <2>1, <2>2 DEF RowsMove, RowMoves, RowsOf
    <3>. QED
      BY <3>1, ExtractionOver DEF Sourced
  <2>3. CASE i \notin DOMAIN ingestion
    <3>1. PICK w \in Workers : Extract(w, d)
      BY <1>0, <2>1, <2>3 DEF RowsMove
    <3>2. extraction'[d].status = "completed"
      BY <1>0, <3>1, ExtractAdds
    <3>3. worker' = [worker EXCEPT ![w] = {}] /\ d \in worker[w]
      BY <3>1 DEF Extract
    <3>4. \A v \in Workers : v # w => d \notin worker[v]
      BY <1>0, <3>3 DEF Hold, Holders
    <3>. QED
      BY <1>0, <3>2, <3>3, <3>4 DEF TypeOK
  <2>. QED
    BY <2>2, <2>3
<1>2. RowsOf(d) # {} => RowsOf(d)' # {}
  <2>. SUFFICES ASSUME NEW i \in RowsOf(d) PROVE i \in RowsOf(d)'
    OBVIOUS
  <2>. QED
    BY <1>0 DEF RowsOf, RowsMove, RowMoves
<1>3. item'[d].there => RowsOf(d) # {}
  <2>1. item[d].there => RowsOf(d) # {}
    BY DEF Sourced
  <2>2. CASE UpsertItem /\ d = rowDoc
    <3>1. row \in DOMAIN ingestion /\ ingestion[row].doc = d
      BY <1>0, <2>2, AtHand DEF UpsertItem, RowSteps, rowDoc
    <3>. QED
      BY <3>1 DEF RowsOf
  <2>. QED
    BY <1>0, <2>1, <2>2 DEF ItemMoves, Deletes
<1>4. deletion'[d].open => RowsOf(d) # {}
  BY <1>0 DEF DeletionMoves, Deletes, Sourced, Projected
<1>5. ASSUME NEW i \in JobsOf(d)' PROVE RowsOf(d) # {}
  <2>1. i \in DOMAIN jobs' /\ jobs'[i].doc = d
    BY DEF JobsOf
  <2>2. CASE i \in DOMAIN jobs
    <3>1. i \in JobsOf(d)
      BY <1>0, <2>1, <2>2 DEF JobsMove, JobMoves, SameJob, SameKey, JobsOf
    <3>. QED
      BY <3>1 DEF Sourced, Projected
  <2>3. CASE i \notin DOMAIN jobs
    <3>1. DeletesAdded(d) \/ (UpsertsAdded /\ d = rowDoc) \/ RebuildAdded(d)
      BY <1>0, <2>1, <2>3, NewJobs
    <3>2. CASE DeletesAdded(d)
      BY <3>2 DEF DeletesAdded, EnqueueDeletes, Sourced, Projected
    <3>3. CASE UpsertsAdded /\ d = rowDoc
      <4>1. row \in DOMAIN ingestion /\ ingestion[row].doc = d
        BY <1>0, <3>3, AtHand DEF UpsertsAdded, RowSteps, rowDoc
      <4>. QED
        BY <4>1 DEF RowsOf
    <3>4. CASE RebuildAdded(d)
      BY <1>0, <3>4 DEF RebuildAdded, Rebuild, Gone, Sourced
    <3>. QED
      BY <3>1, <3>2, <3>3, <3>4
  <2>. QED
    BY <2>2, <2>3
<1>6. Projected(d)' => RowsOf(d) # {}
  BY <1>4, <1>5 DEF Projected
<1>. QED
  BY <1>1, <1>2, <1>3, <1>6

\* What is projected has all its rows: none is added, and the deleted stay so.
LEMMA RowsOfProjected ==
    ASSUME Inv, Sourced, [Next]_vars, NEW d \in Docs, item[d].there \/ Projected(d)
    PROVE  /\ RowsOf(d)' \subseteq RowsOf(d)
           /\ \A i \in RowsOf(d)' : ingestion[i].status = "deleted" =>
                 ingestion'[i].status = "deleted"
<1>0. RowsMove /\ \A w \in Workers : d \notin worker[w]
  BY NextMovesRows DEF Sourced
<1>. SUFFICES ASSUME NEW i \in RowsOf(d)'
              PROVE  /\ i \in RowsOf(d)
                     /\ ingestion[i].status = "deleted" => ingestion'[i].status = "deleted"
  OBVIOUS
<1>1. i \in DOMAIN ingestion' /\ ingestion'[i].doc = d
  BY DEF RowsOf
<1>2. i \in DOMAIN ingestion
  BY <1>0, <1>1 DEF RowsMove, Extract
<1>. QED
  BY <1>0, <1>1, <1>2 DEF RowsMove, RowMoves, RowEnds, RowsOf

LEMMA ForcedNext == ASSUME Inv, InBatch, Sourced, Forced, [Next]_vars PROVE Forced'
<1>0. /\ TypeOK /\ InHand /\ RowsMove /\ JobsMove /\ HandsMove
      /\ \A d \in Docs : DeletionMoves(d)
  BY NextMovesRows, NextMovesJobs, NextMovesItems, NextMovesHands DEF Inv
<1>1. ASSUME NEW d \in Docs, \/ deletion'[d].open /\ deletion'[d].force
                             \/ \E i \in JobsOf(d)' : jobs'[i].force,
             NEW k \in RowsOf(d)'
      PROVE  ingestion'[k].status = "deleted"
  <2>1. CASE \/ deletion[d].open /\ deletion[d].force
             \/ \E i \in JobsOf(d) : jobs[i].force
    <3>1. Projected(d)
      BY <2>1 DEF Projected
    <3>2. k \in RowsOf(d)
      BY <3>1, RowsOfProjected
    <3>3. ingestion[k].status = "deleted"
      BY <2>1, <3>2 DEF Forced
    <3>. QED
      BY <3>1, <3>3, RowsOfProjected
  <2>2. CASE Deletes(d) /\ deletion'[d].force
    BY <2>2 DEF Deletes
  <2>3. CASE deletion'[d].open /\ deletion'[d].force
    BY <1>0, <2>1, <2>2, <2>3 DEF DeletionMoves
  <2>4. ASSUME NEW i \in JobsOf(d)', jobs'[i].force
        PROVE  ingestion'[k].status = "deleted"
    <3>1. i \in DOMAIN jobs' /\ jobs'[i].doc = d
      BY DEF JobsOf
    <3>2. CASE i \in DOMAIN jobs
      <4>1. i \in JobsOf(d) /\ jobs[i].force
        BY <1>0, <2>4, <3>1, <3>2 DEF JobsMove, JobMoves, SameJob, SameKey, JobsOf
      <4>. QED
        BY <2>1, <4>1
    <3>3. CASE i \notin DOMAIN jobs
      <4>1. DeletesAdded(d) /\ deletion[d].force
        BY <1>0, <2>4, <3>1, <3>3, NewJobs
      <4>. QED
        BY <2>1, <4>1 DEF DeletesAdded, EnqueueDeletes
    <3>. QED
      BY <3>2, <3>3
  <2>. QED
    BY <1>1, <2>3, <2>4
<1>2. ASSUME runtime'.at = "purge" PROVE job'.force
  <2>1. runtime'.now = runtime.now /\ job.force
    BY <1>0, <1>2 DEF HandsMove, Forced
  <2>2. runtime.now \in DOMAIN jobs
    BY <1>0, <1>2, AtHand DEF HandsMove, CompleteJob, JobSteps
  <2>. QED
    BY <1>0, <2>1, <2>2 DEF JobsMove, JobMoves, SameJob, job
<1>. QED
  BY <1>1, <1>2 DEF Forced

LEMMA SpentNext ==
    ASSUME Inv, InBatch, Sourced, Forced, Spent, Enqueuing, [Next]_vars PROVE Spent'
<1>. SUFFICES ASSUME NEW d \in Docs, ~item'[d].there, Projected(d)', NEW k \in RowsOf(d)'
              PROVE  ingestion'[k].status = "deleted" /\ k \notin runtime'.rows
  BY DEF Spent
<1>0. /\ TypeOK /\ InHand /\ Gone /\ RowsMove /\ JobsMove /\ ItemMoves(d) /\ DeletionMoves(d)
  BY NextMovesRows, NextMovesJobs, NextMovesItems DEF Inv
<1>1. CASE item[d].there
  <2>1. Purge /\ d = job.doc
    BY <1>0, <1>1 DEF ItemMoves, Deletes
  <2>2. runtime.at = "purge" /\ runtime.now \in DOMAIN jobs /\ job.force
    BY <1>0, <2>1, AtHand DEF Purge, Forced, JobSteps
  <2>3. \A i \in RowsOf(d) : ingestion[i].status = "deleted"
    BY <2>1, <2>2 DEF Forced, JobsOf, job
  <2>4. runtime'.rows = {}
    BY <1>0, <2>1, NextJobTyped DEF Purge
  <2>. QED
    BY <1>1, <2>3, <2>4, RowsOfProjected
<1>2. CASE ~item[d].there
  <2>1. Projected(d)
    <3>1. deletion'[d].open => deletion[d].open
      BY <1>0, <1>2 DEF DeletionMoves, Deletes
    <3>2. ASSUME NEW i \in JobsOf(d)' PROVE Projected(d)
      <4>1. i \in DOMAIN jobs' /\ jobs'[i].doc = d
        BY DEF JobsOf
      <4>2. CASE i \in DOMAIN jobs
        BY <1>0, <4>1, <4>2 DEF JobsMove, JobMoves, SameJob, SameKey, JobsOf, Projected
      <4>3. CASE i \notin DOMAIN jobs
        <5>1. DeletesAdded(d) \/ (UpsertsAdded /\ d = rowDoc) \/ RebuildAdded(d)
          BY <1>0, <4>1, <4>3, NewJobs
        <5>2. ~RebuildAdded(d)
          BY <1>0, <1>2 DEF RebuildAdded, Rebuild, Gone
        <5>3. ~(UpsertsAdded /\ d = rowDoc)
          BY <1>2 DEF UpsertsAdded, Enqueuing
        <5>. QED
          BY <5>1, <5>2, <5>3 DEF DeletesAdded, EnqueueDeletes, Projected
      <4>. QED
        BY <4>2, <4>3
    <3>. QED
      BY <3>1, <3>2 DEF Projected
  <2>2. k \in RowsOf(d)
    BY <2>1, RowsOfProjected
  <2>3. ingestion[k].status = "deleted" /\ k \notin runtime.rows
    BY <1>2, <2>1, <2>2 DEF Spent
  <2>. QED
    BY <1>0, <2>1, <2>3, RowsOfProjected DEF RowsMove
<1>. QED
  BY <1>1, <1>2

\* An item comes from nothing only where nothing of it is left.
LEMMA ComesAnew ==
    ASSUME Inv, Spent, [Next]_vars, NEW d \in Docs, item'[d].there, ~item[d].there
    PROVE  /\ UpsertItem /\ d = rowDoc /\ ~Projected(d)
           /\ UNCHANGED <<jobs, deletion>>
           /\ runtime'.at = "enqueue" /\ runtime'.now = runtime.now
<1>0. TypeOK /\ InHand /\ ItemMoves(d)
  BY NextMovesItems DEF Inv
<1>1. /\ UpsertItem /\ d = rowDoc /\ UNCHANGED <<jobs, deletion>>
      /\ runtime'.at = "enqueue" /\ runtime'.now = runtime.now
  BY <1>0 DEF ItemMoves, Deletes
<1>2. row \in RowsOf(d) /\ row \in runtime.rows
  BY <1>0, <1>1, AtHand DEF UpsertItem, RowSteps, RowsOf, rowDoc, InHand, row
<1>. QED
  BY <1>1, <1>2 DEF Spent

\* What is kept of a job
LEMMA OldJob ==
    ASSUME JobsMove, NEW i \in DOMAIN jobs
    PROVE  /\ i \in DOMAIN jobs'
           /\ jobs'[i].doc = jobs[i].doc /\ jobs'[i].does = jobs[i].does
           /\ jobs'[i].projection = jobs[i].projection
           /\ jobs'[i].version = jobs[i].version /\ jobs'[i].suffix = jobs[i].suffix
           /\ jobs'[i].force = jobs[i].force
           /\ jobs'[i].status # "purged" => jobs[i].status # "purged"
BY DEF JobsMove, JobMoves, SameJob, SameKey

\* While an item is there, its version only grows.
LEMMA VersionsGrow ==
    ASSUME Inv, [Next]_vars, NEW d \in Docs, item[d].there, item'[d].there
    PROVE  /\ item[d].version \in Nat /\ item'[d].version \in Nat
           /\ item[d].version <= item'[d].version
           /\ deletion[d].version \in Nat /\ runtime.version \in Nat
           /\ \A i \in DOMAIN jobs : jobs[i].version \in Nat /\ jobs[i].suffix \in Nat
<1>1. TypeOK /\ ItemMoves(d)
  BY NextMovesItems DEF Inv
<1>2. item[d].version \in Nat /\ deletion[d].version \in Nat /\ runtime.version \in Nat
  BY <1>1 DEF TypeOK, Items, Hands
<1>3. \A i \in DOMAIN jobs : jobs[i] \in Jobs
  BY <1>1 DEF TypeOK
<1>4. item'[d].version \in {item[d].version, item[d].version + 1}
  BY <1>1 DEF ItemMoves, Deletes
<1>. QED
  BY <1>2, <1>3, <1>4 DEF Jobs

LEMMA VersionedNext ==
    ASSUME Inv, InBatch, Spent, Versioned, Enqueuing, [Next]_vars PROVE Versioned'
<1>. SUFFICES ASSUME NEW d \in Docs, item'[d].there
              PROVE  /\ \A i \in JobsOf(d)' : jobs'[i].status # "purged" =>
                           jobs'[i].version <= item'[d].version
                     /\ deletion'[d].open =>
                           /\ deletion'[d].version <= item'[d].version
                           /\ \A i \in JobsOf(d)' :
                                 jobs'[i].status # "purged" /\ jobs'[i].does = "delete" =>
                                    jobs'[i].version < deletion'[d].version
  BY DEF Versioned
<1>0. TypeOK /\ JobsMove /\ ItemMoves(d) /\ DeletionMoves(d)
  BY NextMovesJobs, NextMovesItems DEF Inv
<1>1. CASE ~item[d].there
  BY <1>1, ComesAnew DEF Projected, JobsOf
<1>2. CASE item[d].there
  <2>0. /\ item[d].version \in Nat /\ item'[d].version \in Nat
        /\ item[d].version <= item'[d].version
        /\ deletion[d].version \in Nat /\ runtime.version \in Nat
        /\ \A i \in DOMAIN jobs : jobs[i].version \in Nat
    BY <1>2, VersionsGrow
  <2>1. ASSUME NEW i \in JobsOf(d)', jobs'[i].status # "purged"
        PROVE  jobs'[i].version <= item'[d].version
    <3>1. i \in DOMAIN jobs' /\ jobs'[i].doc = d
      BY DEF JobsOf
    <3>2. CASE i \in DOMAIN jobs
      <4>1. i \in JobsOf(d) /\ jobs[i].status # "purged" /\ jobs'[i].version = jobs[i].version
        BY <1>0, <2>1, <3>1, <3>2, OldJob DEF JobsOf
      <4>2. jobs[i].version <= item[d].version
        BY <1>2, <4>1 DEF Versioned
      <4>. QED
        BY <2>0, <3>2, <4>1, <4>2
    <3>3. CASE i \notin DOMAIN jobs
      <4>1. \/ DeletesAdded(d) /\ jobs'[i].version = deletion[d].version
            \/ UpsertsAdded /\ d = rowDoc /\ jobs'[i].version = runtime.version
            \/ jobs'[i].version = item[d].version
        BY <1>0, <3>1, <3>3, NewJobs
      <4>2. DeletesAdded(d) => deletion[d].version <= item[d].version
        BY <1>2 DEF DeletesAdded, EnqueueDeletes, Versioned
      <4>3. UpsertsAdded /\ d = rowDoc => runtime.version <= item[d].version
        BY DEF UpsertsAdded, Enqueuing
      <4>. QED
        BY <2>0, <4>1, <4>2, <4>3
    <3>. QED
      BY <3>2, <3>3
  <2>2. ASSUME deletion'[d].open
        PROVE  /\ deletion'[d].version <= item'[d].version
               /\ \A i \in JobsOf(d)' :
                     jobs'[i].status # "purged" /\ jobs'[i].does = "delete" =>
                        jobs'[i].version < deletion'[d].version
    <3>1. CASE Deletes(d)
      <4>1. /\ deletion'[d].version = item[d].version + 1
            /\ item'[d].version = item[d].version + 1 /\ jobs' = jobs
        BY <3>1 DEF Deletes
      <4>2. \A i \in JobsOf(d) : jobs[i].status # "purged" => jobs[i].version <= item[d].version
        BY <1>2 DEF Versioned
      <4>. QED
        BY <2>0, <4>1, <4>2 DEF JobsOf
    <3>2. CASE ~Deletes(d)
      <4>1. deletion'[d] = deletion[d] /\ deletion[d].open
        BY <1>0, <2>2, <3>2 DEF DeletionMoves
      <4>2. /\ deletion[d].version <= item[d].version
            /\ \A i \in JobsOf(d) : jobs[i].status # "purged" /\ jobs[i].does = "delete" =>
                  jobs[i].version < deletion[d].version
        BY <1>2, <4>1 DEF Versioned
      <4>3. ~DeletesAdded(d)
        <5>1. DeletesAdded(d) => ~deletion'[d].open
          BY <1>0 DEF DeletesAdded, EnqueueDeletes, TypeOK, NoDeletion
        <5>. QED
          BY <2>2, <5>1
      <4>4. ASSUME NEW i \in JobsOf(d)', jobs'[i].status # "purged", jobs'[i].does = "delete"
            PROVE  jobs'[i].version < deletion[d].version
        <5>1. i \in DOMAIN jobs' /\ jobs'[i].doc = d
          BY DEF JobsOf
        <5>2. i \in DOMAIN jobs
          BY <1>0, <4>3, <4>4, <5>1, NewJobs
        <5>3. /\ i \in JobsOf(d) /\ jobs[i].status # "purged" /\ jobs[i].does = "delete"
              /\ jobs'[i].version = jobs[i].version
          BY <1>0, <4>4, <5>1, <5>2, OldJob DEF JobsOf
        <5>. QED
          BY <4>2, <5>3
      <4>. QED
        BY <2>0, <4>1, <4>2, <4>4
    <3>. QED
      BY <3>1, <3>2
  <2>. QED
    BY <2>1, <2>2
<1>. QED
  BY <1>1, <1>2

\* The row at hand, while the runtime does nothing, is the same.
LEMMA SameRow ==
    ASSUME Inv, [Next]_vars, runtime.at \in RowSteps, runtime'.now = runtime.now
    PROVE  rowDoc \in Docs /\ rowDoc' = rowDoc /\ row \in RowsOf(rowDoc)
<1>1. RowsMove /\ row \in DOMAIN ingestion /\ rowDoc \in Docs
  BY NextMovesRows, AtHand DEF Inv
<1>. QED
  BY <1>1 DEF RowsMove, RowMoves, rowDoc, row, RowsOf

LEMMA EnqueuingNext ==
    ASSUME Inv, InBatch, Spent, Versioned, Enqueuing, [Next]_vars PROVE Enqueuing'
<1>0. TypeOK /\ InHand /\ JobsMove /\ HandsMove
  BY NextMovesJobs, NextMovesHands DEF Inv
<1>. SUFFICES ASSUME runtime'.at = "enqueue"
              PROVE  /\ item'[rowDoc'].there /\ runtime'.version <= item'[rowDoc'].version
                     /\ \A i \in JobsOf(rowDoc)' :
                           jobs'[i].status # "purged" /\ jobs'[i].does = "upsert"
                           /\ jobs'[i].suffix = 0 => jobs'[i].version < runtime'.version
  BY DEF Enqueuing
<1>1. CASE UpsertItem
  <2>. DEFINE d == rowDoc
  <2>1. /\ d \in Docs /\ item'[d].there /\ item'[d].version = item[d].version + 1
        /\ runtime'.version = item'[d].version /\ jobs' = jobs
        /\ runtime.at \in RowSteps /\ runtime'.now = runtime.now
    BY <1>0, <1>1, UpsertItemDoes DEF UpsertItem, RowSteps
  <2>2. rowDoc' = d
    BY <2>1, SameRow
  <2>. HIDE DEF d
  <2>3. item[d].version \in Nat /\ \A i \in DOMAIN jobs : jobs[i].version \in Nat
    <3>1. \A i \in DOMAIN jobs : jobs[i] \in Jobs
      BY <1>0 DEF TypeOK
    <3>. QED
      BY <1>0, <2>1, <3>1 DEF TypeOK, Items, Jobs
  <2>4. \A i \in JobsOf(d) : jobs[i].status # "purged" => jobs[i].version <= item[d].version
    BY <2>1, ComesAnew DEF Versioned, Projected
  <2>5. \A i \in JobsOf(d) : jobs[i].status # "purged" => jobs[i].version < runtime'.version
    BY <2>1, <2>3, <2>4 DEF JobsOf
  <2>6. JobsOf(rowDoc)' = JobsOf(d)
    BY <2>1, <2>2 DEF JobsOf
  <2>. QED
    BY <2>1, <2>2, <2>3, <2>5, <2>6
<1>2. CASE runtime' = runtime
  <2>1. runtime.at = "enqueue" /\ runtime.at \in RowSteps
    BY <1>2 DEF RowSteps
  <2>0. rowDoc \in Docs /\ rowDoc' = rowDoc
    BY <1>2, <2>1, SameRow
  <2>2. PICK d \in Docs : d = rowDoc /\ rowDoc' = d
    BY <2>0
  <2>3. /\ item[d].there /\ runtime.version <= item[d].version
        /\ \A i \in JobsOf(d) :
              jobs[i].status # "purged" /\ jobs[i].does = "upsert" /\ jobs[i].suffix = 0 =>
                 jobs[i].version < runtime.version
    BY <2>1, <2>2 DEF Enqueuing
  <2>4. item'[d].there
    BY <2>1, <2>2, <2>3, NextMovesItems DEF ItemMoves, Deletes, Purge
  <2>5. runtime.version <= item'[d].version
    BY <2>2, <2>3, <2>4, VersionsGrow
  <2>6. ASSUME NEW i \in JobsOf(d)', jobs'[i].status # "purged", jobs'[i].does = "upsert",
               jobs'[i].suffix = 0
        PROVE  jobs'[i].version < runtime.version
    <3>1. i \in DOMAIN jobs' /\ jobs'[i].doc = d
      BY DEF JobsOf
    <3>2. ~UpsertsAdded
      BY <1>0, <1>2, <2>1, GoesOn DEF UpsertsAdded
    <3>3. i \in DOMAIN jobs
      BY <1>0, <2>2, <2>6, <3>1, <3>2, NewJobs
    <3>4. /\ i \in JobsOf(d) /\ jobs[i].status # "purged" /\ jobs[i].does = "upsert"
          /\ jobs[i].suffix = 0 /\ jobs'[i].version = jobs[i].version
      BY <1>0, <2>6, <3>1, <3>3, OldJob DEF JobsOf
    <3>. QED
      BY <2>3, <3>4
  <2>7. JobsOf(rowDoc)' = JobsOf(d)'
    BY <2>2 DEF JobsOf
  <2>. QED
    BY <1>2, <2>2, <2>4, <2>5, <2>6, <2>7
<1>. QED
  BY <1>0, <1>1, <1>2 DEF HandsMove

-----------------------------------------------------------------------------
(* What is not projected yet has a job to come *)

Stores == {"vector", "kg"}

MarkOf(d, p) == IF p = "vector" THEN item[d].vector ELSE item[d].kg
HeldIn(d, p) == IF p = "vector" THEN index[d].vector ELSE index[d].kg

\* A job that has yet to be done, or was given up
ToCome(d, does, p) ==
    \E i \in JobsOf(d) :
       /\ jobs[i].does = does /\ jobs[i].projection = p
       /\ jobs[i].status \in Open \cup {"dead_letter"}
       /\ ~(i = runtime.now /\ runtime.at \in {"done", "purge"})

\* The job at hand is that job.
IsAtHand(d, does, p) == job.doc = d /\ job.does = does /\ job.projection = p

\* What an upsert marks as synced was written.
Written == runtime.at = "mark" /\ job.does = "upsert" /\ job.projection \in Stores
              => HeldIn(job.doc, job.projection)

\* A deleted item is marked so, or a job will delete it from the index.
DeletesCome == \A d \in Docs, p \in Stores :
    item[d].there /\ ~item[d].live /\ faults["crash"] = 0 =>
       MarkOf(d, p) = "deleted" \/ deletion[d].open \/ ToCome(d, "delete", p)

\* An item that was never deleted is in the index and marked so, or a job will
\* bring it there.
Undeleted(d) == ~deletion[d].open /\ \A i \in JobsOf(d) : jobs[i].does = "upsert"

UpsertsCome == \A d \in Docs, p \in Stores :
    item[d].live /\ faults["crash"] = 0 /\ Undeleted(d) =>
       \/ MarkOf(d, p) = "synced" /\ HeldIn(d, p)
       \/ runtime.at = "enqueue" /\ rowDoc = d
       \/ ToCome(d, "upsert", p)

\* A job that is to come still is after a step, unless it is the one at hand,
\* and is skipped or marks its item.
LEMMA ToComeStays ==
    ASSUME Inv, InBatch, [Next]_vars, NEW d \in Docs, NEW does, NEW p \in Stores,
           ToCome(d, does, p)
    PROVE  \/ ToCome(d, does, p)'
           \/ IsAtHand(d, does, p) /\ ((ReadItem /\ Skips) \/ Mark)
<1>0. TypeOK /\ InHand /\ JobsMove /\ HandsMove
  BY NextMovesJobs, NextMovesHands DEF Inv
<1>1. PICK i \in JobsOf(d) : /\ jobs[i].does = does /\ jobs[i].projection = p
                             /\ jobs[i].status \in Open \cup {"dead_letter"}
                             /\ ~(i = runtime.now /\ runtime.at \in {"done", "purge"})
  BY DEF ToCome
<1>2. i \in DOMAIN jobs /\ jobs[i].doc = d /\ JobMoves(i)
  BY <1>0, <1>1 DEF JobsOf, JobsMove
<1>3. /\ i \in DOMAIN jobs' /\ jobs'[i].doc = d /\ jobs'[i].does = does
      /\ jobs'[i].projection = p
  BY <1>1, <1>2 DEF JobMoves, SameJob, SameKey
<1>4. ~(i = runtime.now /\ CompleteJob)
  BY <1>1 DEF CompleteJob
<1>5. ~Purgeable(jobs[i].doc)
  BY <1>1, <1>2 DEF Purgeable, Open
<1>6. jobs'[i].status \in Open \cup {"dead_letter"}
  BY <1>1, <1>2, <1>4, <1>5 DEF JobMoves, Open
<1>7. CASE i = runtime'.now /\ runtime'.at \in {"done", "purge"}
  <2>1. runtime' # runtime
    BY <1>1, <1>7
  <2>2. i = runtime.now /\ ((ReadItem /\ Skips) \/ Mark)
    BY <1>0, <1>4, <1>7, <2>1 DEF HandsMove
  <2>. QED
    BY <1>1, <1>2, <2>2 DEF IsAtHand, job
<1>8. CASE ~(i = runtime'.now /\ runtime'.at \in {"done", "purge"})
  BY <1>3, <1>6, <1>8 DEF ToCome, JobsOf
<1>. QED
  BY <1>7, <1>8

\* A job that was added is to come.
LEMMA AddedComes ==
    ASSUME TypeOK, InHand, NEW d \in Docs, NEW does, NEW v, NEW s, NEW f, NEW p \in Stores,
           Adds(d, does, v, s, f), ~Known(jobs, Job(d, does, p, v, s, f)),
           runtime'.now = runtime.now \/ runtime'.at \notin {"done", "purge"},
           runtime'.at = runtime.at \/ runtime'.at \notin {"done", "purge"}
    PROVE  ToCome(d, does, p)'
<1>1. PICK i \in DOMAIN jobs' :
         jobs'[i].status = "pending" /\ SameKey(jobs'[i], Job(d, does, p, v, s, f))
  BY DEF Adds, Stores
<1>2. i \notin DOMAIN jobs
  BY <1>1 DEF Adds, Known
<1>3. runtime.at \in {"done", "purge"} => runtime.now \in DOMAIN jobs
  BY AtHand DEF JobSteps
<1>4. ~(i = runtime'.now /\ runtime'.at \in {"done", "purge"})
  BY <1>2, <1>3
<1>5. jobs'[i].doc = d /\ jobs'[i].does = does /\ jobs'[i].projection = p
  BY <1>1 DEF SameKey, Job
<1>. QED
  BY <1>1, <1>4, <1>5 DEF ToCome, JobsOf, Open

LEMMA WrittenNext == ASSUME Inv, InBatch, Written, [Next]_vars PROVE Written'
<1>0. TypeOK /\ InHand /\ Gone /\ JobsMove /\ HandsMove
  BY NextMovesJobs, NextMovesHands DEF Inv
<1>. SUFFICES ASSUME runtime'.at = "mark", job'.does = "upsert", job'.projection \in Stores
              PROVE  HeldIn(job.doc, job.projection)'
  BY DEF Written
<1>1. CASE runtime' = runtime
  <2>1. UNCHANGED index
    <3>1. ~Write
      BY <1>0, <1>1, GoesOn DEF Write
    <3>. QED
      BY <1>0, <3>1 DEF HandsMove
  <2>2. runtime.now \in DOMAIN jobs
    BY <1>0, <1>1, AtHand DEF JobSteps
  <2>3. job'.does = job.does /\ job'.doc = job.doc /\ job'.projection = job.projection
    BY <1>0, <1>1, <2>2 DEF JobsMove, JobMoves, SameJob, SameKey, job
  <2>. QED
    BY <1>1, <2>1, <2>3 DEF Written, HeldIn
<1>2. CASE Write /\ runtime'.now = runtime.now
  <2>1. job' = job
    BY <1>2 DEF Write, job
  <2>2. job.projection # "classification"
    BY <1>0, <1>2 DEF Gone, Write
  <2>. QED
    BY <1>0, <1>2, <2>1, <2>2, WriteDoes DEF HeldIn, Stores
<1>3. CASE ReadItem /\ runtime'.now = runtime.now /\ job.projection = "classification"
  BY <1>3 DEF ReadItem, Stored, job, Stores
<1>. QED
  BY <1>0, <1>1, <1>2, <1>3 DEF HandsMove

-----------------------------------------------------------------------------
(* Deleted items *)

LEMMA DeletesComeNext ==
    ASSUME Inv, InBatch, Versioned, DeletesCome, [Next]_vars PROVE DeletesCome'
<1>. SUFFICES ASSUME NEW d \in Docs, NEW p \in Stores, item'[d].there, ~item'[d].live,
                     faults'["crash"] = 0,
                     ~deletion'[d].open, ~ToCome(d, "delete", p)'
              PROVE  MarkOf(d, p)' = "deleted"
  BY DEF DeletesCome
<1>0. /\ TypeOK /\ InHand /\ Gone /\ ItemMoves(d) /\ DeletionMoves(d)
      /\ faults["crash"] = 0 /\ p \in {"vector", "kg"}
  BY NextMovesItems, FaultsStay DEF Inv, Kinds, Stores
<1>1. /\ item[d].there /\ ~item[d].live
      /\ \/ item'[d] = item[d]
         \/ (Embed \/ Mark) /\ d = job.doc
  BY <1>0 DEF ItemMoves, Deletes
<1>2. CASE MarkOf(d, p) = "deleted"
  <2>1. CASE item'[d] = item[d]
    BY <1>2, <2>1 DEF MarkOf
  <2>2. CASE Embed /\ d = job.doc
    <3>1. job.projection = "vector" /\ item[d].vector # "deleted"
      BY <1>0, <1>1, <2>2 DEF Gone, Embed, Unmarked
    <3>. QED
      BY <1>0, <1>2, <2>2, <3>1, EmbedDoes DEF MarkOf
  <2>3. CASE Mark /\ d = job.doc
    <3>1. job.does = "upsert" => MarkOf(d, job.projection) # "deleted"
                                 \/ job.projection = "classification"
      BY <1>0, <1>1, <2>3 DEF Gone, Mark, Unmarked, MarkOf
    <3>. QED
      BY <1>0, <1>1, <1>2, <2>3, <3>1, MarkDoes DEF MarkOf
  <2>. QED
    BY <1>1, <2>1, <2>2, <2>3
<1>3. CASE deletion[d].open
  <2>1. DeletesAdded(d)
    BY <1>0, <1>3, EnqueueDeletesAdds DEF DeletionMoves, Deletes
  <2>2. ~Known(jobs, Job(d, "delete", p, deletion[d].version, 0, deletion[d].force))
    <3>. SUFFICES ASSUME NEW i \in DOMAIN jobs, jobs[i].status # "purged", jobs[i].doc = d,
                         jobs[i].does = "delete", jobs[i].version = deletion[d].version
                  PROVE  FALSE
      BY DEF Known, SameKey, Job
    <3>1. jobs[i].version < deletion[d].version /\ deletion[d].version \in Nat
      BY <1>0, <1>1, <1>3 DEF Versioned, JobsOf, TypeOK
    <3>. QED
      BY <3>1
  <2>3. runtime' = runtime
    BY <2>1 DEF DeletesAdded, EnqueueDeletes
  <2>. QED
    BY <1>0, <2>1, <2>2, <2>3, AddedComes DEF DeletesAdded
<1>4. CASE ToCome(d, "delete", p)
  <2>1. IsAtHand(d, "delete", p) /\ ((ReadItem /\ Skips) \/ Mark)
    BY <1>4, ToComeStays
  <2>2. ~(ReadItem /\ Skips)
    BY <1>0, <1>1, <2>1 DEF IsAtHand, Skips
  <2>3. Mark /\ job.doc = d /\ job.does = "delete" /\ job.projection = p
    BY <2>1, <2>2 DEF IsAtHand
  <2>. QED
    BY <1>0, <1>1, <2>3, MarkDoes DEF MarkOf
<1>. QED
  BY <1>0, <1>1, <1>2, <1>3, <1>4 DEF DeletesCome

-----------------------------------------------------------------------------
(* Items that live *)

\* A document that was not deleted after a step was not before.
LEMMA UndeletedBefore ==
    ASSUME Inv, InBatch, [Next]_vars, NEW d \in Docs, faults'["crash"] = 0, Undeleted(d)'
    PROVE  Undeleted(d)
<1>0. TypeOK /\ JobsMove /\ DeletionMoves(d)
  BY NextMovesJobs, NextMovesItems DEF Inv
<1>1. ~deletion'[d].open /\ \A i \in DOMAIN jobs' : jobs'[i].doc = d => jobs'[i].does = "upsert"
  BY DEF Undeleted, JobsOf
<1>2. \A i \in JobsOf(d) : jobs[i].does = "upsert"
  BY <1>0, <1>1, OldJob DEF JobsOf
<1>3. ASSUME deletion[d].open PROVE FALSE
  <2>1. DeletesAdded(d)
    BY <1>0, <1>1, <1>3, EnqueueDeletesAdds DEF DeletionMoves, Deletes
  <2>2. \/ \E i \in DOMAIN jobs : jobs[i].doc = d /\ jobs[i].does = "delete"
        \/ \E i \in DOMAIN jobs' : jobs'[i].doc = d /\ jobs'[i].does = "delete"
    BY <2>1 DEF DeletesAdded, Adds, Known, SameKey, Job
  <2>. QED
    BY <1>1, <1>2, <2>2 DEF JobsOf
<1>. QED
  BY <1>2, <1>3 DEF Undeleted

\* Nothing takes it out of the index.
LEMMA HeldStays ==
    ASSUME Inv, [Next]_vars, NEW d \in Docs, NEW p \in Stores, Undeleted(d), HeldIn(d, p)
    PROVE  HeldIn(d, p)'
<1>0. TypeOK /\ InHand /\ Gone /\ HandsMove /\ p \in {"vector", "kg"}
  BY NextMovesHands DEF Inv, Stores
<1>1. CASE UNCHANGED index
  BY <1>1 DEF HeldIn
<1>2. CASE Write
  <2>1. job.projection # "classification"
    BY <1>0, <1>2 DEF Gone, Write
  <2>2. job.doc = d => job.does = "upsert"
    <3>1. runtime.now \in DOMAIN jobs
      BY <1>0, <1>2, AtHand DEF Write, JobSteps
    <3>. QED
      BY <3>1 DEF Undeleted, JobsOf, job
  <2>3. job \in Jobs
    BY <1>0, <1>2, AtHand DEF Write, JobSteps
  <2>4. job.projection \in {"vector", "kg"}
    BY <2>1, <2>3 DEF Jobs, Projections
  <2>. QED
    BY <1>0, <1>2, <2>1, <2>2, <2>4, WriteDoes DEF HeldIn
<1>. QED
  BY <1>0, <1>1, <1>2 DEF HandsMove

LEMMA UpsertsComeNext ==
    ASSUME Inv, Inv', InBatch, Enqueuing, Written, UpsertsCome, [Next]_vars PROVE UpsertsCome'
<1>. SUFFICES ASSUME NEW d \in Docs, NEW p \in Stores, item'[d].live,
                     faults'["crash"] = 0, Undeleted(d)',
                     ~(runtime'.at = "enqueue" /\ rowDoc' = d), ~ToCome(d, "upsert", p)'
              PROVE  MarkOf(d, p)' = "synced" /\ HeldIn(d, p)'
  BY DEF UpsertsCome
<1>0. /\ TypeOK /\ InHand /\ Gone /\ HandsMove /\ ItemMoves(d) /\ Undeleted(d)
      /\ faults["crash"] = 0 /\ p \in {"vector", "kg"} /\ item'[d].there
  BY NextMovesHands, NextMovesItems, FaultsStay, UndeletedBefore DEF Inv, Gone, Kinds, Stores
<1>1. ~(UpsertItem /\ d = rowDoc)
  <2>1. UpsertItem => runtime.at \in RowSteps /\ runtime'.now = runtime.now
                      /\ runtime'.at = "enqueue"
    BY <1>0, UpsertItemDoes DEF UpsertItem, RowSteps
  <2>. QED
    BY <2>1, SameRow
<1>2. /\ item[d].live /\ item[d].there
      /\ \/ item'[d] = item[d]
         \/ (Embed \/ Mark) /\ d = job.doc
  BY <1>0, <1>1 DEF ItemMoves, Deletes, Gone
<1>3. job.doc = d /\ runtime.at \in JobSteps => job.does = "upsert"
  <2>1. runtime.at \in JobSteps => runtime.now \in DOMAIN jobs
    BY <1>0, AtHand
  <2>. QED
    BY <1>0, <2>1 DEF Undeleted, JobsOf, job
<1>4. CASE MarkOf(d, p) = "synced" /\ HeldIn(d, p)
  <2>1. HeldIn(d, p)'
    BY <1>0, <1>4, HeldStays
  <2>2. CASE item'[d] = item[d]
    BY <1>4, <2>1, <2>2 DEF MarkOf
  <2>3. CASE Embed /\ d = job.doc
    <3>1. job.projection = "vector" /\ job.does = "upsert"
      BY <1>0, <2>3 DEF Gone, Embed
    <3>2. /\ runtime.now \in DOMAIN jobs /\ jobs[runtime.now].status = "processing"
      BY <1>0, <2>3, JobAtHand DEF Embed, JobSteps
    <3>3. jobs' = jobs /\ runtime'.at = "write"
      BY <1>0, <2>3, EmbedDoes
    <3>4. ToCome(d, "upsert", "vector")'
      BY <2>3, <3>1, <3>2, <3>3 DEF ToCome, JobsOf, Open, job
    <3>5. p = "kg"
      BY <1>0, <3>4
    <3>. QED
      BY <1>0, <1>4, <2>1, <2>3, <3>5, EmbedDoes DEF MarkOf
  <2>4. CASE Mark /\ d = job.doc
    <3>1. job.does = "upsert"
      BY <1>3, <2>4 DEF Mark, JobSteps
    <3>. QED
      BY <1>0, <1>4, <2>1, <2>4, <3>1, MarkDoes DEF MarkOf
  <2>. QED
    BY <1>2, <2>2, <2>3, <2>4
<1>5. CASE runtime.at = "enqueue" /\ rowDoc = d
  <2>1. runtime' # runtime
    <3>1. runtime' = runtime => rowDoc' = d
      BY <1>5, SameRow DEF RowSteps
    <3>. QED
      BY <1>5, <3>1
  <2>2. UpsertsAdded /\ runtime'.at = "complete"
    BY <1>0, <1>5, <2>1, GoesOn, EnqueueUpsertsAdds DEF HandsMove
  <2>3. ~Known(jobs, Job(d, "upsert", p, runtime.version, 0, FALSE))
    <3>. SUFFICES ASSUME NEW i \in DOMAIN jobs, jobs[i].status # "purged", jobs[i].doc = d,
                         jobs[i].does = "upsert", jobs[i].version = runtime.version,
                         jobs[i].suffix = 0
                  PROVE  FALSE
      BY DEF Known, SameKey, Job
    <3>1. jobs[i].version < runtime.version /\ runtime.version \in Nat
      BY <1>0, <1>5 DEF Enqueuing, JobsOf, TypeOK, Hands
    <3>. QED
      BY <3>1
  <2>4. Adds(d, "upsert", runtime.version, 0, FALSE)
    BY <1>5, <2>2 DEF UpsertsAdded
  <2>. QED
    BY <1>0, <2>2, <2>3, <2>4, AddedComes
<1>6. CASE ToCome(d, "upsert", p)
  <2>1. IsAtHand(d, "upsert", p) /\ ((ReadItem /\ Skips) \/ Mark)
    BY <1>6, ToComeStays
  <2>2. ~(ReadItem /\ Skips)
    BY <1>2, <2>1 DEF IsAtHand, Skips
  <2>3. Mark /\ job.doc = d /\ job.does = "upsert" /\ job.projection = p
    BY <2>1, <2>2 DEF IsAtHand
  <2>4. HeldIn(d, p)
    BY <2>3 DEF Written, Mark
  <2>. QED
    BY <1>0, <1>2, <2>3, <2>4, HeldStays, MarkDoes DEF MarkOf
<1>. QED
  BY <1>0, <1>2, <1>4, <1>5, <1>6 DEF UpsertsCome

-----------------------------------------------------------------------------
(* What is done was done *)

Following == /\ Tracked /\ InBatch /\ Sourced /\ Forced /\ Spent /\ Versioned /\ Enqueuing
             /\ Written /\ DeletesCome /\ UpsertsCome

LEMMA InitFollows == Init => Following
<1>. SUFFICES ASSUME Init PROVE Following
  OBVIOUS
<1>1. /\ ingestion = <<>> /\ jobs = <<>> /\ runtime.at = "poll" /\ runtime.jobs = {}
      /\ \A d \in Docs : /\ task[d] = "none" /\ item[d] = NoItem /\ deletion[d] = NoDeletion
  BY DEF Init, Resting
<1>2. DOMAIN ingestion = {} /\ DOMAIN jobs = {}
  BY <1>1
<1>3. \A d \in Docs : /\ RowsOf(d) = {} /\ JobsOf(d) = {} /\ ~deletion[d].open
                      /\ ~item[d].there /\ ~item[d].live
  BY <1>1, <1>2 DEF RowsOf, JobsOf, NoItem, NoDeletion
<1>. QED
  BY <1>1, <1>3 DEF Following, Tracked, InBatch, Sourced, Forced, Spent, Versioned, Enqueuing,
     Written, DeletesCome, UpsertsCome, Projected

LEMMA NextFollows ==
    ASSUME Inv, Following, [Next]_vars PROVE Inv' /\ Following'
BY NextKeeps, TrackedNext, InBatchNext, SourcedNext, ForcedNext, SpentNext, VersionedNext,
   EnqueuingNext, WrittenNext, DeletesComeNext, UpsertsComeNext DEF Following

\* Where everything is done, no job is to come.
LEMMA NoneToCome ==
    ASSUME NEW d \in Docs, Done(d), NEW does, NEW p PROVE ~ToCome(d, does, p)
<1>. SUFFICES ASSUME NEW i \in DOMAIN jobs, jobs[i].doc = d,
                     jobs[i].status \in Open \cup {"dead_letter"}
              PROVE  FALSE
  BY DEF ToCome, JobsOf
<1>1. jobs[i].status \notin Waiting /\ i \notin runtime.jobs
  BY DEF Done, Busy
<1>2. jobs[i].status # "processing" /\ jobs[i].status # "dead_letter"
  BY <1>1 DEF Done, LeftBehind
<1>. QED
  BY <1>1, <1>2 DEF Open, Waiting

LEMMA DeletedEnds == ASSUME Inv, DeletesCome PROVE DeletedIsUnindexed
<1>. SUFFICES ASSUME NEW d \in Docs, Done(d), item[d].there, ~item[d].live
              PROVE  ~index[d].vector /\ ~index[d].kg
  BY DEF DeletedIsUnindexed
<1>1. \A p \in Stores : MarkOf(d, p) = "deleted"
  BY NoneToCome DEF DeletesCome, Done, Busy
<1>2. item[d].vector = "deleted" /\ item[d].kg = "deleted"
  BY <1>1 DEF Stores, MarkOf
<1>. QED
  BY <1>2 DEF Inv, Gone

LEMMA LiveEnds == ASSUME Inv, UpsertsCome PROVE LiveIsIndexed
<1>. SUFFICES ASSUME NEW d \in Docs, Done(d), item[d].live,
                     \A i \in DOMAIN jobs : jobs[i].doc = d => jobs[i].does = "upsert"
              PROVE  /\ index[d].vector /\ index[d].kg
                     /\ item[d].vector = "synced" /\ item[d].kg = "synced"
  BY DEF LiveIsIndexed
<1>1. ~(runtime.at = "enqueue" /\ rowDoc = d)
  <2>. SUFFICES ASSUME runtime.at = "enqueue", rowDoc = d PROVE FALSE
    OBVIOUS
  <2>1. row \in DOMAIN ingestion /\ ingestion[row].doc = d /\ row \in runtime.rows
    BY AtHand DEF Inv, InHand, RowSteps, row, rowDoc
  <2>. QED
    BY <2>1 DEF Done, Busy
<1>2. Undeleted(d) /\ faults["crash"] = 0
  BY DEF Undeleted, JobsOf, Done, Busy
<1>3. \A p \in Stores : MarkOf(d, p) = "synced" /\ HeldIn(d, p)
  BY <1>1, <1>2, NoneToCome DEF UpsertsCome
<1>. QED
  BY <1>3 DEF Stores, MarkOf, HeldIn

\* The inductive invariant, together with Inv: while nothing is lost, what is
\* unfinished of a document has a request, a deletion or a job that will finish it.
THEOREM FollowingInvariant == Spec => [](Inv /\ Following)
<1>1. Init => Inv /\ Following
  BY InitHolds, InitFollows
<1>2. (Inv /\ Following) /\ [Next]_vars => (Inv /\ Following)'
  BY NextFollows
<1>. QED
  BY <1>1, <1>2, PTL DEF Spec

\* A document that was extracted and is done has told its background task: every
\* way through process_batch that ends a request ends in complete_extraction_task
\* or fail_extraction_task, but for those that the property excludes.
THEOREM TasksOfDocumentsEnd == Spec => []TaskEnds
<1>1. Inv /\ Following => TaskEnds
  BY TrackedEnds DEF Following
<1>. QED
  BY FollowingInvariant, <1>1, PTL

\* An item that soft_delete_source or delete_by_metadata marked, and whose jobs
\* are all done, is in neither index, in whatever order its upserts and deletes
\* ran, failed and were retried.
THEOREM DeletedAreUnindexed == Spec => []DeletedIsUnindexed
<1>1. Inv /\ Following => DeletedIsUnindexed
  BY DeletedEnds DEF Following
<1>. QED
  BY FollowingInvariant, <1>1, PTL

\* An item that lives, was never deleted, and whose jobs are all done, is in both
\* indexes and marked so: no retry, reload or rebuild loses its upserts.
THEOREM LiveAreIndexed == Spec => []LiveIsIndexed
<1>1. Inv /\ Following => LiveIsIndexed
  BY LiveEnds DEF Following
<1>. QED
  BY FollowingInvariant, <1>1, PTL
=============================================================================
