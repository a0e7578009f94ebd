------------------------------ MODULE EmbedQueue ------------------------------
(****************************************************************************)
(* The 'file-embeddings' queue of MONAD and the worker that drains it:      *)
(* EmbedFileJob (admin/app/jobs/embed_file_job.ts) on top of BullMQ, the    *)
(* Qdrant points a batch adds, and the kb_ingest_state row the worker       *)
(* writes.  A ZIM archive is embedded in batches: the job of batch b        *)
(* enqueues the job of batch b+1 before it returns, so a file in progress   *)
(* is a chain of jobs.  The first job of a chain has an id derived from the *)
(* file path (modelled as the file itself); continuations and forced        *)
(* re-embeds get an id of their own (AutoIds).                              *)
(****************************************************************************)
EXTENDS Naturals, FiniteSets

CONSTANTS
    Zims,           \* ZIM archives under storage/zim
    Uploads,        \* user files under storage/kb_uploads
    Docs,           \* README and docs/, embedded by discoverMonadDocs
    Preloaded,      \* files already in storage when the system starts
    NumBatches,     \* batches a file needs: articles / ZIM_BATCH_SIZE, 1 if no ZIM
    AutoIds,        \* BOUND: generated job ids of one behaviour
    Concurrency,    \* jobs a worker runs at a time (2 in work.ts)
    MaxAttempts,    \* attempts of a job (30 in the code)
    KeepCompleted,  \* removeOnComplete.count (50 in the code)
    KeepFailed,     \* removeOnFail.count (20 in the code)
    MaxFaults       \* BOUND: errors and crashes in one behaviour

Files == Zims \cup Uploads \cup Docs
JobIds == Files \cup AutoIds

ASSUME EmbedQueueAssumption ==
    /\ Files # {}
    /\ Files \cap AutoIds = {}
    /\ Preloaded \subseteq Files
    /\ NumBatches \in [Files -> Nat \ {0}]
    /\ \A f \in Files \ Zims : NumBatches[f] = 1
    /\ Concurrency \in Nat \ {0}
    /\ MaxAttempts \in Nat \ {0}
    /\ KeepCompleted \in Nat \ {0}
    /\ KeepFailed \in Nat \ {0}
    /\ MaxFaults \in Nat

VARIABLES
    job,        \* JobIds -> what Redis holds under that id
    points,     \* Files -> batch -> copies of its chunks in Qdrant
    row,        \* Files -> kb_ingest_state row: its state and chunks_embedded
    disk,       \* files present in storage
    ran,        \* history: batches of a file whose processing returned success
    gaveUp,     \* history: files one of whose jobs failed for good or was removed
    faults      \* faults used so far

queueVars == <<job, points, row, disk, ran, gaveUp, faults>>
----------------------------------------------------------------------------
(* The shape of the state *)

Phases == {"idle", "start", "embed", "dispatch", "finish", "mark", "close", "lost"}
LiveStates == {"waiting", "active", "delayed"}
JobStates == LiveStates \cup {"none", "completed", "failed", "gone"}
RowStates == {"none", "pending_decision", "indexed", "browse_only", "failed", "stalled"}

\* age: how many entries reached the same terminal state later than this one
\* failed: data.status = 'failed', written by the catch block of handle()
\* got: chunks of the batch just processed; chunks: data.chunks
Job == [st : JobStates, file : Files, off : Nat, ph : Phases, tries : Nat,
        stalls : Nat, failed : BOOLEAN, got : Nat, chunks : Nat, age : Nat]

NewJob(f, b) ==
    [st |-> "waiting", file |-> f, off |-> b, ph |-> "idle", tries |-> 0,
     stalls |-> 0, failed |-> FALSE, got |-> 0, chunks |-> 0, age |-> 0]

\* What Redis holds after an entry was dropped. A path-derived id can be used again,
\* a generated one never is.
Dropped(j, f) == [NewJob(f, 0) EXCEPT !.st = IF j \in Files THEN "none" ELSE "gone"]

AnyFile == CHOOSE f \in Files : TRUE
Batches(f) == 0 .. NumBatches[f] - 1
Row == [st : RowStates, chunks : Nat]
NoRow == [st |-> "none", chunks |-> 0]

QueueTypeOK ==
    /\ job \in [JobIds -> Job]
    /\ \A j \in JobIds : job[j].off \in Batches(job[j].file)
    /\ DOMAIN points = Files
    /\ \A f \in Files : points[f] \in [Batches(f) -> Nat]
    /\ row \in [Files -> Row]
    /\ disk \subseteq Files
    /\ DOMAIN ran = Files
    /\ \A f \in Files : ran[f] \subseteq Batches(f)
    /\ gaveUp \subseteq Files
    /\ faults \in 0 .. MaxFaults

QueueInit ==
    /\ job = [j \in JobIds |->
                [NewJob(IF j \in Files THEN j ELSE AnyFile, 0) EXCEPT !.st = "none"]]
    /\ points = [f \in Files |-> [b \in Batches(f) |-> 0]]
    /\ row = [f \in Files |-> NoRow]
    /\ disk = Docs \cup Preloaded
    /\ ran = [f \in Files |-> {}]
    /\ gaveUp = {}
    /\ faults = 0
----------------------------------------------------------------------------
(* BullMQ: adding, retiring and removing entries *)

Live(j) == job[j].st \in LiveStates
LiveJobs(f) == {j \in JobIds : Live(j) /\ job[j].file = f}
HasChunks(f) == \E b \in Batches(f) : points[f][b] > 0
AllRan(f) == ran[f] = Batches(f)

\* MUTANT of AddFirst: a finished entry under the id no longer blocks it.
AddFirst_Again(f) ==
    job' = IF ~Live(f) THEN [job EXCEPT ![f] = NewJob(f, 0)] ELSE job

\* queue.add with the deterministic id: when Redis still holds an entry under it,
\* in whatever state, the call succeeds and adds nothing.
AddFirst(f) ==
    job' = IF job[f].st = "none" THEN [job EXCEPT ![f] = NewJob(f, 0)] ELSE job

\* queue.add without an id: a continuation, or a dispatch with force.
FreshIds == {k \in AutoIds : job[k].st = "none"}
FreshId == CHOOSE k \in FreshIds : TRUE
AddFresh(f, b) ==
    /\ FreshIds # {}
    /\ job' = [job EXCEPT ![FreshId] = NewJob(f, b)]

\* j reaches the terminal state s: it is the youngest entry there, and the entry
\* that is now one too many is dropped.
Retire(j, s, keep) ==
    job' = [k \in JobIds |->
              CASE k = j ->
                     [NewJob(job[j].file, job[j].off) EXCEPT
                        !.st = s,
                        !.failed = s = "failed" /\ (job[j].ph # "lost" \/ job[j].failed)]
                [] k # j /\ job[k].st = s /\ job[k].age + 1 >= keep ->
                     Dropped(k, job[k].file)
                [] k # j /\ job[k].st = s /\ job[k].age + 1 < keep ->
                     [job[k] EXCEPT !.age = @ + 1]
                [] OTHER -> job[k]]

\* job.remove(): the entry disappears, the older ones of its state move up.
Remove(j) ==
    job' = [k \in JobIds |->
              IF k = j THEN Dropped(j, job[j].file)
              ELSE IF job[k].st = job[j].st /\ job[k].age > job[j].age
              THEN [job[k] EXCEPT !.age = @ - 1]
              ELSE job[k]]

Fault == faults < MaxFaults /\ faults' = faults + 1
NoFault == UNCHANGED faults
----------------------------------------------------------------------------
(* The worker: BullMQ around EmbedFileJob.handle *)

InPhase(j, ph) == job[j].st = "active" /\ job[j].ph = ph
SetJob(j, r) == job' = [job EXCEPT ![j] = r]
GoTo(j, ph) == SetJob(j, [job[j] EXCEPT !.ph = ph])
Running == {j \in JobIds : job[j].st = "active" /\ job[j].ph # "lost"}

Start(j) ==
    /\ job[j].st = "waiting"
    /\ Cardinality(Running) < Concurrency
    /\ SetJob(j, [job[j] EXCEPT !.st = "active", !.ph = "start"])
    /\ UNCHANGED <<points, row, disk, ran, gaveUp, faults>>

CheckServices(j) ==
    /\ InPhase(j, "start")
    /\ SetJob(j, [job[j] EXCEPT !.ph = "embed", !.failed = FALSE])
    /\ UNCHANGED <<points, row, disk, ran, gaveUp, faults>>

\* Ollama or Qdrant is away: UnrecoverableError, and the row says so unless
\* writing it fails too.
ServicesDown(j) ==
    /\ InPhase(j, "start")
    /\ Retire(j, "failed", KeepFailed)
    /\ gaveUp' = gaveUp \cup {job[j].file}
    /\ \/ Fault /\ row' = [row EXCEPT ![job[j].file].st = "failed"]
       \/ faults + 1 < MaxFaults /\ faults' = faults + 2 /\ UNCHANGED row
    /\ UNCHANGED <<points, disk, ran>>

\* MUTANT of Retry: attempts are not counted.
Retry_Uncounted(j) ==
    /\ SetJob(j, [job[j] EXCEPT !.st = "delayed", !.ph = "idle", !.failed = TRUE,
                               !.got = 0])
    /\ UNCHANGED gaveUp

\* An ordinary error: the job is delayed until its attempts are used up.
Retry(j) ==
    IF job[j].tries + 1 < MaxAttempts
    THEN /\ SetJob(j, [job[j] EXCEPT !.st = "delayed", !.ph = "idle", !.failed = TRUE,
                                    !.got = 0, !.tries = job[j].tries + 1])
         /\ UNCHANGED gaveUp
    ELSE /\ Retire(j, "failed", KeepFailed)
         /\ gaveUp' = gaveUp \cup {job[j].file}

StoreBatch(f, b) == points' = [points EXCEPT ![f][b] = @ + 1]

\* MUTANTS of EmbedBatch: every batch is followed by another; the last but one is
\* taken for the last.
EmbedBatch_Endless(j) ==
    LET f == job[j].file IN
    /\ InPhase(j, "embed")
    /\ f \in disk
    /\ ran' = [ran EXCEPT ![f] = @ \cup {job[j].off}]
    /\ StoreBatch(f, job[j].off)
    /\ SetJob(j, [job[j] EXCEPT !.got = 1, !.ph = "dispatch"])
    /\ UNCHANGED <<row, disk, gaveUp, faults>>

EmbedBatch_EndsEarly(j) ==
    LET f == job[j].file
        b == job[j].off
    IN /\ InPhase(j, "embed")
       /\ f \in disk
       /\ ran' = [ran EXCEPT ![f] = @ \cup {b}]
       /\ StoreBatch(f, b)
       /\ SetJob(j, [job[j] EXCEPT !.got = 1,
                                   !.ph = IF b + 2 < NumBatches[f]
                                          THEN "dispatch" ELSE "finish"])
       /\ UNCHANGED <<row, disk, gaveUp, faults>>

\* processAndEmbedFile returned success. ZIM chunks whose embedding came back
\* null are skipped silently, so a ZIM batch can succeed and store nothing.
EmbedBatch(j) ==
    LET f == job[j].file
        b == job[j].off
    IN /\ InPhase(j, "embed")
       /\ f \in disk
       /\ ran' = [ran EXCEPT ![f] = @ \cup {b}]
       /\ \E stored \in {0, 1} :
            /\ IF stored = 1 THEN StoreBatch(f, b) /\ NoFault
               ELSE f \in Zims /\ Fault /\ UNCHANGED points
            /\ SetJob(j, [job[j] EXCEPT !.got = stored,
                                        !.ph = IF b + 1 < NumBatches[f]
                                               THEN "dispatch" ELSE "finish"])
       /\ UNCHANGED <<row, disk, gaveUp>>

\* processAndEmbedFile returned success: false. The file is gone, or something
\* failed, possibly after the points had been written.
EmbedFails(j) ==
    LET f == job[j].file IN
    /\ InPhase(j, "embed")
    /\ \/ f \notin disk /\ NoFault /\ UNCHANGED points
       \/ f \in disk /\ Fault /\ (UNCHANGED points \/ StoreBatch(f, job[j].off))
    /\ Retry(j)
    /\ UNCHANGED <<row, disk, ran>>

\* MUTANTS of Continue: a batch is skipped; the continuation reuses the id of the
\* file, so that Redis, which still holds the first job, swallows it.
Continue_Skips(j) ==
    LET k == FreshId IN
    /\ InPhase(j, "dispatch")
    /\ FreshIds # {}
    /\ job' = [job EXCEPT ![k] = NewJob(job[j].file, job[j].off + 2),
                          ![j] = [job[j] EXCEPT !.ph = "close"]]
    /\ UNCHANGED <<points, row, disk, ran, gaveUp, faults>>

Continue_SameId(j) ==
    /\ InPhase(j, "dispatch")
    /\ GoTo(j, "close")
    /\ UNCHANGED <<points, row, disk, ran, gaveUp, faults>>

\* More batches remain: enqueue the next one while this job is still active.
Continue(j) ==
    LET k == FreshId IN
    /\ InPhase(j, "dispatch")
    /\ FreshIds # {}
    /\ job' = [job EXCEPT ![k] = NewJob(job[j].file, job[j].off + 1),
                          ![j] = [job[j] EXCEPT !.ph = "close"]]
    /\ UNCHANGED <<points, row, disk, ran, gaveUp, faults>>

ContinueFails(j) ==
    /\ InPhase(j, "dispatch")
    /\ Fault
    /\ Retry(j)
    /\ UNCHANGED <<points, row, disk, ran>>

\* An error while a job records its progress, after the next batch was enqueued or
\* before the row was written: the whole job will be run again.
RecordFails(j) ==
    /\ \/ InPhase(j, "close") /\ job[j].off + 1 < NumBatches[job[j].file]
       \/ InPhase(j, "finish")
    /\ Fault
    /\ Retry(j)
    /\ UNCHANGED <<points, row, disk, ran>>

\* MUTANT of Finish: the row is not written.
Finish_NoRow(j) ==
    /\ InPhase(j, "finish")
    /\ GoTo(j, "close")
    /\ UNCHANGED <<points, row, disk, ran, gaveUp, faults>>

\* Final batch: totalChunks is stored in the job's own data first ...
Finish(j) ==
    /\ InPhase(j, "finish")
    /\ SetJob(j, [job[j] EXCEPT !.ph = "mark", !.got = 0,
                                !.chunks = job[j].chunks + job[j].got])
    /\ UNCHANGED <<points, row, disk, ran, gaveUp, faults>>

\* ... then in the row; an error of the database is logged and ignored.
MarkIndexed(j) ==
    /\ InPhase(j, "mark")
    /\ \/ row' = [row EXCEPT ![job[j].file] =
                    [st |-> "indexed", chunks |-> job[j].chunks]] /\ NoFault
       \/ Fault /\ UNCHANGED row
    /\ GoTo(j, "close")
    /\ UNCHANGED <<points, disk, ran, gaveUp>>

Complete(j) ==
    /\ InPhase(j, "close")
    /\ Retire(j, "completed", KeepCompleted)
    /\ UNCHANGED <<points, row, disk, ran, gaveUp, faults>>

\* The fixed backoff is over.
Promote(j) ==
    /\ job[j].st = "delayed"
    /\ SetJob(j, [job[j] EXCEPT !.st = "waiting"])
    /\ UNCHANGED <<points, row, disk, ran, gaveUp, faults>>

\* The worker process dies: its jobs stay in the active list without a lock.
Crash ==
    /\ Running # {}
    /\ Fault
    /\ job' = [j \in JobIds |->
                 IF j \in Running THEN [job[j] EXCEPT !.ph = "lost"] ELSE job[j]]
    /\ UNCHANGED <<points, row, disk, ran, gaveUp>>

\* BullMQ's stalled check: back to waiting once (maxStalledCount = 1), then failed,
\* without a call of handle() and so without its catch block.
RecoverStalled(j) ==
    /\ InPhase(j, "lost")
    /\ IF job[j].stalls = 0
       THEN /\ SetJob(j, [job[j] EXCEPT !.st = "waiting", !.ph = "idle",
                                        !.stalls = 1, !.got = 0])
            /\ UNCHANGED gaveUp
       ELSE /\ Retire(j, "failed", KeepFailed)
            /\ gaveUp' = gaveUp \cup {job[j].file}
    /\ UNCHANGED <<points, row, disk, ran, faults>>

Handle(j) ==
    \/ CheckServices(j) \/ ServicesDown(j)
    \/ EmbedBatch(j)    \/ EmbedFails(j)
    \/ Continue(j)      \/ ContinueFails(j) \/ RecordFails(j)
    \/ Finish(j)        \/ MarkIndexed(j)
    \/ Complete(j)

WorkerStep(j) == Start(j) \/ Handle(j) \/ Promote(j) \/ RecoverStalled(j)
WorkerNext == (\E j \in JobIds : WorkerStep(j)) \/ Crash

WorkerFairness ==
    \A j \in JobIds : /\ WF_queueVars(Start(j))
                      /\ WF_queueVars(Handle(j))
                      /\ WF_queueVars(Promote(j))
                      /\ WF_queueVars(RecoverStalled(j))
============================================================================
