---------------------------- MODULE KbIngest_proofs ----------------------------
(****************************************************************************)
(* Proofs about KbIngest, for all files, clients, requests, faults and      *)
(* retention counts.                                                        *)
(****************************************************************************)
EXTENDS KbIngest, TLAPS

\* Every entry is well formed and stands for a batch its file has.
JobsOK ==
    /\ job \in [JobIds -> Job]
    /\ \A j \in JobIds : job[j].off \in Batches(job[j].file)

\* The phase of a job and the batches that ran: past its embedding a job's own batch
\* ran, it enqueues another only if there is one, and ends the file only if not.
PhaseOK ==
    \A j \in JobIds :
        /\ job[j].ph \in {"dispatch", "finish", "mark", "close"} =>
              job[j].off \in ran[job[j].file]
        /\ job[j].ph = "dispatch" => job[j].off + 1 < NumBatches[job[j].file]
        /\ job[j].ph \in {"finish", "mark"} => job[j].off + 1 = NumBatches[job[j].file]

LEMMA FileIsJobId == \A f \in Files : f \in JobIds
  BY DEF JobIds

LEMMA ZeroIsBatch == \A f \in Files : 0 \in Batches(f)
  BY EmbedQueueAssumption DEF Batches

LEMMA NewJobOK ==
  ASSUME NEW f \in Files, NEW b \in Batches(f)
  PROVE  NewJob(f, b) \in Job
  BY EmbedQueueAssumption DEF NewJob, Job, Batches, JobStates, LiveStates, Phases

LEMMA DroppedOK ==
  ASSUME NEW f \in Files, NEW j \in JobIds
  PROVE  Dropped(j, f) \in Job /\ Dropped(j, f).off = 0 /\ Dropped(j, f).file = f
  BY NewJobOK, ZeroIsBatch DEF NewJob, Dropped, Job, JobStates, LiveStates

LEMMA AddFirstOK ==
  ASSUME JobsOK, NEW f \in Files, AddFirst(f)
  PROVE  JobsOK'
  <1>1. NewJob(f, 0) \in Job /\ NewJob(f, 0).off \in Batches(NewJob(f, 0).file)
    BY NewJobOK, ZeroIsBatch DEF NewJob
  <1> QED
    BY <1>1, FileIsJobId DEF AddFirst, JobsOK

LEMMA FreshIdOK ==
  ASSUME FreshIds # {}
  PROVE  FreshId \in AutoIds /\ FreshId \in JobIds /\ job[FreshId].st = "none"
  BY DEF FreshId, FreshIds, JobIds

LEMMA AddFreshOK ==
  ASSUME JobsOK, NEW f \in Files, NEW b \in Batches(f), AddFresh(f, b)
  PROVE  JobsOK'
  <1>1. NewJob(f, b) \in Job /\ NewJob(f, b).off \in Batches(NewJob(f, b).file)
    BY NewJobOK DEF NewJob
  <1> QED
    BY <1>1, FreshIdOK DEF AddFresh, JobsOK

LEMMA RetireOK ==
  ASSUME JobsOK, NEW j \in JobIds, NEW s \in {"completed", "failed"}, NEW keep \in Nat,
         Retire(j, s, keep)
  PROVE  JobsOK'
  <1>1. job[j].file \in Files /\ job[j].off \in Batches(job[j].file)
    BY DEF JobsOK, Job
  <1>2. NewJob(job[j].file, job[j].off) \in Job
    BY <1>1, NewJobOK
  <1>3. ASSUME NEW k \in JobIds
        PROVE  job'[k] \in Job /\ job'[k].off \in Batches(job'[k].file)
    <2>1. job[k].file \in Files /\ job[k].age \in Nat /\ job[k] \in Job
      BY DEF JobsOK, Job
    <2>2. Dropped(k, job[k].file) \in Job /\ Dropped(k, job[k].file).off = 0
          /\ Dropped(k, job[k].file).file = job[k].file
      BY <2>1, DroppedOK
    <2>3. CASE k = j
      BY <1>1, <1>2, <2>3 DEF Retire, NewJob, Job, JobStates
    <2>4. CASE k # j /\ job[k].st = s /\ job[k].age + 1 >= keep
      BY <2>1, <2>2, <2>4, ZeroIsBatch DEF Retire
    <2>5. CASE k # j /\ job[k].st = s /\ job[k].age + 1 < keep
      BY <2>1, <2>5 DEF Retire, Job, JobsOK
    <2>6. CASE k # j /\ job[k].st # s
      BY <2>1, <2>6 DEF Retire, JobsOK
    <2> QED
      BY <2>1, <2>3, <2>4, <2>5, <2>6
  <1> QED
    BY <1>3 DEF Retire, JobsOK

LEMMA RemoveOK ==
  ASSUME JobsOK, NEW j \in JobIds, Remove(j)
  PROVE  JobsOK'
  <1>1. ASSUME NEW k \in JobIds
        PROVE  job'[k] \in Job /\ job'[k].off \in Batches(job'[k].file)
    <2>1. job[j].file \in Files /\ job[j].age \in Nat /\ job[k].age \in Nat
          /\ job[k] \in Job
      BY DEF JobsOK, Job
    <2>2. Dropped(j, job[j].file) \in Job /\ Dropped(j, job[j].file).off = 0
          /\ Dropped(j, job[j].file).file = job[j].file
      BY <2>1, DroppedOK
    <2>3. CASE k = j
      BY <2>1, <2>2, <2>3, ZeroIsBatch DEF Remove
    <2>4. CASE k # j /\ job[k].st = job[j].st /\ job[k].age > job[j].age
      BY <2>1, <2>4 DEF Remove, Job, JobsOK
    <2>5. CASE k # j /\ ~(job[k].st = job[j].st /\ job[k].age > job[j].age)
      BY <2>1, <2>5 DEF Remove, JobsOK
    <2> QED
      BY <2>3, <2>4, <2>5
  <1> QED
    BY <1>1 DEF Remove, JobsOK
----------------------------------------------------------------------------
(* Type correctness of the worker's steps *)

\* An entry that may take the place of another: well formed, of the same batch.
SameBatch(q, r) == q \in Job /\ q.file = r.file /\ q.off = r.off

\* The updates a step of a job makes to its entry.
LEMMA RetriedOK ==
  ASSUME NEW r \in Job, NEW s \in JobStates, NEW p \in Phases, NEW x \in BOOLEAN,
         NEW g \in Nat, NEW t \in Nat
  PROVE  SameBatch([r EXCEPT !.st = s, !.ph = p, !.failed = x, !.got = g, !.tries = t], r)
  BY DEF Job, SameBatch

LEMMA RecoveredOK ==
  ASSUME NEW r \in Job, NEW s \in JobStates, NEW p \in Phases, NEW g \in Nat, NEW t \in Nat
  PROVE  SameBatch([r EXCEPT !.st = s, !.ph = p, !.stalls = t, !.got = g], r)
  BY DEF Job, SameBatch

LEMMA FinishedOK ==
  ASSUME NEW r \in Job, NEW p \in Phases, NEW g \in Nat, NEW t \in Nat
  PROVE  SameBatch([r EXCEPT !.ph = p, !.got = g, !.chunks = t], r)
  BY DEF Job, SameBatch

LEMMA EmbeddedOK ==
  ASSUME NEW r \in Job, NEW p \in Phases, NEW g \in Nat
  PROVE  SameBatch([r EXCEPT !.got = g, !.ph = p], r)
  BY DEF Job, SameBatch

LEMMA ReplaceOK ==
  ASSUME JobsOK, NEW j \in JobIds, NEW r, SameBatch(r, job[j]), SetJob(j, r)
  PROVE  JobsOK'
  BY DEF JobsOK, SetJob, SameBatch

LEMMA RetryOK ==
  ASSUME JobsOK, gaveUp \subseteq Files, NEW j \in JobIds, Retry(j)
  PROVE  JobsOK' /\ gaveUp' \subseteq Files
  <1>1. job[j] \in Job /\ job[j].file \in Files /\ job[j].tries \in Nat
    BY DEF JobsOK, Job
  <1>2. CASE job[j].tries + 1 < MaxAttempts
    <2> DEFINE r == [job[j] EXCEPT !.st = "delayed", !.ph = "idle", !.failed = TRUE,
                                   !.got = 0, !.tries = job[j].tries + 1]
    <2>1. SameBatch(r, job[j])
      <3>1. job[j].tries + 1 \in Nat /\ "delayed" \in JobStates /\ "idle" \in Phases
        BY <1>1 DEF JobStates, LiveStates, Phases
      <3> QED
        BY <1>1, <3>1, RetriedOK
    <2>2. SetJob(j, r) /\ gaveUp' = gaveUp
      BY <1>2 DEF Retry
    <2> QED
      BY <2>1, <2>2, ReplaceOK
  <1>3. CASE ~(job[j].tries + 1 < MaxAttempts)
    BY <1>1, <1>3, RetireOK, EmbedQueueAssumption DEF Retry
  <1> QED
    BY <1>2, <1>3

LEMMA StoreOK ==
  ASSUME QueueTypeOK, NEW f \in Files, NEW b \in Batches(f), StoreBatch(f, b)
  PROVE  DOMAIN points' = Files /\ \A g \in Files : points'[g] \in [Batches(g) -> Nat]
  BY DEF QueueTypeOK, StoreBatch

LEMMA FaultOK ==
  ASSUME QueueTypeOK, Fault \/ NoFault
  PROVE  faults' \in 0 .. MaxFaults
  BY EmbedQueueAssumption DEF QueueTypeOK, Fault, NoFault

LEMMA WorkerTypeOK ==
  ASSUME QueueTypeOK, PhaseOK, WorkerNext
  PROVE  QueueTypeOK'
  <1> USE DEF QueueTypeOK
  <1>0. JobsOK
    BY DEF JobsOK
  <1>1. ASSUME NEW j \in JobIds, WorkerStep(j)
        PROVE  QueueTypeOK'
    <2>0. job[j] \in Job /\ job[j].file \in Files /\ job[j].off \in Batches(job[j].file)
          /\ job[j].got \in Nat /\ job[j].chunks \in Nat /\ job[j].off \in Nat
      BY <1>0 DEF JobsOK, Job
    <2>1. CASE Start(j)
      BY <2>0, <2>1 DEF Start, SetJob, Job, JobStates, LiveStates, Phases
    <2>2. CASE CheckServices(j)
      BY <2>0, <2>2 DEF CheckServices, SetJob, Job, Phases
    <2>3. CASE ServicesDown(j)
      <3>1. JobsOK'
        BY <1>0, <2>3, RetireOK, EmbedQueueAssumption DEF ServicesDown
      <3>2. faults' \in 0 .. MaxFaults
        BY <2>3, EmbedQueueAssumption DEF ServicesDown, Fault
      <3>3. row' \in [Files -> Row]
        BY <2>0, <2>3 DEF ServicesDown, Row, RowStates
      <3> QED
        BY <2>0, <2>3, <3>1, <3>2, <3>3 DEF ServicesDown, JobsOK
    <2>4. CASE EmbedBatch(j)
      <3>1. JobsOK'
        <4>1. PICK got \in {0, 1}, ph \in {"dispatch", "finish"} :
                SetJob(j, [job[j] EXCEPT !.got = got, !.ph = ph])
          BY <2>4 DEF EmbedBatch
        <4> DEFINE r == [job[j] EXCEPT !.got = got, !.ph = ph]
        <4>2. SameBatch(r, job[j])
          <5>1. got \in Nat /\ ph \in Phases
            BY <4>1 DEF Phases
          <5> QED
            BY <2>0, <5>1, EmbeddedOK
        <4> QED
          BY <1>0, <4>1, <4>2, ReplaceOK
      <3>2. DOMAIN points' = Files /\ \A g \in Files : points'[g] \in [Batches(g) -> Nat]
        BY <2>0, <2>4, StoreOK DEF EmbedBatch
      <3>3. faults' \in 0 .. MaxFaults
        BY <2>4, FaultOK DEF EmbedBatch
      <3>4. DOMAIN ran' = Files /\ \A g \in Files : ran'[g] \subseteq Batches(g)
        BY <2>0, <2>4 DEF EmbedBatch
      <3> QED
        BY <2>4, <3>1, <3>2, <3>3, <3>4 DEF EmbedBatch, JobsOK
    <2>5. CASE EmbedFails(j)
      <3>1. JobsOK' /\ gaveUp' \subseteq Files
        BY <1>0, <2>5, RetryOK DEF EmbedFails
      <3>2. DOMAIN points' = Files /\ \A g \in Files : points'[g] \in [Batches(g) -> Nat]
        BY <2>0, <2>5, StoreOK DEF EmbedFails
      <3>3. faults' \in 0 .. MaxFaults
        BY <2>5, FaultOK DEF EmbedFails
      <3> QED
        BY <2>5, <3>1, <3>2, <3>3 DEF EmbedFails, JobsOK
    <2>6. CASE Continue(j)
      <3> DEFINE n == NewJob(job[j].file, job[j].off + 1)
      <3>1. job[j].off + 1 \in Batches(job[j].file)
        <4>1. job[j].off + 1 < NumBatches[job[j].file]
          BY <2>6 DEF PhaseOK, Continue, InPhase
        <4>2. NumBatches[job[j].file] \in Nat
          BY <2>0, EmbedQueueAssumption
        <4> QED
          BY <2>0, <4>1, <4>2 DEF Batches
      <3>2. n \in Job /\ n.off \in Batches(n.file)
        BY <2>0, <3>1, NewJobOK DEF NewJob
      <3>3. FreshId \in JobIds /\ FreshId # j
        BY <2>6, FreshIdOK DEF Continue, InPhase
      <3>4. [job[j] EXCEPT !.ph = "close"] \in Job
        BY <2>0 DEF Job, Phases
      <3>5. job' = [[job EXCEPT ![FreshId] = n] EXCEPT ![j] = [job[j] EXCEPT !.ph = "close"]]
        BY <1>0, <2>6, <3>3 DEF Continue, JobsOK
      <3>6. JobsOK'
        BY <1>0, <2>0, <3>2, <3>3, <3>4, <3>5 DEF JobsOK
      <3> QED
        BY <2>6, <3>6 DEF Continue, JobsOK
    <2>7. CASE ContinueFails(j) \/ RecordFails(j)
      <3>1. JobsOK' /\ gaveUp' \subseteq Files
        BY <1>0, <2>7, RetryOK DEF ContinueFails, RecordFails
      <3>2. faults' \in 0 .. MaxFaults
        BY <2>7, FaultOK DEF ContinueFails, RecordFails
      <3> QED
        BY <2>7, <3>1, <3>2 DEF ContinueFails, RecordFails, JobsOK
    <2>8. CASE Finish(j)
      <3> DEFINE r == [job[j] EXCEPT !.ph = "mark", !.got = 0,
                                     !.chunks = job[j].chunks + job[j].got]
      <3>1. SameBatch(r, job[j])
        <4>1. job[j].chunks + job[j].got \in Nat /\ "mark" \in Phases
          BY <2>0 DEF Phases
        <4> QED
          BY <2>0, <4>1, FinishedOK
      <3>2. SetJob(j, r)
        BY <2>8 DEF Finish
      <3>3. JobsOK'
        BY <1>0, <3>1, <3>2, ReplaceOK
      <3> QED
        BY <2>8, <3>3 DEF Finish, JobsOK
    <2>9. CASE MarkIndexed(j)
      <3>1. JobsOK'
        BY <1>0, <2>0, <2>9 DEF MarkIndexed, GoTo, SetJob, JobsOK, Job, Phases
      <3>2. row' \in [Files -> Row]
        BY <2>0, <2>9 DEF MarkIndexed, Row, RowStates
      <3>3. faults' \in 0 .. MaxFaults
        BY <2>9, FaultOK DEF MarkIndexed
      <3> QED
        BY <2>9, <3>1, <3>2, <3>3 DEF MarkIndexed, JobsOK
    <2>10. CASE Complete(j)
      <3>1. JobsOK'
        BY <1>0, <2>10, RetireOK, EmbedQueueAssumption DEF Complete
      <3> QED
        BY <2>10, <3>1 DEF Complete, JobsOK
    <2>11. CASE Promote(j)
      BY <2>0, <2>11 DEF Promote, SetJob, Job, JobStates, LiveStates
    <2>12. CASE RecoverStalled(j)
      <3>1. CASE job[j].stalls = 0
        <4> DEFINE r == [job[j] EXCEPT !.st = "waiting", !.ph = "idle", !.stalls = 1,
                                       !.got = 0]
        <4>1. SameBatch(r, job[j])
          BY <2>0, RecoveredOK DEF JobStates, LiveStates, Phases
        <4>2. SetJob(j, r) /\ gaveUp' = gaveUp
          BY <2>12, <3>1 DEF RecoverStalled
        <4>3. JobsOK'
          BY <1>0, <4>1, <4>2, ReplaceOK
        <4> QED
          BY <2>12, <4>2, <4>3 DEF RecoverStalled, JobsOK
      <3>2. CASE job[j].stalls # 0
        <4>1. JobsOK'
          BY <1>0, <2>12, <3>2, RetireOK, EmbedQueueAssumption DEF RecoverStalled
        <4> QED
          BY <2>0, <2>12, <3>2, <4>1 DEF RecoverStalled, JobsOK
      <3> QED
        BY <3>1, <3>2
    <2> QED
      BY <1>1, <2>1, <2>2, <2>3, <2>4, <2>5, <2>6, <2>7, <2>8, <2>9, <2>10, <2>11, <2>12
      DEF WorkerStep, Handle
  <1>2. CASE Crash
    <2>1. JobsOK'
      BY <1>0, <1>2 DEF Crash, JobsOK, Job, Phases
    <2>2. faults' \in 0 .. MaxFaults
      BY <1>2, FaultOK DEF Crash
    <2> QED
      BY <1>2, <2>1, <2>2 DEF Crash, JobsOK
  <1> QED
    BY <1>1, <1>2 DEF WorkerNext
----------------------------------------------------------------------------
(* Type correctness of the steps of requests *)

LEMMA IdleOK == Idle \in Req
  BY DEF Idle, Req, AllOps, Pcs, NoDecision, Decisions

LEMMA ReqFields ==
  ASSUME NEW r \in Req
  PROVE  /\ \A op \in AllOps : [r EXCEPT !.op = op] \in Req
         /\ \A pc \in Pcs : [r EXCEPT !.pc = pc] \in Req
         /\ \A T \in SUBSET Files : [r EXCEPT !.todo = T] \in Req
         /\ \A T \in SUBSET Files : [r EXCEPT !.seen = T] \in Req
         /\ \A d \in [Files -> Decisions] : [r EXCEPT !.dec = d] \in Req
         /\ \A b \in BOOLEAN : [r EXCEPT !.force = b] \in Req
         /\ \A J \in SUBSET JobIds : [r EXCEPT !.jobs = J] \in Req
         /\ r.todo \subseteq Files /\ r.seen \subseteq Files /\ r.jobs \subseteq JobIds
  BY DEF Req

LEMMA GoOK ==
  ASSUME TypeOK, NEW c \in Clients, NEW r \in Req, Go(c, r)
  PROVE  req' \in [Clients -> Req]
  BY DEF TypeOK, Go

LEMMA DoneOK ==
  ASSUME TypeOK, NEW c \in Clients, Done(c)
  PROVE  req' \in [Clients -> Req]
  BY IdleOK, GoOK DEF Done

LEMMA CurrentOK ==
  ASSUME TypeOK, NEW c \in Clients
  PROVE  /\ req[c] \in Req /\ Todo(c) \subseteq Files
         /\ req[c].seen \subseteq Files /\ req[c].jobs \subseteq JobIds
         /\ \A f : MinusTodo(c, f) \in Req
  <1>1. req[c] \in Req
    BY DEF TypeOK
  <1>2. req[c].todo \subseteq Files /\ req[c].seen \subseteq Files /\ req[c].jobs \subseteq JobIds
    BY <1>1, ReqFields
  <1>3. ASSUME NEW f PROVE MinusTodo(c, f) \in Req
    <2>1. req[c].todo \ {f} \in SUBSET Files
      BY <1>2
    <2>2. [req[c] EXCEPT !.todo = req[c].todo \ {f}] \in Req
      BY <1>1, <2>1, ReqFields
    <2> QED
      BY <2>2 DEF MinusTodo
  <1> QED
    BY <1>1, <1>2, <1>3 DEF Todo

LEMMA TargetOK ==
  ASSUME NEW f \in Files, NEW pc \in Pcs
  PROVE  Target(f, pc) \in Req
  <1>1. [Idle EXCEPT !.todo = {f}] \in Req
    BY IdleOK, ReqFields
  <1> QED
    BY <1>1, ReqFields DEF Target

LEMMA BeginOK ==
  ASSUME TypeOK, NEW c \in Clients, NEW op \in AllOps, NEW r \in Req, Begin(c, op, r)
  PROVE  req' \in [Clients -> Req] /\ requests' \in 0 .. MaxRequests
  <1>1. [r EXCEPT !.op = op] \in Req
    BY ReqFields
  <1>2. req' \in [Clients -> Req]
    BY <1>1, GoOK DEF Begin
  <1>3. requests' \in 0 .. MaxRequests
    BY KbIngestAssumption DEF Begin, TypeOK
  <1> QED
    BY <1>2, <1>3

LEMMA DeletePointsOK ==
  ASSUME QueueTypeOK, NEW F, DeletePoints(F)
  PROVE  DOMAIN points' = Files /\ \A g \in Files : points'[g] \in [Batches(g) -> Nat]
  BY DEF QueueTypeOK, DeletePoints

LEMMA DocsRequestOK == [Idle EXCEPT !.pc = "docs", !.todo = Docs] \in Req
  <1>1. [Idle EXCEPT !.pc = "docs"] \in Req
    BY IdleOK, ReqFields DEF Pcs
  <1>2. Docs \in SUBSET Files
    BY DEF Files
  <1> QED
    BY <1>1, <1>2, ReqFields

LEMMA RequestTypeOK ==
  ASSUME TypeOK, NEW c \in Clients, Request(c)
  PROVE  TypeOK'
  <1> USE DEF TypeOK, QueueTypeOK
  <1>1. CASE Upload(c)
    <2>1. PICK f \in Uploads : Begin(c, "upload", Target(f, "add")) /\ disk' = disk \cup {f}
                               /\ uploaded' = uploaded \cup {f}
      BY <1>1 DEF Upload
    <2>2. f \in Files /\ "add" \in Pcs /\ "upload" \in AllOps
      BY <2>1 DEF Files, Pcs, AllOps
    <2>3. req' \in [Clients -> Req] /\ requests' \in 0 .. MaxRequests
      BY <2>1, <2>2, TargetOK, BeginOK
    <2> QED
      BY <1>1, <2>1, <2>2, <2>3 DEF Upload
  <1>2. CASE ZimArrives(c)
    <2>1. PICK f \in Zims : Begin(c, "zim", Target(f, "arrived")) /\ disk' = disk \cup {f}
      BY <1>2 DEF ZimArrives
    <2>2. f \in Files /\ "arrived" \in Pcs /\ "zim" \in AllOps
      BY <2>1 DEF Files, Pcs, AllOps
    <2>3. req' \in [Clients -> Req] /\ requests' \in 0 .. MaxRequests
      BY <2>1, <2>2, TargetOK, BeginOK
    <2> QED
      BY <1>2, <2>1, <2>2, <2>3 DEF ZimArrives
  <1>3. CASE ZimDelete(c)
    BY <1>3, KbIngestAssumption DEF ZimDelete
  <1>4. CASE SetPolicy(c)
    BY <1>4, KbIngestAssumption DEF SetPolicy, queueVars
  <1>5. CASE DiscoverDocs(c)
    <2>2. req' \in [Clients -> Req] /\ requests' \in 0 .. MaxRequests
      BY <1>5, DocsRequestOK, BeginOK DEF DiscoverDocs, AllOps
    <2> QED
      BY <1>5, <2>2 DEF DiscoverDocs, queueVars
  <1>6. CASE Scan(c)
    <2>2. req' \in [Clients -> Req] /\ requests' \in 0 .. MaxRequests
      BY <1>6, DocsRequestOK, BeginOK DEF Scan, AllOps
    <2> QED
      BY <1>6, <2>2 DEF Scan, queueVars
  <1>7. CASE EmbedSingle(c)
    <2>1. PICK f \in Files, force \in BOOLEAN :
            Begin(c, "embed", [Target(f, IF force THEN "clear" ELSE "add")
                                 EXCEPT !.force = force])
      BY <1>7 DEF EmbedSingle
    <2>2. Target(f, IF force THEN "clear" ELSE "add") \in Req
      BY TargetOK DEF Pcs
    <2>3. [Target(f, IF force THEN "clear" ELSE "add") EXCEPT !.force = force] \in Req
      BY <2>2, ReqFields
    <2>4. req' \in [Clients -> Req] /\ requests' \in 0 .. MaxRequests
      BY <2>1, <2>3, BeginOK DEF AllOps
    <2> QED
      BY <1>7, <2>4 DEF EmbedSingle, queueVars
  <1>8. CASE BulkCheck(c)
    <2>1. [Idle EXCEPT !.pc = "drop"] \in Req
      BY IdleOK, ReqFields DEF Pcs
    <2>2. req' \in [Clients -> Req] /\ requests' \in 0 .. MaxRequests
      BY <1>8, <2>1, DocsRequestOK, BeginOK DEF BulkCheck, AllOps
    <2> QED
      BY <1>8, <2>2 DEF BulkCheck, queueVars
  <1>9. CASE Delete(c)
    <2>1. PICK f \in Files : Begin(c, "delete", Target(f, "unlink")) /\ DeletePoints({f})
      BY <1>9 DEF Delete
    <2>2. req' \in [Clients -> Req] /\ requests' \in 0 .. MaxRequests
      BY <2>1, TargetOK, BeginOK DEF AllOps, Pcs
    <2> QED
      BY <1>9, <2>1, <2>2, DeletePointsOK DEF Delete
  <1>10. CASE Cleanup(c)
    <2> DEFINE listed == {j \in JobIds : /\ job[j].st \in {"waiting", "delayed", "failed"}
                                         /\ job[j].failed}
    <2>1. [Idle EXCEPT !.pc = "clean", !.jobs = listed] \in Req
      <3>1. [Idle EXCEPT !.pc = "clean"] \in Req
        BY IdleOK, ReqFields DEF Pcs
      <3>2. listed \in SUBSET JobIds
        OBVIOUS
      <3> HIDE DEF listed
      <3> QED
        BY <3>1, <3>2, ReqFields
    <2>2. Begin(c, "cleanup", [Idle EXCEPT !.pc = "clean", !.jobs = listed])
      BY <1>10 DEF Cleanup
    <2> HIDE DEF listed
    <2>3. req' \in [Clients -> Req] /\ requests' \in 0 .. MaxRequests
      BY <2>1, <2>2, BeginOK DEF AllOps
    <2> QED
      BY <1>10, <2>3 DEF Cleanup, queueVars
  <1> QED
    BY <1>1, <1>2, <1>3, <1>4, <1>5, <1>6, <1>7, <1>8, <1>9, <1>10 DEF Request

LEMMA ServeTypeOK ==
  ASSUME TypeOK, NEW c \in Clients, Serve(c)
  PROVE  TypeOK'
  <1> USE DEF TypeOK, QueueTypeOK
  <1>0. JobsOK
    BY DEF JobsOK
  <1>a. req[c] \in Req /\ Todo(c) \subseteq Files /\ req[c].seen \subseteq Files
        /\ req[c].jobs \subseteq JobIds
    BY CurrentOK
  <1>b. \A f : MinusTodo(c, f) \in Req
    BY CurrentOK
  <1>c. \A f \in Files : AddFirst(f) => JobsOK'
    BY <1>0, AddFirstOK
  <1>d. \A f \in Files : AddFresh(f, 0) => JobsOK'
    BY <1>0, AddFreshOK, ZeroIsBatch
  <1>e. Done(c) => req' \in [Clients -> Req]
    BY DoneOK
  <1>1. CASE DispatchDoc(c)
    <2>1. PICK f \in Todo(c) : /\ Go(c, MinusTodo(c, f))
                               /\ (AddFirst(f) /\ NoFault) \/ (Fault /\ UNCHANGED job)
      BY <1>1 DEF DispatchDoc
    <2>2. req' \in [Clients -> Req]
      BY <2>1, <1>b, GoOK
    <2>3. JobsOK'
      BY <2>1, <1>0, <1>a, <1>c DEF JobsOK
    <2>4. faults' \in 0 .. MaxFaults
      BY <2>1, FaultOK
    <2> QED
      BY <1>1, <2>2, <2>3, <2>4 DEF DispatchDoc, JobsOK
  <1>2. CASE DocsDone(c)
    <2>1. \A pc \in Pcs : [req[c] EXCEPT !.pc = pc, !.todo = disk \ Docs] \in Req
      <3>1. disk \ Docs \in SUBSET Files
        OBVIOUS
      <3> QED
        BY <1>a, <3>1, ReqFields
    <2>2. PICK r \in Req : Go(c, r)
      <3>1. CASE req[c].op = "scan"
        BY <1>2, <2>1, <3>1 DEF DocsDone, Pcs
      <3>2. CASE req[c].op = "reembed"
        BY <1>2, <2>1, <3>2 DEF DocsDone, Pcs
      <3>3. CASE req[c].op = "reset"
        BY <1>2, <2>1, <3>3 DEF DocsDone, Pcs
      <3>4. CASE req[c].op \notin {"scan", "reembed", "reset"}
        BY <1>2, <3>4, IdleOK DEF DocsDone
      <3> QED
        BY <3>1, <3>2, <3>3, <3>4
    <2>3. req' \in [Clients -> Req]
      BY <2>2, GoOK
    <2> QED
      BY <1>2, <2>3 DEF DocsDone, queueVars
  <1>3. CASE ZimIngest(c)
    <2>1. PICK f \in Todo(c) :
            \/ UNCHANGED <<job, row>>
            \/ /\ row' = IF row[f] = NoRow
                         THEN [row EXCEPT ![f].st = "pending_decision"] ELSE row
               /\ UNCHANGED job
            \/ AddFirst(f) /\ UNCHANGED row
      BY <1>3 DEF ZimIngest
    <2>2. row' \in [Files -> Row]
      BY <2>1, <1>a DEF Row, RowStates
    <2>3. JobsOK'
      BY <2>1, <1>0, <1>a, <1>c DEF JobsOK
    <2> QED
      BY <1>3, <1>e, <2>2, <2>3 DEF ZimIngest, JobsOK
  <1>4. CASE Dispatch(c)
    <2>1. PICK f \in Todo(c) : \/ NoFault /\ (AddFresh(f, 0) \/ AddFirst(f))
                               \/ Fault /\ UNCHANGED job
      BY <1>4 DEF Dispatch
    <2>2. JobsOK'
      BY <2>1, <1>0, <1>a, <1>c, <1>d DEF JobsOK
    <2>3. faults' \in 0 .. MaxFaults
      BY <2>1, FaultOK
    <2> QED
      BY <1>4, <1>e, <2>2, <2>3 DEF Dispatch, JobsOK
  <1>5. CASE ScanFacet(c)
    <2>1. [req[c] EXCEPT !.pc = "rows", !.seen = {f \in Todo(c) : HasChunks(f)}] \in Req
      <3>1. {f \in Todo(c) : HasChunks(f)} \in SUBSET Files
        BY <1>a
      <3>2. [req[c] EXCEPT !.pc = "rows"] \in Req
        BY <1>a, ReqFields DEF Pcs
      <3> QED
        BY <3>1, <3>2, ReqFields
    <2>2. req' \in [Clients -> Req]
      BY <1>5, <1>e, <2>1, GoOK DEF ScanFacet
    <2>3. faults' \in 0 .. MaxFaults
      BY <1>5, FaultOK DEF ScanFacet
    <2> QED
      BY <1>5, <2>2, <2>3 DEF ScanFacet
  <1>6. CASE ScanRows(c)
    <2> DEFINE dec == [f \in Files |->
                         IF f \in Todo(c)
                         THEN decideScanAction(row[f].st, f \in req[c].seen, policy)
                         ELSE "skip"]
               T == {f \in Files : dec[f] \in CreatesRow}
    <2>1. dec \in [Files -> Decisions]
      BY DEF decideScanAction, Decisions
    <2>2. T \in SUBSET Files
      OBVIOUS
    <2>3. Go(c, [req[c] EXCEPT !.pc = "apply", !.dec = dec, !.seen = {}, !.todo = T])
      BY <1>6 DEF ScanRows
    <2> HIDE DEF dec, T
    <2>4. [req[c] EXCEPT !.pc = "apply", !.dec = dec, !.seen = {}, !.todo = T] \in Req
      <3>1. [req[c] EXCEPT !.pc = "apply"] \in Req
        BY <1>a, ReqFields DEF Pcs
      <3>2. [req[c] EXCEPT !.pc = "apply", !.dec = dec] \in Req
        BY <2>1, <3>1, ReqFields
      <3>3. [req[c] EXCEPT !.pc = "apply", !.dec = dec, !.seen = {}] \in Req
        BY <3>2, ReqFields
      <3> QED
        BY <2>2, <3>3, ReqFields
    <2>5. req' \in [Clients -> Req]
      BY <2>3, <2>4, GoOK
    <2> QED
      BY <1>6, <2>5 DEF ScanRows, queueVars
  <1>7. CASE ScanCreate(c)
    <2>1. PICK f \in Todo(c) :
            \/ Done(c) /\ UNCHANGED row
            \/ /\ row' = [row EXCEPT ![f].st =
                            IF req[c].dec[f] = "backfill_indexed" THEN "indexed"
                            ELSE "pending_decision"]
               /\ Go(c, MinusTodo(c, f))
      BY <1>7 DEF ScanCreate
    <2>2. row' \in [Files -> Row]
      BY <2>1, <1>a, ZenonT(40) DEF Row, RowStates
    <2>3. req' \in [Clients -> Req]
      BY <2>1, <1>b, <1>e, GoOK
    <2> QED
      BY <1>7, <2>2, <2>3 DEF ScanCreate
  <1>8. CASE ScanCreated(c)
    <2> DEFINE T == {f \in Files : req[c].dec[f] \in Dispatches}
    <2>1. T \in SUBSET Files
      OBVIOUS
    <2>2. Go(c, [Idle EXCEPT !.op = "scan", !.pc = "queue", !.todo = T])
      BY <1>8 DEF ScanCreated
    <2> HIDE DEF T
    <2>3. [Idle EXCEPT !.op = "scan", !.pc = "queue", !.todo = T] \in Req
      <3>1. [Idle EXCEPT !.op = "scan"] \in Req
        BY IdleOK, ReqFields DEF AllOps
      <3>2. [Idle EXCEPT !.op = "scan", !.pc = "queue"] \in Req
        BY <3>1, ReqFields DEF Pcs
      <3> QED
        BY <2>1, <3>2, ReqFields
    <2>4. req' \in [Clients -> Req]
      BY <2>2, <2>3, GoOK
    <2> QED
      BY <1>8, <2>4 DEF ScanCreated, queueVars
  <1>9. CASE ScanDispatch(c)
    <2>1. PICK f \in Todo(c) : /\ Go(c, MinusTodo(c, f))
                               /\ (AddFirst(f) /\ NoFault) \/ (Fault /\ UNCHANGED job)
      BY <1>9 DEF ScanDispatch
    <2>2. req' \in [Clients -> Req]
      BY <2>1, <1>b, GoOK
    <2>3. JobsOK'
      BY <2>1, <1>0, <1>a, <1>c DEF JobsOK
    <2>4. faults' \in 0 .. MaxFaults
      BY <2>1, FaultOK
    <2> QED
      BY <1>9, <2>2, <2>3, <2>4 DEF ScanDispatch, JobsOK
  <1>10. CASE ScanEnds(c) \/ BulkEnds(c) \/ CleanupEnds(c)
    BY <1>10, <1>e DEF ScanEnds, BulkEnds, CleanupEnds, queueVars
  <1>11. CASE EmbedClear(c)
    <2>1. [req[c] EXCEPT !.pc = "add"] \in Req
      BY <1>a, ReqFields DEF Pcs
    <2>2. req' \in [Clients -> Req]
      BY <1>11, <1>e, <2>1, GoOK DEF EmbedClear
    <2>3. faults' \in 0 .. MaxFaults
      BY <1>11, FaultOK DEF EmbedClear
    <2>4. DOMAIN points' = Files /\ \A g \in Files : points'[g] \in [Batches(g) -> Nat]
      BY <1>11, DeletePointsOK DEF EmbedClear
    <2> QED
      BY <1>11, <2>2, <2>3, <2>4 DEF EmbedClear
  <1>12. CASE ReembedDelete(c)
    <2>1. PICK f \in Todo(c) :
            \/ /\ DeletePoints({f}) /\ NoFault /\ UNCHANGED lost
               /\ Go(c, [req[c] EXCEPT !.pc = "force", !.seen = {f}])
            \/ /\ Fault /\ UNCHANGED points /\ lost' = lost \cup {f}
               /\ Go(c, MinusTodo(c, f))
      BY <1>12 DEF ReembedDelete
    <2>2. [req[c] EXCEPT !.pc = "force", !.seen = {f}] \in Req
      <3>1. [req[c] EXCEPT !.pc = "force"] \in Req
        BY <1>a, ReqFields DEF Pcs
      <3>2. {f} \in SUBSET Files
        BY <1>a, <2>1
      <3> QED
        BY <3>1, <3>2, ReqFields
    <2>3. req' \in [Clients -> Req]
      BY <2>1, <2>2, <1>b, GoOK
    <2>4. faults' \in 0 .. MaxFaults
      BY <2>1, FaultOK
    <2>5. DOMAIN points' = Files /\ \A g \in Files : points'[g] \in [Batches(g) -> Nat]
      BY <2>1, DeletePointsOK
    <2>6. lost' \subseteq Files
      BY <1>a, <2>1
    <2> QED
      BY <1>12, <2>3, <2>4, <2>5, <2>6 DEF ReembedDelete
  <1>13. CASE ReembedForce(c)
    <2>1. PICK f \in req[c].seen :
            /\ Go(c, [MinusTodo(c, f) EXCEPT !.pc = "delete", !.seen = {}])
            /\ \/ AddFresh(f, 0) /\ NoFault /\ UNCHANGED lost
               \/ Fault /\ lost' = lost \cup {f} /\ UNCHANGED job
      BY <1>13 DEF ReembedForce
    <2>2. [MinusTodo(c, f) EXCEPT !.pc = "delete", !.seen = {}] \in Req
      <3>1. [MinusTodo(c, f) EXCEPT !.pc = "delete"] \in Req
        BY <1>b, ReqFields DEF Pcs
      <3> QED
        BY <3>1, ReqFields
    <2>3. req' \in [Clients -> Req]
      BY <2>1, <2>2, GoOK
    <2>4. JobsOK'
      BY <2>1, <1>0, <1>a, <1>d DEF JobsOK
    <2>5. faults' \in 0 .. MaxFaults
      BY <2>1, FaultOK
    <2>6. lost' \subseteq Files
      BY <1>a, <2>1
    <2> QED
      BY <1>13, <2>3, <2>4, <2>5, <2>6 DEF ReembedForce, JobsOK
  <1>14. CASE ResetDrop(c)
    <2>1. [req[c] EXCEPT !.pc = "docs", !.todo = Docs] \in Req
      <3>1. [req[c] EXCEPT !.pc = "docs"] \in Req
        BY <1>a, ReqFields DEF Pcs
      <3>2. Docs \in SUBSET Files
        BY DEF Files
      <3> QED
        BY <3>1, <3>2, ReqFields
    <2>2. req' \in [Clients -> Req]
      BY <1>14, <2>1, GoOK DEF ResetDrop
    <2>3. faults' \in 0 .. MaxFaults
      BY <1>14, FaultOK DEF ResetDrop
    <2>4. DOMAIN points' = Files /\ \A g \in Files : points'[g] \in [Batches(g) -> Nat]
      BY <1>14, DeletePointsOK DEF ResetDrop
    <2> QED
      BY <1>14, <2>2, <2>3, <2>4 DEF ResetDrop
  <1>15. CASE ResetForce(c)
    <2>1. PICK f \in Todo(c) :
            /\ Go(c, MinusTodo(c, f))
            /\ \/ AddFresh(f, 0) /\ NoFault /\ UNCHANGED lost
               \/ Fault /\ lost' = lost \cup {f} /\ UNCHANGED job
      BY <1>15 DEF ResetForce
    <2>2. req' \in [Clients -> Req]
      BY <2>1, <1>b, GoOK
    <2>3. JobsOK'
      BY <2>1, <1>0, <1>a, <1>d DEF JobsOK
    <2>4. faults' \in 0 .. MaxFaults
      BY <2>1, FaultOK
    <2>5. lost' \subseteq Files
      BY <1>a, <2>1
    <2> QED
      BY <1>15, <2>2, <2>3, <2>4, <2>5 DEF ResetForce, JobsOK
  <1>16. CASE DeleteUnlink(c)
    <2>1. [req[c] EXCEPT !.pc = "row"] \in Req
      BY <1>a, ReqFields DEF Pcs
    <2>2. req' \in [Clients -> Req]
      BY <1>16, <1>e, <2>1, GoOK DEF DeleteUnlink
    <2>3. faults' \in 0 .. MaxFaults
      BY <1>16, FaultOK DEF DeleteUnlink
    <2> QED
      BY <1>16, <2>2, <2>3 DEF DeleteUnlink
  <1>17. CASE DeleteRow(c)
    <2>1. faults' \in 0 .. MaxFaults
      BY <1>17, FaultOK DEF DeleteRow
    <2>2. row' \in [Files -> Row]
      BY <1>17 DEF DeleteRow, NoRow, Row, RowStates
    <2> QED
      BY <1>17, <1>e, <2>1, <2>2 DEF DeleteRow
  <1>18. CASE CleanupOne(c)
    <2>1. PICK j \in req[c].jobs :
            /\ disk' = disk \ ({job[j].file} \cap Uploads)
            /\ \/ Done(c) /\ UNCHANGED <<job, gaveUp>>
               \/ /\ Go(c, [req[c] EXCEPT !.jobs = req[c].jobs \ {j}])
                  /\ gaveUp' = IF Live(j) THEN gaveUp \cup {job[j].file} ELSE gaveUp
                  /\ Remove(j)
      BY <1>18 DEF CleanupOne
    <2>2. j \in JobIds /\ job[j].file \in Files
      BY <2>1, <1>a, <1>0 DEF JobsOK, Job
    <2>3. [req[c] EXCEPT !.jobs = req[c].jobs \ {j}] \in Req
      <3>1. req[c].jobs \ {j} \in SUBSET JobIds
        BY <1>a
      <3> QED
        BY <1>a, <3>1, ReqFields
    <2>4. req' \in [Clients -> Req]
      BY <2>1, <2>3, <1>e, GoOK
    <2>5. JobsOK'
      BY <2>1, <2>2, <1>0, RemoveOK DEF JobsOK
    <2>6. gaveUp' \subseteq Files
      BY <2>1, <2>2
    <2>7. disk' \subseteq Files
      BY <2>1
    <2> QED
      BY <1>18, <2>4, <2>5, <2>6, <2>7 DEF CleanupOne, JobsOK
  <1> QED
    BY <1>1, <1>2, <1>3, <1>4, <1>5, <1>6, <1>7, <1>8, <1>9, <1>10, <1>11, <1>12, <1>13,
       <1>14, <1>15, <1>16, <1>17, <1>18 DEF Serve
----------------------------------------------------------------------------
(* The inductive invariant *)

\* The batches of a file that ran are an initial segment of its batches.
RanIsPrefix == \A f \in Files : \E m \in 0 .. NumBatches[f] : ran[f] = 0 .. m - 1

\* Job j is what will get the batch after b of file f done: it is that batch, or it
\* is batch b and has not enqueued the next one yet.
Carries(j, f, b) ==
    /\ Live(j)
    /\ job[j].file = f
    /\ job[j].off = b + 1 \/ (job[j].off = b /\ job[j].ph # "close")

\* After every batch that ran, the next one ran too, or a job carries it, or a job
\* of the file was lost for good.
BatonKept ==
    \A f \in Files : \A b \in ran[f] :
        b + 1 \in Batches(f) =>
            b + 1 \in ran[f] \/ f \in gaveUp \/ \E j \in JobIds : Carries(j, f, b)

Chain == PhaseOK /\ PrefixRan /\ RanIsPrefix /\ BatonKept /\ CountedRowIsComplete
IInv == TypeOK /\ Chain

\* What a step does to an entry it is not about: it leaves it where it is if it is
\* live, and otherwise at most clears it for batch 0.
Harmless(k) ==
    /\ Live(k) => /\ Live(k)' /\ job'[k].ph = job[k].ph
                  /\ job'[k].file = job[k].file /\ job'[k].off = job[k].off
    /\ \/ job'[k].ph = "idle" /\ job'[k].off = 0
       \/ /\ job'[k].file = job[k].file /\ job'[k].off = job[k].off
          /\ job'[k].ph \in {"idle", job[k].ph}

\* What a step does to the entry it is about: it stays what it is, in a phase that
\* its batch has reached, or is cleared for batch 0.
Moved(j) ==
    /\ \/ job'[j].file = job[j].file /\ job'[j].off = job[j].off
       \/ job'[j].ph = "idle" /\ job'[j].off = 0
    /\ job'[j].ph \in {"dispatch", "finish", "mark", "close"} =>
          job[j].off \in ran[job[j].file]
    /\ job'[j].ph = "dispatch" => job[j].off + 1 < NumBatches[job[j].file]
    /\ job'[j].ph \in {"finish", "mark"} => job[j].off + 1 = NumBatches[job[j].file]

\* The entry a step is about still carries what it carried, unless its file is given up.
HandsOn(j) ==
    \A f \in Files : \A b \in ran[f] :
        Carries(j, f, b) /\ b + 1 \in Batches(f) =>
            b + 1 \in ran[f] \/ f \in gaveUp' \/ Carries(j, f, b)'

\* No row comes to count chunks of a file that is not complete.
CountsOK == \A f \in Files : row'[f].chunks > 0 => row[f].chunks > 0 \/ AllRan(f)

LEMMA RetireHarmless ==
  ASSUME JobsOK, NEW j \in JobIds, NEW s \in {"completed", "failed"}, NEW keep \in Nat,
         Retire(j, s, keep)
  PROVE  /\ \A k \in JobIds \ {j} : Harmless(k)
         /\ job'[j].file = job[j].file /\ job'[j].off = job[j].off /\ job'[j].ph = "idle"
  <1>1. ASSUME NEW k \in JobIds \ {j}
        PROVE  Harmless(k)
    <2>1. job[k].file \in Files /\ job[k].age \in Nat /\ job[k] \in Job
      BY DEF JobsOK, Job
    <2>2. CASE job[k].st = s /\ job[k].age + 1 >= keep
      <3>0. k # j /\ job[k].st = s /\ job[k].age + 1 >= keep
        BY <1>1, <2>2
      <3>1. job'[k] = Dropped(k, job[k].file)
        BY <2>1, <3>0 DEF Retire
      <3>2. ~Live(k)
        BY <2>2 DEF Live, LiveStates
      <3> QED
        BY <3>1, <3>2 DEF Harmless, Dropped, NewJob
    <2>3. CASE job[k].st = s /\ job[k].age + 1 < keep
      <3>1. job'[k] = [job[k] EXCEPT !.age = job[k].age + 1]
        BY <1>1, <2>1, <2>3 DEF Retire
      <3> QED
        BY <2>1, <3>1 DEF Harmless, Job, Live
    <2>4. CASE job[k].st # s
      BY <1>1, <2>4 DEF Retire, Harmless, Live
    <2> QED
      BY <2>1, <2>2, <2>3, <2>4
  <1>2. job'[j].file = job[j].file /\ job'[j].off = job[j].off /\ job'[j].ph = "idle"
    BY DEF Retire, NewJob
  <1> QED
    BY <1>1, <1>2

LEMMA RemoveHarmless ==
  ASSUME JobsOK, NEW j \in JobIds, Remove(j)
  PROVE  /\ \A k \in JobIds \ {j} : Harmless(k)
         /\ job'[j].ph = "idle" /\ job'[j].off = 0
         /\ ~Live(j) => Harmless(j)
  <1>1. ASSUME NEW k \in JobIds \ {j}
        PROVE  Harmless(k)
    <2>1. job[k].file \in Files /\ job[k].age \in Nat /\ job[k] \in Job /\ job[j].age \in Nat
      BY DEF JobsOK, Job
    <2>2. CASE job[k].st = job[j].st /\ job[k].age > job[j].age
      <3>1. job'[k] = [job[k] EXCEPT !.age = job[k].age - 1]
        BY <1>1, <2>1, <2>2 DEF Remove
      <3> QED
        BY <2>1, <3>1 DEF Harmless, Job, Live
    <2>3. CASE ~(job[k].st = job[j].st /\ job[k].age > job[j].age)
      BY <1>1, <2>3 DEF Remove, Harmless, Live
    <2> QED
      BY <2>2, <2>3
  <1>2. job'[j] = Dropped(j, job[j].file)
    BY DEF Remove
  <1> QED
    BY <1>1, <1>2 DEF Dropped, NewJob, Harmless

LEMMA AddHarmless ==
  ASSUME JobsOK, NEW f \in Files, AddFirst(f) \/ AddFresh(f, 0)
  PROVE  \A k \in JobIds : Harmless(k)
  <1>1. CASE AddFirst(f)
    BY <1>1, FileIsJobId DEF AddFirst, Harmless, NewJob, Live, LiveStates, JobsOK
  <1>2. CASE AddFresh(f, 0)
    BY <1>2, FreshIdOK DEF AddFresh, Harmless, NewJob, Live, LiveStates, JobsOK
  <1> QED
    BY <1>1, <1>2

\* A step about one entry, which does not run a batch, keeps the chain.
LEMMA StepKeepsChain ==
  ASSUME TypeOK, Chain, JobsOK', ran' = ran, gaveUp \subseteq gaveUp', CountsOK,
         NEW j \in JobIds, \A k \in JobIds \ {j} : Harmless(k),
         Harmless(j) \/ (Moved(j) /\ HandsOn(j))
  PROVE  Chain'
  <1> USE DEF TypeOK, QueueTypeOK
  <1>0. \A k \in JobIds : /\ job[k].file \in Files /\ job'[k].file \in Files
                          /\ job[k].off \in Nat /\ job'[k].off \in Nat
                          /\ job[k].off \in Batches(job[k].file)
    BY DEF Job, JobsOK
  <1>1. PhaseOK'
    <2> SUFFICES ASSUME NEW k \in JobIds
                 PROVE  /\ job'[k].ph \in {"dispatch", "finish", "mark", "close"} =>
                              job'[k].off \in ran[job'[k].file]
                        /\ job'[k].ph = "dispatch" =>
                              job'[k].off + 1 < NumBatches[job'[k].file]
                        /\ job'[k].ph \in {"finish", "mark"} =>
                              job'[k].off + 1 = NumBatches[job'[k].file]
      BY DEF PhaseOK
    <2>1. CASE Harmless(k)
      BY <2>1 DEF Harmless, Chain, PhaseOK
    <2>2. CASE k = j /\ Moved(j)
      BY <2>2 DEF Moved
    <2> QED
      BY <2>1, <2>2
  <1>2. PrefixRan'
    <2> SUFFICES ASSUME NEW k \in JobIds, NEW b \in Batches(job'[k].file), b < job'[k].off
                 PROVE  b \in ran[job'[k].file]
      BY DEF PrefixRan, Batches
    <2>1. ~(job'[k].off = 0)
      BY <1>0, EmbedQueueAssumption DEF Batches
    <2>2. job'[k].file = job[k].file /\ job'[k].off = job[k].off
      BY <2>1 DEF Harmless, Moved
    <2> QED
      BY <2>2 DEF Chain, PrefixRan
  <1>3. RanIsPrefix'
    BY DEF Chain, RanIsPrefix
  <1>4. BatonKept'
    <2> SUFFICES ASSUME NEW f \in Files, NEW b \in ran[f], b + 1 \in Batches(f),
                        b + 1 \notin ran[f], f \notin gaveUp'
                 PROVE  \E k \in JobIds : Carries(k, f, b)'
      BY DEF BatonKept, Batches
    <2>1. PICK k \in JobIds : Carries(k, f, b)
      BY DEF Chain, BatonKept
    <2>2. CASE Harmless(k)
      BY <2>1, <2>2 DEF Harmless, Carries
    <2>3. CASE k = j /\ HandsOn(j)
      BY <2>1, <2>3 DEF HandsOn
    <2> QED
      BY <2>1, <2>2, <2>3
  <1>5. CountedRowIsComplete'
    BY DEF Chain, CountedRowIsComplete, CountsOK, AllRan, Batches
  <1> QED
    BY <1>1, <1>2, <1>3, <1>4, <1>5 DEF Chain
----------------------------------------------------------------------------
(* The steps of the worker keep the chain *)

LEMMA SetJobHarmless ==
  ASSUME JobsOK, NEW j \in JobIds, NEW r, SetJob(j, r)
  PROVE  job'[j] = r /\ \A k \in JobIds \ {j} : Harmless(k)
  BY DEF JobsOK, SetJob, Harmless, Live

\* A job that goes on to another phase, live, still carries what it carried.
LEMMA GoesOn ==
  ASSUME NEW j \in JobIds, job[j].off \in Nat,
         job'[j].file = job[j].file, job'[j].off = job[j].off,
         job'[j].st \in LiveStates,
         job'[j].ph # "close" \/ ~(job[j].off + 1 \in Batches(job[j].file))
  PROVE  HandsOn(j)
  BY DEF HandsOn, Carries, Live

LEMMA RetryHarmless ==
  ASSUME JobsOK, gaveUp \subseteq Files, NEW j \in JobIds, Retry(j)
  PROVE  /\ \A k \in JobIds \ {j} : Harmless(k)
         /\ Moved(j) /\ HandsOn(j) /\ gaveUp \subseteq gaveUp'
  <1>1. job[j] \in Job /\ job[j].file \in Files /\ job[j].off \in Nat
    BY DEF JobsOK, Job
  <1>2. CASE job[j].tries + 1 < MaxAttempts
    <2> DEFINE r == [job[j] EXCEPT !.st = "delayed", !.ph = "idle", !.failed = TRUE,
                                   !.got = 0, !.tries = job[j].tries + 1]
    <2>1. SetJob(j, r) /\ gaveUp' = gaveUp
      BY <1>2 DEF Retry
    <2>2. r.file = job[j].file /\ r.off = job[j].off /\ r.st = "delayed" /\ r.ph = "idle"
      BY <1>1 DEF Job
    <2> HIDE DEF r
    <2>3. job'[j] = r /\ \A k \in JobIds \ {j} : Harmless(k)
      BY <2>1, SetJobHarmless
    <2>4. HandsOn(j)
      BY <1>1, <2>2, <2>3, GoesOn DEF LiveStates
    <2> QED
      BY <2>1, <2>2, <2>3, <2>4 DEF Moved
  <1>3. CASE ~(job[j].tries + 1 < MaxAttempts)
    <2>1. Retire(j, "failed", KeepFailed) /\ gaveUp' = gaveUp \cup {job[j].file}
      BY <1>3 DEF Retry
    <2>2. /\ \A k \in JobIds \ {j} : Harmless(k)
          /\ job'[j].file = job[j].file /\ job'[j].off = job[j].off /\ job'[j].ph = "idle"
      BY <2>1, RetireHarmless, EmbedQueueAssumption
    <2> QED
      BY <2>1, <2>2 DEF Moved, HandsOn, Carries
  <1> QED
    BY <1>2, <1>3

LEMMA EmbedBatchKeepsChain ==
  ASSUME TypeOK, Chain, JobsOK', NEW j \in JobIds, EmbedBatch(j)
  PROVE  Chain'
  <1> USE DEF TypeOK, QueueTypeOK
  <1> DEFINE f == job[j].file
             b == job[j].off
  <1>1. /\ job[j] \in Job /\ f \in Files /\ b \in Nat /\ b \in Batches(f)
        /\ NumBatches[f] \in Nat /\ b < NumBatches[f]
    BY EmbedQueueAssumption DEF Job, Batches
  <1>2. /\ job[j].st = "active" /\ job[j].ph = "embed"
        /\ ran' = [ran EXCEPT ![f] = ran[f] \cup {b}]
        /\ row' = row /\ gaveUp' = gaveUp
    BY DEF EmbedBatch, InPhase
  <1>3. PICK r : /\ SetJob(j, r) /\ r.file = f /\ r.off = b /\ r.st = "active"
                 /\ r.ph = IF b + 1 < NumBatches[f] THEN "dispatch" ELSE "finish"
    <2>1. PICK got \in {0, 1} :
            SetJob(j, [job[j] EXCEPT !.got = got,
                                     !.ph = IF b + 1 < NumBatches[f]
                                            THEN "dispatch" ELSE "finish"])
      BY DEF EmbedBatch
    <2> DEFINE e == [job[j] EXCEPT !.got = got,
                                   !.ph = IF b + 1 < NumBatches[f]
                                          THEN "dispatch" ELSE "finish"]
    <2>2. /\ e.file = f /\ e.off = b /\ e.st = "active"
          /\ e.ph = IF b + 1 < NumBatches[f] THEN "dispatch" ELSE "finish"
      BY <1>1, <1>2 DEF Job
    <2>3. SetJob(j, e)
      BY <2>1
    <2> HIDE DEF e
    <2> QED
      BY <2>2, <2>3
  <1> HIDE DEF f, b
  <1>4. JobsOK
    BY DEF JobsOK
  <1>5. job'[j] = r /\ \A k \in JobIds \ {j} : job'[k] = job[k]
    BY <1>3 DEF SetJob
  <1>6. ran'[f] = ran[f] \cup {b} /\ \A g \in Files \ {f} : ran'[g] = ran[g]
    BY <1>1, <1>2
  <1>7. \A g \in Files : ran[g] \subseteq ran'[g]
    BY <1>6
  <1>8. \A k \in JobIds : job[k].file \in Files /\ job'[k].file = job[k].file
                          /\ job'[k].off = job[k].off /\ job[k].off \in Nat
    BY <1>3, <1>5 DEF Job, f, b
  <1>9. PhaseOK'
    <2> SUFFICES ASSUME NEW k \in JobIds
                 PROVE  /\ job'[k].ph \in {"dispatch", "finish", "mark", "close"} =>
                              job'[k].off \in ran'[job'[k].file]
                        /\ job'[k].ph = "dispatch" =>
                              job'[k].off + 1 < NumBatches[job'[k].file]
                        /\ job'[k].ph \in {"finish", "mark"} =>
                              job'[k].off + 1 = NumBatches[job'[k].file]
      BY DEF PhaseOK
    <2>1. CASE k = j
      <3>1. job'[k].file = f /\ job'[k].off = b /\ b \in ran'[f]
        BY <1>3, <1>5, <1>6, <2>1
      <3>2. job'[k].ph = IF b + 1 < NumBatches[f] THEN "dispatch" ELSE "finish"
        BY <1>3, <1>5, <2>1
      <3>3. CASE b + 1 < NumBatches[f]
        BY <1>1, <3>1, <3>2, <3>3
      <3>4. CASE ~(b + 1 < NumBatches[f])
        <4>1. b + 1 = NumBatches[f]
          <5>1. b \in Nat /\ NumBatches[f] \in Nat /\ b < NumBatches[f]
            BY <1>1
          <5> HIDE DEF TypeOK, QueueTypeOK
          <5> QED
            BY <3>4, <5>1
        <4>2. job'[k].ph = "finish"
          BY <3>2, <3>4
        <4> QED
          BY <3>1, <4>1, <4>2
      <3> QED
        BY <3>3, <3>4
    <2>2. CASE k # j
      BY <1>5, <1>7, <1>8, <2>2 DEF Chain, PhaseOK
    <2> QED
      BY <2>1, <2>2
  <1>10. PrefixRan'
    BY <1>7, <1>8 DEF Chain, PrefixRan, Batches
  <1>11. RanIsPrefix'
    <2> SUFFICES ASSUME NEW g \in Files
                 PROVE  \E m \in 0 .. NumBatches[g] : ran'[g] = 0 .. m - 1
      BY DEF RanIsPrefix
    <2>1. CASE g # f
      BY <1>6, <2>1 DEF Chain, RanIsPrefix
    <2>2. CASE g = f
      <3>1. PICK m \in 0 .. NumBatches[f] : ran[f] = 0 .. m - 1
        BY <1>1 DEF Chain, RanIsPrefix
      <3>2. \A a \in Batches(f) : a < b => a \in ran[f]
        BY <1>1 DEF Chain, PrefixRan, f, b
      <3>3. b <= m
        <4>1. SUFFICES ASSUME m < b PROVE FALSE
          BY <1>1, <3>1
        <4>2. m \in Batches(f)
          BY <1>1, <3>1, <4>1 DEF Batches
        <4> QED
          BY <1>1, <3>1, <3>2, <4>1, <4>2
      <3>4. CASE b < m
        <4>1. ran'[f] = 0 .. m - 1
          BY <1>1, <1>6, <3>1, <3>4
        <4> QED
          BY <2>2, <3>1, <4>1
      <3>5. CASE b = m
        <4>1. m + 1 \in 0 .. NumBatches[f] /\ ran'[f] = 0 .. (m + 1) - 1
          BY <1>1, <1>6, <3>1, <3>5
        <4> QED
          BY <2>2, <4>1
      <3> QED
        BY <1>1, <3>1, <3>3, <3>4, <3>5
    <2> QED
      BY <2>1, <2>2
  <1>12. BatonKept'
    <2> SUFFICES ASSUME NEW g \in Files, NEW a \in ran'[g], a + 1 \in Batches(g),
                        a + 1 \notin ran'[g], g \notin gaveUp
                 PROVE  \E k \in JobIds : Carries(k, g, a)'
      BY <1>2 DEF BatonKept, Batches
    <2>1. CASE a \in ran[g]
      <3>1. PICK k \in JobIds : Carries(k, g, a)
        BY <1>7, <2>1 DEF Chain, BatonKept
      <3>2. CASE k = j
        BY <1>3, <1>5, <3>1, <3>2 DEF Carries, Live, LiveStates, f, b
      <3>3. CASE k # j
        BY <1>5, <3>1, <3>3 DEF Carries, Live
      <3> QED
        BY <3>2, <3>3
    <2>2. CASE a \notin ran[g]
      <3>1. g = f /\ a = b
        BY <1>6, <2>2
      <3> QED
        BY <1>3, <1>5, <3>1 DEF Carries, Live, LiveStates
    <2> QED
      BY <2>1, <2>2
  <1>13. CountedRowIsComplete'
    <2>1. \A g \in Files : ran[g] = Batches(g) => ran'[g] = Batches(g)
      BY <1>1, <1>6
    <2> QED
      BY <1>2, <2>1 DEF Chain, CountedRowIsComplete, AllRan, Batches
  <1> QED
    BY <1>9, <1>10, <1>11, <1>12, <1>13 DEF Chain

LEMMA ContinueKeepsChain ==
  ASSUME TypeOK, Chain, JobsOK', NEW j \in JobIds, Continue(j)
  PROVE  Chain'
  <1> USE DEF TypeOK, QueueTypeOK
  <1> DEFINE f == job[j].file
             b == job[j].off
             n == FreshId
  <1>1. /\ job[j] \in Job /\ f \in Files /\ b \in Nat /\ b \in Batches(f)
        /\ NumBatches[f] \in Nat
    BY EmbedQueueAssumption DEF Job, Batches
  <1>2. /\ job[j].st = "active" /\ job[j].ph = "dispatch" /\ FreshIds # {}
        /\ UNCHANGED <<row, ran, gaveUp>>
    BY DEF Continue, InPhase
  <1>3. n \in JobIds /\ n # j /\ job[n].st = "none"
    BY <1>2, FreshIdOK
  <1>4. /\ job'[j] = [job[j] EXCEPT !.ph = "close"]
        /\ job'[n] = NewJob(f, b + 1)
        /\ \A k \in JobIds \ {j, n} : job'[k] = job[k]
    BY <1>3 DEF Continue
  <1> HIDE DEF f, b, n
  <1>5. /\ job'[j].st = "active" /\ job'[j].ph = "close"
        /\ job'[j].file = f /\ job'[j].off = b
    BY <1>1, <1>2, <1>4 DEF Job, f, b
  <1>6. /\ job'[n].st = "waiting" /\ job'[n].ph = "idle"
        /\ job'[n].file = f /\ job'[n].off = b + 1
    BY <1>4 DEF NewJob
  <1>7. b \in ran[f]
    BY <1>2 DEF Chain, PhaseOK, f, b
  <1>8. PhaseOK'
    <2> SUFFICES ASSUME NEW k \in JobIds
                 PROVE  /\ job'[k].ph \in {"dispatch", "finish", "mark", "close"} =>
                              job'[k].off \in ran[job'[k].file]
                        /\ job'[k].ph = "dispatch" =>
                              job'[k].off + 1 < NumBatches[job'[k].file]
                        /\ job'[k].ph \in {"finish", "mark"} =>
                              job'[k].off + 1 = NumBatches[job'[k].file]
      BY <1>2 DEF PhaseOK
    <2> QED
      BY <1>4, <1>5, <1>6, <1>7 DEF Chain, PhaseOK
  <1>9. PrefixRan'
    <2> SUFFICES ASSUME NEW k \in JobIds, NEW a \in Batches(job'[k].file), a < job'[k].off
                 PROVE  a \in ran[job'[k].file]
      BY <1>2 DEF PrefixRan, Batches
    <2>1. \A c \in Batches(f) : c < b => c \in ran[f]
      BY DEF Chain, PrefixRan, f, b
    <2>2. CASE k = n
      BY <1>1, <1>6, <1>7, <2>1, <2>2 DEF Batches
    <2>3. CASE k = j
      BY <1>5, <2>1, <2>3
    <2>4. CASE k \notin {j, n}
      BY <1>4, <2>4 DEF Chain, PrefixRan
    <2> QED
      BY <2>2, <2>3, <2>4
  <1>10. RanIsPrefix'
    BY <1>2 DEF Chain, RanIsPrefix
  <1>11. BatonKept'
    <2> SUFFICES ASSUME NEW g \in Files, NEW a \in ran[g], a + 1 \in Batches(g),
                        a + 1 \notin ran[g], g \notin gaveUp
                 PROVE  \E k \in JobIds : Carries(k, g, a)'
      BY <1>2 DEF BatonKept, Batches
    <2>1. PICK k \in JobIds : Carries(k, g, a)
      BY DEF Chain, BatonKept
    <2>2. k # n
      BY <1>3, <2>1 DEF Carries, Live, LiveStates
    <2>3. CASE k = j /\ a = b
      BY <1>3, <1>6, <2>1, <2>3 DEF Carries, Live, LiveStates, f
    <2>4. CASE k = j /\ a # b
      BY <1>5, <2>1, <2>4 DEF Carries, Live, LiveStates, f, b
    <2>5. CASE k # j
      BY <1>4, <2>1, <2>2, <2>5 DEF Carries, Live
    <2> QED
      BY <2>3, <2>4, <2>5
  <1>12. CountedRowIsComplete'
    BY <1>2 DEF Chain, CountedRowIsComplete, AllRan, Batches
  <1> QED
    BY <1>8, <1>9, <1>10, <1>11, <1>12 DEF Chain

LEMMA CrashKeepsChain ==
  ASSUME TypeOK, Chain, JobsOK', Crash
  PROVE  Chain'
  <1> USE DEF TypeOK, QueueTypeOK
  <1>1. UNCHANGED <<row, ran, gaveUp>>
    BY DEF Crash
  <1>2. \A k \in JobIds : /\ job'[k].file = job[k].file /\ job'[k].off = job[k].off
                          /\ job'[k].st = job[k].st
                          /\ job'[k].ph \in {"lost", job[k].ph}
    BY DEF Crash, Job
  <1>3. PhaseOK'
    BY <1>1, <1>2 DEF Chain, PhaseOK
  <1>4. PrefixRan'
    BY <1>1, <1>2 DEF Chain, PrefixRan, Batches
  <1>5. RanIsPrefix'
    BY <1>1 DEF Chain, RanIsPrefix
  <1>6. BatonKept'
    <2> SUFFICES ASSUME NEW g \in Files, NEW a \in ran[g], a + 1 \in Batches(g),
                        a + 1 \notin ran[g], g \notin gaveUp
                 PROVE  \E k \in JobIds : Carries(k, g, a)'
      BY <1>1 DEF BatonKept, Batches
    <2>1. PICK k \in JobIds : Carries(k, g, a)
      BY DEF Chain, BatonKept
    <2> QED
      BY <1>2, <2>1 DEF Carries, Live
  <1>7. CountedRowIsComplete'
    BY <1>1 DEF Chain, CountedRowIsComplete, AllRan, Batches
  <1> QED
    BY <1>3, <1>4, <1>5, <1>6, <1>7 DEF Chain

\* A file whose last batch ran is complete.
LEMMA LastBatchCompletes ==
  ASSUME TypeOK, RanIsPrefix, NEW f \in Files, NEW b \in ran[f], b + 1 = NumBatches[f]
  PROVE  AllRan(f)
  <1>1. NumBatches[f] \in Nat
    BY EmbedQueueAssumption
  <1>2. PICK m \in 0 .. NumBatches[f] : ran[f] = 0 .. m - 1
    BY DEF RanIsPrefix
  <1>3. m = NumBatches[f]
    BY <1>1, <1>2
  <1> QED
    BY <1>2, <1>3 DEF AllRan, Batches

LEMMA WorkerKeepsChain ==
  ASSUME TypeOK, Chain, JobsOK', WorkerNext
  PROVE  Chain'
  <1>0. JobsOK /\ gaveUp \subseteq Files
    BY DEF TypeOK, QueueTypeOK, JobsOK
  <1>1. ASSUME NEW j \in JobIds, WorkerStep(j)
        PROVE  Chain'
    <2>0. /\ job[j] \in Job /\ job[j].file \in Files /\ job[j].off \in Nat
          /\ row \in [Files -> Row]
      BY <1>0 DEF JobsOK, Job, TypeOK, QueueTypeOK
    <2>a. (\A f \in Files : row'[f].chunks = row[f].chunks) => CountsOK
      BY DEF CountsOK
    \* Steps that only rewrite the entry of the job.
    <2>b. ASSUME NEW r, SetJob(j, r), r.file = job[j].file, r.off = job[j].off,
                 r.st \in LiveStates, UNCHANGED <<ran, gaveUp>>, CountsOK,
                 \/ r.ph \in {"idle", "start", "embed"}
                 \/ r.ph \in {"mark", "close"} /\ job[j].ph \in {"finish", "mark"}
          PROVE  Chain'
      <3>1. job'[j] = r /\ \A k \in JobIds \ {j} : Harmless(k)
        BY <1>0, <2>b, SetJobHarmless
      <3>2. Moved(j)
        BY <2>b, <3>1 DEF Moved, Chain, PhaseOK
      <3>3. job[j].ph \in {"finish", "mark"} => job[j].off + 1 = NumBatches[job[j].file]
        BY DEF Chain, PhaseOK
      <3>4. r.ph # "close" \/ ~(job[j].off + 1 \in Batches(job[j].file))
        <4>1. NumBatches[job[j].file] \in Nat
          BY <2>0, EmbedQueueAssumption
        <4> QED
          BY <2>0, <2>b, <3>3, <4>1 DEF Batches
      <3>5. HandsOn(j)
        BY <2>0, <2>b, <3>1, <3>4, GoesOn
      <3> QED
        BY <2>b, <3>1, <3>2, <3>5, StepKeepsChain
    \* Steps that end the job.
    <2>c. ASSUME NEW s \in {"completed", "failed"}, NEW keep \in Nat, Retire(j, s, keep),
                 ran' = ran, gaveUp \subseteq gaveUp', CountsOK,
                 job[j].file \in gaveUp' \/ job[j].ph = "close"
          PROVE  Chain'
      <3>1. /\ \A k \in JobIds \ {j} : Harmless(k)
            /\ job'[j].file = job[j].file /\ job'[j].off = job[j].off /\ job'[j].ph = "idle"
        BY <1>0, <2>c, RetireHarmless
      <3>2. Moved(j)
        BY <3>1 DEF Moved
      <3>3. HandsOn(j)
        BY <2>c DEF HandsOn, Carries, Chain, PhaseOK
      <3> QED
        BY <2>c, <3>1, <3>2, <3>3, StepKeepsChain
    <2>d. ASSUME Retry(j), UNCHANGED <<row, ran>>
          PROVE  Chain'
      BY <1>0, <2>a, <2>d, RetryHarmless, StepKeepsChain
    <2>1. CASE Start(j)
      <3> DEFINE r == [job[j] EXCEPT !.st = "active", !.ph = "start"]
      <3>1. r.file = job[j].file /\ r.off = job[j].off /\ r.st \in LiveStates /\ r.ph = "start"
        BY <2>0 DEF Job, LiveStates
      <3>2. SetJob(j, r) /\ UNCHANGED <<row, ran, gaveUp>>
        BY <2>1 DEF Start
      <3> HIDE DEF r
      <3> QED
        BY <2>a, <2>b, <3>1, <3>2
    <2>2. CASE CheckServices(j)
      <3> DEFINE r == [job[j] EXCEPT !.ph = "embed", !.failed = FALSE]
      <3>1. r.file = job[j].file /\ r.off = job[j].off /\ r.st \in LiveStates /\ r.ph = "embed"
        BY <2>0, <2>2 DEF Job, LiveStates, CheckServices, InPhase
      <3>2. SetJob(j, r) /\ UNCHANGED <<row, ran, gaveUp>>
        BY <2>2 DEF CheckServices
      <3> HIDE DEF r
      <3> QED
        BY <2>a, <2>b, <3>1, <3>2
    <2>3. CASE ServicesDown(j)
      <3>1. Retire(j, "failed", KeepFailed) /\ ran' = ran
            /\ gaveUp' = gaveUp \cup {job[j].file}
        BY <2>3 DEF ServicesDown
      <3>2. \A f \in Files : row'[f].chunks = row[f].chunks
        BY <2>0, <2>3 DEF ServicesDown, Row
      <3> QED
        BY <2>a, <2>c, <3>1, <3>2, EmbedQueueAssumption
    <2>4. CASE EmbedBatch(j)
      BY <2>4, EmbedBatchKeepsChain
    <2>5. CASE Continue(j)
      BY <2>5, ContinueKeepsChain
    <2>6. CASE EmbedFails(j) \/ ContinueFails(j) \/ RecordFails(j)
      BY <2>6, <2>d DEF EmbedFails, ContinueFails, RecordFails
    <2>7. CASE Finish(j)
      <3> DEFINE r == [job[j] EXCEPT !.ph = "mark", !.got = 0,
                                     !.chunks = job[j].chunks + job[j].got]
      <3>1. r.file = job[j].file /\ r.off = job[j].off /\ r.st \in LiveStates /\ r.ph = "mark"
            /\ job[j].ph = "finish"
        BY <2>0, <2>7 DEF Job, LiveStates, Finish, InPhase
      <3>2. SetJob(j, r) /\ UNCHANGED <<row, ran, gaveUp>>
        BY <2>7 DEF Finish
      <3> HIDE DEF r
      <3> QED
        BY <2>a, <2>b, <3>1, <3>2
    <2>8. CASE MarkIndexed(j)
      <3> DEFINE r == [job[j] EXCEPT !.ph = "close"]
      <3>1. r.file = job[j].file /\ r.off = job[j].off /\ r.st \in LiveStates /\ r.ph = "close"
            /\ job[j].ph = "mark"
        BY <2>0, <2>8 DEF Job, LiveStates, MarkIndexed, InPhase
      <3>2. SetJob(j, r) /\ UNCHANGED <<ran, gaveUp>>
        BY <2>8 DEF MarkIndexed, GoTo
      <3>3. AllRan(job[j].file)
        <4>1. job[j].off \in ran[job[j].file] /\ job[j].off + 1 = NumBatches[job[j].file]
          BY <3>1 DEF Chain, PhaseOK
        <4> QED
          BY <2>0, <4>1, LastBatchCompletes DEF Chain
      <3>4. CountsOK
        BY <2>0, <2>8, <3>3 DEF MarkIndexed, CountsOK
      <3> HIDE DEF r
      <3> QED
        BY <2>b, <3>1, <3>2, <3>4
    <2>9. CASE Complete(j)
      <3>1. Retire(j, "completed", KeepCompleted) /\ job[j].ph = "close"
            /\ UNCHANGED <<row, ran, gaveUp>>
        BY <2>9 DEF Complete, InPhase
      <3> QED
        BY <2>a, <2>c, <3>1, EmbedQueueAssumption
    <2>10. CASE Promote(j)
      <3> DEFINE r == [job[j] EXCEPT !.st = "waiting"]
      <3>1. r.file = job[j].file /\ r.off = job[j].off /\ r.st \in LiveStates
            /\ r.ph = job[j].ph
        BY <2>0 DEF Job, LiveStates
      <3>2. SetJob(j, r) /\ UNCHANGED <<row, ran, gaveUp>> /\ Live(j)
        BY <2>10 DEF Promote, Live, LiveStates
      <3> HIDE DEF r
      <3>3. job'[j] = r /\ \A k \in JobIds \ {j} : Harmless(k)
        BY <1>0, <3>2, SetJobHarmless
      <3>4. Harmless(j)
        BY <3>1, <3>3 DEF Harmless, Live
      <3> QED
        BY <2>a, <3>2, <3>3, <3>4, StepKeepsChain
    <2>11. CASE RecoverStalled(j)
      <3>1. CASE job[j].stalls = 0
        <4> DEFINE r == [job[j] EXCEPT !.st = "waiting", !.ph = "idle", !.stalls = 1,
                                       !.got = 0]
        <4>1. r.file = job[j].file /\ r.off = job[j].off /\ r.st \in LiveStates
              /\ r.ph = "idle"
          BY <2>0 DEF Job, LiveStates
        <4>2. SetJob(j, r) /\ UNCHANGED <<row, ran, gaveUp>>
          BY <2>11, <3>1 DEF RecoverStalled
        <4> HIDE DEF r
        <4> QED
          BY <2>a, <2>b, <4>1, <4>2
      <3>2. CASE job[j].stalls # 0
        <4>1. Retire(j, "failed", KeepFailed) /\ UNCHANGED <<row, ran>>
              /\ gaveUp' = gaveUp \cup {job[j].file}
          BY <2>11, <3>2 DEF RecoverStalled
        <4> QED
          BY <2>a, <2>c, <4>1, EmbedQueueAssumption
      <3> QED
        BY <3>1, <3>2
    <2> QED
      BY <1>1, <2>1, <2>2, <2>3, <2>4, <2>5, <2>6, <2>7, <2>8, <2>9, <2>10, <2>11
      DEF WorkerStep, Handle
  <1>2. CASE Crash
    BY <1>2, CrashKeepsChain
  <1> QED
    BY <1>1, <1>2 DEF WorkerNext
----------------------------------------------------------------------------
(* The steps of requests keep the chain: all they do to the queue is to add a first
   job or to remove an entry *)

Added == \E f \in Files : AddFirst(f) \/ AddFresh(f, 0)
Removed ==
    \E j \in JobIds :
        /\ Remove(j)
        /\ gaveUp' = IF Live(j) THEN gaveUp \cup {job[j].file} ELSE gaveUp

RequestEffect ==
    /\ ran' = ran
    /\ CountsOK
    /\ \/ UNCHANGED <<job, gaveUp>>
       \/ Added /\ UNCHANGED gaveUp
       \/ Removed

LEMMA RequestsHaveEffect ==
  ASSUME TypeOK, NEW c \in Clients, Request(c) \/ Serve(c)
  PROVE  RequestEffect
  <1>0. row \in [Files -> Row] /\ Todo(c) \subseteq Files /\ req[c].seen \subseteq Files
        /\ req[c].jobs \subseteq JobIds
    BY CurrentOK DEF TypeOK, QueueTypeOK
  <1>1. row' = row => CountsOK
    BY DEF CountsOK
  <1>2. CASE Request(c)
    BY <1>1, <1>2 DEF Request, Upload, ZimArrives, ZimDelete, SetPolicy, DiscoverDocs,
      Scan, EmbedSingle, BulkCheck, Delete, Cleanup, RequestEffect, queueVars
  <1>3. CASE \/ DocsDone(c) \/ ScanFacet(c) \/ ScanRows(c) \/ ScanCreated(c) \/ ScanEnds(c)
             \/ EmbedClear(c) \/ ReembedDelete(c) \/ ResetDrop(c) \/ BulkEnds(c)
             \/ DeleteUnlink(c) \/ CleanupEnds(c)
    BY <1>1, <1>3 DEF DocsDone, ScanFacet, ScanRows, ScanCreated, ScanEnds, EmbedClear,
      ReembedDelete, ResetDrop, BulkEnds, DeleteUnlink, CleanupEnds, RequestEffect, queueVars
  <1>4. CASE DispatchDoc(c) \/ ScanDispatch(c) \/ Dispatch(c) \/ ResetForce(c)
    <2>1. UNCHANGED job \/ Added
      BY <1>0, <1>4 DEF DispatchDoc, ScanDispatch, Dispatch, ResetForce, Added
    <2>2. UNCHANGED <<row, ran, gaveUp>>
      BY <1>4 DEF DispatchDoc, ScanDispatch, Dispatch, ResetForce
    <2> QED
      BY <1>1, <2>1, <2>2 DEF RequestEffect
  <1>5. CASE ReembedForce(c)
    <2>1. UNCHANGED job \/ Added
      BY <1>0, <1>5 DEF ReembedForce, Added
    <2> QED
      BY <1>1, <1>5, <2>1 DEF ReembedForce, RequestEffect
  <1>6. CASE ZimIngest(c)
    <2>1. PICK f \in Files :
            \/ UNCHANGED <<job, row>>
            \/ /\ row' = IF row[f] = NoRow
                         THEN [row EXCEPT ![f].st = "pending_decision"] ELSE row
               /\ UNCHANGED job
            \/ AddFirst(f) /\ UNCHANGED row
      BY <1>0, <1>6 DEF ZimIngest
    <2>2. CountsOK
      BY <1>0, <2>1 DEF CountsOK, Row
    <2> QED
      BY <1>6, <2>1, <2>2 DEF ZimIngest, RequestEffect, Added
  <1>7. CASE ScanCreate(c)
    <2>1. PICK f \in Files :
            \/ UNCHANGED row
            \/ \E s \in RowStates : row' = [row EXCEPT ![f].st = s]
      BY <1>0, <1>7 DEF ScanCreate, RowStates
    <2>2. CountsOK
      BY <1>0, <2>1 DEF CountsOK, Row
    <2> QED
      BY <1>7, <2>2 DEF ScanCreate, RequestEffect
  <1>8. CASE DeleteRow(c)
    <2>1. CountsOK
      BY <1>0, <1>8 DEF DeleteRow, NoRow, CountsOK, Row
    <2> QED
      BY <1>8, <2>1 DEF DeleteRow, RequestEffect
  <1>9. CASE CleanupOne(c)
    <2>1. UNCHANGED <<job, gaveUp>> \/ Removed
      BY <1>0, <1>9 DEF CleanupOne, Removed
    <2> QED
      BY <1>1, <1>9, <2>1 DEF CleanupOne, RequestEffect
  <1> QED
    BY <1>2, <1>3, <1>4, <1>5, <1>6, <1>7, <1>8, <1>9 DEF Serve

LEMMA EffectKeepsChain ==
  ASSUME TypeOK, Chain, JobsOK', RequestEffect
  PROVE  Chain'
  <1>0. JobsOK /\ JobIds # {}
    BY EmbedQueueAssumption DEF TypeOK, QueueTypeOK, JobsOK, JobIds
  <1>1. CASE UNCHANGED <<job, gaveUp>>
    <2>1. \A k \in JobIds : Harmless(k)
      BY <1>1 DEF Harmless, Live
    <2> QED
      BY <1>0, <1>1, <2>1, StepKeepsChain DEF RequestEffect
  <1>2. CASE Added /\ UNCHANGED gaveUp
    <2>1. \A k \in JobIds : Harmless(k)
      BY <1>0, <1>2, AddHarmless DEF Added
    <2> QED
      BY <1>0, <1>2, <2>1, StepKeepsChain DEF RequestEffect
  <1>3. CASE Removed
    <2>1. PICK j \in JobIds :
            /\ Remove(j)
            /\ gaveUp' = IF Live(j) THEN gaveUp \cup {job[j].file} ELSE gaveUp
      BY <1>3 DEF Removed
    <2>2. /\ \A k \in JobIds \ {j} : Harmless(k)
          /\ ~Live(j) => Harmless(j)
          /\ job'[j] = Dropped(j, job[j].file)
      BY <1>0, <2>1, RemoveHarmless DEF Remove
    <2>3. Live(j) => job[j].file \in gaveUp'
      BY <2>1
    <2>4. Live(j) => Moved(j) /\ HandsOn(j)
      BY <2>2, <2>3 DEF Dropped, NewJob, Moved, HandsOn, Carries
    <2> QED
      BY <2>1, <2>2, <2>4, StepKeepsChain DEF RequestEffect
  <1> QED
    BY <1>1, <1>2, <1>3 DEF RequestEffect
----------------------------------------------------------------------------
(* The theorems *)

LEMMA InitIInv == Init => IInv
  <1> SUFFICES ASSUME Init PROVE IInv
    OBVIOUS
  <1> USE DEF Init, QueueInit
  <1>0. AnyFile \in Files
    BY EmbedQueueAssumption DEF AnyFile
  <1>1. \A j \in JobIds : /\ job[j] \in Job /\ job[j].off = 0 /\ job[j].ph = "idle"
                          /\ job[j].file \in Files
    <2> TAKE j \in JobIds
    <2> DEFINE f == IF j \in Files THEN j ELSE AnyFile
    <2>1. f \in Files
      BY <1>0
    <2>2. NewJob(f, 0) \in Job
      BY <2>1, NewJobOK, ZeroIsBatch
    <2>3. job[j] = [NewJob(f, 0) EXCEPT !.st = "none"]
      OBVIOUS
    <2> HIDE DEF f
    <2> QED
      BY <2>1, <2>2, <2>3 DEF NewJob, Job, JobStates
  <1>2. QueueTypeOK
    <2>1. job \in [JobIds -> Job]
      BY <1>1
    <2>2. \A j \in JobIds : job[j].off \in Batches(job[j].file)
      BY <1>1, ZeroIsBatch
    <2>3. \A f \in Files : points[f] \in [Batches(f) -> Nat]
      OBVIOUS
    <2>4. row \in [Files -> Row]
      BY DEF NoRow, Row, RowStates
    <2>5. disk \subseteq Files /\ faults \in 0 .. MaxFaults
      BY EmbedQueueAssumption DEF Files
    <2> QED
      BY <2>1, <2>2, <2>3, <2>4, <2>5 DEF QueueTypeOK
  <1>3. TypeOK
    <2>1. req \in [Clients -> Req]
      BY IdleOK
    <2>2. policy \in {"Always", "Manual"} /\ requests \in 0 .. MaxRequests
      BY KbIngestAssumption
    <2>3. docsEmbedded \in BOOLEAN /\ uploaded \subseteq Uploads /\ lost \subseteq Files
      OBVIOUS
    <2> QED
      BY <1>2, <2>1, <2>2, <2>3 DEF TypeOK
  <1>4. PhaseOK
    BY <1>1 DEF PhaseOK
  <1>5. PrefixRan
    BY <1>1 DEF PrefixRan, Batches
  <1>6. RanIsPrefix
    <2> SUFFICES ASSUME NEW f \in Files
                 PROVE  0 \in 0 .. NumBatches[f] /\ ran[f] = 0 .. 0 - 1
      BY DEF RanIsPrefix
    <2>1. NumBatches[f] \in Nat
      BY EmbedQueueAssumption
    <2> QED
      BY <2>1
  <1>7. BatonKept
    BY DEF BatonKept
  <1>8. CountedRowIsComplete
    BY DEF CountedRowIsComplete, NoRow
  <1> QED
    BY <1>3, <1>4, <1>5, <1>6, <1>7, <1>8 DEF IInv, Chain

LEMMA NextIInv == IInv /\ [Next]_vars => IInv'
  <1> SUFFICES ASSUME IInv, [Next]_vars
               PROVE  IInv'
    OBVIOUS
  <1>0. TypeOK /\ Chain /\ QueueTypeOK /\ PhaseOK /\ JobsOK
    BY DEF IInv, Chain, TypeOK, QueueTypeOK, JobsOK
  <1>1. CASE Worker
    <2>1. WorkerNext /\ UNCHANGED reqVars
      BY <1>1 DEF Worker
    <2>2. QueueTypeOK'
      BY <1>0, <2>1, WorkerTypeOK
    <2>3. TypeOK'
      BY <1>0, <2>1, <2>2 DEF TypeOK, reqVars
    <2>4. Chain'
      BY <1>0, <2>1, <2>2, WorkerKeepsChain DEF QueueTypeOK, JobsOK
    <2> QED
      BY <2>3, <2>4 DEF IInv
  <1>2. CASE \E c \in Clients : Request(c) \/ Serve(c)
    <2>1. PICK c \in Clients : Request(c) \/ Serve(c)
      BY <1>2
    <2>2. TypeOK'
      BY <1>0, <2>1, RequestTypeOK, ServeTypeOK
    <2>3. JobsOK'
      BY <2>2 DEF TypeOK, QueueTypeOK, JobsOK
    <2>4. Chain'
      BY <1>0, <2>1, <2>3, RequestsHaveEffect, EffectKeepsChain
    <2> QED
      BY <2>2, <2>4 DEF IInv
  <1>3. CASE UNCHANGED vars
    <2>1. TypeOK'
      BY <1>0, <1>3 DEF TypeOK, QueueTypeOK, vars, queueVars, reqVars
    <2>2. RequestEffect
      BY <1>3 DEF vars, queueVars, RequestEffect, CountsOK
    <2>3. Chain'
      BY <1>0, <2>1, <2>2, EffectKeepsChain DEF TypeOK, QueueTypeOK, JobsOK
    <2> QED
      BY <2>1, <2>3 DEF IInv
  <1> QED
    BY <1>1, <1>2, <1>3 DEF Next

\* The inductive invariant holds in every behaviour of the knowledge base.
LEMMA Inductive == Spec => []IInv
  BY InitIInv, NextIInv, PTL DEF Spec

\* Every entry of the queue, every point, row and request keeps its shape whatever
\* the requests, the worker, its crashes and the retention of old jobs do; in
\* particular a job never stands for a batch its file does not have.
THEOREM TypeCorrect == Spec => []TypeOK
  <1>1. IInv => TypeOK
    BY DEF IInv
  <1> QED
    BY <1>1, Inductive, PTL

\* EmbedFileJob works on a batch only when all earlier batches of the file have been
\* processed, for any number of batches, files, workers, requests and errors.
THEOREM BatchesInOrder == Spec => []PrefixRan
  <1>1. IInv => PrefixRan
    BY DEF IInv, Chain
  <1> QED
    BY <1>1, Inductive, PTL

\* A kb_ingest_state row that counts chunks belongs to a file all of whose batches
\* were processed: no earlier batch, retry or stale job writes the count.
THEOREM CountedComplete == Spec => []CountedRowIsComplete
  <1>1. IInv => CountedRowIsComplete
    BY DEF IInv, Chain
  <1> QED
    BY <1>1, Inductive, PTL

\* The chain of batches never breaks by itself: where a file has stopped half way, one
\* of its jobs failed for good or was removed by a cleanup.
THEOREM NoChainLost == Spec => []NoSilentStop
  <1>1. IInv => NoSilentStop
    <2> SUFFICES ASSUME IInv, NEW f \in Files, ran[f] # {}, LiveJobs(f) = {}, f \notin gaveUp
                 PROVE  AllRan(f)
      BY DEF NoSilentStop
    <2>1. NumBatches[f] \in Nat
      BY EmbedQueueAssumption
    <2>2. PICK m \in 0 .. NumBatches[f] : ran[f] = 0 .. m - 1
      BY DEF IInv, Chain, RanIsPrefix
    <2>3. m = NumBatches[f]
      <3>1. SUFFICES ASSUME m < NumBatches[f] PROVE FALSE
        BY <2>1, <2>2
      <3>2. m # 0
        BY <2>2
      <3>3. /\ m - 1 \in ran[f] /\ (m - 1) + 1 = m
            /\ m \in Batches(f) /\ m \notin ran[f]
        BY <2>1, <2>2, <3>1, <3>2 DEF Batches
      <3>4. PICK j \in JobIds : Carries(j, f, m - 1)
        BY <3>3 DEF IInv, Chain, BatonKept
      <3>5. j \in LiveJobs(f)
        BY <3>4 DEF Carries, LiveJobs
      <3> QED
        BY <3>5
    <2> QED
      BY <2>1, <2>2, <2>3 DEF AllRan, Batches
  <1> QED
    BY <1>1, Inductive, PTL

----------------------------------------------------------------------------
(* Without errors, and as long as Redis keeps completed entries, nothing is    *)
(* embedded twice                                                              *)

\* What "as long as Redis keeps the entry" says of a step.
CompletedKept ==
    \A k \in JobIds : job[k].st = "completed" => job'[k].st = "completed"

\* The entries that Redis has had for a file; those before the embedding of their batch
\* or failed there; those before the dispatch of the next.
Ent(k) == job[k].st # "none"
Before(k) == job[k].st = "failed" \/ (Live(k) /\ job[k].ph \in {"idle", "start", "embed"})
Ahead(k) == Before(k) \/ (Live(k) /\ job[k].ph = "dispatch")
Of(f) == {k \in JobIds : Ent(k) /\ job[k].file = f}

\* Without a forced job a file has one entry per batch at most ...
OneAtEach(f) == \A j, k \in Of(f) : job[j].off = job[k].off => j = k

\* ... what is stored of a batch was stored by that entry, once ...
StoredByOne(f) ==
    \A b \in Batches(f) :
        /\ points[f][b] <= 1
        /\ points[f][b] > 0 => \E j \in Of(f) : job[j].off = b /\ ~Before(j)

\* ... an entry that is to embed its batch or to dispatch the next is the last of its chain ...
Front(f) == \A j, k \in Of(f) : Ahead(j) => job[k].off <= job[j].off

\* ... and the chain begins with the entry under the id of the path.
PathFirst(f) == Of(f) # {} => Ent(f)

OneChain ==
    \A f \in Files : Forced(f) \/ (OneAtEach(f) /\ StoredByOne(f) /\ Front(f) /\ PathFirst(f))

\* The id of the path stands for the first batch of the file, and can be used again.
PathIds == \A f \in Files : job[f].file = f /\ job[f].off = 0 /\ job[f].st # "gone"

\* Nobody crashes; who waits has no phase.
AtRest ==
    \A k \in JobIds : /\ job[k].ph # "lost"
                      /\ job[k].st \in {"waiting", "delayed"} => job[k].ph = "idle"

QInv == OneChain /\ PathIds /\ AtRest

\* What a step does to an entry that it neither adds nor embeds: it goes on, never back ...
Onward(k) ==
    /\ job'[k].file = job[k].file /\ job'[k].off = job[k].off
    /\ Ent(k)' <=> Ent(k)
    /\ Before(k)' => Before(k)
    /\ Ahead(k)' => Ahead(k)
    /\ job'[k].st = "gone" => job[k].st = "gone"

\* ... or it is dropped before it has embedded its batch.
DroppedEarly(k) ==
    /\ Before(k) \/ job[k].st \in {"none", "gone"}
    /\ job'[k] = Dropped(k, job[k].file)

PointsFall == \A f \in Files : \A b \in Batches(f) : points'[f][b] <= points[f][b]

LEMMA ForcedStays ==
  ASSUME \A k \in JobIds : Onward(k) \/ DroppedEarly(k), NEW f \in Files, Forced(f)
  PROVE  Forced(f)'
  <1>1. PICK k \in AutoIds : job[k].st # "none" /\ job[k].file = f /\ job[k].off = 0
    BY DEF Forced
  <1>2. k \in JobIds /\ k \notin Files
    BY <1>1, EmbedQueueAssumption DEF JobIds
  <1>3. job'[k].st # "none" /\ job'[k].file = f /\ job'[k].off = 0
    <2>1. CASE Onward(k)
      BY <1>1, <2>1 DEF Onward, Ent
    <2>2. CASE DroppedEarly(k)
      BY <1>1, <1>2, <2>2 DEF DroppedEarly, Dropped, NewJob
    <2> QED
      BY <1>2, <2>1, <2>2
  <1> QED
    BY <1>2, <1>1, <1>3 DEF Forced

\* Steps that only let entries go on, or drop them early, keep the chains.
LEMMA OnwardKeeps ==
  ASSUME JobsOK, JobsOK', QueueTypeOK, QueueTypeOK', OneChain, PathIds, PointsFall,
         \A k \in JobIds : Onward(k) \/ DroppedEarly(k)
  PROVE  OneChain' /\ PathIds'
  <1>0. \A k \in JobIds : /\ job[k].file \in Files /\ job'[k].file \in Files
                          /\ job[k].off \in Nat /\ job'[k].off \in Nat
    BY DEF JobsOK, Job
  <1>a. ASSUME NEW k \in JobIds
        PROVE  /\ job'[k].file = job[k].file
               /\ job'[k].off = job[k].off \/ job'[k].off = 0
               /\ job'[k].st = "gone" /\ k \in Files => job[k].st = "gone"
    <2>1. CASE Onward(k)
      BY <2>1 DEF Onward
    <2>2. CASE DroppedEarly(k)
      BY <2>2 DEF DroppedEarly, Dropped, NewJob
    <2> QED
      BY <2>1, <2>2
  <1>1. PathIds'
    BY <1>a, FileIsJobId DEF PathIds
  <1>2. ASSUME NEW f \in Files, ~Forced(f)'
        PROVE  (OneAtEach(f) /\ StoredByOne(f) /\ Front(f) /\ PathFirst(f))'
    <2>0. ~Forced(f)
      BY <1>2, ForcedStays
    <2>1. OneAtEach(f) /\ StoredByOne(f) /\ Front(f) /\ PathFirst(f)
      BY <2>0 DEF OneChain
    <2>2. f \in JobIds /\ job[f].file = f /\ job[f].off = 0 /\ job[f].st # "gone"
      BY FileIsJobId DEF PathIds
    \* Of the entries of f only the first is ever dropped: any other would now be "gone".
    <2>3. ASSUME NEW k \in JobIds, job[k].file = f, DroppedEarly(k), ~Onward(k)
          PROVE  k = f /\ Before(f) /\ Ent(f) /\ ~Ent(f)'
      <3>1. job'[k] = Dropped(k, f)
        BY <2>3 DEF DroppedEarly
      <3>2. k \in Files
        BY <1>2, <2>3, <3>1 DEF Forced, Dropped, NewJob, JobIds
      <3>3. k = f
        BY <2>3, <3>2 DEF PathIds
      <3>4. ~Ent(k)'
        BY <3>1, <3>2 DEF Ent, Dropped, NewJob
      <3>5. Ent(k)
        <4>1. SUFFICES ASSUME ~Ent(k) PROVE Onward(k)
          BY <2>3
        <4>2. ~Before(k)' /\ ~Ahead(k)'
          BY <3>4 DEF Ent, Before, Ahead, Live, LiveStates
        <4>3. job'[k].file = f /\ job'[k].off = 0
          BY <3>1 DEF Dropped, NewJob
        <4> QED
          BY <2>2, <2>3, <3>3, <3>4, <4>1, <4>2, <4>3 DEF Onward, Ent
      <3> QED
        BY <2>2, <2>3, <3>3, <3>4, <3>5 DEF DroppedEarly, Ent
    <2>4. CASE \A k \in JobIds : job[k].file = f => Onward(k)
      <3>1. Of(f)' = Of(f)
        <4>1. ASSUME NEW k \in JobIds
              PROVE  (Ent(k)' /\ job'[k].file = f) <=> (Ent(k) /\ job[k].file = f)
          BY <1>a, <2>4 DEF Onward
        <4> QED
          BY <4>1 DEF Of
      <3>2. \A k \in Of(f) : k \in JobIds /\ Onward(k)
        BY <2>4 DEF Of
      <3>3. OneAtEach(f)'
        BY <2>1, <3>1, <3>2 DEF OneAtEach, Onward
      <3>4. StoredByOne(f)'
        <4> SUFFICES ASSUME NEW b \in Batches(f)
                     PROVE  /\ points'[f][b] <= 1
                            /\ points'[f][b] > 0 => \E j \in Of(f)' : job'[j].off = b /\ ~Before(j)'
          BY DEF StoredByOne, Batches
        <4>1. points'[f][b] \in Nat /\ points[f][b] \in Nat /\ points'[f][b] <= points[f][b]
          BY DEF QueueTypeOK, PointsFall
        <4>2. points'[f][b] <= 1
          BY <2>1, <4>1 DEF StoredByOne
        <4>3. ASSUME points'[f][b] > 0
              PROVE  \E j \in Of(f)' : job'[j].off = b /\ ~Before(j)'
          <5>1. points[f][b] > 0
            BY <4>1, <4>3
          <5>2. PICK j \in Of(f) : job[j].off = b /\ ~Before(j)
            BY <2>1, <5>1 DEF StoredByOne
          <5> QED
            BY <3>1, <3>2, <5>2 DEF Onward
        <4> QED
          BY <4>2, <4>3
      <3>5. Front(f)'
        BY <2>1, <3>1, <3>2 DEF Front, Onward
      <3>6. PathFirst(f)'
        BY <2>1, <2>2, <2>4, <3>1 DEF PathFirst, Onward
      <3> QED
        BY <3>3, <3>4, <3>5, <3>6
    <2>5. CASE ~(\A k \in JobIds : job[k].file = f => Onward(k))
      <3>1. Before(f) /\ Ent(f) /\ ~Ent(f)'
        BY <2>3, <2>5
      <3>2. Of(f) = {f}
        <4>1. f \in Of(f)
          BY <2>2, <3>1 DEF Of
        <4>2. ASSUME NEW k \in Of(f)
              PROVE  k = f
          <5>1. k \in JobIds /\ job[k].off <= job[f].off
            BY <2>1, <3>1, <4>1 DEF Front, Ahead, Of
          <5>2. job[k].off = job[f].off
            BY <1>0, <2>2, <5>1
          <5> QED
            BY <2>1, <4>1, <5>2 DEF OneAtEach
        <4> QED
          BY <4>1, <4>2
      <3>3. Of(f)' = {}
        <4>1. ASSUME NEW k \in JobIds, Ent(k)', job'[k].file = f
              PROVE  FALSE
          <5>1. k # f
            BY <3>1, <4>1
          <5>2. job[k].file = f
            BY <1>a, <4>1
          <5>3. Onward(k)
            BY <2>3, <5>1, <5>2
          <5>4. Ent(k)
            BY <4>1, <5>3 DEF Onward
          <5> QED
            BY <3>2, <5>1, <5>2, <5>4 DEF Of
        <4> QED
          BY <4>1 DEF Of
      <3>4. \A b \in Batches(f) : points'[f][b] = 0
        <4> TAKE b \in Batches(f)
        <4>1. points'[f][b] \in Nat /\ points[f][b] \in Nat /\ points'[f][b] <= points[f][b]
          BY DEF QueueTypeOK, PointsFall
        <4>2. ~(points[f][b] > 0)
          BY <2>1, <3>1, <3>2 DEF StoredByOne
        <4> QED
          BY <4>1, <4>2
      <3>5. StoredByOne(f)'
        BY <3>4 DEF StoredByOne, Batches
      <3> QED
        BY <3>3, <3>5 DEF OneAtEach, Front, PathFirst
    <2> QED
      BY <2>4, <2>5
  <1> QED
    BY <1>1, <1>2 DEF OneChain
----------------------------------------------------------------------------
(* The steps that add an entry, and the one that embeds a batch *)

\* Entries other than those of file f, and its points, are left alone.
Apart(f) ==
    /\ \A k \in JobIds : (Ent(k) /\ job[k].file # f) \/ (Ent(k)' /\ job'[k].file # f) =>
          job'[k] = job[k]
    /\ \A g \in Files \ {f} : points'[g] = points[g]

LEMMA ApartKeeps ==
  ASSUME OneChain, PathIds, NEW f \in Files, Apart(f), NEW g \in Files \ {f}
  PROVE  (Forced(g) \/ (OneAtEach(g) /\ StoredByOne(g) /\ Front(g) /\ PathFirst(g)))'
  <1>1. \A k \in JobIds : (Ent(k) /\ job[k].file = g) <=> (Ent(k)' /\ job'[k].file = g)
    BY DEF Apart, Ent
  <1>2. Of(g)' = Of(g) /\ \A k \in Of(g) : k \in JobIds /\ job'[k] = job[k]
    BY <1>1 DEF Apart, Of, Ent
  <1>3. Forced(g) => Forced(g)'
    <2> SUFFICES ASSUME Forced(g) PROVE Forced(g)'
      OBVIOUS
    <2>1. PICK k \in AutoIds : job[k].st # "none" /\ job[k].file = g /\ job[k].off = 0
      BY DEF Forced
    <2>2. k \in Of(g)
      BY <2>1 DEF Of, Ent, JobIds
    <2> QED
      BY <1>2, <2>1, <2>2 DEF Forced
  <1>4. SUFFICES ASSUME ~Forced(g)
                 PROVE  (OneAtEach(g) /\ StoredByOne(g) /\ Front(g) /\ PathFirst(g))'
    BY <1>3
  <1>5. OneAtEach(g) /\ StoredByOne(g) /\ Front(g) /\ PathFirst(g) /\ points'[g] = points[g]
    BY <1>4 DEF OneChain, Apart
  <1>6. \A k \in Of(g) : (Before(k)' <=> Before(k)) /\ (Ahead(k)' <=> Ahead(k))
    BY <1>2 DEF Before, Ahead, Live
  <1>7. OneAtEach(g)' /\ Front(g)'
    BY <1>2, <1>5, <1>6 DEF OneAtEach, Front
  <1>8. StoredByOne(g)'
    BY <1>2, <1>5, <1>6 DEF StoredByOne, Batches
  <1>9. PathFirst(g)'
    <2>1. SUFFICES ASSUME Of(g)' # {} PROVE Ent(g)'
      BY DEF PathFirst
    <2>2. Ent(g)
      BY <1>2, <1>5, <2>1 DEF PathFirst
    <2> QED
      BY <1>1, <2>2, FileIsJobId DEF PathIds
  <1> QED
    BY <1>7, <1>8, <1>9

LEMMA SameKeeps ==
  ASSUME JobsOK, QueueTypeOK, QueueTypeOK', OneChain, PathIds, job' = job, PointsFall
  PROVE  OneChain' /\ PathIds'
  <1>1. JobsOK'
    BY DEF JobsOK
  <1>2. \A k \in JobIds : Onward(k)
    BY DEF Onward, Ent, Before, Ahead, Live
  <1> QED
    BY <1>1, <1>2, OnwardKeeps

LEMMA AddFirstKeeps ==
  ASSUME JobsOK, QueueTypeOK, QueueTypeOK', OneChain, PathIds, NEW f \in Files, AddFirst(f),
         points' = points
  PROVE  OneChain' /\ PathIds'
  <1>0. f \in JobIds /\ job[f].file = f /\ job[f].off = 0
    BY FileIsJobId DEF PathIds
  <1>1. CASE Ent(f)
    <2>1. job' = job
      BY <1>1 DEF AddFirst, Ent
    <2>2. PointsFall
      BY DEF PointsFall, QueueTypeOK
    <2> QED
      BY <2>1, <2>2, SameKeeps
  <1>2. CASE ~Ent(f)
    <2>1. job'[f] = NewJob(f, 0) /\ \A k \in JobIds \ {f} : job'[k] = job[k]
      BY <1>0, <1>2 DEF AddFirst, Ent, JobsOK
    <2>2. PathIds'
      BY <2>1 DEF PathIds, NewJob, JobIds
    <2>3. job'[f].file = f /\ job'[f].off = 0 /\ Ent(f)'
      BY <2>1 DEF NewJob, Ent
    <2>4. Apart(f)
      BY <1>0, <1>2, <2>1, <2>3 DEF Apart
    <2>5. CASE Forced(f)
      <3>1. Forced(f)'
        <4>1. PICK k \in AutoIds : job[k].st # "none" /\ job[k].file = f /\ job[k].off = 0
          BY <2>5 DEF Forced
        <4>2. job'[k] = job[k]
          BY <2>1, EmbedQueueAssumption DEF JobIds
        <4> QED
          BY <4>1, <4>2 DEF Forced
      <3> QED
        BY <2>2, <2>4, <3>1, ApartKeeps DEF OneChain
    <2>6. CASE ~Forced(f)
      <3>1. OneAtEach(f) /\ StoredByOne(f) /\ PathFirst(f)
        BY <2>6 DEF OneChain
      <3>2. Of(f) = {}
        BY <1>2, <3>1 DEF PathFirst
      <3>3. Of(f)' = {f}
        <4>1. \A k \in JobIds \ {f} : ~(Ent(k)' /\ job'[k].file = f)
          BY <2>1, <3>2 DEF Of, Ent
        <4> QED
          BY <1>0, <2>3, <4>1 DEF Of
      <3>4. OneAtEach(f)' /\ Front(f)' /\ PathFirst(f)'
        <4>1. job'[f].off <= job'[f].off
          BY <2>3
        <4> QED
          BY <2>3, <3>3, <4>1 DEF OneAtEach, Front, PathFirst
      <3>5. StoredByOne(f)'
        BY <3>1, <3>2 DEF StoredByOne, Batches
      <3> QED
        BY <2>2, <2>4, <3>4, <3>5, ApartKeeps DEF OneChain
    <2> QED
      BY <2>5, <2>6
  <1> QED
    BY <1>1, <1>2

LEMMA AddFreshKeeps ==
  ASSUME JobsOK, OneChain, PathIds, NEW f \in Files, AddFresh(f, 0), points' = points
  PROVE  OneChain' /\ PathIds'
  <1> DEFINE n == FreshId
  <1>1. n \in AutoIds /\ n \in JobIds /\ job[n].st = "none"
    BY FreshIdOK DEF AddFresh
  <1>2. job'[n] = NewJob(f, 0) /\ \A k \in JobIds \ {n} : job'[k] = job[k]
    BY <1>1 DEF AddFresh, JobsOK
  <1> HIDE DEF n
  <1>3. Apart(f)
    BY <1>1, <1>2 DEF Apart, Ent, NewJob
  <1>4. Forced(f)'
    BY <1>1, <1>2 DEF Forced, NewJob
  <1>5. PathIds'
    BY <1>1, <1>2, EmbedQueueAssumption DEF PathIds, JobIds
  <1> QED
    BY <1>3, <1>4, <1>5, ApartKeeps DEF OneChain

\* The batch of a job is stored by nobody else: were it stored, the entry that stored it would
\* be this one, which has yet to do so.
LEMMA EmbedKeeps ==
  ASSUME JobsOK, QueueTypeOK, OneChain, PathIds, NEW j \in JobIds, NEW f, NEW b,
         job[j].file = f, job[j].off = b, Before(j), Live(j), StoreBatch(f, b),
         NEW r, SetJob(j, r), r.file = f, r.off = b, r.st = "active",
         r.ph \in {"dispatch", "finish"}
  PROVE  OneChain' /\ PathIds'
  <1>1. f \in Files /\ b \in Batches(f) /\ b \in Nat
    BY DEF JobsOK, Job
  <1>2. job'[j] = r /\ \A k \in JobIds \ {j} : job'[k] = job[k]
    BY DEF SetJob, JobsOK
  <1>3. /\ points'[f][b] = points[f][b] + 1
        /\ \A a \in Batches(f) \ {b} : points'[f][a] = points[f][a]
        /\ \A g \in Files \ {f} : points'[g] = points[g]
    BY <1>1 DEF StoreBatch, QueueTypeOK
  <1>4. job'[j].file = f /\ job'[j].off = b /\ Ent(j) /\ Ent(j)' /\ ~Before(j)' /\ Ahead(j)
    BY <1>2 DEF Ent, Before, Ahead, Live, LiveStates
  <1>5. f \in Files /\ j \in Of(f)
    BY <1>1, <1>4 DEF Of
  <1>6. \A k \in JobIds : /\ job'[k].file = job[k].file /\ job'[k].off = job[k].off
                          /\ Ent(k)' <=> Ent(k)
                          /\ Before(k)' => Before(k)
                          /\ Ahead(k)' => Ahead(k)
                          /\ job'[k].st = "gone" => job[k].st = "gone"
    <2> TAKE k \in JobIds
    <2>1. CASE k = j
      BY <1>2, <1>4, <2>1
    <2>2. CASE k # j
      BY <1>2, <2>2 DEF Ent, Before, Ahead, Live
    <2> QED
      BY <2>1, <2>2
  <1>7. PathIds'
    BY <1>6, FileIsJobId DEF PathIds
  <1>8. Apart(f)
    BY <1>2, <1>3, <1>4, <1>5 DEF Apart
  <1>9. Of(f)' = Of(f)
    BY <1>6 DEF Of
  <1>10. CASE Forced(f)
    <2>1. Forced(f)'
      BY <1>6, <1>10 DEF Forced, Ent, JobIds
    <2> QED
      BY <1>1, <1>5, <1>7, <1>8, <2>1, ApartKeeps DEF OneChain
  <1>11. CASE ~Forced(f)
    <2>1. OneAtEach(f) /\ StoredByOne(f) /\ Front(f) /\ PathFirst(f)
      BY <1>5, <1>11 DEF OneChain
    <2>2. \A k \in Of(f) : k \in JobIds
      BY DEF Of
    <2>3. OneAtEach(f)' /\ Front(f)'
      BY <1>6, <1>9, <2>1, <2>2 DEF OneAtEach, Front
    <2>4. PathFirst(f)'
      BY <1>5, <1>6, <1>9, <2>1, FileIsJobId DEF PathFirst
    <2>5. points[f][b] = 0
      <3>1. points[f][b] \in Nat
        BY <1>1 DEF QueueTypeOK
      <3>2. ~(points[f][b] > 0)
        <4>1. SUFFICES ASSUME points[f][b] > 0 PROVE FALSE
          OBVIOUS
        <4>2. PICK i \in Of(f) : job[i].off = b /\ ~Before(i)
          BY <1>1, <2>1, <4>1 DEF StoredByOne
        <4>3. i = j
          BY <1>5, <2>1, <4>2 DEF OneAtEach
        <4> QED
          BY <4>2, <4>3
      <3> QED
        BY <3>1, <3>2
    <2>6. StoredByOne(f)'
      <3> SUFFICES ASSUME NEW a \in Batches(f)
                   PROVE  /\ points'[f][a] <= 1
                          /\ points'[f][a] > 0 => \E k \in Of(f)' : job'[k].off = a /\ ~Before(k)'
        BY DEF StoredByOne, Batches
      <3>1. CASE a = b
        <4>1. points'[f][a] = 1
          BY <1>3, <2>5, <3>1
        <4> QED
          BY <1>4, <1>5, <1>9, <3>1, <4>1
      <3>2. CASE a # b
        <4>1. points'[f][a] = points[f][a]
          BY <1>3, <3>2
        <4> QED
          BY <1>6, <1>9, <2>1, <2>2, <4>1 DEF StoredByOne
      <3> QED
        BY <3>1, <3>2
    <2> QED
      BY <1>1, <1>5, <1>7, <1>8, <2>3, <2>4, <2>6, ApartKeeps DEF OneChain
  <1> QED
    BY <1>10, <1>11

\* The next batch is dispatched by the last entry of the chain, and by no other.
LEMMA ContinueKeeps ==
  ASSUME JobsOK, QueueTypeOK, OneChain, PathIds, NEW j \in JobIds, Continue(j),
         NEW f, NEW b, NEW n, job[j].file = f, job[j].off = b, n = FreshId
  PROVE  OneChain' /\ PathIds'
  <1>1. f \in Files /\ b \in Nat /\ job[j] \in Job /\ job[j].st = "active" /\ job[j].ph = "dispatch"
    BY DEF JobsOK, Job, Continue, InPhase
  <1>2. n \in AutoIds /\ n \in JobIds /\ n # j /\ job[n].st = "none" /\ n \notin Files
    BY <1>1, FreshIdOK, EmbedQueueAssumption DEF Continue
  <1>3. /\ job'[j] = [job[j] EXCEPT !.ph = "close"]
        /\ job'[n] = NewJob(f, b + 1)
        /\ \A k \in JobIds \ {j, n} : job'[k] = job[k]
    BY <1>2 DEF Continue, JobsOK
  <1>4. points' = points
    BY DEF Continue
  <1>5. /\ f \in Files /\ b \in Nat /\ job[j].file = f /\ job[j].off = b
        /\ job'[j].st = "active" /\ job'[j].ph = "close" /\ job'[j].file = f /\ job'[j].off = b
        /\ job'[n].st = "waiting" /\ job'[n].file = f /\ job'[n].off = b + 1
    BY <1>1, <1>3 DEF Job, NewJob
  <1>6. /\ Ent(j) /\ Ahead(j) /\ Ent(j)' /\ ~Ahead(j)' /\ ~Before(j)' /\ ~Before(j)
        /\ ~Ent(n) /\ Ent(n)'
    BY <1>1, <1>2, <1>5 DEF Ent, Before, Ahead, Live, LiveStates
  <1>7. PathIds'
    <2> SUFFICES ASSUME NEW g \in Files
                 PROVE  job'[g].file = g /\ job'[g].off = 0 /\ job'[g].st # "gone"
      BY DEF PathIds
    <2>1. g \in JobIds /\ job[g].file = g /\ job[g].off = 0 /\ job[g].st # "gone" /\ g # n
      BY <1>2, FileIsJobId DEF PathIds
    <2>2. CASE g = j
      BY <1>5, <2>1, <2>2
    <2>3. CASE g # j
      BY <1>3, <2>1, <2>3
    <2> QED
      BY <2>2, <2>3
  <1>8. Apart(f)
    BY <1>3, <1>4, <1>5, <1>6 DEF Apart
  <1>9. j \in Of(f) /\ Of(f)' = Of(f) \cup {n}
    <2>1. \A k \in JobIds \ {n} : (Ent(k)' <=> Ent(k)) /\ job'[k].file = job[k].file
                                 /\ job'[k].off = job[k].off
      BY <1>3, <1>5, <1>6 DEF Ent
    <2> QED
      BY <1>2, <1>5, <1>6, <2>1 DEF Of
  <1>10. CASE Forced(f)
    <2>1. Forced(f)'
      <3>1. PICK k \in AutoIds : job[k].st # "none" /\ job[k].file = f /\ job[k].off = 0
        BY <1>10 DEF Forced
      <3>2. k \in JobIds /\ k # n
        BY <1>2, <3>1 DEF JobIds
      <3>3. job'[k].st # "none" /\ job'[k].file = f /\ job'[k].off = 0
        BY <1>3, <1>5, <3>1, <3>2
      <3> QED
        BY <3>1, <3>3 DEF Forced
    <2> QED
      BY <1>5, <1>7, <1>8, <2>1, ApartKeeps DEF OneChain
  <1>11. CASE ~Forced(f)
    <2>1. OneAtEach(f) /\ StoredByOne(f) /\ Front(f) /\ PathFirst(f)
      BY <1>5, <1>11 DEF OneChain
    <2>2. \A k \in Of(f) : k \in JobIds /\ job[k].off \in Nat /\ job[k].off <= b /\ k # n
      <3> TAKE k \in Of(f)
      <3>1. k \in JobIds /\ job[k].off \in Nat /\ Ent(k)
        BY DEF Of, JobsOK, Job
      <3>2. job[k].off <= b
        BY <1>5, <1>6, <1>9, <2>1 DEF Front
      <3> QED
        BY <1>6, <3>1, <3>2
    <2>3. \A k \in Of(f) : /\ job'[k].off = job[k].off
                           /\ ~Ahead(k)'
                           /\ Before(k)' <=> Before(k)
      <3> TAKE k \in Of(f)
      <3>1. CASE k = j
        BY <1>5, <1>6, <3>1
      <3>2. CASE k # j
        <4>1. job'[k] = job[k]
          BY <1>3, <2>2, <3>2
        <4>2. ~Ahead(k)
          <5>1. SUFFICES ASSUME Ahead(k) PROVE FALSE
            OBVIOUS
          <5>2. b <= job[k].off
            BY <1>5, <1>9, <2>1, <5>1 DEF Front
          <5>3. job[k].off = b
            BY <1>5, <2>2, <5>2
          <5> QED
            BY <1>5, <1>9, <2>1, <3>2, <5>3 DEF OneAtEach
        <4> QED
          BY <4>1, <4>2 DEF Ahead, Before, Live
      <3> QED
        BY <3>1, <3>2
    <2>4. OneAtEach(f)'
      <3> SUFFICES ASSUME NEW i \in Of(f)', NEW k \in Of(f)', job'[i].off = job'[k].off
                   PROVE  i = k
        BY DEF OneAtEach
      <3>1. \A h \in Of(f) : job'[h].off # job'[n].off
        BY <1>5, <2>2, <2>3
      <3> QED
        BY <1>9, <2>1, <2>3, <3>1 DEF OneAtEach
    <2>5. Front(f)'
      <3> SUFFICES ASSUME NEW i \in Of(f)', NEW k \in Of(f)', Ahead(i)'
                   PROVE  job'[k].off <= job'[i].off
        BY DEF Front
      <3>1. i = n
        BY <1>9, <2>3
      <3> QED
        BY <1>5, <1>9, <2>2, <2>3, <3>1
    <2>6. StoredByOne(f)'
      BY <1>4, <1>9, <2>1, <2>3 DEF StoredByOne, Batches
    <2>7. PathFirst(f)'
      <3>1. Ent(f) /\ f \in JobIds /\ f # n
        BY <1>2, <1>5, <1>9, <2>1, FileIsJobId DEF PathFirst
      <3>2. Ent(f)'
        BY <1>3, <1>6, <3>1 DEF Ent
      <3> QED
        BY <3>2 DEF PathFirst
    <2> QED
      BY <1>5, <1>7, <1>8, <2>4, <2>5, <2>6, <2>7, ApartKeeps DEF OneChain
  <1> QED
    BY <1>10, <1>11
----------------------------------------------------------------------------
(* The steps of the worker and of the requests *)

\* What a step leaves of the phase of an entry.
StaysAtRest(k) ==
    /\ job'[k].ph # "lost"
    /\ job'[k].st \in {"waiting", "delayed"} => job'[k].ph = "idle"

LEMMA RetireOnward ==
  ASSUME JobsOK, AtRest, CompletedKept, NEW j \in JobIds, Live(j),
         NEW s \in {"completed", "failed"}, NEW keep \in Nat, Retire(j, s, keep),
         s = "failed" => Before(j)
  PROVE  /\ \A k \in JobIds : Onward(k) \/ DroppedEarly(k)
         /\ AtRest'
  <1>1. ASSUME NEW k \in JobIds
        PROVE  (Onward(k) \/ DroppedEarly(k)) /\ StaysAtRest(k)
    <2>0. job[k].file \in Files /\ job[k].age \in Nat /\ job[k] \in Job /\ job[k].off \in Nat
      BY DEF JobsOK, Job
    <2>1. CASE k = j
      <3>1. job'[k] = [NewJob(job[k].file, job[k].off) EXCEPT
                         !.st = s, !.failed = s = "failed" /\ (job[k].ph # "lost" \/ job[k].failed)]
        BY <2>1 DEF Retire
      <3>2. /\ job'[k].file = job[k].file /\ job'[k].off = job[k].off
            /\ job'[k].st = s /\ job'[k].ph = "idle"
        BY <3>1 DEF NewJob
      <3> QED
        BY <2>1, <3>2 DEF Onward, Ent, Before, Ahead, Live, LiveStates, StaysAtRest
    <2>2. CASE k # j /\ job[k].st = s /\ job[k].age + 1 >= keep
      <3>1. job'[k] = Dropped(k, job[k].file)
        BY <2>0, <2>2 DEF Retire
      <3>2. job'[k].st \in {"none", "gone"} /\ job'[k].ph = "idle"
        BY <3>1 DEF Dropped, NewJob
      <3>3. s = "failed"
        BY <2>2, <3>2 DEF CompletedKept
      <3> QED
        BY <2>2, <3>1, <3>2, <3>3 DEF DroppedEarly, Before, StaysAtRest
    <2>3. CASE k # j /\ job[k].st = s /\ job[k].age + 1 < keep
      <3>1. job'[k] = [job[k] EXCEPT !.age = job[k].age + 1]
        BY <2>0, <2>3 DEF Retire
      <3>2. /\ job'[k].file = job[k].file /\ job'[k].off = job[k].off
            /\ job'[k].st = job[k].st /\ job'[k].ph = job[k].ph
        BY <2>0, <3>1 DEF Job
      <3> QED
        BY <3>2 DEF Onward, Ent, Before, Ahead, Live, StaysAtRest, AtRest
    <2>4. CASE k # j /\ job[k].st # s
      <3>1. job'[k] = job[k]
        BY <2>4 DEF Retire
      <3> QED
        BY <3>1 DEF Onward, Ent, Before, Ahead, Live, StaysAtRest, AtRest
    <2> QED
      BY <2>0, <2>1, <2>2, <2>3, <2>4
  <1> QED
    BY <1>1 DEF AtRest, StaysAtRest

\* A cleanup removes what it listed as failed, whatever has become of it, unless a worker has
\* it or, since Redis is taken to keep completed entries, it has completed.
LEMMA RemoveOnward ==
  ASSUME JobsOK, AtRest, CompletedKept, NEW j \in JobIds, job[j].st # "active", Remove(j)
  PROVE  /\ \A k \in JobIds : Onward(k) \/ DroppedEarly(k)
         /\ AtRest'
  <1>1. ASSUME NEW k \in JobIds
        PROVE  (Onward(k) \/ DroppedEarly(k)) /\ StaysAtRest(k)
    <2>0. job[k].file \in Files /\ job[k].age \in Nat /\ job[k] \in Job /\ job[j].age \in Nat
          /\ job[k].st \in JobStates
      BY DEF JobsOK, Job
    <2>1. CASE k = j
      <3>1. job'[k] = Dropped(k, job[k].file)
        BY <2>1 DEF Remove
      <3>2. job'[k].st \in {"none", "gone"} /\ job'[k].ph = "idle"
        BY <3>1 DEF Dropped, NewJob
      <3>3. job[k].st # "completed"
        BY <3>2 DEF CompletedKept
      <3>4. Before(k) \/ job[k].st \in {"none", "gone"}
        BY <2>0, <2>1, <3>3 DEF AtRest, Before, Live, LiveStates, JobStates
      <3> QED
        BY <3>1, <3>2, <3>4 DEF DroppedEarly, StaysAtRest
    <2>2. CASE k # j /\ job[k].st = job[j].st /\ job[k].age > job[j].age
      <3>1. job'[k] = [job[k] EXCEPT !.age = job[k].age - 1]
        BY <2>0, <2>2 DEF Remove
      <3>2. /\ job'[k].file = job[k].file /\ job'[k].off = job[k].off
            /\ job'[k].st = job[k].st /\ job'[k].ph = job[k].ph
        BY <2>0, <3>1 DEF Job
      <3> QED
        BY <3>2 DEF Onward, Ent, Before, Ahead, Live, StaysAtRest, AtRest
    <2>3. CASE k # j /\ ~(job[k].st = job[j].st /\ job[k].age > job[j].age)
      <3>1. job'[k] = job[k]
        BY <2>3 DEF Remove
      <3> QED
        BY <3>1 DEF Onward, Ent, Before, Ahead, Live, StaysAtRest, AtRest
    <2> QED
      BY <2>1, <2>2, <2>3
  <1> QED
    BY <1>1 DEF AtRest, StaysAtRest

\* A job that goes on: its entry is rewritten and keeps its file and batch.
LEMMA RewriteOnward ==
  ASSUME JobsOK, AtRest, NEW j \in JobIds, Live(j), NEW r, SetJob(j, r),
         r.file = job[j].file, r.off = job[j].off, r.st \in LiveStates, r.ph # "lost",
         r.st \in {"waiting", "delayed"} => r.ph = "idle",
         r.ph \in {"idle", "start", "embed"} => Before(j), r.ph # "dispatch"
  PROVE  /\ \A k \in JobIds : Onward(k)
         /\ AtRest'
  <1>1. job'[j] = r /\ \A k \in JobIds \ {j} : job'[k] = job[k]
    BY DEF SetJob, JobsOK
  <1>2. Onward(j)
    BY <1>1 DEF Onward, Ent, Before, Ahead, Live, LiveStates
  <1>3. \A k \in JobIds \ {j} : Onward(k)
    BY <1>1 DEF Onward, Ent, Before, Ahead, Live
  <1>4. AtRest'
    BY <1>1 DEF AtRest
  <1> QED
    BY <1>2, <1>3, <1>4

\* Nothing fails, in a system that has no errors.
LEMMA NoFaults ==
  ASSUME MaxFaults = 0, TypeOK
  PROVE  ~Fault
  BY DEF Fault, TypeOK, QueueTypeOK

LEMMA WorkerKeepsOneChain ==
  ASSUME MaxFaults = 0, TypeOK, QueueTypeOK', QInv, CompletedKept, WorkerNext
  PROVE  QInv'
  <1>0. JobsOK /\ JobsOK' /\ QueueTypeOK /\ OneChain /\ PathIds /\ AtRest /\ ~Fault
    BY NoFaults DEF TypeOK, QueueTypeOK, JobsOK, QInv
  <1>1. PICK j \in JobIds : WorkerStep(j)
    BY <1>0 DEF WorkerNext, Crash
  <1>2. job[j] \in Job /\ job[j].file \in Files /\ job[j].off \in Nat
    BY <1>0 DEF JobsOK, Job
  <1>a. points' = points => PointsFall
    BY <1>0 DEF PointsFall, QueueTypeOK
  <1>b. ASSUME points' = points, \A k \in JobIds : Onward(k) \/ DroppedEarly(k), AtRest'
        PROVE  QInv'
    BY <1>0, <1>a, <1>b, OnwardKeeps DEF QInv
  \* Steps that only rewrite the entry of the job.
  <1>c. ASSUME NEW r, SetJob(j, r), points' = points, Live(j),
               r.file = job[j].file, r.off = job[j].off, r.st \in LiveStates, r.ph # "lost",
               r.st \in {"waiting", "delayed"} => r.ph = "idle",
               r.ph \in {"idle", "start", "embed"} => Before(j), r.ph # "dispatch"
        PROVE  QInv'
    BY <1>0, <1>b, <1>c, RewriteOnward
  <1>3. CASE Start(j)
    <2> DEFINE r == [job[j] EXCEPT !.st = "active", !.ph = "start"]
    <2>1. r.file = job[j].file /\ r.off = job[j].off /\ r.st = "active" /\ r.ph = "start"
      BY <1>2 DEF Job
    <2>2. SetJob(j, r) /\ points' = points /\ Live(j) /\ Before(j)
      BY <1>0, <1>3 DEF Start, Live, LiveStates, Before, AtRest
    <2> HIDE DEF r
    <2> QED
      BY <1>c, <2>1, <2>2 DEF LiveStates
  <1>4. CASE CheckServices(j)
    <2> DEFINE r == [job[j] EXCEPT !.ph = "embed", !.failed = FALSE]
    <2>1. r.file = job[j].file /\ r.off = job[j].off /\ r.st = "active" /\ r.ph = "embed"
      BY <1>2, <1>4 DEF Job, CheckServices, InPhase
    <2>2. SetJob(j, r) /\ points' = points /\ Live(j) /\ Before(j)
      BY <1>4 DEF CheckServices, InPhase, Live, LiveStates, Before
    <2> HIDE DEF r
    <2> QED
      BY <1>c, <2>1, <2>2 DEF LiveStates
  <1>5. CASE ServicesDown(j) \/ ContinueFails(j) \/ RecordFails(j) \/ RecoverStalled(j)
    BY <1>0, <1>5, EmbedQueueAssumption
    DEF ServicesDown, ContinueFails, RecordFails, RecoverStalled, InPhase, AtRest, TypeOK, QueueTypeOK
  <1>6. CASE EmbedBatch(j)
    <2>1. Before(j) /\ Live(j) /\ job[j].st = "active" /\ StoreBatch(job[j].file, job[j].off)
      BY <1>0, <1>6 DEF EmbedBatch, InPhase, Before, Live, LiveStates
    <2>2. PICK got \in {0, 1}, ph \in {"dispatch", "finish"} :
            SetJob(j, [job[j] EXCEPT !.got = got, !.ph = ph])
      BY <1>6 DEF EmbedBatch
    <2> DEFINE r == [job[j] EXCEPT !.got = got, !.ph = ph]
    <2>3. r.file = job[j].file /\ r.off = job[j].off /\ r.st = "active" /\ r.ph = ph
      BY <1>2, <2>1 DEF Job
    <2>4. SetJob(j, r)
      BY <2>2
    <2> HIDE DEF r
    <2>5. OneChain' /\ PathIds'
      BY <1>0, <2>1, <2>2, <2>3, <2>4, EmbedKeeps
    <2>6. AtRest'
      BY <1>0, <2>2, <2>3, <2>4 DEF AtRest, SetJob, JobsOK
    <2> QED
      BY <2>5, <2>6 DEF QInv
  <1>7. CASE EmbedFails(j)
    <2>1. Before(j) /\ Live(j) /\ points' = points /\ Retry(j)
      BY <1>0, <1>7 DEF EmbedFails, InPhase, Before, Live, LiveStates
    <2>2. CASE job[j].tries + 1 < MaxAttempts
      <3> DEFINE r == [job[j] EXCEPT !.st = "delayed", !.ph = "idle", !.failed = TRUE,
                                     !.got = 0, !.tries = job[j].tries + 1]
      <3>1. r.file = job[j].file /\ r.off = job[j].off /\ r.st = "delayed" /\ r.ph = "idle"
        BY <1>2 DEF Job
      <3>2. SetJob(j, r)
        BY <2>1, <2>2 DEF Retry
      <3> HIDE DEF r
      <3> QED
        BY <1>c, <2>1, <3>1, <3>2 DEF LiveStates
    <2>3. CASE ~(job[j].tries + 1 < MaxAttempts)
      <3>1. Retire(j, "failed", KeepFailed)
        BY <2>1, <2>3 DEF Retry
      <3> QED
        BY <1>0, <1>b, <2>1, <3>1, RetireOnward, EmbedQueueAssumption
    <2> QED
      BY <2>2, <2>3
  <1>8. CASE Continue(j)
    <2>1. OneChain' /\ PathIds'
      BY <1>0, <1>8, ContinueKeeps
    <2>2. FreshId \in JobIds /\ FreshId # j
      BY <1>8, FreshIdOK DEF Continue, InPhase
    <2>3. AtRest'
      <3>1. job'[j] = [job[j] EXCEPT !.ph = "close"]
            /\ job'[FreshId] = NewJob(job[j].file, job[j].off + 1)
            /\ \A k \in JobIds \ {j, FreshId} : job'[k] = job[k]
        BY <1>0, <1>8, <2>2 DEF Continue, JobsOK
      <3>2. job'[j].st = "active" /\ job'[j].ph = "close"
        BY <1>2, <1>8, <3>1 DEF Job, Continue, InPhase
      <3>3. job'[FreshId].ph = "idle"
        BY <3>1 DEF NewJob
      <3> QED
        BY <1>0, <3>1, <3>2, <3>3 DEF AtRest
    <2> QED
      BY <2>1, <2>3 DEF QInv
  <1>9. CASE Finish(j)
    <2> DEFINE r == [job[j] EXCEPT !.ph = "mark", !.got = 0,
                                   !.chunks = job[j].chunks + job[j].got]
    <2>1. r.file = job[j].file /\ r.off = job[j].off /\ r.st = "active" /\ r.ph = "mark"
      BY <1>2, <1>9 DEF Job, Finish, InPhase
    <2>2. SetJob(j, r) /\ points' = points /\ Live(j)
      BY <1>9 DEF Finish, InPhase, Live, LiveStates
    <2> HIDE DEF r
    <2> QED
      BY <1>c, <2>1, <2>2 DEF LiveStates
  <1>10. CASE MarkIndexed(j)
    <2> DEFINE r == [job[j] EXCEPT !.ph = "close"]
    <2>1. r.file = job[j].file /\ r.off = job[j].off /\ r.st = "active" /\ r.ph = "close"
      BY <1>2, <1>10 DEF Job, MarkIndexed, InPhase
    <2>2. SetJob(j, r) /\ points' = points /\ Live(j)
      BY <1>10 DEF MarkIndexed, GoTo, InPhase, Live, LiveStates
    <2> HIDE DEF r
    <2> QED
      BY <1>c, <2>1, <2>2 DEF LiveStates
  <1>11. CASE Complete(j)
    <2>1. Live(j) /\ points' = points /\ Retire(j, "completed", KeepCompleted)
      BY <1>11 DEF Complete, InPhase, Live, LiveStates
    <2> QED
      BY <1>0, <1>b, <2>1, RetireOnward, EmbedQueueAssumption
  <1>12. CASE Promote(j)
    <2> DEFINE r == [job[j] EXCEPT !.st = "waiting"]
    <2>1. r.file = job[j].file /\ r.off = job[j].off /\ r.st = "waiting" /\ r.ph = job[j].ph
      BY <1>2 DEF Job
    <2>2. SetJob(j, r) /\ points' = points /\ Live(j) /\ Before(j) /\ job[j].ph = "idle"
      BY <1>0, <1>12 DEF Promote, Live, LiveStates, Before, AtRest
    <2> HIDE DEF r
    <2> QED
      BY <1>c, <2>1, <2>2 DEF LiveStates
  <1> QED
    BY <1>1, <1>3, <1>4, <1>5, <1>6, <1>7, <1>8, <1>9, <1>10, <1>11, <1>12
    DEF WorkerStep, Handle

\* What a request may do to the queue and the points.
Requested ==
    \/ points' = points /\ (job' = job \/ Added \/ \E j \in JobIds : job[j].st # "active" /\ Remove(j))
    \/ job' = job /\ \E F \in SUBSET Files : DeletePoints(F)

LEMMA RequestsAreQuiet ==
  ASSUME TypeOK, NEW c \in Clients, Request(c) \/ Serve(c)
  PROVE  Requested
  <1>0. Todo(c) \subseteq Files /\ req[c].seen \subseteq Files /\ req[c].jobs \subseteq JobIds
    BY CurrentOK
  <1>1. CASE Request(c) /\ ~Delete(c)
    BY <1>1 DEF Request, Upload, ZimArrives, ZimDelete, SetPolicy, DiscoverDocs,
      Scan, EmbedSingle, BulkCheck, Cleanup, Requested, queueVars
  <1>2. CASE Delete(c)
    <2>1. PICK f \in Files : DeletePoints({f})
      BY <1>2 DEF Delete
    <2> QED
      BY <1>2, <2>1 DEF Delete, Requested
  <1>3. CASE \/ DocsDone(c) \/ ScanFacet(c) \/ ScanRows(c) \/ ScanCreate(c) \/ ScanCreated(c)
             \/ ScanEnds(c) \/ BulkEnds(c) \/ DeleteUnlink(c) \/ DeleteRow(c) \/ CleanupEnds(c)
    BY <1>3 DEF DocsDone, ScanFacet, ScanRows, ScanCreate, ScanCreated, ScanEnds, BulkEnds,
      DeleteUnlink, DeleteRow, CleanupEnds, Requested, queueVars
  <1>4. CASE \/ DispatchDoc(c) \/ ScanDispatch(c) \/ Dispatch(c) \/ ResetForce(c)
             \/ ReembedForce(c) \/ ZimIngest(c)
    <2>1. job' = job \/ Added
      BY <1>0, <1>4 DEF DispatchDoc, ScanDispatch, Dispatch, ResetForce, ReembedForce,
        ZimIngest, Added
    <2>2. points' = points
      BY <1>4 DEF DispatchDoc, ScanDispatch, Dispatch, ResetForce, ReembedForce, ZimIngest
    <2> QED
      BY <2>1, <2>2 DEF Requested
  <1>5. CASE EmbedClear(c) \/ ReembedDelete(c) \/ ResetDrop(c)
    <2>1. job' = job /\ (points' = points \/ \E F \in SUBSET Files : DeletePoints(F))
      BY <1>0, <1>5 DEF EmbedClear, ReembedDelete, ResetDrop
    <2> QED
      BY <2>1 DEF Requested
  <1>6. CASE CleanupOne(c)
    BY <1>0, <1>6 DEF CleanupOne, Requested
  <1> QED
    BY <1>1, <1>2, <1>3, <1>4, <1>5, <1>6 DEF Serve

LEMMA RequestedKeepsOneChain ==
  ASSUME TypeOK, QueueTypeOK', QInv, CompletedKept, Requested
  PROVE  QInv'
  <1>0. JobsOK /\ JobsOK' /\ QueueTypeOK /\ OneChain /\ PathIds /\ AtRest
    BY DEF TypeOK, QueueTypeOK, JobsOK, QInv
  <1>a. points' = points => PointsFall
    BY <1>0 DEF PointsFall, QueueTypeOK
  <1>1. CASE job' = job
    <2>1. PointsFall
      <3>1. CASE points' = points
        BY <1>a, <3>1
      <3>2. CASE \E F \in SUBSET Files : DeletePoints(F)
        BY <1>0, <3>2 DEF DeletePoints, PointsFall, QueueTypeOK
      <3> QED
        BY <3>1, <3>2 DEF Requested
    <2>2. OneChain' /\ PathIds'
      BY <1>0, <1>1, <2>1, SameKeeps
    <2> QED
      BY <1>0, <1>1, <2>2 DEF AtRest, QInv
  <1>2. CASE points' = points /\ Added
    <2>1. PICK f \in Files : AddFirst(f) \/ AddFresh(f, 0)
      BY <1>2 DEF Added
    <2>2. OneChain' /\ PathIds'
      BY <1>0, <1>2, <2>1, AddFirstKeeps, AddFreshKeeps
    <2>3. AtRest'
      BY <1>0, <2>1, FreshIdOK, FileIsJobId DEF AtRest, AddFirst, AddFresh, NewJob, JobsOK
    <2> QED
      BY <2>2, <2>3 DEF QInv
  <1>3. CASE points' = points /\ \E j \in JobIds : job[j].st # "active" /\ Remove(j)
    <2>1. (\A k \in JobIds : Onward(k) \/ DroppedEarly(k)) /\ AtRest'
      BY <1>0, <1>3, RemoveOnward
    <2> QED
      BY <1>0, <1>3, <1>a, <2>1, OnwardKeeps DEF QInv
  <1> QED
    BY <1>1, <1>2, <1>3 DEF Requested

LEMMA InitQInv == Init => QInv
  <1> SUFFICES ASSUME Init PROVE QInv
    OBVIOUS
  <1>1. \A k \in JobIds : /\ job[k].st = "none" /\ job[k].ph = "idle" /\ job[k].off = 0
                          /\ k \in Files => job[k].file = k
    BY DEF Init, QueueInit, NewJob
  <1>2. \A f \in Files : Of(f) = {}
    BY <1>1 DEF Of, Ent
  <1>3. \A f \in Files : \A b \in Batches(f) : points[f][b] = 0
    BY DEF Init, QueueInit
  <1>4. OneChain
    BY <1>2, <1>3 DEF OneChain, OneAtEach, StoredByOne, Front, PathFirst
  <1> QED
    BY <1>1, <1>4, FileIsJobId DEF QInv, PathIds, AtRest

LEMMA NextQInv ==
  ASSUME MaxFaults = 0
  PROVE  IInv /\ IInv' /\ QInv /\ [Next]_vars /\ [CompletedKept]_vars => QInv'
  <1> SUFFICES ASSUME IInv, IInv', QInv, [Next]_vars, [CompletedKept]_vars
               PROVE  QInv'
    OBVIOUS
  <1>0. TypeOK /\ QueueTypeOK'
    BY DEF IInv, TypeOK
  <1>1. CASE UNCHANGED vars
    <2>1. Requested /\ CompletedKept
      BY <1>1 DEF Requested, CompletedKept, vars, queueVars
    <2> QED
      BY <1>0, <2>1, RequestedKeepsOneChain
  <1>2. CASE Worker /\ CompletedKept
    BY <1>0, <1>2, WorkerKeepsOneChain DEF Worker
  <1>3. CASE (\E c \in Clients : Request(c) \/ Serve(c)) /\ CompletedKept
    BY <1>0, <1>3, RequestsAreQuiet, RequestedKeepsOneChain
  <1> QED
    BY <1>1, <1>2, <1>3 DEF Next

\* EmbedFileJob.dispatch is idempotent: in a system without errors, for as long as Redis keeps
\* the entries that have completed, no batch of a file is stored twice, unless someone forced
\* a new job for it; whatever is uploaded, downloaded, scanned, deleted and cleaned up at
\* the same time.
THEOREM DispatchIsIdempotent ==
  ASSUME MaxFaults = 0
  PROVE  Spec /\ [][CompletedKept]_vars => []NoDuplicateChunks
  <1>1. QInv => NoDuplicateChunks
    BY DEF QInv, OneChain, StoredByOne, NoDuplicateChunks
  <1> QED
    BY <1>1, InitQInv, NextQInv, Inductive, PTL DEF Spec
----------------------------------------------------------------------------
(* Without errors, and as long as no file leaves the storage, an indexed file  *)
(* has all its chunks                                                          *)

\* What "no file leaves the storage" says of a step.
DiskGrows == disk \subseteq disk'

\* A request that deleted the points of f, or may have, and is still to force a job for it.
Owes(c, f) ==
    \/ At(c, "reembed", "force") /\ f \in req[c].seen
    \/ At(c, "embed", "add") /\ req[c].force /\ f \in Todo(c)
    \/ At(c, "reset", "docs")
    \/ At(c, "reset", "forceAll") /\ f \in Todo(c)

\* A job whose chain is still to embed batch b of f.
Reaches(j, f, b) ==
    /\ Live(j) /\ job[j].file = f
    /\ \/ job[j].off <= b /\ job[j].ph \in {"idle", "start", "embed", "lost"}
       \/ job[j].off < b /\ job[j].ph = "dispatch"

ToCome(f, b) ==
    \/ f \in gaveUp
    \/ \E c \in Clients : Owes(c, f)
    \/ \E j \in JobIds : Reaches(j, f, b)

\* Of a file whose embedding has begun every batch is stored, or is still to come ...
StoredOrToCome ==
    \A f \in Files \ Docs : ran[f] # {} =>
        \A b \in Batches(f) : points[f][b] > 0 \/ ToCome(f, b)

\* ... such a file is in storage, and no other has chunks or counts as indexed ...
OnlyAfterRun ==
    \A f \in Files : /\ ran[f] # {} => f \in disk
                     /\ HasChunks(f) => ran[f] # {}
                     /\ row[f].st = "indexed" => ran[f] # {}

\* ... nor does a scan take another for embedded.  A request deletes the points of no file
\* but the one it forces a job for.
RequestOK(c) ==
    /\ req[c].op = "embed" =>
          req[c].pc \in {"clear", "add"} /\ \E f \in Files : Todo(c) = {f}
    /\ At(c, "embed", "clear") => req[c].force
    /\ At(c, "reembed", "force") => \E f \in Files : req[c].seen = {f}
    /\ At(c, "scan", "rows") => \A f \in req[c].seen : ran[f] # {}
    /\ At(c, "scan", "apply") =>
          \A f \in Todo(c) : req[c].dec[f] = "backfill_indexed" => ran[f] # {}

RequestsOK == \A c \in Clients : RequestOK(c)

LInv == StoredOrToCome /\ OnlyAfterRun /\ RequestsOK

\* A step that deletes no points and lets whoever was to embed a batch still embed it.
LEMMA KeptToCome ==
  ASSUME StoredOrToCome, OnlyAfterRun, ran' = ran, gaveUp \subseteq gaveUp',
         NEW Z, Z = {f \in Files \ Docs : f \in disk},
         \A f \in Z : \A b \in Batches(f) :
            points[f][b] > 0 => points'[f][b] > 0 \/ \E c \in Clients : Owes(c, f)',
         \A f \in Z : \A c \in Clients :
            Owes(c, f) => (\E d \in Clients : Owes(d, f)')
                          \/ \E k \in JobIds : \A b \in Batches(f) : Reaches(k, f, b)',
         \A f \in Z : \A b \in Batches(f) : \A j \in JobIds :
            Reaches(j, f, b) => f \in gaveUp' \/ \E k \in JobIds : Reaches(k, f, b)'
  PROVE  StoredOrToCome'
  <1> SUFFICES ASSUME NEW f \in Files \ Docs, ran[f] # {}, NEW b \in Batches(f)
               PROVE  points'[f][b] > 0 \/ ToCome(f, b)'
    BY DEF StoredOrToCome, Batches
  <1>1. f \in Z
    BY DEF OnlyAfterRun
  <1>2. points[f][b] > 0 \/ ToCome(f, b)
    BY DEF StoredOrToCome
  <1>3. CASE points[f][b] > 0
    BY <1>1, <1>3 DEF ToCome
  <1>4. CASE f \in gaveUp
    BY <1>4 DEF ToCome
  <1>5. CASE \E c \in Clients : Owes(c, f)
    BY <1>1, <1>5 DEF ToCome
  <1>6. CASE \E j \in JobIds : Reaches(j, f, b)
    <2>1. PICK j \in JobIds : Reaches(j, f, b)
      BY <1>6
    <2>2. f \in gaveUp' \/ \E k \in JobIds : Reaches(k, f, b)'
      BY <1>1, <2>1
    <2> QED
      BY <2>2 DEF ToCome
  <1> QED
    BY <1>2, <1>3, <1>4, <1>5, <1>6 DEF ToCome

\* Entries that are not in flight take no part; those in flight stay as they are when
\* another is retired or removed.
LEMMA RetireReaches ==
  ASSUME JobsOK, NEW j \in JobIds, Live(j), NEW s \in {"completed", "failed"}, NEW keep \in Nat,
         Retire(j, s, keep), NEW k \in JobIds, k # j, NEW f, NEW b, Reaches(k, f, b)
  PROVE  Reaches(k, f, b)'
  <1>1. job[k].st # s
    BY DEF Reaches, Live, LiveStates
  <1>2. job'[k] = job[k]
    BY <1>1 DEF Retire
  <1> QED
    BY <1>2 DEF Reaches, Live

LEMMA RemoveReaches ==
  ASSUME JobsOK, NEW j \in JobIds, Remove(j), NEW k \in JobIds, k # j, NEW f, NEW b,
         Reaches(k, f, b)
  PROVE  Reaches(k, f, b)'
  <1>0. job[k] \in Job
    BY DEF JobsOK
  <1>1. CASE job[k].st = job[j].st /\ job[k].age > job[j].age
    <2>1. job'[k] = [job[k] EXCEPT !.age = job[k].age - 1]
      BY <1>0, <1>1 DEF Remove, Job
    <2>2. /\ job'[k].file = job[k].file /\ job'[k].off = job[k].off
          /\ job'[k].st = job[k].st /\ job'[k].ph = job[k].ph
      BY <1>0, <2>1 DEF Job
    <2> QED
      BY <2>2 DEF Reaches, Live
  <1>2. CASE ~(job[k].st = job[j].st /\ job[k].age > job[j].age)
    <2>1. job'[k] = job[k]
      BY <1>2 DEF Remove
    <2> QED
      BY <2>1 DEF Reaches, Live
  <1> QED
    BY <1>1, <1>2

\* A job that goes on is still to embed what it was to embed.
LEMMA RewriteReaches ==
  ASSUME JobsOK, NEW j \in JobIds, NEW r, SetJob(j, r), r.file = job[j].file, r.off = job[j].off,
         job[j].ph \in {"idle", "start", "embed", "lost"} =>
            r.st \in LiveStates /\ r.ph \in {"idle", "start", "embed", "lost"},
         job[j].ph # "dispatch",
         NEW k \in JobIds, NEW f, NEW b, Reaches(k, f, b)
  PROVE  Reaches(k, f, b)'
  <1>1. job'[j] = r /\ \A i \in JobIds \ {j} : job'[i] = job[i]
    BY DEF SetJob, JobsOK
  <1>2. CASE k = j
    BY <1>1, <1>2 DEF Reaches, Live
  <1>3. CASE k # j
    BY <1>1, <1>3 DEF Reaches, Live
  <1> QED
    BY <1>2, <1>3

\* A new job for the first batch is to embed every batch.
LEMMA AddFreshReaches ==
  ASSUME JobsOK, NEW f \in Files, AddFresh(f, 0)
  PROVE  \E n \in JobIds : \A b \in Batches(f) : Reaches(n, f, b)'
  <1>1. PICK n \in JobIds : job'[n] = NewJob(f, 0)
    BY FreshIdOK DEF AddFresh, JobsOK
  <1>2. \A b \in Batches(f) : b \in Nat
    BY EmbedQueueAssumption DEF Batches
  <1>3. /\ job'[n].st = "waiting" /\ job'[n].ph = "idle"
        /\ job'[n].file = f /\ job'[n].off = 0
    BY <1>1 DEF NewJob
  <1>4. \A b \in Batches(f) : Reaches(n, f, b)'
    BY <1>2, <1>3 DEF Reaches, Live, LiveStates
  <1> QED
    BY <1>4

LEMMA AddedReaches ==
  ASSUME JobsOK, NEW g \in Files, AddFirst(g) \/ AddFresh(g, 0),
         NEW k \in JobIds, NEW f, NEW b, Reaches(k, f, b)
  PROVE  Reaches(k, f, b)'
  <1>1. job[k].st # "none"
    BY DEF Reaches, Live, LiveStates
  <1>2. job'[k] = job[k]
    BY <1>1, FreshIdOK, FileIsJobId DEF AddFirst, AddFresh, JobsOK
  <1> QED
    BY <1>2 DEF Reaches, Live

----------------------------------------------------------------------------
(* The steps of the worker *)

\* Without errors, the worker leaves requests, storage and what is stored alone, except that
\* it embeds batches.
LEMMA EmbedKeepsLInv ==
  ASSUME TypeOK, QueueTypeOK', Chain, LInv, MaxFaults = 0, UNCHANGED reqVars,
         NEW j \in JobIds, EmbedBatch(j),
         NEW g, NEW a, job[j].file = g, job[j].off = a
  PROVE  LInv'
  <1>0. JobsOK /\ QueueTypeOK /\ ~Fault /\ StoredOrToCome /\ OnlyAfterRun /\ RequestsOK
    BY NoFaults DEF TypeOK, QueueTypeOK, JobsOK, LInv
  <1>1. /\ job[j] \in Job /\ g \in Files /\ a \in Batches(g) /\ a \in Nat
        /\ job[j].st = "active" /\ job[j].ph = "embed" /\ g \in disk
        /\ NumBatches[g] \in Nat
    BY <1>0, EmbedQueueAssumption DEF JobsOK, Job, EmbedBatch, InPhase
  <1>2. /\ ran' = [ran EXCEPT ![g] = @ \cup {a}] /\ StoreBatch(g, a)
        /\ UNCHANGED <<row, disk, gaveUp, req>>
    BY <1>0 DEF EmbedBatch, reqVars
  <1>3. PICK got \in {0, 1}, ph \in {"dispatch", "finish"} :
           /\ SetJob(j, [job[j] EXCEPT !.got = got, !.ph = ph])
           /\ a + 1 < NumBatches[g] => ph = "dispatch"
    BY DEF EmbedBatch
  <1>4. /\ job'[j].st = "active" /\ job'[j].ph = ph /\ job'[j].file = g /\ job'[j].off = a
        /\ \A k \in JobIds \ {j} : job'[k] = job[k]
    BY <1>0, <1>1, <1>3 DEF SetJob, JobsOK, Job
  <1>5. \A f \in Files : f # g => ran'[f] = ran[f] /\ points'[f] = points[f]
    BY <1>0, <1>1, <1>2 DEF StoreBatch, QueueTypeOK
  <1>6. /\ ran'[g] = ran[g] \cup {a}
        /\ points'[g][a] > 0
        /\ \A b \in Batches(g) : points[g][b] > 0 => points'[g][b] > 0
    <2>1. points[g] \in [Batches(g) -> Nat] /\ DOMAIN points = Files /\ DOMAIN ran = Files
      BY <1>0, <1>1 DEF QueueTypeOK
    <2>2. points' = [points EXCEPT ![g] = [points[g] EXCEPT ![a] = points[g][a] + 1]]
      BY <1>1, <1>2, <2>1 DEF StoreBatch
    <2>3. points'[g] = [points[g] EXCEPT ![a] = points[g][a] + 1]
      BY <1>1, <2>1, <2>2
    <2> QED
      BY <1>1, <1>2, <2>1, <2>3
  <1>7. \A f \in Files : ran[f] \subseteq ran'[f]
    BY <1>5, <1>6
  <1>8. OnlyAfterRun'
    <2>1. \A f \in Files \ {g} : HasChunks(f)' <=> HasChunks(f)
      BY <1>5 DEF HasChunks, Batches
    <2> QED
      BY <1>0, <1>1, <1>2, <1>5, <1>6, <2>1 DEF OnlyAfterRun
  <1>9. RequestsOK'
    <2>1. \A f \in Files : ran[f] # {} => ran'[f] # {}
      BY <1>7
    <2>2. \A c \in Clients : req'[c] = req[c] /\ req[c].seen \subseteq Files /\ Todo(c) \subseteq Files
      BY <1>2, CurrentOK
    <2> QED
      BY <1>0, <2>1, <2>2 DEF RequestsOK, RequestOK, At, Todo
  <1>10. StoredOrToCome'
    <2> SUFFICES ASSUME NEW f \in Files \ Docs, ran'[f] # {}, NEW b \in Batches(f)
                 PROVE  points'[f][b] > 0 \/ ToCome(f, b)'
      BY DEF StoredOrToCome, Batches
    <2>1. b \in Nat
      BY EmbedQueueAssumption DEF Batches
    <2>2. \A c \in Clients : Owes(c, f)' <=> Owes(c, f)
      BY <1>2 DEF Owes, At, Todo
    <2>3. \A k \in JobIds \ {j} : Reaches(k, f, b) => Reaches(k, f, b)'
      BY <1>4 DEF Reaches, Live
    <2>4. CASE f # g
      <3>1. ~Reaches(j, f, b)
        BY <2>4 DEF Reaches
      <3>2. ToCome(f, b) => ToCome(f, b)'
        BY <1>2, <2>2, <2>3, <3>1 DEF ToCome
      <3> QED
        BY <1>0, <1>5, <2>4, <3>2 DEF StoredOrToCome
    <2>5. CASE f = g /\ b = a
      BY <1>6, <2>5
    <2>6. CASE f = g /\ b > a
      <3>1. ph = "dispatch"
        BY <1>1, <1>3, <2>1, <2>6 DEF Batches
      <3>2. Reaches(j, f, b)'
        BY <1>1, <1>4, <2>1, <2>6, <3>1 DEF Reaches, Live, LiveStates
      <3> QED
        BY <3>2 DEF ToCome
    <2>7. CASE f = g /\ b < a
      \* The batches before a ran, or a could not be embedded now.
      <3>1. ran[f] # {}
        BY <1>1, <2>7 DEF Chain, PrefixRan
      <3>2. ~Reaches(j, f, b)
        BY <1>1, <2>1, <2>7 DEF Reaches
      <3>3. ToCome(f, b) => ToCome(f, b)'
        BY <1>2, <2>2, <2>3, <3>2 DEF ToCome
      <3> QED
        BY <1>0, <1>6, <2>7, <3>1, <3>3 DEF StoredOrToCome
    <2> QED
      BY <1>1, <2>1, <2>4, <2>5, <2>6, <2>7
  <1> QED
    BY <1>8, <1>9, <1>10 DEF LInv

LEMMA WorkerKeepsLInv ==
  ASSUME TypeOK, QueueTypeOK', Chain, LInv, MaxFaults = 0, Worker
  PROVE  LInv'
  <1>0. /\ JobsOK /\ QueueTypeOK /\ ~Fault /\ StoredOrToCome /\ OnlyAfterRun /\ RequestsOK
        /\ faults = 0 /\ UNCHANGED reqVars /\ UNCHANGED req
    BY NoFaults DEF TypeOK, QueueTypeOK, JobsOK, LInv, Worker, reqVars
  <1>1. PICK j \in JobIds : WorkerStep(j)
    BY <1>0 DEF Worker, WorkerNext, Crash
  <1>2. job[j] \in Job /\ job[j].file \in Files /\ job[j].off \in Nat
    BY <1>0 DEF JobsOK, Job
  <1>a. ASSUME UNCHANGED <<points, ran, disk>>, gaveUp \subseteq gaveUp',
               \A f \in Files : row'[f].st = "indexed" => row[f].st = "indexed" \/ ran[f] # {},
               \A f \in Files : \A b \in Batches(f) : \A k \in JobIds : Reaches(k, f, b) =>
                  f \in gaveUp' \/ \E i \in JobIds : Reaches(i, f, b)'
        PROVE  LInv'
    <2>1. RequestsOK'
      BY <1>0, <1>a DEF RequestsOK, RequestOK, At, Todo
    <2>2. OnlyAfterRun'
      BY <1>0, <1>a DEF OnlyAfterRun, HasChunks, Batches
    <2>3. \A f, c : Owes(c, f) => Owes(c, f)'
      BY <1>0 DEF Owes, At, Todo
    <2>4. StoredOrToCome'
      BY <1>0, <1>a, <2>3, KeptToCome
    <2> QED
      BY <2>1, <2>2, <2>4 DEF LInv
  \* Steps that only rewrite the entry of the job.
  <1>c. ASSUME NEW r, SetJob(j, r), UNCHANGED <<points, ran, disk, gaveUp>>,
               \A f \in Files : row'[f].st = "indexed" => row[f].st = "indexed" \/ ran[f] # {},
               r.file = job[j].file, r.off = job[j].off,
               job[j].ph \in {"idle", "start", "embed", "lost"} =>
                  r.st \in LiveStates /\ r.ph \in {"idle", "start", "embed", "lost"},
               job[j].ph # "dispatch"
        PROVE  LInv'
    <2>1. \A k \in JobIds : \A f, b : Reaches(k, f, b) => Reaches(k, f, b)'
      BY <1>0, <1>c, RewriteReaches
    <2> QED
      BY <1>a, <1>c, <2>1
  \* Steps that retire the entry: it has nothing left to embed, or the file is given up.
  <1>d. ASSUME NEW s \in {"completed", "failed"}, NEW keep \in Nat, Retire(j, s, keep), Live(j),
               UNCHANGED <<points, ran, disk, row>>, gaveUp \subseteq gaveUp',
               job[j].ph = "close" \/ job[j].file \in gaveUp'
        PROVE  LInv'
    <2>1. ASSUME NEW f \in Files, NEW b \in Batches(f), NEW k \in JobIds, Reaches(k, f, b)
          PROVE  f \in gaveUp' \/ \E i \in JobIds : Reaches(i, f, b)'
      <3>1. CASE k # j
        BY <1>0, <1>d, <2>1, <3>1, RetireReaches
      <3>2. CASE k = j
        BY <1>d, <2>1, <3>2 DEF Reaches
      <3> QED
        BY <3>1, <3>2
    <2> QED
      BY <1>a, <1>d, <2>1
  <1>3. CASE Start(j)
    <2> DEFINE r == [job[j] EXCEPT !.st = "active", !.ph = "start"]
    <2>1. r.file = job[j].file /\ r.off = job[j].off /\ r.st = "active" /\ r.ph = "start"
      BY <1>2 DEF Job
    <2>2. SetJob(j, r) /\ UNCHANGED <<points, ran, disk, gaveUp, row>> /\ job[j].st = "waiting"
      BY <1>3 DEF Start
    <2> HIDE DEF r
    <2>3. \A f \in Files : \A b \in Batches(f) : \A k \in JobIds :
             Reaches(k, f, b) => Reaches(k, f, b)'
      <3> SUFFICES ASSUME NEW f \in Files, NEW b \in Batches(f), NEW k \in JobIds, Reaches(k, f, b)
                   PROVE  Reaches(k, f, b)'
        OBVIOUS
      <3>0. b \in Nat
        BY EmbedQueueAssumption DEF Batches
      <3>1. job'[j] = r /\ \A i \in JobIds \ {j} : job'[i] = job[i]
        BY <1>0, <2>2 DEF SetJob, JobsOK
      <3>2. CASE k = j
        <4>1. job[j].off <= b
          BY <1>2, <3>0, <3>2 DEF Reaches
        <4> QED
          BY <2>1, <3>1, <3>2, <4>1 DEF Reaches, Live, LiveStates
      <3> QED
        BY <3>1, <3>2 DEF Reaches, Live
    <2> QED
      BY <1>a, <2>2, <2>3
  <1>4. CASE CheckServices(j)
    <2> DEFINE r == [job[j] EXCEPT !.ph = "embed", !.failed = FALSE]
    <2>1. r.file = job[j].file /\ r.off = job[j].off /\ r.st = "active" /\ r.ph = "embed"
      BY <1>2, <1>4 DEF Job, CheckServices, InPhase
    <2>2. /\ SetJob(j, r) /\ UNCHANGED <<points, ran, disk, gaveUp, row>>
          /\ job[j].ph # "dispatch"
      BY <1>4 DEF CheckServices, InPhase
    <2> HIDE DEF r
    <2> QED
      BY <1>c, <2>1, <2>2 DEF LiveStates
  <1>5. CASE ServicesDown(j) \/ ContinueFails(j) \/ RecordFails(j)
    BY <1>0, <1>5 DEF ServicesDown, ContinueFails, RecordFails
  <1>6. CASE EmbedBatch(j)
    BY <1>0, <1>2, <1>6, EmbedKeepsLInv
  <1>7. CASE EmbedFails(j)
    <2>1. /\ job[j].st = "active" /\ Live(j) /\ job[j].ph = "embed"
          /\ UNCHANGED <<points, ran, disk, row>> /\ Retry(j)
      BY <1>0, <1>7 DEF EmbedFails, InPhase, Live, LiveStates
    <2>2. CASE job[j].tries + 1 < MaxAttempts
      <3> DEFINE r == [job[j] EXCEPT !.st = "delayed", !.ph = "idle", !.failed = TRUE,
                                     !.got = 0, !.tries = job[j].tries + 1]
      <3>1. r.file = job[j].file /\ r.off = job[j].off /\ r.st = "delayed" /\ r.ph = "idle"
        BY <1>2 DEF Job
      <3>2. SetJob(j, r) /\ UNCHANGED gaveUp
        BY <2>1, <2>2 DEF Retry
      <3> HIDE DEF r
      <3> QED
        BY <1>c, <2>1, <3>1, <3>2 DEF LiveStates
    <2>3. CASE ~(job[j].tries + 1 < MaxAttempts)
      <3>1. Retire(j, "failed", KeepFailed) /\ gaveUp' = gaveUp \cup {job[j].file}
        BY <2>1, <2>3 DEF Retry
      <3> QED
        BY <1>d, <2>1, <3>1, EmbedQueueAssumption
    <2> QED
      BY <2>2, <2>3
  \* What is left of the chain passes to the next job.
  <1>8. CASE Continue(j)
    <2>1. PICK n \in JobIds :
             /\ n # j /\ job[n].st = "none"
             /\ job'[n] = NewJob(job[j].file, job[j].off + 1)
             /\ job'[j] = [job[j] EXCEPT !.ph = "close"]
             /\ \A k \in JobIds \ {j, n} : job'[k] = job[k]
      <3>1. FreshId \in JobIds /\ FreshId # j /\ job[FreshId].st = "none"
        BY <1>8, FreshIdOK DEF Continue, InPhase
      <3> QED
        BY <1>0, <1>8, <3>1 DEF Continue, JobsOK
    <2>2. /\ UNCHANGED <<points, ran, disk, row, gaveUp>> /\ job[j].ph = "dispatch"
          /\ job[j].st = "active"
      BY <1>8 DEF Continue, InPhase
    <2>3. /\ job'[n].st = "waiting" /\ job'[n].ph = "idle" /\ job'[n].file = job[j].file
          /\ job'[n].off = job[j].off + 1
      BY <2>1 DEF NewJob
    <2>4. ASSUME NEW f \in Files, NEW b \in Batches(f), NEW k \in JobIds, Reaches(k, f, b)
          PROVE  \E i \in JobIds : Reaches(i, f, b)'
      <3>1. b \in Nat
        BY EmbedQueueAssumption DEF Batches
      <3>2. CASE k = j
        <4>1. job[j].off + 1 <= b /\ job[j].file = f
          BY <1>2, <2>2, <2>4, <3>1, <3>2 DEF Reaches
        <4> QED
          BY <2>3, <4>1 DEF Reaches, Live, LiveStates
      <3>3. CASE k # j
        <4>1. k # n
          BY <2>1, <2>4 DEF Reaches, Live, LiveStates
        <4> QED
          BY <2>1, <2>4, <3>3, <4>1 DEF Reaches, Live
      <3> QED
        BY <3>2, <3>3
    <2> QED
      BY <1>a, <2>2, <2>4
  <1>9. CASE Finish(j)
    <2> DEFINE r == [job[j] EXCEPT !.ph = "mark", !.got = 0,
                                   !.chunks = job[j].chunks + job[j].got]
    <2>1. r.file = job[j].file /\ r.off = job[j].off
      BY <1>2 DEF Job
    <2>2. SetJob(j, r) /\ UNCHANGED <<points, ran, disk, gaveUp, row>> /\ job[j].ph = "finish"
      BY <1>9 DEF Finish, InPhase
    <2> HIDE DEF r
    <2> QED
      BY <1>c, <2>1, <2>2
  <1>10. CASE MarkIndexed(j)
    <2> DEFINE r == [job[j] EXCEPT !.ph = "close"]
    <2>1. r.file = job[j].file /\ r.off = job[j].off
      BY <1>2 DEF Job
    <2>2. SetJob(j, r) /\ UNCHANGED <<points, ran, disk, gaveUp>> /\ job[j].ph = "mark"
      BY <1>10 DEF MarkIndexed, GoTo, InPhase
    <2>3. row' = [row EXCEPT ![job[j].file] = [st |-> "indexed", chunks |-> job[j].chunks]]
      BY <1>0, <1>10 DEF MarkIndexed
    <2>4. ran[job[j].file] # {}
      BY <2>2 DEF Chain, PhaseOK
    <2>5. \A f \in Files : row'[f].st = "indexed" => row[f].st = "indexed" \/ ran[f] # {}
      BY <1>0, <2>3, <2>4 DEF QueueTypeOK
    <2> HIDE DEF r
    <2> QED
      BY <1>c, <2>1, <2>2, <2>5
  <1>11. CASE Complete(j)
    <2>1. /\ Live(j) /\ UNCHANGED <<points, ran, disk, row, gaveUp>> /\ job[j].ph = "close"
          /\ Retire(j, "completed", KeepCompleted)
      BY <1>11 DEF Complete, InPhase, Live, LiveStates
    <2> QED
      BY <1>d, <2>1, EmbedQueueAssumption
  <1>12. CASE Promote(j)
    <2>1. /\ job'[j] = [job[j] EXCEPT !.st = "waiting"] /\ \A k \in JobIds \ {j} : job'[k] = job[k]
          /\ UNCHANGED <<points, ran, disk, gaveUp, row>>
      BY <1>0, <1>12 DEF Promote, SetJob, JobsOK
    <2>2. /\ job'[j].st = "waiting" /\ job'[j].ph = job[j].ph /\ job'[j].file = job[j].file
          /\ job'[j].off = job[j].off
      BY <1>2, <2>1 DEF Job
    <2>3. \A k \in JobIds : \A f, b : Reaches(k, f, b) => Reaches(k, f, b)'
      BY <2>1, <2>2 DEF Reaches, Live, LiveStates
    <2> QED
      BY <1>a, <2>1, <2>3
  <1>13. CASE RecoverStalled(j)
    <2>1. /\ Live(j) /\ job[j].ph = "lost" /\ UNCHANGED <<points, ran, disk, row>>
      BY <1>13 DEF RecoverStalled, InPhase, Live, LiveStates
    <2>2. CASE job[j].stalls = 0
      <3> DEFINE r == [job[j] EXCEPT !.st = "waiting", !.ph = "idle", !.stalls = 1, !.got = 0]
      <3>1. r.file = job[j].file /\ r.off = job[j].off /\ r.st = "waiting" /\ r.ph = "idle"
        BY <1>2 DEF Job
      <3>2. SetJob(j, r) /\ UNCHANGED gaveUp
        BY <1>13, <2>2 DEF RecoverStalled
      <3> HIDE DEF r
      <3> QED
        BY <1>c, <2>1, <3>1, <3>2 DEF LiveStates
    <2>3. CASE job[j].stalls # 0
      <3>1. Retire(j, "failed", KeepFailed) /\ gaveUp' = gaveUp \cup {job[j].file}
        BY <1>13, <2>3 DEF RecoverStalled
      <3> QED
        BY <1>d, <2>1, <3>1, EmbedQueueAssumption
    <2> QED
      BY <2>2, <2>3
  <1> QED
    BY <1>1, <1>3, <1>4, <1>5, <1>6, <1>7, <1>8, <1>9, <1>10, <1>11, <1>12, <1>13
    DEF WorkerStep, Handle
----------------------------------------------------------------------------
(* The steps of the requests *)

\* What a step of request c does: it stays a proper request, marks as indexed what was
\* embedded, and deletes points, or stops owing a job, only for a file it then owes, or has
\* just added, a job.
Serves(c) ==
    /\ \A d \in Clients \ {c} : req'[d] = req[d]
    /\ RequestOK(c)'
    /\ \A f \in Files : row'[f].st = "indexed" => row[f].st = "indexed" \/ ran[f] # {}
    /\ \A f \in Files : \A b \in Batches(f) : points'[f][b] > 0 => points[f][b] > 0
    /\ \A f \in disk \ Docs : \A b \in Batches(f) :
          points[f][b] > 0 => points'[f][b] > 0 \/ Owes(c, f)'
    /\ \A f \in disk \ Docs : Owes(c, f) => Owes(c, f)' \/ AddFresh(f, 0)

LEMMA GoIs ==
  ASSUME TypeOK, NEW c \in Clients, NEW r, Go(c, r)
  PROVE  req'[c] = r /\ \A d \in Clients \ {c} : req'[d] = req[d]
  BY DEF Go, TypeOK

LEMMA Deletes ==
  ASSUME QueueTypeOK, NEW F, DeletePoints(F)
  PROVE  /\ \A f \in Files : \A b \in Batches(f) : points'[f][b] > 0 => points[f][b] > 0
         /\ \A f \in Files \ F : points'[f] = points[f]
  BY DEF DeletePoints, QueueTypeOK

LEMMA NewRequestServes ==
  ASSUME TypeOK, LInv, "delete" \notin Ops, NEW c \in Clients, Request(c), ran' = ran
  PROVE  Serves(c)
  <1>0. RequestOK(c) /\ req \in [Clients -> Req]
    BY DEF LInv, RequestsOK, TypeOK
  <1>1. req[c] = Idle
    BY DEF Request, Upload, ZimArrives, ZimDelete, SetPolicy, DiscoverDocs, Scan, EmbedSingle,
      BulkCheck, Delete, Cleanup, Begin
  <1>2. \A f : ~Owes(c, f)
    BY <1>1 DEF Owes, At, Idle
  <1>3. UNCHANGED <<row, points>>
    BY DEF Request, Upload, ZimArrives, ZimDelete, SetPolicy, DiscoverDocs, Scan, EmbedSingle,
      BulkCheck, Delete, Cleanup, Begin, queueVars
  <1>a. ASSUME RequestOK(c)', \A d \in Clients \ {c} : req'[d] = req[d]
        PROVE  Serves(c)
    BY <1>2, <1>3, <1>a DEF Serves
  <1>b. ASSUME NEW op, NEW r, Begin(c, op, r), r \in Req,
               op # "embed", op \in {"reembed", "scan"} => r.pc = "docs"
        PROVE  Serves(c)
    <2>1. req'[c] = [r EXCEPT !.op = op] /\ \A d \in Clients \ {c} : req'[d] = req[d]
      BY <1>b, GoIs DEF Begin
    <2>2. req'[c].op = op /\ req'[c].pc = r.pc
      BY <1>b, <2>1 DEF Req
    <2>3. RequestOK(c)'
      BY <1>b, <2>2 DEF RequestOK, At
    <2> QED
      BY <1>a, <2>1, <2>3
  <1>4. CASE Upload(c)
    BY <1>4, <1>b, TargetOK DEF Upload, Files, Pcs
  <1>5. CASE ZimArrives(c)
    BY <1>5, <1>b, TargetOK DEF ZimArrives, Files, Pcs
  <1>6. CASE ZimDelete(c) \/ SetPolicy(c)
    BY <1>0, <1>1, <1>6, <1>a DEF ZimDelete, SetPolicy, RequestOK, At, Idle
  <1>7. CASE DiscoverDocs(c)
    BY <1>7, <1>b, DocsRequestOK DEF DiscoverDocs
  <1>8. CASE Scan(c)
    <2> DEFINE r == [Idle EXCEPT !.pc = "docs", !.todo = Docs]
    <2>1. Begin(c, "scan", r) /\ r \in Req /\ r.pc = "docs"
      BY <1>8, DocsRequestOK DEF Scan, Idle
    <2> HIDE DEF r
    <2> QED
      BY <1>b, <2>1
  <1>9. CASE EmbedSingle(c)
    <2>1. PICK f \in Files, force \in BOOLEAN :
            Begin(c, "embed", [Target(f, IF force THEN "clear" ELSE "add")
                                 EXCEPT !.force = force])
      BY <1>9 DEF EmbedSingle
    <2>2. /\ req'[c] = [[Target(f, IF force THEN "clear" ELSE "add")
                            EXCEPT !.force = force] EXCEPT !.op = "embed"]
          /\ \A d \in Clients \ {c} : req'[d] = req[d]
      BY <2>1, GoIs DEF Begin
    <2>3. /\ req'[c].op = "embed" /\ req'[c].todo = {f} /\ req'[c].force = force
          /\ req'[c].pc = IF force THEN "clear" ELSE "add"
      BY <2>2 DEF Target, Idle
    <2>4. RequestOK(c)'
      BY <2>3 DEF RequestOK, At, Todo
    <2> QED
      BY <1>a, <2>2, <2>4
  <1>10. CASE BulkCheck(c)
    <2>1. CASE Begin(c, "reembed", [Idle EXCEPT !.pc = "docs", !.todo = Docs])
      <3> DEFINE r == [Idle EXCEPT !.pc = "docs", !.todo = Docs]
      <3>1. Begin(c, "reembed", r) /\ r \in Req /\ r.pc = "docs"
        BY <2>1, DocsRequestOK DEF Idle
      <3> HIDE DEF r
      <3> QED
        BY <1>b, <3>1
    <2>2. CASE Begin(c, "reset", [Idle EXCEPT !.pc = "drop"])
      <3>1. [Idle EXCEPT !.pc = "drop"] \in Req
        BY IdleOK, ReqFields DEF Pcs
      <3> QED
        BY <1>b, <2>2, <3>1
    <2> QED
      BY <1>10, <2>1, <2>2 DEF BulkCheck
  <1>11. CASE Delete(c)
    BY <1>11 DEF Delete, Begin
  <1>12. CASE Cleanup(c)
    <2>1. PICK listed \in SUBSET JobIds :
            Begin(c, "cleanup", [Idle EXCEPT !.pc = "clean", !.jobs = listed])
      BY <1>12 DEF Cleanup
    <2>2. [Idle EXCEPT !.pc = "clean"] \in Req
      BY IdleOK, ReqFields DEF Pcs
    <2>3. [Idle EXCEPT !.pc = "clean", !.jobs = listed] \in Req
      BY <2>2, ReqFields
    <2> QED
      BY <1>b, <2>1, <2>3
  <1> QED
    BY <1>4, <1>5, <1>6, <1>7, <1>8, <1>9, <1>10, <1>11, <1>12 DEF Request

LEMMA ServeServes ==
  ASSUME TypeOK, LInv, MaxFaults = 0, NEW c \in Clients, Serve(c), ran' = ran
  PROVE  Serves(c)
  <1>0. /\ ~Fault /\ req[c] \in Req /\ Todo(c) \subseteq Files /\ req[c].seen \subseteq Files
        /\ RequestOK(c) /\ OnlyAfterRun /\ row \in [Files -> Row] /\ QueueTypeOK
        /\ disk \subseteq Files
    BY NoFaults, CurrentOK DEF TypeOK, QueueTypeOK, LInv, RequestsOK
  \* Steps that only change the request and the queue.
  <1>a. ASSUME UNCHANGED <<row, points>>, NEW r, Go(c, r), req'[c] = r => RequestOK(c)',
               \A f \in disk \ Docs : req'[c] = r /\ Owes(c, f) => Owes(c, f)' \/ AddFresh(f, 0)
        PROVE  Serves(c)
    <2>1. req'[c] = r /\ \A d \in Clients \ {c} : req'[d] = req[d]
      BY <1>a, GoIs
    <2> QED
      BY <1>a, <2>1 DEF Serves
  \* The request ends, or goes on to something that is of no account, and owed nothing.
  <1>b. ASSUME NEW r, Go(c, r), UNCHANGED <<row, points>>,
               r.op # "embed", r.op = "reembed" => r.pc # "force",
               r.op = "scan" => r.pc \notin {"rows", "apply"},
               \A f \in disk \ Docs : ~Owes(c, f)
        PROVE  Serves(c)
    <2>1. req'[c] = r => RequestOK(c)'
      BY <1>b DEF RequestOK, At
    <2> QED
      BY <1>a, <1>b, <2>1
  <1>c. ASSUME Done(c), UNCHANGED <<row, points>>, \A f \in disk \ Docs : ~Owes(c, f)
        PROVE  Serves(c)
    BY <1>b, <1>c DEF Done, Idle
  <1>1. CASE DispatchDoc(c)
    <2>1. PICK f \in Todo(c) : Go(c, MinusTodo(c, f))
      BY <1>1 DEF DispatchDoc
    <2>2. /\ UNCHANGED <<row, points>> /\ req[c].pc = "docs"
      BY <1>1 DEF DispatchDoc
    <2>3. req'[c] = MinusTodo(c, f) /\ \A d \in Clients \ {c} : req'[d] = req[d]
      BY <2>1, GoIs
    <2>4. req'[c].op = req[c].op /\ req'[c].pc = "docs"
      BY <1>0, <2>2, <2>3 DEF Req, MinusTodo
    <2>5. RequestOK(c)'
      BY <1>0, <2>2, <2>4 DEF RequestOK, At
    <2>6. \A g \in disk \ Docs : Owes(c, g) => Owes(c, g)'
      BY <1>0, <2>2, <2>4 DEF Owes, At
    <2> QED
      BY <2>2, <2>3, <2>5, <2>6 DEF Serves
  <1>2. CASE DocsDone(c)
    <2>1. req[c].pc = "docs" /\ UNCHANGED <<row, points>>
      BY <1>2 DEF DocsDone, queueVars
    <2> DEFINE next(pc) == [req[c] EXCEPT !.pc = pc, !.todo = disk \ Docs]
    <2>2. ASSUME NEW pc
          PROVE  next(pc).op = req[c].op /\ next(pc).pc = pc /\ next(pc).todo = disk \ Docs
      BY <1>0 DEF Req
    <2>3. CASE req[c].op = "scan"
      <3>1. Go(c, next("facet"))
        BY <1>2, <2>3 DEF DocsDone
      <3>2. \A f : ~Owes(c, f)
        BY <2>3 DEF Owes, At
      <3> HIDE DEF next
      <3> QED
        BY <1>b, <2>1, <2>2, <2>3, <3>1, <3>2
    <2>4. CASE req[c].op = "reembed"
      <3>1. Go(c, next("delete"))
        BY <1>2, <2>4 DEF DocsDone
      <3>2. \A f : ~Owes(c, f)
        BY <2>1, <2>4 DEF Owes, At
      <3> HIDE DEF next
      <3> QED
        BY <1>b, <2>1, <2>2, <2>4, <3>1, <3>2
    \* The files that had chunks are in storage, so all of them are forced again.
    <2>5. CASE req[c].op = "reset"
      <3>1. Go(c, next("forceAll"))
        BY <1>2, <2>5 DEF DocsDone
      <3>2. /\ req'[c] = next("forceAll")
            /\ \A d \in Clients \ {c} : req'[d] = req[d]
        BY <3>1, GoIs
      <3> HIDE DEF next
      <3>3. req'[c].op = "reset" /\ req'[c].pc = "forceAll" /\ req'[c].todo = disk \ Docs
        BY <2>2, <2>5, <3>2
      <3>4. RequestOK(c)' /\ \A f \in disk \ Docs : Owes(c, f)'
        BY <3>3 DEF RequestOK, Owes, At, Todo
      <3> QED
        BY <2>1, <3>2, <3>4 DEF Serves
    <2>6. CASE req[c].op \notin {"scan", "reembed", "reset"}
      <3>1. Done(c)
        BY <1>2, <2>6 DEF DocsDone, Done
      <3>2. \A f : ~Owes(c, f)
        BY <2>1, <2>6 DEF Owes, At
      <3> QED
        BY <1>c, <2>1, <3>1, <3>2
    <2> QED
      BY <2>3, <2>4, <2>5, <2>6
  <1>3. CASE ZimIngest(c)
    <2>1. Done(c) /\ At(c, "zim", "arrived") /\ UNCHANGED points
      BY <1>3 DEF ZimIngest
    <2>2. \A f \in Files : row'[f].st = "indexed" => row[f].st = "indexed"
      <3>1. PICK f \in Files :
              row' \in {row, IF row[f] = NoRow
                             THEN [row EXCEPT ![f].st = "pending_decision"] ELSE row}
        BY <1>0, <1>3 DEF ZimIngest
      <3> QED
        BY <1>0, <3>1 DEF Row
    <2>3. req'[c] = Idle /\ \A d \in Clients \ {c} : req'[d] = req[d]
      BY <2>1, GoIs DEF Done
    <2>4. RequestOK(c)' /\ \A f : ~Owes(c, f)
      BY <2>1, <2>3 DEF RequestOK, Owes, At, Idle
    <2> QED
      BY <2>1, <2>2, <2>3, <2>4 DEF Serves
  <1>4. CASE Dispatch(c)
    <2>1. Done(c) /\ UNCHANGED <<row, points>> /\ req[c].pc = "add"
      BY <1>4 DEF Dispatch
    <2>2. CASE req[c].op = "embed" /\ req[c].force
      <3>1. PICK f \in Files : Todo(c) = {f}
        BY <1>0, <2>2 DEF RequestOK
      <3>2. AddFresh(f, 0)
        BY <1>0, <1>4, <2>2, <3>1 DEF Dispatch
      <3>3. \A g \in disk \ Docs : Owes(c, g) => g = f
        BY <2>1, <2>2, <3>1 DEF Owes, At
      <3>4. Go(c, Idle) /\ (req'[c] = Idle => RequestOK(c)')
        BY <2>1 DEF Done, RequestOK, At, Idle
      <3> QED
        BY <1>a, <2>1, <3>2, <3>3, <3>4
    <2>3. CASE ~(req[c].op = "embed" /\ req[c].force)
      <3>1. \A f : ~Owes(c, f)
        BY <2>1, <2>3 DEF Owes, At
      <3> QED
        BY <1>c, <2>1, <3>1
    <2> QED
      BY <2>2, <2>3
  <1>5. CASE ScanFacet(c)
    <2>1. /\ At(c, "scan", "facet") /\ UNCHANGED <<row, points>>
          /\ Go(c, [req[c] EXCEPT !.pc = "rows", !.seen = {f \in Todo(c) : HasChunks(f)}])
      BY <1>0, <1>5 DEF ScanFacet
    <2>2. \A f : ~Owes(c, f)
      BY <2>1 DEF Owes, At
    <2> DEFINE r == [req[c] EXCEPT !.pc = "rows", !.seen = {f \in Todo(c) : HasChunks(f)}]
    <2>3. r.op = "scan" /\ r.pc = "rows" /\ r.seen = {f \in Todo(c) : HasChunks(f)}
      BY <1>0, <2>1 DEF Req, At
    <2>4. Go(c, r)
      BY <2>1
    <2> HIDE DEF r
    <2>5. req'[c] = r => RequestOK(c)'
      BY <1>0, <2>3 DEF RequestOK, At, OnlyAfterRun
    <2> QED
      BY <1>a, <2>1, <2>2, <2>4, <2>5
  <1>6. CASE ScanRows(c)
    <2> DEFINE dec == [f \in Files |->
                         IF f \in Todo(c)
                         THEN decideScanAction(row[f].st, f \in req[c].seen, policy)
                         ELSE "skip"]
               r == [req[c] EXCEPT !.pc = "apply", !.dec = dec, !.seen = {},
                                   !.todo = {f \in Files : dec[f] \in CreatesRow}]
    <2>1. At(c, "scan", "rows") /\ UNCHANGED <<row, points>> /\ Go(c, r)
      BY <1>6 DEF ScanRows, queueVars
    <2>2. \A f : ~Owes(c, f)
      BY <2>1 DEF Owes, At
    <2>3. \A f \in Files : dec[f] = "backfill_indexed" => f \in req[c].seen
      BY DEF decideScanAction
    <2>4. r.op = "scan" /\ r.pc = "apply" /\ r.dec = dec /\ r.todo \subseteq Files
      BY <1>0, <2>1 DEF Req, At
    <2> HIDE DEF r, dec
    <2>5. req'[c] = r => RequestOK(c)'
      BY <1>0, <2>1, <2>3, <2>4 DEF RequestOK, At, Todo
    <2> QED
      BY <1>a, <2>1, <2>2, <2>5
  <1>7. CASE ScanCreate(c)
    <2>1. At(c, "scan", "apply") /\ UNCHANGED points
      BY <1>7 DEF ScanCreate
    <2>2. PICK f \in Todo(c) :
            IF row[f] # NoRow THEN Done(c) /\ UNCHANGED row
            ELSE /\ row' = [row EXCEPT ![f].st =
                              IF req[c].dec[f] = "backfill_indexed" THEN "indexed"
                              ELSE "pending_decision"]
                 /\ Go(c, MinusTodo(c, f))
      BY <1>7 DEF ScanCreate
    <2>3. \A g : ~Owes(c, g)
      BY <2>1 DEF Owes, At
    <2>4. CASE row[f] # NoRow
      BY <1>c, <2>1, <2>2, <2>3, <2>4
    <2>5. CASE row[f] = NoRow
      <3>1. /\ req'[c] = MinusTodo(c, f)
            /\ \A d \in Clients \ {c} : req'[d] = req[d]
        BY <2>2, <2>5, GoIs
      <3>2. /\ req'[c].op = "scan" /\ req'[c].pc = "apply" /\ req'[c].dec = req[c].dec
            /\ req'[c].todo \subseteq Todo(c)
        BY <1>0, <2>1, <3>1 DEF Req, MinusTodo, At, Todo
      <3>3. RequestOK(c)'
        BY <1>0, <2>1, <3>2 DEF RequestOK, At, Todo
      <3>4. req[c].dec[f] = "backfill_indexed" => ran[f] # {}
        BY <1>0, <2>1 DEF RequestOK
      <3>5. \A g \in Files : row'[g].st = "indexed" => row[g].st = "indexed" \/ ran[g] # {}
        BY <1>0, <2>2, <2>5, <3>4 DEF Row
      <3> QED
        BY <2>1, <2>3, <3>1, <3>3, <3>5 DEF Serves
    <2> QED
      BY <2>4, <2>5
  <1>8. CASE ScanCreated(c)
    <2> DEFINE r == [Idle EXCEPT !.op = "scan", !.pc = "queue",
                                 !.todo = {f \in Files : req[c].dec[f] \in Dispatches}]
    <2>1. At(c, "scan", "apply") /\ UNCHANGED <<row, points>> /\ Go(c, r)
      BY <1>8 DEF ScanCreated, queueVars
    <2>2. \A g : ~Owes(c, g)
      BY <2>1 DEF Owes, At
    <2>3. r.op = "scan" /\ r.pc = "queue"
      BY DEF Idle
    <2> HIDE DEF r
    <2> QED
      BY <1>b, <2>1, <2>2, <2>3
  <1>9. CASE ScanDispatch(c)
    <2>1. PICK f \in Todo(c) : Go(c, MinusTodo(c, f))
      BY <1>9 DEF ScanDispatch
    <2>2. At(c, "scan", "queue") /\ UNCHANGED <<row, points>>
      BY <1>9 DEF ScanDispatch
    <2>3. MinusTodo(c, f).op = "scan" /\ MinusTodo(c, f).pc = "queue"
      BY <1>0, <2>2 DEF MinusTodo, Req, At
    <2>4. \A g : ~Owes(c, g)
      BY <2>2 DEF Owes, At
    <2> QED
      BY <1>b, <2>1, <2>2, <2>3, <2>4
  <1>10. CASE ScanEnds(c) \/ CleanupEnds(c) \/ BulkEnds(c)
    <2>1. Done(c) /\ UNCHANGED <<row, points>>
      BY <1>10 DEF ScanEnds, CleanupEnds, BulkEnds, queueVars
    <2>2. \A g : ~Owes(c, g)
      BY <1>10 DEF ScanEnds, CleanupEnds, BulkEnds, Owes, At
    <2> QED
      BY <1>c, <2>1, <2>2
  <1>11. CASE EmbedClear(c)
    <2>1. /\ At(c, "embed", "clear") /\ UNCHANGED row /\ DeletePoints(Todo(c))
          /\ Go(c, [req[c] EXCEPT !.pc = "add"])
      BY <1>0, <1>11 DEF EmbedClear
    <2>2. req'[c] = [req[c] EXCEPT !.pc = "add"] /\ \A d \in Clients \ {c} : req'[d] = req[d]
      BY <2>1, GoIs
    <2>3. /\ req'[c].op = "embed" /\ req'[c].pc = "add" /\ req'[c].force
          /\ req'[c].todo = Todo(c)
      BY <1>0, <2>1, <2>2 DEF Req, At, Todo, RequestOK
    <2>4. RequestOK(c)'
      BY <1>0, <2>1, <2>3 DEF RequestOK, At, Todo
    <2>5. /\ \A f : ~Owes(c, f)
          /\ \A f \in Todo(c) : Owes(c, f)'
      BY <2>1, <2>3 DEF Owes, At, Todo
    <2> QED
      BY <1>0, <2>1, <2>2, <2>4, <2>5, Deletes DEF Serves
  <1>12. CASE ReembedDelete(c)
    <2>1. PICK f \in Todo(c) :
             DeletePoints({f}) /\ Go(c, [req[c] EXCEPT !.pc = "force", !.seen = {f}])
      BY <1>0, <1>12 DEF ReembedDelete
    <2>2. At(c, "reembed", "delete") /\ UNCHANGED row
      BY <1>12 DEF ReembedDelete
    <2>3. /\ req'[c] = [req[c] EXCEPT !.pc = "force", !.seen = {f}]
          /\ \A d \in Clients \ {c} : req'[d] = req[d]
      BY <2>1, GoIs
    <2>4. req'[c].op = "reembed" /\ req'[c].pc = "force" /\ req'[c].seen = {f}
      BY <1>0, <2>2, <2>3 DEF Req, At
    <2>5. RequestOK(c)' /\ Owes(c, f)' /\ \A g : ~Owes(c, g)
      BY <1>0, <2>2, <2>4 DEF RequestOK, At, Owes
    <2> QED
      BY <1>0, <2>1, <2>2, <2>3, <2>5, Deletes DEF Serves
  <1>13. CASE ReembedForce(c)
    <2>1. PICK f \in req[c].seen :
             /\ Go(c, [MinusTodo(c, f) EXCEPT !.pc = "delete", !.seen = {}])
             /\ AddFresh(f, 0)
      BY <1>0, <1>13 DEF ReembedForce
    <2>2. At(c, "reembed", "force") /\ UNCHANGED <<row, points>>
      BY <1>13 DEF ReembedForce
    <2>3. req[c].seen = {f}
      BY <1>0, <2>1, <2>2 DEF RequestOK
    <2>4. \A g : Owes(c, g) => g = f
      BY <2>2, <2>3 DEF Owes, At
    <2> DEFINE r == [MinusTodo(c, f) EXCEPT !.pc = "delete", !.seen = {}]
    <2>5. r.op = "reembed" /\ r.pc = "delete" /\ Go(c, r)
      BY <1>0, <2>1, <2>2 DEF MinusTodo, Req, At
    <2> HIDE DEF r
    <2>6. req'[c] = r => RequestOK(c)'
      BY <2>5 DEF RequestOK, At
    <2> QED
      BY <1>a, <2>1, <2>2, <2>4, <2>5, <2>6
  <1>14. CASE ResetDrop(c)
    <2>1. /\ At(c, "reset", "drop") /\ UNCHANGED row /\ DeletePoints(Files)
          /\ Go(c, [req[c] EXCEPT !.pc = "docs", !.todo = Docs])
      BY <1>0, <1>14 DEF ResetDrop
    <2>2. /\ req'[c] = [req[c] EXCEPT !.pc = "docs", !.todo = Docs]
          /\ \A d \in Clients \ {c} : req'[d] = req[d]
      BY <2>1, GoIs
    <2>3. req'[c].op = "reset" /\ req'[c].pc = "docs"
      BY <1>0, <2>1, <2>2 DEF Req, At
    <2>4. RequestOK(c)' /\ \A f : Owes(c, f)'
      BY <2>3 DEF RequestOK, At, Owes
    <2> QED
      BY <1>0, <2>1, <2>2, <2>4, Deletes DEF Serves
  <1>15. CASE ResetForce(c)
    <2>1. PICK f \in Todo(c) : Go(c, MinusTodo(c, f)) /\ AddFresh(f, 0)
      BY <1>0, <1>15 DEF ResetForce
    <2>2. At(c, "reset", "forceAll") /\ UNCHANGED <<row, points>>
      BY <1>15 DEF ResetForce
    <2>3. req'[c] = MinusTodo(c, f) /\ \A d \in Clients \ {c} : req'[d] = req[d]
      BY <2>1, GoIs
    <2>4. req'[c].op = "reset" /\ req'[c].pc = "forceAll" /\ req'[c].todo = Todo(c) \ {f}
      BY <1>0, <2>2, <2>3 DEF MinusTodo, Req, At, Todo
    <2>5. RequestOK(c)'
      BY <2>4 DEF RequestOK, At
    <2>6. \A g : Owes(c, g) => Owes(c, g)' \/ g = f
      BY <2>2, <2>4 DEF Owes, At, Todo
    <2> QED
      BY <2>1, <2>2, <2>3, <2>5, <2>6 DEF Serves
  <1>16. CASE DeleteUnlink(c)
    <2>1. /\ At(c, "delete", "unlink") /\ UNCHANGED <<row, points>>
          /\ Go(c, [req[c] EXCEPT !.pc = "row"])
      BY <1>0, <1>16 DEF DeleteUnlink
    <2>2. \A f : ~Owes(c, f)
      BY <2>1 DEF Owes, At
    <2> DEFINE r == [req[c] EXCEPT !.pc = "row"]
    <2>3. r.op = "delete" /\ Go(c, r)
      BY <1>0, <2>1 DEF Req, At
    <2> HIDE DEF r
    <2> QED
      BY <1>b, <2>1, <2>2, <2>3
  <1>17. CASE DeleteRow(c)
    <2>1. /\ At(c, "delete", "row") /\ UNCHANGED points /\ Done(c)
          /\ row' = [f \in Files |-> IF f \in Todo(c) THEN NoRow ELSE row[f]]
      BY <1>0, <1>17 DEF DeleteRow
    <2>2. req'[c] = Idle /\ \A d \in Clients \ {c} : req'[d] = req[d]
      BY <2>1, GoIs DEF Done
    <2>3. RequestOK(c)' /\ \A f : ~Owes(c, f)
      BY <2>1, <2>2 DEF RequestOK, Owes, At, Idle
    <2>4. \A f \in Files : row'[f].st = "indexed" => row[f].st = "indexed"
      BY <2>1 DEF NoRow
    <2> QED
      BY <2>1, <2>2, <2>3, <2>4 DEF Serves
  <1>18. CASE CleanupOne(c)
    <2>1. At(c, "cleanup", "clean") /\ UNCHANGED <<row, points>>
      BY <1>18 DEF CleanupOne
    <2>2. \A f : ~Owes(c, f)
      BY <2>1 DEF Owes, At
    <2>3. PICK j \in req[c].jobs :
            Done(c) \/ Go(c, [req[c] EXCEPT !.jobs = req[c].jobs \ {j}])
      BY <1>18 DEF CleanupOne
    <2> DEFINE r == [req[c] EXCEPT !.jobs = req[c].jobs \ {j}]
    <2>4. r.op = "cleanup"
      BY <1>0, <2>1 DEF Req, At
    <2>5. Done(c) \/ Go(c, r)
      BY <2>3
    <2> HIDE DEF r
    <2> QED
      BY <1>b, <1>c, <2>1, <2>2, <2>4, <2>5
  <1> QED
    BY <1>1, <1>2, <1>3, <1>4, <1>5, <1>6, <1>7, <1>8, <1>9, <1>10, <1>11, <1>12, <1>13, <1>14,
      <1>15, <1>16, <1>17, <1>18 DEF Serve

LEMMA RequestKeepsLInv ==
  ASSUME TypeOK, LInv, MaxFaults = 0, "delete" \notin Ops, DiskGrows,
         NEW c \in Clients, Request(c) \/ Serve(c)
  PROVE  LInv'
  <1>0. /\ JobsOK /\ QueueTypeOK /\ StoredOrToCome /\ OnlyAfterRun /\ RequestsOK /\ disk \subseteq Files
    BY DEF TypeOK, QueueTypeOK, JobsOK, LInv
  <1>1. RequestEffect /\ ran' = ran
    BY RequestsHaveEffect DEF RequestEffect
  <1>2. Serves(c)
    BY <1>1, NewRequestServes, ServeServes
  <1>3. RequestsOK'
    <2>1. \A d \in Clients \ {c} : RequestOK(d)'
      BY <1>0, <1>1, <1>2 DEF Serves, RequestsOK, RequestOK, At, Todo
    <2> QED
      BY <1>2, <2>1 DEF Serves, RequestsOK
  <1>4. OnlyAfterRun'
    <2>1. \A f \in Files : HasChunks(f)' => HasChunks(f)
      BY <1>2 DEF Serves, HasChunks, Batches
    <2> QED
      BY <1>0, <1>1, <1>2, <2>1 DEF OnlyAfterRun, Serves, DiskGrows
  <1>5. gaveUp \subseteq gaveUp'
    BY <1>1 DEF RequestEffect, Removed
  <1>6. ASSUME NEW f \in Files, NEW b \in Batches(f), NEW j \in JobIds, Reaches(j, f, b)
        PROVE  f \in gaveUp' \/ \E k \in JobIds : Reaches(k, f, b)'
    <2>1. CASE UNCHANGED job
      BY <1>6, <2>1 DEF Reaches, Live
    <2>2. CASE Added
      BY <1>0, <1>6, <2>2, AddedReaches DEF Added
    <2>3. CASE Removed
      <3>1. PICK i \in JobIds :
               /\ Remove(i)
               /\ gaveUp' = IF Live(i) THEN gaveUp \cup {job[i].file} ELSE gaveUp
        BY <2>3 DEF Removed
      <3>2. CASE i = j
        BY <1>6, <3>1, <3>2 DEF Reaches
      <3>3. CASE i # j
        BY <1>0, <1>6, <3>1, <3>3, RemoveReaches
      <3> QED
        BY <3>2, <3>3
    <2> QED
      BY <1>1, <2>1, <2>2, <2>3 DEF RequestEffect
  <1>7. StoredOrToCome'
    <2> DEFINE Z == {f \in Files \ Docs : f \in disk}
    <2>0. \A f \in Z : f \in Files /\ f \in disk \ Docs
      OBVIOUS
    <2>1. \A f \in Z : \A b \in Batches(f) :
            points[f][b] > 0 => points'[f][b] > 0 \/ \E d \in Clients : Owes(d, f)'
      BY <1>2, <2>0 DEF Serves
    <2>2. ASSUME NEW f \in Z, NEW d \in Clients, Owes(d, f)
          PROVE  (\E e \in Clients : Owes(e, f)')
                 \/ \E k \in JobIds : \A b \in Batches(f) : Reaches(k, f, b)'
      <3>1. CASE d # c
        BY <1>2, <2>2, <3>1 DEF Serves, Owes, At, Todo
      <3>2. CASE d = c
        <4>1. Owes(c, f)' \/ AddFresh(f, 0)
          BY <1>2, <2>0, <2>2, <3>2 DEF Serves
        <4> QED
          BY <1>0, <2>0, <4>1, AddFreshReaches
      <3> QED
        BY <3>1, <3>2
    <2>3. \A f \in Z : \A b \in Batches(f) : \A j \in JobIds :
            Reaches(j, f, b) => f \in gaveUp' \/ \E k \in JobIds : Reaches(k, f, b)'
      BY <1>6, <2>0
    <2> HIDE DEF Z
    <2>4. Z = {f \in Files \ Docs : f \in disk}
      BY DEF Z
    <2> QED
      BY <1>0, <1>1, <1>5, <2>1, <2>2, <2>3, <2>4, KeptToCome
  <1> QED
    BY <1>3, <1>4, <1>7 DEF LInv

LEMMA InitLInv == Init => LInv
  <1> SUFFICES ASSUME Init PROVE LInv
    OBVIOUS
  <1>1. \A f \in Files : ran[f] = {} /\ row[f].st = "none" /\ ~HasChunks(f)
    BY DEF Init, QueueInit, NoRow, HasChunks
  <1>2. \A c \in Clients : req[c] = Idle
    BY DEF Init
  <1>3. RequestsOK
    BY <1>2 DEF RequestsOK, RequestOK, At, Idle
  <1> QED
    BY <1>1, <1>3 DEF LInv, StoredOrToCome, OnlyAfterRun

LEMMA NextLInv ==
  ASSUME MaxFaults = 0, "delete" \notin Ops
  PROVE  IInv /\ IInv' /\ LInv /\ [Next]_vars /\ [DiskGrows]_vars => LInv'
  <1> SUFFICES ASSUME IInv, IInv', LInv, [Next]_vars, [DiskGrows]_vars
               PROVE  LInv'
    OBVIOUS
  <1>0. TypeOK /\ QueueTypeOK' /\ Chain
    BY DEF IInv, TypeOK
  <1>1. CASE UNCHANGED vars
    <2>1. UNCHANGED <<job, points, row, disk, ran, gaveUp, req>>
      BY <1>1 DEF vars, queueVars, reqVars
    <2>2. \A f \in Files : \A b \in Batches(f) : ToCome(f, b)' <=> ToCome(f, b)
      BY <2>1 DEF ToCome, Owes, At, Todo, Reaches, Live
    <2>3. StoredOrToCome'
      BY <2>1, <2>2 DEF LInv, StoredOrToCome, Batches
    <2>4. OnlyAfterRun' /\ RequestsOK'
      BY <2>1 DEF LInv, OnlyAfterRun, HasChunks, Batches, RequestsOK, RequestOK, At, Todo
    <2> QED
      BY <2>3, <2>4 DEF LInv
  <1>2. CASE Worker
    BY <1>0, <1>2, WorkerKeepsLInv
  <1>3. CASE (\E c \in Clients : Request(c) \/ Serve(c)) /\ DiskGrows
    BY <1>0, <1>3, RequestKeepsLInv
  <1> QED
    BY <1>1, <1>2, <1>3 DEF Next

\* Delete-then-dispatch loses nothing: in a system without errors, in which no file is deleted,
\* whatever is uploaded, downloaded, scanned, re-embedded and reset at the same time, once
\* everything has come to rest an indexed file has the chunks of every batch.
THEOREM NothingIsLost ==
  ASSUME MaxFaults = 0, "delete" \notin Ops
  PROVE  Spec /\ [][DiskGrows]_vars => []NoLostChunks
  <1>1. IInv /\ LInv => NoLostChunks
    <2> SUFFICES ASSUME IInv, LInv, Quiet, NEW f \in disk \ Docs, row[f].st = "indexed",
                        f \notin gaveUp, NEW b \in Batches(f)
                 PROVE  points[f][b] > 0
      BY DEF NoLostChunks
    <2>1. f \in Files \ Docs /\ ran[f] # {}
      BY DEF IInv, TypeOK, QueueTypeOK, LInv, OnlyAfterRun
    <2>2. ~(\E c \in Clients : Owes(c, f))
      BY DEF Quiet, Owes, At, Idle
    <2>3. ~(\E j \in JobIds : Reaches(j, f, b))
      BY DEF Quiet, Inflight, Reaches
    <2> QED
      BY <2>1, <2>2, <2>3 DEF LInv, StoredOrToCome, ToCome
  <1> QED
    BY <1>1, InitLInv, NextLInv, Inductive, PTL DEF Spec
============================================================================
