------------------------------- MODULE KbIngest -------------------------------
(****************************************************************************)
(* MONAD's knowledge-base ingestion: the embedding queue and its worker     *)
(* (EmbedQueue) together with everything in the admin server that adds      *)
(* jobs, deletes points or changes the state rows: uploads, finished ZIM    *)
(* downloads, the sync scan, single and bulk re-embeds, reset, deletion and *)
(* the cleanup of failed jobs (admin/app/services/rag_service.ts and its    *)
(* callers).  Each request is a sequence of steps, one per await between    *)
(* two pieces of shared state, so requests interleave with each other and   *)
(* with the worker.                                                         *)
(****************************************************************************)
EXTENDS EmbedQueue

CONSTANTS
    Clients,        \* requests the admin server may be serving at one time
    Ops,            \* operations these clients perform
    Policies,       \* initial values of rag.defaultIngestPolicy
    MaxRequests     \* BOUND: requests in one behaviour

AllOps == {"upload", "zim", "zimDelete", "scan", "embed", "reembed", "reset",
           "delete", "cleanup", "docs", "policy"}

ASSUME KbIngestAssumption ==
    /\ Ops \subseteq AllOps
    /\ Policies \subseteq {"Always", "Manual"}
    /\ MaxRequests \in Nat

VARIABLES
    req,            \* Clients -> the request being served
    policy,         \* KV store: rag.defaultIngestPolicy
    docsEmbedded,   \* KV store: rag.docsEmbedded
    uploaded,       \* names given to uploads; each carries a random suffix of its own
    lost,           \* history: files a bulk re-embed reported as not dispatched
    requests        \* requests made so far

reqVars == <<req, policy, docsEmbedded, uploaded, lost, requests>>
vars == <<queueVars, reqVars>>
----------------------------------------------------------------------------
Decisions == {"skip", "backfill_indexed", "create_pending", "dispatch_new", "dispatch"}
Pcs == {"idle", "docs", "facet", "rows", "apply", "queue", "delete", "force",
        "forceAll", "drop", "clear", "add", "unlink", "row", "arrived", "clean"}

\* todo: files still to handle; seen: sources found in Qdrant; dec: scan decisions
\* force: the flag of an embed request; jobs: entries a cleanup listed
Req == [op : AllOps \cup {"idle"}, pc : Pcs, todo : SUBSET Files, seen : SUBSET Files,
        dec : [Files -> Decisions], force : BOOLEAN, jobs : SUBSET JobIds]

NoDecision == [f \in Files |-> "skip"]
Idle == [op |-> "idle", pc |-> "idle", todo |-> {}, seen |-> {}, dec |-> NoDecision,
         force |-> FALSE, jobs |-> {}]

TypeOK ==
    /\ QueueTypeOK
    /\ req \in [Clients -> Req]
    /\ policy \in {"Always", "Manual"}
    /\ docsEmbedded \in BOOLEAN
    /\ uploaded \subseteq Uploads
    /\ lost \subseteq Files
    /\ requests \in 0 .. MaxRequests

Init ==
    /\ QueueInit
    /\ req = [c \in Clients |-> Idle]
    /\ policy \in Policies
    /\ docsEmbedded = FALSE
    /\ uploaded = {}
    /\ lost = {}
    /\ requests = 0
----------------------------------------------------------------------------
(* Steps of a request *)

At(c, op, pc) == req[c].op = op /\ req[c].pc = pc
Go(c, r) == req' = [req EXCEPT ![c] = r]
Done(c) == Go(c, Idle)
Todo(c) == req[c].todo
MinusTodo(c, f) == [req[c] EXCEPT !.todo = @ \ {f}]

Begin(c, op, r) ==
    /\ op \in Ops
    /\ req[c] = Idle
    /\ requests < MaxRequests
    /\ requests' = requests + 1
    /\ Go(c, [r EXCEPT !.op = op])

Target(f, pc) == [Idle EXCEPT !.todo = {f}, !.pc = pc]
DeletePoints(F) ==
    points' = [f \in Files |-> IF f \in F THEN [b \in Batches(f) |-> 0] ELSE points[f]]
Inflight == \E j \in JobIds : Live(j)

\* discoverMonadDocs: one non-forced dispatch per document, errors logged and ignored.
DispatchDoc(c) ==
    /\ req[c].pc = "docs"
    /\ \E f \in Todo(c) :
         /\ Go(c, MinusTodo(c, f))
         /\ \/ AddFirst(f) /\ NoFault
            \/ Fault /\ UNCHANGED job
    /\ UNCHANGED <<points, row, disk, ran, gaveUp, policy, docsEmbedded, uploaded,
                   lost, requests>>

\* ... then the flag is set and the caller goes on with the files in storage.
DocsDone(c) ==
    /\ req[c].pc = "docs"
    /\ Todo(c) = {}
    /\ docsEmbedded' = TRUE
    /\ LET found == disk \ Docs
           next(pc) == [req[c] EXCEPT !.pc = pc, !.todo = found]
       IN Go(c, CASE req[c].op = "scan"    -> next("facet")
                  [] req[c].op = "reembed" -> next("delete")
                  [] req[c].op = "reset"   -> next("forceAll")
                  [] OTHER                 -> Idle)
    /\ UNCHANGED <<queueVars, policy, uploaded, lost, requests>>

\* The AI assistant was configured: discoverMonadDocs without force.
DiscoverDocs(c) ==
    /\ ~docsEmbedded
    /\ Begin(c, "docs", [Idle EXCEPT !.pc = "docs", !.todo = Docs])
    /\ UNCHANGED <<queueVars, policy, docsEmbedded, uploaded, lost>>
----------------------------------------------------------------------------
(* Files arriving *)

Upload(c) ==
    /\ \E f \in Uploads \ (uploaded \cup disk) :
         /\ Begin(c, "upload", Target(f, "add"))
         /\ disk' = disk \cup {f}
         /\ uploaded' = uploaded \cup {f}
    /\ UNCHANGED <<job, points, row, ran, gaveUp, faults, policy, docsEmbedded, lost>>

\* RunDownloadJob finished a ZIM archive; a new download replaces the file.
ZimArrives(c) ==
    /\ \E f \in Zims : /\ Begin(c, "zim", Target(f, "arrived"))
                       /\ disk' = disk \cup {f}
    /\ UNCHANGED <<job, points, row, ran, gaveUp, faults, policy, docsEmbedded,
                   uploaded, lost>>

\* Its callback: nothing if Ollama is offline; under Manual the row is created if
\* there is none, under Always a first job is dispatched.
ZimIngest(c) ==
    /\ At(c, "zim", "arrived")
    /\ Done(c)
    /\ \E f \in Todo(c) :
         \/ UNCHANGED <<job, row>>
         \/ /\ policy = "Manual"
            /\ row' = IF row[f] = NoRow
                      THEN [row EXCEPT ![f].st = "pending_decision"] ELSE row
            /\ UNCHANGED job
         \/ policy = "Always" /\ AddFirst(f) /\ UNCHANGED row
    /\ UNCHANGED <<points, disk, ran, gaveUp, faults, policy, docsEmbedded, uploaded,
                   lost, requests>>

\* ZimService.delete unlinks the archive and leaves the knowledge base alone.
ZimDelete(c) ==
    /\ "zimDelete" \in Ops
    /\ req[c] = Idle
    /\ requests < MaxRequests
    /\ requests' = requests + 1
    /\ \E f \in Zims \cap disk : disk' = disk \ {f}
    /\ UNCHANGED <<job, points, row, ran, gaveUp, faults, req, policy, docsEmbedded,
                   uploaded, lost>>

SetPolicy(c) ==
    /\ "policy" \in Ops
    /\ req[c] = Idle
    /\ requests < MaxRequests
    /\ requests' = requests + 1
    /\ policy' \in {"Always", "Manual"} \ {policy}
    /\ UNCHANGED <<queueVars, req, docsEmbedded, uploaded, lost>>
----------------------------------------------------------------------------
(* scanAndSyncStorage *)

Scan(c) ==
    /\ Begin(c, "scan", [Idle EXCEPT !.pc = "docs", !.todo = Docs])
    /\ UNCHANGED <<queueVars, policy, docsEmbedded, uploaded, lost>>

ScanFacet(c) ==
    /\ At(c, "scan", "facet")
    /\ \/ Go(c, [req[c] EXCEPT !.pc = "rows", !.seen = {f \in Todo(c) : HasChunks(f)}])
          /\ NoFault
       \/ Fault /\ Done(c)
    /\ UNCHANGED <<job, points, row, disk, ran, gaveUp, policy, docsEmbedded, uploaded,
                   lost, requests>>

decideScanAction(st, hasChunks, pol) ==
    CASE st = "none" /\ hasChunks                        -> "backfill_indexed"
      [] st = "none" /\ ~hasChunks /\ pol = "Always"     -> "dispatch_new"
      [] st = "none" /\ ~hasChunks /\ pol = "Manual"     -> "create_pending"
      [] st = "indexed" /\ ~hasChunks                    -> "dispatch"
      [] st = "pending_decision" /\ pol = "Always"       -> "dispatch"
      [] OTHER                                           -> "skip"

CreatesRow == {"backfill_indexed", "create_pending", "dispatch_new"}
Dispatches == {"dispatch_new", "dispatch"}

\* KbIngestState.all() and the policy, against the facet read before.
ScanRows(c) ==
    LET dec == [f \in Files |->
                  IF f \in Todo(c)
                  THEN decideScanAction(row[f].st, f \in req[c].seen, policy)
                  ELSE "skip"]
    IN /\ At(c, "scan", "rows")
       /\ Go(c, [req[c] EXCEPT !.pc = "apply", !.dec = dec, !.seen = {},
                               !.todo = {f \in Files : dec[f] \in CreatesRow}])
       /\ UNCHANGED <<queueVars, policy, docsEmbedded, uploaded, lost, requests>>

\* KbIngestState.create: file_path is unique, so a row that appeared since the
\* read makes the whole scan fail.
ScanCreate(c) ==
    /\ At(c, "scan", "apply")
    /\ \E f \in Todo(c) :
         IF row[f] # NoRow THEN Done(c) /\ UNCHANGED row
         ELSE /\ row' = [row EXCEPT ![f].st =
                           IF req[c].dec[f] = "backfill_indexed" THEN "indexed"
                           ELSE "pending_decision"]
              /\ Go(c, MinusTodo(c, f))
    /\ UNCHANGED <<job, points, disk, ran, gaveUp, faults, policy, docsEmbedded,
                   uploaded, lost, requests>>

ScanCreated(c) ==
    /\ At(c, "scan", "apply")
    /\ Todo(c) = {}
    /\ Go(c, [Idle EXCEPT !.op = "scan", !.pc = "queue",
                          !.todo = {f \in Files : req[c].dec[f] \in Dispatches}])
    /\ UNCHANGED <<queueVars, policy, docsEmbedded, uploaded, lost, requests>>

ScanDispatch(c) ==
    /\ At(c, "scan", "queue")
    /\ \E f \in Todo(c) :
         /\ Go(c, MinusTodo(c, f))
         /\ \/ AddFirst(f) /\ NoFault
            \/ Fault /\ UNCHANGED job
    /\ UNCHANGED <<points, row, disk, ran, gaveUp, policy, docsEmbedded, uploaded,
                   lost, requests>>

ScanEnds(c) ==
    /\ At(c, "scan", "queue")
    /\ Todo(c) = {}
    /\ Done(c)
    /\ UNCHANGED <<queueVars, policy, docsEmbedded, uploaded, lost, requests>>
----------------------------------------------------------------------------
(* embedSingleFile, and the dispatch that ends an upload *)

\* The checks: a state row or a file in storage, and no job of the file in flight.
EmbedSingle(c) ==
    /\ \E f \in Files, force \in BOOLEAN :
         /\ row[f] # NoRow \/ f \in disk \ Docs
         /\ LiveJobs(f) = {}
         /\ Begin(c, "embed", [Target(f, IF force THEN "clear" ELSE "add")
                                 EXCEPT !.force = force])
    /\ UNCHANGED <<queueVars, policy, docsEmbedded, uploaded, lost>>

EmbedClear(c) ==
    /\ At(c, "embed", "clear")
    /\ \/ DeletePoints(Todo(c)) /\ NoFault /\ Go(c, [req[c] EXCEPT !.pc = "add"])
       \/ Fault /\ Done(c) /\ UNCHANGED points
    /\ UNCHANGED <<job, row, disk, ran, gaveUp, policy, docsEmbedded, uploaded, lost,
                   requests>>

Dispatch(c) ==
    /\ req[c].pc = "add"
    /\ Done(c)
    /\ \E f \in Todo(c) :
         \/ NoFault /\ IF req[c].force THEN AddFresh(f, 0) ELSE AddFirst(f)
         \/ Fault /\ UNCHANGED job
    /\ UNCHANGED <<points, row, disk, ran, gaveUp, policy, docsEmbedded, uploaded,
                   lost, requests>>
----------------------------------------------------------------------------
(* reembedAll and resetAndRebuild *)

BulkCheck(c) ==
    /\ ~Inflight
    /\ \/ Begin(c, "reembed", [Idle EXCEPT !.pc = "docs", !.todo = Docs])
       \/ Begin(c, "reset", [Idle EXCEPT !.pc = "drop"])
    /\ UNCHANGED <<queueVars, policy, docsEmbedded, uploaded, lost>>

\* Per file: delete the old points; on an error leave the file out.
ReembedDelete(c) ==
    /\ At(c, "reembed", "delete")
    /\ \E f \in Todo(c) :
         \/ /\ DeletePoints({f})
            /\ Go(c, [req[c] EXCEPT !.pc = "force", !.seen = {f}])
            /\ NoFault /\ UNCHANGED lost
         \/ /\ Fault
            /\ Go(c, MinusTodo(c, f))
            /\ lost' = lost \cup {f}
            /\ UNCHANGED points
    /\ UNCHANGED <<job, row, disk, ran, gaveUp, policy, docsEmbedded, uploaded, requests>>

\* MUTANT of ReembedForce: dispatched without force.
ReembedForce_NotForced(c) ==
    /\ At(c, "reembed", "force")
    /\ \E f \in req[c].seen :
         /\ Go(c, [MinusTodo(c, f) EXCEPT !.pc = "delete", !.seen = {}])
         /\ AddFirst(f)
    /\ UNCHANGED <<points, row, disk, ran, gaveUp, faults, policy, docsEmbedded, uploaded,
                   lost, requests>>

\* Then dispatch with force; on an error the file is reported and left unindexed.
ReembedForce(c) ==
    /\ At(c, "reembed", "force")
    /\ \E f \in req[c].seen :
         /\ Go(c, [MinusTodo(c, f) EXCEPT !.pc = "delete", !.seen = {}])
         /\ \/ AddFresh(f, 0) /\ NoFault /\ UNCHANGED lost
            \/ Fault /\ lost' = lost \cup {f} /\ UNCHANGED job
    /\ UNCHANGED <<points, row, disk, ran, gaveUp, policy, docsEmbedded, uploaded, requests>>

\* Drop and recreate the collection; an error of the drop is logged and ignored.
ResetDrop(c) ==
    /\ At(c, "reset", "drop")
    /\ \/ DeletePoints(Files) /\ NoFault
       \/ Fault /\ UNCHANGED points
    /\ docsEmbedded' = FALSE
    /\ Go(c, [req[c] EXCEPT !.pc = "docs", !.todo = Docs])
    /\ UNCHANGED <<job, row, disk, ran, gaveUp, policy, uploaded, lost, requests>>

ResetForce(c) ==
    /\ At(c, "reset", "forceAll")
    /\ \E f \in Todo(c) :
         /\ Go(c, MinusTodo(c, f))
         /\ \/ AddFresh(f, 0) /\ NoFault /\ UNCHANGED lost
            \/ Fault /\ lost' = lost \cup {f} /\ UNCHANGED job
    /\ UNCHANGED <<points, row, disk, ran, gaveUp, policy, docsEmbedded, uploaded, requests>>

BulkEnds(c) ==
    /\ At(c, "reembed", "delete") \/ At(c, "reset", "forceAll")
    /\ Todo(c) = {}
    /\ Done(c)
    /\ UNCHANGED <<queueVars, policy, docsEmbedded, uploaded, lost, requests>>
----------------------------------------------------------------------------
(* deleteFileBySource and cleanupFailedJobs *)

\* The points go first, whatever the queue holds for the file; an error of any
\* step ends the request there ...
Delete(c) ==
    /\ \E f \in Files :
         /\ row[f] # NoRow \/ HasChunks(f)
         /\ Begin(c, "delete", Target(f, "unlink"))
         /\ DeletePoints({f})
    /\ UNCHANGED <<job, row, disk, ran, gaveUp, faults, policy, docsEmbedded, uploaded,
                   lost>>

\* ... then the file, if it is an upload ...
DeleteUnlink(c) ==
    /\ At(c, "delete", "unlink")
    /\ \/ /\ disk' = disk \ (Todo(c) \cap Uploads)
          /\ Go(c, [req[c] EXCEPT !.pc = "row"])
          /\ NoFault
       \/ Fault /\ Done(c) /\ UNCHANGED disk
    /\ UNCHANGED <<job, points, row, ran, gaveUp, policy, docsEmbedded, uploaded, lost,
                   requests>>

\* ... and the row last.
DeleteRow(c) ==
    /\ At(c, "delete", "row")
    /\ \/ row' = [f \in Files |-> IF f \in Todo(c) THEN NoRow ELSE row[f]] /\ NoFault
       \/ Fault /\ UNCHANGED row
    /\ Done(c)
    /\ UNCHANGED <<job, points, disk, ran, gaveUp, policy, docsEmbedded, uploaded, lost,
                   requests>>

\* List the entries whose data says 'failed': retries that wait, and dead ones.
Cleanup(c) ==
    LET listed == {j \in JobIds : /\ job[j].st \in {"waiting", "delayed", "failed"}
                                  /\ job[j].failed}
    IN /\ listed # {}
       /\ Begin(c, "cleanup", [Idle EXCEPT !.pc = "clean", !.jobs = listed])
       /\ UNCHANGED <<queueVars, policy, docsEmbedded, uploaded, lost>>

\* Per entry: unlink an upload, then remove the job, which throws if a worker has
\* taken it meanwhile and ends the cleanup there.
CleanupOne(c) ==
    /\ At(c, "cleanup", "clean")
    /\ \E j \in req[c].jobs :
         LET f == job[j].file IN
         /\ disk' = disk \ ({f} \cap Uploads)
         /\ IF job[j].st = "active"
            THEN Done(c) /\ UNCHANGED <<job, gaveUp>>
            ELSE /\ Go(c, [req[c] EXCEPT !.jobs = @ \ {j}])
                 /\ gaveUp' = IF Live(j) THEN gaveUp \cup {f} ELSE gaveUp
                 /\ Remove(j)
    /\ UNCHANGED <<points, row, ran, faults, policy, docsEmbedded, uploaded, lost, requests>>

CleanupEnds(c) ==
    /\ At(c, "cleanup", "clean")
    /\ req[c].jobs = {}
    /\ Done(c)
    /\ UNCHANGED <<queueVars, policy, docsEmbedded, uploaded, lost, requests>>
----------------------------------------------------------------------------
Request(c) ==
    \/ Upload(c) \/ ZimArrives(c) \/ ZimDelete(c) \/ SetPolicy(c) \/ DiscoverDocs(c)
    \/ Scan(c) \/ EmbedSingle(c) \/ BulkCheck(c) \/ Delete(c) \/ Cleanup(c)

Serve(c) ==
    \/ DispatchDoc(c) \/ DocsDone(c) \/ ZimIngest(c) \/ Dispatch(c)
    \/ ScanFacet(c) \/ ScanRows(c) \/ ScanCreate(c) \/ ScanCreated(c)
    \/ ScanDispatch(c) \/ ScanEnds(c)
    \/ EmbedClear(c)
    \/ ReembedDelete(c) \/ ReembedForce(c) \/ ResetDrop(c) \/ ResetForce(c) \/ BulkEnds(c)
    \/ DeleteUnlink(c) \/ DeleteRow(c)
    \/ CleanupOne(c) \/ CleanupEnds(c)

Worker == WorkerNext /\ UNCHANGED reqVars

Next == Worker \/ \E c \in Clients : Request(c) \/ Serve(c)

Spec == Init /\ [][Next]_vars

\* The worker keeps polling its queue and Node resolves every await; clients may
\* stop asking.
Fairness ==
    /\ WorkerFairness
    /\ \A c \in Clients : WF_vars(Serve(c))

FairSpec == Spec /\ Fairness
----------------------------------------------------------------------------
(* Properties *)

\* A batch is only ever worked on when the batches before it have been processed:
\* a job at batch b, in whatever state Redis keeps it, means 0 .. b-1 ran.
PrefixRan ==
    \A j \in JobIds : \A b \in Batches(job[j].file) :
        b < job[j].off => b \in ran[job[j].file]

\* chunks_embedded is written by the last batch alone, so a row that counts
\* chunks belongs to a file all of whose batches were processed.
CountedRowIsComplete ==
    \A f \in Files : row[f].chunks > 0 => AllRan(f)

\* The chain of batches is carried by nothing but the jobs themselves.  However
\* the worker crashes, retries and recovers, a file does not stop half way
\* unless one of its jobs failed for good or was removed.
NoSilentStop ==
    \A f \in Files :
        ran[f] # {} /\ LiveJobs(f) = {} => AllRan(f) \/ f \in gaveUp

Quiet == ~Inflight /\ \A c \in Clients : req[c] = Idle

\* A re-embed deletes the points of a file before it dispatches the new job
\* (delete-then-dispatch), so that no delete can wipe what the job wrote: once
\* everything has come to rest an indexed file has every one of its batches.
\* (For runs without errors and deletions.)
NoLostChunks ==
    Quiet => \A f \in disk \ Docs :
                row[f].st = "indexed" /\ f \notin gaveUp =>
                    \A b \in Batches(f) : points[f][b] > 0

\* The id derived from the path makes dispatches idempotent: as long as Redis
\* keeps the entry, no upload, download or scan embeds a file twice, and no batch
\* is stored twice unless someone forced a new job.  (For runs without errors.)
Forced(f) == \E k \in AutoIds : job[k].st # "none" /\ job[k].file = f /\ job[k].off = 0
NoDuplicateChunks ==
    \A f \in Files : \A b \in Batches(f) : Forced(f) \/ points[f][b] <= 1

\* The queue drains: whatever fails, every job of a file is completed, failed or
\* removed in the end, and with it the chain it belongs to.
QueueDrains ==
    \A f \in Files : (LiveJobs(f) # {}) ~> (LiveJobs(f) = {})

\* Without errors, a file that was dispatched ends up indexed, unless it leaves the
\* storage or is cleaned up while its jobs run.
DispatchedIsIndexed ==
    \A f \in Files :
        (LiveJobs(f) # {}) ~> (row[f].st = "indexed" \/ f \in gaveUp \/ faults > 0)
============================================================================
