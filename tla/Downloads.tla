------------------------------- MODULE Downloads -------------------------------
(****************************************************************************)
(* The downloads of the versions of one resource: the entries of the queue  *)
(* "downloads", whose ids are derived from the url, so from the version;    *)
(* the executions of RunDownloadJob in the worker process, each a download  *)
(* into a .tmp file, its rename, and a callback that puts the version on    *)
(* record, deletes the version it replaces, rebuilds the library of Kiwix   *)
(* and hands the file to the knowledge base; and the requests of the server *)
(* process that start, update, cancel, dismiss and delete, or reconcile the *)
(* record with the disk when the server starts.                             *)
(****************************************************************************)
EXTENDS Naturals, FiniteSets

CONSTANTS
    Files,          \* the versions, each a url and a file name
    Runs,           \* executions that can go on at the same time
    Concurrency,    \* concurrency of the worker of the queue
    MaxAttempts,    \* attempts of a job
    Clients,        \* requests that can run at the same time
    MaxOps,         \* BOUND: requests in one behaviour
    MaxFaults,      \* BOUND: faults in one behaviour
    Kinds,          \* the operations requested
    None

Ops == {"download", "update", "cancel", "dismiss", "delete", "reconcile"}

ASSUME DownloadsAssumption ==
    /\ None \notin Files /\ None \notin Runs
    /\ Concurrency \in Nat \ {0} /\ MaxAttempts \in Nat \ {0}
    /\ MaxOps \in Nat /\ MaxFaults \in Nat
    /\ Kinds \subseteq Ops \ {"reconcile"}

VARIABLES
    job,        \* entry of every version in the queue
    run,        \* the executions
    key,        \* versions whose cancel key is in Redis
    temp,       \* versions whose .tmp file exists
    disk,       \* versions whose file exists
    row,        \* the version in installed_resources
    library,    \* versions in the library of Kiwix
    handed,     \* versions handed to the knowledge base
    req,        \* the requests
    ops,        \* requests so far
    faults,     \* faults so far
    cancelled,  \* history: versions whose download a user cancelled
    past        \* history: what else happened that a promise may except

files == <<temp, disk>>
store == <<row, library, handed>>
vars == <<job, run, key, temp, disk, row, library, handed, req, ops, faults,
          cancelled, past>>

\* An active job without an owner is one whose lock is going to expire.
Job == [st: {"none", "waiting", "active", "delayed", "failed"}, tries: 0 .. MaxAttempts,
        owner: Runs \cup {None}, stalled: BOOLEAN]

\* The next thing an execution does; "over" when its job has failed and only the
\* callback of the finished file goes on.
Completing == {"look", "save", "wipe", "list", "write", "record"}
Run == [file: Files \cup {None},
        ph: {"idle", "head", "fetch", "place", "hand", "end"} \cup Completing,
        over: BOOLEAN, old: Files \cup {None}, listed: SUBSET Files]

Request == [op: Ops, file: Files \cup {None}, listed: SUBSET Files,
            at: {"done", "look", "clear", "add", "signal", "remove", "deleteFile",
                 "deleteTemp", "unlink", "read", "write", "drop", "scan", "adopt"}]

NoJob == [st |-> "none", tries |-> 0, owner |-> None, stalled |-> FALSE]
NewJob == [NoJob EXCEPT !.st = "waiting"]
NoRun == [file |-> None, ph |-> "idle", over |-> FALSE, old |-> None, listed |-> {}]
NoRequest == [op |-> "download", file |-> None, listed |-> {}, at |-> "done"]

TypeOK ==
    /\ job \in [Files -> Job]
    /\ run \in [Runs -> Run]
    /\ key \subseteq Files /\ temp \subseteq Files /\ disk \subseteq Files
    /\ row \in Files \cup {None}
    /\ library \subseteq Files /\ handed \subseteq Files
    /\ req \in [Clients -> Request]
    /\ ops \in 0 .. MaxOps
    /\ faults \in 0 .. MaxFaults
    /\ cancelled \subseteq Files
    /\ past \subseteq {"beside", "callback", "crash", "dismissed"}

\* A version is installed, or none is.
Init ==
    /\ \E f \in Files \cup {None} :
         /\ row = f /\ disk = {f} \ {None} /\ library = {f} \ {None} /\ handed = {f} \ {None}
    /\ job = [f \in Files |-> NoJob]
    /\ run = [w \in Runs |-> NoRun]
    /\ key = {} /\ temp = {}
    /\ req = [c \in Clients |-> NoRequest]
    /\ ops = 0 /\ faults = 0 /\ cancelled = {} /\ past = {}

Live(f) == job[f].st \in {"waiting", "active", "delayed"}
Busy(c) == req[c].at # "done"
Owns(w) == job[run[w].file].owner = w
Hit == faults < MaxFaults /\ faults' = faults + 1
Normally == UNCHANGED faults
----------------------------------------------------------------------------
(* The worker *)

\* BullMQ hands a waiting job to a free execution.
Take(w) ==
    /\ run[w].ph = "idle"
    /\ Cardinality({v \in Runs : run[v].ph # "idle" /\ ~run[v].over}) < Concurrency
    /\ \E f \in Files :
         /\ job[f].st = "waiting"
         /\ job' = [job EXCEPT ![f].st = "active", ![f].owner = w]
         /\ run' = [run EXCEPT ![w] = [NoRun EXCEPT !.file = f, !.ph = "head"]]
    /\ UNCHANGED <<key, files, store>> /\ Normally

Goes(w, ph) == run' = [run EXCEPT ![w].ph = ph]
Stops(w) == run' = [run EXCEPT ![w] = NoRun]

\* What the end of an execution does to its job, if it is still its own: a failed
\* attempt is retried, unless it was the last one or the user cancelled.
Settles(w, entry) == job' = IF Owns(w) THEN [job EXCEPT ![run[w].file] = entry] ELSE job
Retried(j) ==
    IF j.tries + 1 < MaxAttempts
    THEN [j EXCEPT !.st = "delayed", !.tries = @ + 1, !.owner = None]
    ELSE [j EXCEPT !.st = "failed", !.tries = @ + 1, !.owner = None]
Failed(j) == [j EXCEPT !.st = "failed", !.owner = None]

\* The HEAD request or the transfer fails, or no data comes for five minutes.
FetchFails(w) ==
    /\ run[w].ph \in {"head", "fetch"} /\ Hit
    /\ Settles(w, Retried(job[run[w].file])) /\ Stops(w)
    /\ UNCHANGED <<key, files, store>>

\* The .tmp file is begun anew (forceNew) ...
Head(w) ==
    /\ run[w].ph = "head"
    /\ temp' = temp \cup {run[w].file}
    /\ Goes(w, "fetch")
    /\ UNCHANGED <<job, key, disk, store>> /\ Normally

\* ... and all data arrives.
Fetch(w) ==
    /\ run[w].ph = "fetch"
    /\ Goes(w, "place")
    /\ UNCHANGED <<job, key, files, store>> /\ Normally

\* The rename.  Another execution may have done it already; without any file the
\* attempt has failed.
Place(w) ==
    LET f == run[w].file IN
    /\ run[w].ph = "place"
    /\ \/ /\ f \in temp
          /\ temp' = temp \ {f} /\ disk' = disk \cup {f}
          /\ Goes(w, "look") /\ UNCHANGED job
       \/ /\ f \notin temp /\ f \in disk
          /\ Goes(w, "look") /\ UNCHANGED <<job, files>>
       \/ /\ f \notin temp /\ f \notin disk
          /\ Settles(w, Retried(job[f])) /\ Stops(w) /\ UNCHANGED files
    /\ UNCHANGED <<key, store>> /\ Normally

\* MUTANT of Poll: a cancelled download ends without an error.
Poll_Silent(w) ==
    LET f == run[w].file IN
    /\ run[w].ph # "idle" /\ ~run[w].over /\ f \in key
    /\ key' = key \ {f}
    /\ Stops(w)
    /\ UNCHANGED <<job, files, store>> /\ Normally

\* The poll every two seconds finds the cancel key.  Before the last byte has come the
\* download stops; afterwards the job fails and the callback goes on all the same.
Poll(w) ==
    LET f == run[w].file IN
    /\ run[w].ph # "idle" /\ ~run[w].over /\ f \in key
    /\ key' = key \ {f}
    /\ Settles(w, Failed(job[f]))
    /\ IF run[w].ph \in {"head", "fetch"} THEN Stops(w)
       ELSE run' = [run EXCEPT ![w].over = TRUE]
    /\ UNCHANGED <<files, store>> /\ Normally

\* onComplete: the version on record, which this one replaces, ...
Look(w) ==
    /\ run[w].ph = "look"
    /\ run' = [run EXCEPT ![w].ph = "save", ![w].old = row]
    /\ UNCHANGED <<job, key, files, store>> /\ Normally

\* ... this one put on record, ...
Save(w) ==
    /\ run[w].ph = "save"
    /\ row' = run[w].file
    /\ Goes(w, "wipe")
    /\ UNCHANGED <<job, key, files, library, handed>> /\ Normally

\* MUTANT of Wipe: a version that is downloaded again is taken for an old one.
Wipe_Same(w) ==
    /\ run[w].ph = "wipe"
    /\ disk' = disk \ {run[w].old}
    /\ run' = [run EXCEPT ![w].ph = "list", ![w].old = None]
    /\ UNCHANGED <<job, key, temp, store>> /\ Normally

\* ... the file of the other one deleted, ...
Wipe(w) ==
    /\ run[w].ph = "wipe"
    /\ disk' = IF run[w].old = run[w].file THEN disk ELSE disk \ {run[w].old}
    /\ run' = [run EXCEPT ![w].ph = "list", ![w].old = None]
    /\ UNCHANGED <<job, key, temp, store>> /\ Normally

\* ... the library rebuilt from what is on disk, ...
List(w) ==
    /\ run[w].ph = "list"
    /\ run' = [run EXCEPT ![w].ph = "write", ![w].listed = disk]
    /\ UNCHANGED <<job, key, files, store>> /\ Normally

\* MUTANT of Write: the library as it was, with the new version.
Write_Adds(w) ==
    /\ run[w].ph = "write"
    /\ library' = library \cup {run[w].file}
    /\ run' = [run EXCEPT ![w].ph = "record", ![w].listed = {}]
    /\ UNCHANGED <<job, key, files, row, handed>> /\ Normally

Write(w) ==
    /\ run[w].ph = "write"
    /\ library' = run[w].listed
    /\ run' = [run EXCEPT ![w].ph = "record", ![w].listed = {}]
    /\ UNCHANGED <<job, key, files, row, handed>> /\ Normally

\* ... the version put on record once more ...
Record(w) ==
    /\ run[w].ph = "record"
    /\ row' = run[w].file
    /\ Goes(w, "hand")
    /\ UNCHANGED <<job, key, files, library, handed>> /\ Normally

\* ... and the file handed to the knowledge base: embedded, or left to a decision.
Hand(w) ==
    /\ run[w].ph = "hand"
    /\ handed' = handed \cup {run[w].file}
    /\ Goes(w, "end")
    /\ UNCHANGED <<job, key, files, row, library>> /\ Normally

\* An error in the callback is only logged: of the deletion, the library or the last
\* record what follows still happens, otherwise (or with Ollama offline) nothing does.
CallbackFails(w) ==
    /\ Hit
    /\ \/ run[w].ph \in {"look", "save", "hand"} /\ Goes(w, "end")
       \/ run[w].ph = "wipe" /\ Goes(w, "list")
       \/ run[w].ph \in {"list", "write"} /\ Goes(w, "record")
       \/ run[w].ph = "record" /\ Goes(w, "hand")
    /\ UNCHANGED <<job, key, files, store>>

\* removeOnComplete: a completed job leaves no entry.
End(w) ==
    /\ run[w].ph = "end"
    /\ Settles(w, NoJob) /\ Stops(w)
    /\ UNCHANGED <<key, files, store>> /\ Normally

Work(w) ==
    \/ Head(w) \/ Fetch(w) \/ Place(w) \/ Look(w) \/ Save(w) \/ Wipe(w)
    \/ List(w) \/ Write(w) \/ Record(w) \/ Hand(w) \/ End(w)

\* A backoff ends.
Promote(f) ==
    /\ job[f].st = "delayed"
    /\ job' = [job EXCEPT ![f].st = "waiting"]
    /\ UNCHANGED <<run, key, files, store>> /\ Normally

\* The lock of an active job has expired: it is run again, and failed the second time.
RecoverStalled(f) ==
    /\ job[f].st = "active" /\ job[f].owner = None
    /\ job' = [job EXCEPT ![f].st = IF job[f].stalled THEN "failed" ELSE "waiting",
                          ![f].stalled = TRUE]
    /\ UNCHANGED <<run, key, files, store>> /\ Normally

\* The worker process dies.
Crash ==
    /\ Hit
    /\ \E w \in Runs : run[w].ph # "idle"
    /\ run' = [w \in Runs |-> NoRun]
    /\ job' = [f \in Files |-> [job[f] EXCEPT !.owner = None]]
    /\ UNCHANGED <<key, files, store>>

\* An execution is too busy to renew its lock, and goes on without it.
LoseLock(w) ==
    /\ Hit
    /\ run[w].ph # "idle" /\ ~run[w].over /\ Owns(w)
    /\ job' = [job EXCEPT ![run[w].file].owner = None]
    /\ UNCHANGED <<run, key, files, store>>

KeyExpires(f) ==
    /\ f \in key
    /\ key' = key \ {f}
    /\ UNCHANGED <<job, run, files, store>> /\ Normally
----------------------------------------------------------------------------
(* The requests of the server *)

FirstStep(op) ==
    CASE op \in {"download", "update"} -> "look"
      [] op = "cancel" -> "signal"
      [] op = "dismiss" -> "remove"
      [] op = "delete" -> "unlink"

\* The page dismisses a download it shows as failed.
Arrive(c) ==
    /\ ~Busy(c) /\ ops < MaxOps
    /\ \E op \in Kinds, f \in Files :
         /\ op = "dismiss" => job[f].st = "failed"
         /\ req' = [req EXCEPT ![c] = [op |-> op, file |-> f, listed |-> {},
                                       at |-> FirstStep(op)]]
    /\ UNCHANGED <<job, run, key, files, store>> /\ Normally

At(c, kinds, step) == req[c].op \in kinds /\ req[c].at = step
Then(c, step) == req' = [req EXCEPT ![c].at = step]
Done(c) == req' = [req EXCEPT ![c] = NoRequest]
JobBecomes(f, entry) == job' = [job EXCEPT ![f] = entry]

\* getActiveByUrl: a live job refuses the download, a failed one is to be removed.
LookDownload(c) ==
    LET f == req[c].file IN
    /\ At(c, {"download"}, "look")
    /\ IF Live(f) THEN Done(c) ELSE Then(c, IF job[f].st = "failed" THEN "clear" ELSE "add")
    /\ UNCHANGED <<job, run, key, files, store>> /\ Normally

\* job.remove() of a job that has become active fails, which is ignored.
Clear(c) ==
    LET f == req[c].file IN
    /\ At(c, {"download"}, "clear")
    /\ IF job[f].st = "active" THEN UNCHANGED job ELSE JobBecomes(f, NoJob)
    /\ Then(c, "add")
    /\ UNCHANGED <<run, key, files, store>> /\ Normally

\* applyUpdate leaves a failed job where it is.
LookUpdate(c) ==
    /\ At(c, {"update"}, "look")
    /\ IF Live(req[c].file) THEN Done(c) ELSE Then(c, "add")
    /\ UNCHANGED <<job, run, key, files, store>> /\ Normally

\* MUTANT of Dispatch: the job is put into the queue whatever is there.
Dispatch_Always(c) ==
    /\ At(c, {"download", "update"}, "add")
    /\ JobBecomes(req[c].file, NewJob)
    /\ Done(c)
    /\ UNCHANGED <<run, key, files, store>> /\ Normally

\* An id that is in the queue already makes queue.add a no-op.
Dispatch(c) ==
    LET f == req[c].file IN
    /\ At(c, {"download", "update"}, "add")
    /\ IF job[f].st = "none" THEN JobBecomes(f, NewJob) ELSE UNCHANGED job
    /\ Done(c)
    /\ UNCHANGED <<run, key, files, store>> /\ Normally

\* The job is found and its cancel key set; a job that is not found was cancelled.
Signal(c) ==
    LET f == req[c].file IN
    /\ At(c, {"cancel"}, "signal")
    /\ \/ job[f].st = "none" /\ Done(c) /\ UNCHANGED key
       \/ job[f].st # "none" /\ key' = key \cup {f} /\ Then(c, "remove")
    /\ UNCHANGED <<job, run, files, store>> /\ Normally

\* The job has ended, or four seconds are over: it is removed, locked or not.
RemoveJob(c) ==
    /\ At(c, {"cancel", "dismiss"}, "remove")
    /\ JobBecomes(req[c].file, NoJob)
    /\ IF req[c].op = "cancel" THEN Then(c, "deleteFile") ELSE Done(c)
    /\ UNCHANGED <<run, key, files, store>> /\ Normally

DeleteFile(c) ==
    /\ At(c, {"cancel"}, "deleteFile")
    /\ disk' = disk \ {req[c].file}
    /\ Then(c, "deleteTemp")
    /\ UNCHANGED <<job, run, key, temp, store>> /\ Normally

DeleteTemp(c) ==
    /\ At(c, {"cancel"}, "deleteTemp")
    /\ temp' = temp \ {req[c].file}
    /\ Done(c)
    /\ UNCHANGED <<job, run, key, disk, store>> /\ Normally

\* ZimService.delete: the file, the book in the library, the row of the resource.
Unlink(c) ==
    /\ At(c, {"delete"}, "unlink")
    /\ IF req[c].file \in disk THEN Then(c, "read") ELSE Done(c)
    /\ disk' = disk \ {req[c].file}
    /\ UNCHANGED <<job, run, key, temp, store>> /\ Normally

ReadLibrary(c) ==
    /\ At(c, {"delete"}, "read")
    /\ IF req[c].file \in library
       THEN req' = [req EXCEPT ![c].listed = library, ![c].at = "write"]
       ELSE Then(c, "drop")
    /\ UNCHANGED <<job, run, key, files, store>> /\ Normally

WriteLibrary(c) ==
    /\ At(c, {"delete"}, "write")
    /\ library' = req[c].listed \ {req[c].file}
    /\ req' = [req EXCEPT ![c].at = "drop", ![c].listed = {}]
    /\ UNCHANGED <<job, run, key, files, row, handed>> /\ Normally

\* The row is looked up by the id of the resource, whatever version it has.
DropRow(c) ==
    /\ At(c, {"delete"}, "drop")
    /\ row' = None
    /\ Done(c)
    /\ UNCHANGED <<job, run, key, files, library, handed>> /\ Normally

\* The server starts anew: its requests are gone, the record is reconciled with what is
\* on disk, while requests are served already.
Restart(c) ==
    /\ Hit
    /\ req' = [d \in Clients |-> IF d = c THEN [NoRequest EXCEPT !.op = "reconcile", !.at = "scan"]
                                ELSE NoRequest]
    /\ UNCHANGED <<job, run, key, files, store>>

\* MUTANT of Scan: what is on record is taken to be on disk.
Scan_Recorded(c) ==
    /\ At(c, {"reconcile"}, "scan")
    /\ req' = [req EXCEPT ![c].listed = disk \cup {row}, ![c].at = "adopt"]
    /\ UNCHANGED <<job, run, key, files, store>> /\ Normally

Scan(c) ==
    /\ At(c, {"reconcile"}, "scan")
    /\ req' = [req EXCEPT ![c].listed = disk, ![c].at = "adopt"]
    /\ UNCHANGED <<job, run, key, files, store>> /\ Normally

\* Every file updates the row of the resource: the last one listed stays.
Adopt(c) ==
    /\ At(c, {"reconcile"}, "adopt")
    /\ IF req[c].listed = {} THEN row' = None ELSE row' \in req[c].listed
    /\ Done(c)
    /\ UNCHANGED <<job, run, key, files, library, handed>> /\ Normally

Proceed(c) ==
    \/ LookDownload(c) \/ Clear(c) \/ LookUpdate(c) \/ Dispatch(c)
    \/ Signal(c) \/ RemoveJob(c) \/ DeleteFile(c) \/ DeleteTemp(c)
    \/ Unlink(c) \/ ReadLibrary(c) \/ WriteLibrary(c) \/ DropRow(c)
    \/ Scan(c) \/ Adopt(c)
----------------------------------------------------------------------------
(* What happens, and what is remembered of it *)

Completes(w) == run[w].ph \in Completing \cup {"hand", "end"}
Deletes(c) == req[c].op = "delete" /\ req[c].at \in {"read", "write", "drop"}
Reconciles(c) == req[c].op = "reconcile"

\* Two of those that write the record or delete files are at work at once.
Beside ==
    \/ \E v, w \in Runs : Completes(v) /\ Completes(w) /\ run[v].file # run[w].file
    \/ \E c \in Clients : /\ Deletes(c) \/ Reconciles(c)
                          /\ \/ \E w \in Runs : Completes(w)
                             \/ \E d \in Clients \ {c} : Deletes(d) \/ Reconciles(d)

Remember(tags) ==
    /\ past' = past \cup tags \cup (IF Beside' THEN {"beside"} ELSE {})
    /\ cancelled' = cancelled \cup
         {req'[c].file : c \in {d \in Clients : req'[d].op = "cancel" /\ req'[d].at = "remove"}}

WorkerStep ==
    \/ \E w \in Runs : (Take(w) \/ Work(w) \/ Poll(w) \/ FetchFails(w)) /\ Remember({})
    \/ \E w \in Runs : CallbackFails(w) /\ Remember({"callback"})
    \/ \E w \in Runs : LoseLock(w) /\ Remember({"crash"})
    \/ Crash /\ Remember({"crash"})

QueueStep ==
    /\ \E f \in Files : Promote(f) \/ RecoverStalled(f) \/ KeyExpires(f)
    /\ Remember({})

RequestStep ==
    \/ \E c \in Clients : (Restart(c) \/ Proceed(c)) /\ UNCHANGED ops
         /\ Remember(IF req[c].op = "dismiss" /\ Live(req[c].file) THEN {"dismissed"} ELSE {})
    \/ \E c \in Clients : Arrive(c) /\ ops' = ops + 1 /\ Remember({})

Next ==
    \/ UNCHANGED <<req, ops>> /\ (WorkerStep \/ QueueStep)
    \/ RequestStep

Spec == Init /\ [][Next]_vars
----------------------------------------------------------------------------
(* Properties *)

\* A version on record has its file, through retries, crashes, lost locks, repeated
\* requests and the restart of the server, unless its download was cancelled, two of
\* those that write the record overlapped, or a deletion or the reconciliation after a
\* restart is still going on (run_download_job.ts:113-146, zim_service.ts:407-427).
RecordHasFile ==
    \/ row = None \/ row \in disk \/ row \in cancelled
    \/ "beside" \in past
    \/ \E c \in Clients : Deletes(c) \/ Reconciles(c)

\* The .tmp file of a version is written by one execution, however many requests ask for
\* it at once: a second one needs a lost lock, a cancelled download, or a failed entry
\* dismissed after it was started again (downloads.ts:39-40, run_download_job.ts:272-282).
OneWriter ==
    \A v, w \in Runs :
        (/\ v # w /\ run[v].file = run[w].file
         /\ run[v].ph \in {"head", "fetch", "place"} /\ run[w].ph \in {"head", "fetch", "place"})
        => run[v].file \in cancelled \/ past \cap {"crash", "dismissed"} # {}

\* A job that ends as completed has delivered its version: on record, on disk, in the
\* library and handed to the knowledge base, and, if no execution died or was dismissed before,
\* nothing else is left on disk (run_download_job.ts:104-207, zim_service.ts:291-390).
Ended(w) ==
    /\ run[w].ph = "end" /\ Owns(w) /\ run'[w].ph = "idle"
    /\ cancelled = {} /\ past \cap {"beside", "callback"} = {}
FinishedIsDelivered ==
    [][\A w \in Runs : Ended(w) =>
         LET f == run[w].file IN
         /\ row = f /\ f \in disk /\ f \in library /\ f \in handed
         /\ past \cap {"crash", "dismissed"} = {} => disk = {f} /\ library = {f}]_vars

\* No download is stuck: an active entry belongs to an execution of its version that has
\* not given up, or lost its lock and is found by the check for stalled jobs
\* (run_download_job.ts:78-93,225-239, work.ts:51-68).
ActiveIsWorkedOn ==
    \A f \in Files : job[f].st = "active" /\ job[f].owner # None =>
        LET w == job[f].owner IN run[w].file = f /\ run[w].ph # "idle" /\ ~run[w].over
============================================================================
