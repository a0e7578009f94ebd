------------------------------ MODULE MapLibrary ------------------------------
(****************************************************************************)
(* The maps. Curated regions are downloaded, other regions are cut out of   *)
(* the map of the world by a job that runs a child process; the table of    *)
(* installed resources names one file per region. Pages that show a map     *)
(* first see to the base assets and to a coarse map of the world, each      *)
(* request with a MapService of its own.                                    *)
(****************************************************************************)
EXTENDS Naturals, FiniteSets

CONSTANTS
    Curated,        \* regions of the collections: their files carry a month
    Global,         \* the map of everything: its files carry a day
    Regions,        \* selections of countries: their files carry a zoom level
    Versions,       \* those months and zoom levels
    Requests,       \* requests for a map at the same time
    Slots,          \* BOUND: jobs in the hands of the worker, those removed from the queue included
    Attempts,       \* attempts of a job: 10 of a download, 3 of an extract in the code
    MaxAsked,       \* BOUND: downloads, extracts, cancels, deletions and requests
    MaxFaults       \* BOUND: failures and processes that die

VARIABLES
    disk,       \* the map files
    temp,       \* the .tmp files of downloads
    row,        \* the table: which version of a region is installed, 0 for none
    queue,      \* the jobs that download and extract
    run,        \* what the worker does for them
    key,        \* the cancel keys in Redis
    cancel,     \* requests that cancel a job
    drop,       \* deletions that have removed their file and not yet its row
    scan,       \* the reconciliation after a restart
    base, world,\* the base assets, the map of the world
    req,        \* requests for a map
    used,
    excused     \* history: see "What is remembered"
files == <<disk, temp, row>>
jobs == <<queue, run, key, cancel>>
others == <<drop, scan>>
maps == <<base, world, req>>
vars == <<files, jobs, others, maps, used, excused>>

Fetched == Curated \cup Global
Resource == Fetched \cup Regions
File == Resource \X Versions
NoFile == <<>>
NoJob == [st |-> "none", left |-> 0, stalled |-> FALSE]

\* The next thing that is done for a job. It is the job's own, or its job was removed, or has
\* failed while the callback of a download that is complete goes on.
Recording == {"look", "record", "old", "prune", "note"}
Run == [file: File \cup {NoFile}, at: {"none", "head", "fetch", "extract", "stat", "end"} \cup Recording,
        job: {"own", "gone", "over"}, old: {0} \cup Versions]
Idle == [file |-> NoFile, at |-> "none", job |-> "gone", old |-> 0]
NoScan == [at |-> "none", listed |-> {}]

TypeOK ==
    /\ disk \in [File -> {"absent", "partial", "whole"}] /\ temp \subseteq Fetched \X Versions
    /\ row \in [Resource -> {0} \cup Versions]
    /\ queue \in [File -> [st: {"none", "waiting", "active", "failed"},
                           left: 0 .. Attempts, stalled: BOOLEAN]]
    /\ run \in [Slots -> Run]
    /\ key \subseteq File
    /\ cancel \in [File -> {"none", "poll", "delete", "temp"}]
    /\ drop \subseteq Curated \X Versions
    /\ scan \in [at: {"none", "list", "adopt"}, listed: SUBSET (Curated \X Versions)]
    /\ base \in {"absent", "half", "whole"} /\ world \in {"absent", "partial", "whole"}
    /\ req \in [Requests -> [at: {"none", "look", "unpack", "world", "cut", "serve"},
                             ready: BOOLEAN]]
    /\ used \in [asked: 0 .. MaxAsked, faults: 0 .. MaxFaults]
    /\ excused \subseteq Resource \cup {"world"}

\* A version of a resource is installed, or none is.
Init ==
    /\ row \in {t \in [Resource -> {0} \cup Versions] : \A g \in Global : t[g] = 0}
    /\ disk = [f \in File |-> IF row[f[1]] = f[2] THEN "whole" ELSE "absent"] /\ temp = {}
    /\ queue = [f \in File |-> NoJob] /\ run = [s \in Slots |-> Idle]
    /\ key = {} /\ cancel = [f \in File |-> "none"] /\ drop = {} /\ scan = NoScan
    /\ base = "absent" /\ world = "absent"
    /\ req = [q \in Requests |-> [at |-> "none", ready |-> FALSE]]
    /\ used = [asked |-> 0, faults |-> 0] /\ excused = {}

Asked == used.asked < MaxAsked /\ used' = [used EXCEPT !.asked = @ + 1]
Fault == used.faults < MaxFaults /\ used' = [used EXCEPT !.faults = @ + 1]
Normally == UNCHANGED used

\* What is remembered: resources on whose row two completions, or one and a reconciliation,
\* were at work at once, and those that lost a file which somebody was going to name.
AtWork(r) == {s \in Slots : run[s].file # NoFile /\ run[s].file[1] = r /\ run[s].at \in {"stat"} \cup Recording}
Alone(s) ==
    LET r == run[s].file[1] IN AtWork(r) \subseteq {s} /\ ~(scan.at = "adopt" /\ r \in Curated)
Joins(s) == excused' = IF Alone(s) THEN excused ELSE excused \cup {run[s].file[1]}
Awaited(f) ==
    \/ \E s \in AtWork(f[1]) : run[s].file = f
    \/ scan.at = "adopt" /\ f \in scan.listed
Loses(f, named) == excused' = IF named \/ Awaited(f) THEN excused \cup {f[1]} ELSE excused
OnRecord(f) == row[f[1]] = f[2]
----------------------------------------------------------------------------
(* Jobs *)

Newest == CHOOSE v \in Versions : \A w \in Versions : v >= w

Requeue == [NoJob EXCEPT !.st = "waiting", !.left = Attempts]
Ended(f) == queue[f].st \in {"none", "failed"}

\* downloadCollection: what is not installed, and not being fetched from the same url.
DownloadCollection ==
    /\ Asked
    /\ queue' = [f \in File |->
           IF f[1] \in Curated /\ f[2] = Newest /\ row[f[1]] = 0 /\ Ended(f) THEN Requeue ELSE queue[f]]
    /\ UNCHANGED <<files, run, key, cancel, others, maps, excused>>

\* downloadRemote, an update, and extractRegion: a job for the same file that has not ended is
\* kept, one that has is removed.
Dispatch(f) ==
    /\ f \notin Global \X Versions /\ Asked /\ Ended(f)
    /\ queue' = [queue EXCEPT ![f] = Requeue]
    /\ UNCHANGED <<files, run, key, cancel, others, maps, excused>>

\* The newest build there is, offered while there is no file of it; a download of it that
\* failed counts as one that is under way.
GlobalInfo(g) == <<g, Newest>>
DownloadGlobal(g) ==
    LET f == GlobalInfo(g) IN
    /\ Asked /\ disk[f] = "absent" /\ queue[f].st = "none"
    /\ queue' = [queue EXCEPT ![f] = Requeue]
    /\ UNCHANGED <<files, run, key, cancel, others, maps, excused>>

Dismiss(f) ==
    /\ queue[f].st = "failed" /\ queue' = [queue EXCEPT ![f] = NoJob]
    /\ UNCHANGED <<files, run, key, cancel, others, maps, excused>> /\ Normally

\* The worker has a free hand for a job.
Take(s, f) ==
    /\ queue[f].st = "waiting" /\ run[s].at = "none" /\ \A t \in Slots : run[t].at = "none" => s <= t
    /\ queue' = [queue EXCEPT ![f].st = "active"]
    /\ run' = [run EXCEPT ![s] = [Idle EXCEPT !.file = f, !.at = "head", !.job = "own"]]
    /\ UNCHANGED <<files, key, cancel, others, maps, excused>> /\ Normally

Goes(s, at) == run' = [run EXCEPT ![s].at = at] /\ UNCHANGED queue

\* Mutant: the job ends, but the queue is not told.
Fails_Silent(s, again) ==
    LET f == run[s].file IN
    /\ queue' = IF run[s].job = "own" /\ ~again THEN [queue EXCEPT ![f].st = "failed"] ELSE queue
    /\ run' = [run EXCEPT ![s] = Idle]

\* The job ends with an error: it waits for another attempt, unless it has none left,
\* has been cancelled, or is no longer there.
Fails(s, again) ==
    LET f == run[s].file IN
    /\ queue' = IF run[s].job # "own" THEN queue
                ELSE IF again /\ queue[f].left > 1
                     THEN [queue EXCEPT ![f].st = "waiting", ![f].left = @ - 1]
                     ELSE [queue EXCEPT ![f].st = "failed"]
    /\ run' = [run EXCEPT ![s] = Idle]

\* A download begins its .tmp file anew, an extract its file.
Begin(s) ==
    LET f == run[s].file IN
    /\ run[s].at = "head"
    /\ IF f[1] \in Regions
       THEN /\ Goes(s, "extract") /\ disk' = [disk EXCEPT ![f] = "partial"] /\ UNCHANGED temp
       ELSE /\ Goes(s, "fetch") /\ temp' = temp \cup {f} /\ UNCHANGED disk
    /\ UNCHANGED <<row, key, cancel, others, maps, excused>> /\ Normally

\* The server does not answer, or stops sending.
Miss(s) ==
    /\ run[s].at \in {"head", "fetch"} /\ run[s].file[1] \in Fetched /\ Fault
    /\ Fails(s, TRUE)
    /\ UNCHANGED <<files, key, cancel, others, maps, excused>>

\* All data has come: the .tmp file gets its name. It may have it already, from another
\* execution; without any file the attempt fails. The name of the global map is not
\* understood, so that it has no row.
Arrive(s) ==
    LET f == run[s].file IN
    /\ run[s].at = "fetch"
    /\ IF f \in temp \/ disk[f] # "absent"
       THEN /\ Goes(s, IF f[1] \in Global THEN "end" ELSE "look")
            /\ disk' = [disk EXCEPT ![f] = "whole"] /\ temp' = temp \ {f}
            /\ IF f[1] \in Global THEN UNCHANGED excused ELSE Joins(s)
       ELSE Fails(s, TRUE) /\ UNCHANGED <<disk, temp, excused>>
    /\ UNCHANGED <<row, key, cancel, others, maps>> /\ Normally

\* The poll of a download finds the cancel key: before the last byte it stops, afterwards the
\* job fails and the callback goes on all the same.
Poll(s) ==
    LET f == run[s].file IN
    /\ run[s].at # "none" /\ f[1] \in Fetched /\ run[s].job # "over"
    /\ f \in key /\ key' = key \ {f}
    /\ IF run[s].at \in {"head", "fetch"} THEN Fails(s, FALSE)
       ELSE /\ run' = [run EXCEPT ![s].job = "over"]
            /\ queue' = IF run[s].job = "own" THEN [queue EXCEPT ![f].st = "failed"] ELSE queue
    /\ UNCHANGED <<files, cancel, others, maps, excused>> /\ Normally

\* pmtiles ends well; a file deleted under it stays deleted.
Finish(s) ==
    LET f == run[s].file IN
    /\ run[s].at = "extract" /\ Goes(s, "stat") /\ Joins(s)
    /\ disk' = [disk EXCEPT ![f] = IF @ = "absent" THEN @ ELSE "whole"]
    /\ UNCHANGED <<temp, row, key, cancel, others, maps>> /\ Normally

\* pmtiles ends badly, or is killed by the tick that finds the cancel key: what there is of
\* the file is deleted, even if it was installed before.
Break(s) ==
    LET f == run[s].file IN
    /\ run[s].at = "extract"
    /\ \/ f \in key /\ key' = key \ {f} /\ Normally /\ Fails(s, FALSE)
       \/ Fault /\ Fails(s, TRUE) /\ UNCHANGED key
    /\ disk' = [disk EXCEPT ![f] = "absent"] /\ Loses(f, OnRecord(f))
    /\ UNCHANGED <<temp, row, cancel, others, maps>>

\* The final progress needs the size of the file; a cancel that a tick saw too late is
\* looked at only now.
Stat(s) ==
    LET f == run[s].file IN
    /\ run[s].at = "stat"
    /\ IF disk[f] = "absent" THEN \E again \in {TRUE, f \notin key} : Fails(s, again) ELSE Goes(s, "look")
    /\ UNCHANGED <<files, key, cancel, others, maps, excused>> /\ Normally

\* onComplete of both jobs: which file the row names ...
Look(s) ==
    /\ run[s].at = "look"
    /\ run' = [run EXCEPT ![s].at = "record", ![s].old = row[run[s].file[1]]]
    /\ UNCHANGED <<files, queue, key, cancel, others, maps, excused>> /\ Normally

\* ... it names this one ...
Record(s) ==
    LET f == run[s].file IN
    /\ run[s].at = "record" /\ Goes(s, "old")
    /\ row' = [row EXCEPT ![f[1]] = f[2]]
    /\ excused' = IF Alone(s) /\ disk[f] # "absent" THEN excused \ {f[1]} ELSE excused
    /\ UNCHANGED <<disk, temp, key, cancel, others, maps>> /\ Normally

AfterOld(s) == IF run[s].file[1] \in Regions THEN "prune" ELSE "note"

\* Mutant: the file of the row before goes even when it is the new one.
DropOld_Same(s) ==
    /\ run[s].at = "old" /\ Goes(s, AfterOld(s))
    /\ disk' = IF run[s].old = 0 THEN disk
               ELSE [disk EXCEPT ![<<run[s].file[1], run[s].old>>] = "absent"]
    /\ UNCHANGED <<temp, row, key, cancel, others, maps, excused>> /\ Normally

\* ... that file goes ...
DropOld(s) ==
    LET f == run[s].file IN
    /\ run[s].at = "old" /\ Goes(s, AfterOld(s))
    /\ disk' = IF run[s].old \in {0, f[2]} THEN disk
               ELSE [disk EXCEPT ![<<f[1], run[s].old>>] = "absent"]
    /\ UNCHANGED <<temp, row, key, cancel, others, maps, excused>> /\ Normally

\* ... after an extract every other file of the region too, one that is being written included ...
Prune(s) ==
    LET f == run[s].file IN
    /\ run[s].at = "prune"
    /\ disk' = [g \in File |-> IF g[1] = f[1] /\ g[2] \notin {f[2], run[s].old} THEN "absent" ELSE disk[g]]
    /\ Goes(s, "end")
    /\ UNCHANGED <<temp, row, key, cancel, others, maps, excused>> /\ Normally

\* ... and after a download MapService makes the entry once more.
Note(s) ==
    LET f == run[s].file IN
    /\ run[s].at = "note" /\ Goes(s, "end")
    /\ row' = [row EXCEPT ![f[1]] = f[2]]
    /\ UNCHANGED <<disk, temp, key, cancel, others, maps, excused>> /\ Normally

\* The database or the disk fails: a download only logs it, an extract fails if its entry
\* could not be made.
CallbackFails(s) ==
    /\ Fault
    /\ \/ run[s].at = "old" /\ Goes(s, AfterOld(s))
       \/ run[s].at \in {"prune", "note"} /\ Goes(s, "end")
       \/ run[s].at \in {"look", "record"}
          /\ IF run[s].file[1] \in Regions THEN Fails(s, TRUE) ELSE Goes(s, "end")
    /\ UNCHANGED <<files, key, cancel, others, maps, excused>>

\* A completed job leaves no entry.
End(s) ==
    /\ run[s].at = "end" /\ run' = [run EXCEPT ![s] = Idle]
    /\ queue' = IF run[s].job = "own" THEN [queue EXCEPT ![run[s].file] = NoJob] ELSE queue
    /\ UNCHANGED <<files, key, cancel, others, maps, excused>> /\ Normally

\* The worker dies; its jobs have stalled and wait again, once.
WorkerDies ==
    /\ Fault
    /\ run' = [s \in Slots |-> Idle]
    /\ queue' = [f \in File |-> IF queue[f].st # "active" THEN queue[f]
         ELSE [queue[f] EXCEPT !.st = IF queue[f].stalled THEN "failed" ELSE "waiting", !.stalled = TRUE]]
    /\ UNCHANGED <<files, key, cancel, others, maps, excused>>
----------------------------------------------------------------------------
(* Cancelling, deleting, reconciling *)

\* The key is set, which a job that does not run never reads ...
Signal(f) ==
    /\ Asked /\ queue[f].st # "none" /\ cancel[f] = "none"
    /\ key' = key \cup {f} /\ cancel' = [cancel EXCEPT ![f] = "poll"]
    /\ UNCHANGED <<files, queue, run, others, maps, excused>>

\* ... the job ends or four seconds pass, and it is removed, its lock with it if need be ...
RemoveJob(f) ==
    /\ cancel[f] = "poll"
    /\ queue' = [queue EXCEPT ![f] = NoJob] /\ cancel' = [cancel EXCEPT ![f] = "delete"]
    /\ run' = [s \in Slots |-> IF run[s].file = f /\ run[s].job = "own"
                               THEN [run[s] EXCEPT !.job = "gone"] ELSE run[s]]
    /\ UNCHANGED <<files, key, others, maps, excused>> /\ Normally

\* ... and the file is deleted, whatever it has become ...
DeleteOutput(f) ==
    /\ cancel[f] = "delete"
    /\ cancel' = [cancel EXCEPT ![f] = IF f[1] \in Regions THEN "none" ELSE "temp"]
    /\ disk' = [disk EXCEPT ![f] = "absent"] /\ Loses(f, OnRecord(f))
    /\ UNCHANGED <<temp, row, queue, run, key, others, maps>> /\ Normally

\* ... with the .tmp file of a download.
DeleteTemp(f) ==
    /\ cancel[f] = "temp" /\ cancel' = [cancel EXCEPT ![f] = "none"] /\ temp' = temp \ {f}
    /\ UNCHANGED <<disk, row, queue, run, key, others, maps, excused>> /\ Normally

KeyExpires(f) ==
    /\ f \in key /\ key' = key \ {f}
    /\ UNCHANGED <<files, queue, run, cancel, others, maps, excused>> /\ Normally

Listed == {f \in File : disk[f] # "absent"}

\* delete: the file goes ...
Delete(f) ==
    /\ Asked /\ f \in Listed /\ disk' = [disk EXCEPT ![f] = "absent"]
    /\ drop' = IF f[1] \in Curated THEN drop \cup {f} ELSE drop
    /\ Loses(f, f[1] \in Regions /\ OnRecord(f))
    /\ UNCHANGED <<temp, row, jobs, scan, maps>>

\* ... then the row of the resource, whatever version it has by now; the name of an extract
\* does not tell which row that is.
DropRow(f) ==
    /\ f \in drop /\ drop' = drop \ {f} /\ row' = [row EXCEPT ![f[1]] = 0]
    /\ UNCHANGED <<disk, temp, jobs, scan, maps, excused>> /\ Normally

\* The server dies and starts again: its requests are gone, the reconciliation begins.
ServerDies ==
    /\ Fault
    /\ req' = [q \in Requests |-> [at |-> "none", ready |-> FALSE]]
    /\ cancel' = [f \in File |-> "none"] /\ drop' = {} /\ scan' = [NoScan EXCEPT !.at = "list"]
    /\ excused' = IF \E q \in Requests : req[q].at = "cut" THEN excused \cup {"world"} ELSE excused
    /\ UNCHANGED <<files, queue, run, key, base, world>>

\* Mutant: what is on record is taken to be on disk.
ListFiles_Recorded ==
    /\ scan.at = "list"
    /\ scan' = [at |-> "adopt", listed |-> {f \in Curated \X Versions : disk[f] # "absent" \/ OnRecord(f)}]
    /\ excused' = {r \in excused : r \notin Curated} \cup {r \in Curated : AtWork(r) # {}}
    /\ UNCHANGED <<files, jobs, drop, maps>> /\ Normally

\* It lists the files whose names it understands ...
ListFiles ==
    /\ scan.at = "list"
    /\ scan' = [at |-> "adopt", listed |-> {f \in Curated \X Versions : disk[f] # "absent"}]
    /\ excused' = {r \in excused : r \notin Curated} \cup {r \in Curated : AtWork(r) # {}}
    /\ UNCHANGED <<files, jobs, drop, maps>> /\ Normally

\* ... and the table is made to agree with the list, the last file of a resource counting.
Adopt ==
    /\ scan.at = "adopt" /\ scan' = NoScan
    /\ row' \in {t \in [Resource -> {0} \cup Versions] : \A r \in Resource :
          LET there == {v \in Versions : <<r, v>> \in scan.listed}
          IN t[r] \in IF there = {} THEN {0} ELSE there}
    /\ UNCHANGED <<disk, temp, jobs, drop, maps, excused>> /\ Normally
----------------------------------------------------------------------------
(* Requests that show a map *)

To(q, at) == req' = [req EXCEPT ![q].at = at]

\* ensureBaseAssets of a new MapService: there are assets, or they are fetched; half of
\* them may be found to be all.
Open(q) ==
    /\ Asked /\ req[q].at = "none"
    /\ req' = [req EXCEPT ![q] = [at |-> "look", ready |-> FALSE]]
    /\ UNCHANGED <<files, jobs, others, base, world, excused>>

LookBase(q) ==
    /\ req[q].at = "look"
    /\ \/ base # "whole" /\ To(q, "unpack") /\ base' = "half"
       \/ base # "absent" /\ To(q, "world") /\ UNCHANGED base
    /\ UNCHANGED <<files, jobs, others, world, excused>> /\ Normally

Unpack(q) ==
    /\ req[q].at = "unpack"
    /\ \/ base' = "whole" /\ To(q, "world") /\ Normally
       \/ To(q, "none") /\ Fault /\ UNCHANGED base
    /\ UNCHANGED <<files, jobs, others, world, excused>>

Cutting(q) == {p \in Requests \ {q} : req[p].at = "cut"}

\* A file with anything in it is the map of the world; pmtiles makes it otherwise.
LookWorld(q) ==
    /\ req[q].at = "world"
    /\ IF world = "absent" THEN To(q, "cut") /\ world' = "partial"
       ELSE req' = [req EXCEPT ![q] = [at |-> "serve", ready |-> TRUE]] /\ UNCHANGED world
    /\ excused' = IF Cutting(q) # {} THEN excused \cup {"world"} ELSE excused
    /\ UNCHANGED <<files, jobs, others, base>> /\ Normally

\* Mutant: what pmtiles has left of the map of the world is not deleted.
Cut_Leaves(q) ==
    /\ req[q].at = "cut"
    /\ \/ req' = [req EXCEPT ![q] = [at |-> "serve", ready |-> TRUE]] /\ world' = "whole" /\ Normally
       \/ To(q, "serve") /\ UNCHANGED world /\ Fault
    /\ UNCHANGED <<files, jobs, others, base, excused>>

\* It has ended; an error deletes the file, and the map is shown without it.
Cut(q) ==
    /\ req[q].at = "cut"
    /\ \/ req' = [req EXCEPT ![q] = [at |-> "serve", ready |-> TRUE]] /\ world' = "whole" /\ Normally
       \/ To(q, "serve") /\ world' = "absent" /\ Fault
    /\ UNCHANGED <<files, jobs, others, base, excused>>

\* The style names the files there are.
Serve(q) ==
    /\ req[q].at = "serve" /\ To(q, "none")
    /\ UNCHANGED <<files, jobs, others, base, world, excused>> /\ Normally

Work(s) ==
    \/ Begin(s) \/ Arrive(s) \/ Finish(s) \/ Break(s) \/ Stat(s) \/ Look(s) \/ Record(s) \/ DropOld(s)
    \/ Prune(s) \/ Note(s) \/ End(s)

Next ==
    \/ DownloadCollection
    \/ \E g \in Global : DownloadGlobal(g)
    \/ \E f \in File :
          \/ Dispatch(f) \/ Dismiss(f) \/ Delete(f)
          \/ Signal(f) \/ RemoveJob(f) \/ DeleteOutput(f) \/ DeleteTemp(f) \/ KeyExpires(f)
    \/ \E f \in drop : DropRow(f)
    \/ \E s \in Slots :
          \/ Work(s) \/ Miss(s) \/ Poll(s) \/ CallbackFails(s)
          \/ \E f \in File : Take(s, f)
    \/ \E q \in Requests :
          Open(q) \/ LookBase(q) \/ Unpack(q) \/ LookWorld(q) \/ Cut(q) \/ Serve(q)
    \/ WorkerDies \/ ServerDies \/ ListFiles \/ Adopt

\* The worker goes on with every job it has taken, and takes what waits.
Fairness ==
    /\ \A s \in Slots : WF_vars(Work(s))
    /\ \A f \in File : WF_vars(\E s \in Slots : Take(s, f))
Spec == Init /\ [][Next]_vars
FairSpec == Spec /\ Fairness
----------------------------------------------------------------------------
(* Properties *)

\* The table never names a file that is not there, through downloads of two versions and two
\* zoom levels of a region that replace one another, failures, retries, cancels, deletions
\* and restarts: unless two completions met, or one and a reconciliation, the file of an
\* entry made or about to be made was taken away by a cancel, a deletion or a failing extract,
\* or a deletion or the reconciliation is still going on (run_download_job.ts:113-146,
\* map_service.ts:190-219,825-835, collection_manifest_service.ts:339-393).
RowHasFile ==
    \A r \in Resource : row[r] # 0 =>
        \/ disk[<<r, row[r]>>] # "absent" \/ r \in excused
        \/ scan.at # "none" \/ \E f \in drop : f[1] = r

\* A map is shown with the map of the world below it only if that is whole, unless another
\* request was making it or died doing so.
WorldIsWhole ==
    \A q \in Requests : req[q].ready => world = "whole" \/ "world" \in excused

\* What has to end: a download or an extract that was asked for is done, fails or is cancelled.
Unsettled(f) == queue[f].st \in {"waiting", "active"}
=============================================================================
