------------------------------- MODULE Wikipedia -------------------------------
(****************************************************************************)
(* The Wikipedia package. An administrator chooses one option of a          *)
(* catalogue; one row of the database says which one and how far it is.     *)
(* The request that chooses, the job that downloads, the events of that job *)
(* and the request that cancels it all read the row, wait, and save what    *)
(* they have changed of it.                                                 *)
(****************************************************************************)
EXTENDS Naturals, FiniteSets

CONSTANTS
    Options,        \* options of the catalogue, but for "none"
    Pages,          \* pages where an administrator chooses
    Slots,          \* BOUND: downloads in the hands of the worker, removed ones included
    Attempts,       \* attempts of a job, 10 in the code
    MaxAsked,       \* BOUND: clicks
    MaxMoves,       \* BOUND: new versions in the catalogue
    MaxFaults       \* BOUND: failures and processes that die

VARIABLES
    listed,     \* the catalogue: the version of each option
    row,        \* the selection, as the database has it
    disk,       \* the packages that are there
    temp,       \* the .tmp files of downloads
    job,        \* the downloads
    run,        \* what the worker does for them
    key,        \* the cancel keys in Redis
    events,     \* downloads whose attempt has failed, which no handler has looked at
    tellers,    \* calls of onWikipediaDownloadComplete that tell of a failure and have read the row
    ask,        \* requests that choose
    cancel,     \* requests that cancel a download
    page,       \* what each page shows and what is picked on it
    used,
    excused     \* history: a selection changed beside one of the others, or a file taken away
vars == <<listed, row, disk, temp, job, run, key, events, tellers, ask, cancel, page, used, excused>>
queue == <<temp, job, run, key, events>>

File == Options \X (1 .. MaxMoves + 1)
Url(o) == <<o, listed[o]>>
NoFile == <<>>
Row == [has: BOOLEAN, opt: Options \cup {"none", "unknown"}, file: File \cup {NoFile},
        st: {"none", "downloading", "installed", "failed"}]
NoRow == [has |-> FALSE, opt |-> "none", file |-> NoFile, st |-> "none"]
NoJob == [st |-> "none", left |-> 0]
NoAsk == [at |-> "none", opt |-> "none", file |-> NoFile, snap |-> NoRow]
Tellers == [file: File, snap: Row]

\* The next thing that is done for a download, which is the job's own, or whose job was removed,
\* or has failed while the callback goes on; a callback has read the row and found the option.
Run == [file: File \cup {NoFile}, at: {"none", "head", "fetch", "placed", "saving", "end"},
        job: {"own", "gone", "over"}, snap: Row, opt: Options \cup {"none"}]
Idle == [file |-> NoFile, at |-> "none", job |-> "gone", snap |-> NoRow, opt |-> "none"]

TypeOK ==
    /\ listed \in [Options -> 1 .. MaxMoves + 1] /\ row \in Row /\ disk \subseteq File
    /\ temp \subseteq File /\ key \subseteq File /\ run \in [Slots -> Run]
    /\ job \in [File -> [st: {"none", "waiting", "active", "delayed", "failed"}, left: 0 .. Attempts]]
    /\ events \subseteq File /\ tellers \subseteq Tellers
    /\ ask \in [Pages -> [at: {"none", "look", "delete", "save", "add"}, opt: Options \cup {"none"},
                          file: File \cup {NoFile}, snap: Row]]
    /\ cancel \in [File -> {"none", "wait", "delete", "temp", "tell"}]
    /\ page \in [Pages -> [shown: Row, picked: Options \cup {"none", "nothing"}]]
    /\ used \in [asked: 0 .. MaxAsked, moves: 0 .. MaxMoves, faults: 0 .. MaxFaults]
    /\ excused \in BOOLEAN

Init ==
    /\ listed = [o \in Options |-> 1] /\ row = NoRow /\ disk = {}
    /\ temp = {} /\ job = [f \in File |-> NoJob] /\ run = [s \in Slots |-> Idle]
    /\ key = {} /\ events = {} /\ tellers = {}
    /\ ask = [p \in Pages |-> NoAsk] /\ cancel = [f \in File |-> "none"]
    /\ page = [p \in Pages |-> [shown |-> NoRow, picked |-> "nothing"]]
    /\ used = [asked |-> 0, moves |-> 0, faults |-> 0] /\ excused = FALSE

Asked == used.asked < MaxAsked /\ used' = [used EXCEPT !.asked = @ + 1]
Fault == used.faults < MaxFaults /\ used' = [used EXCEPT !.faults = @ + 1]
Normally == UNCHANGED used

\* save of the row that was read: the columns that differ from what was read are written.
\* A second row, of two requests that found none, is never read: first() takes the first.
Saved(snap, new) ==
    IF snap.has
    THEN [has |-> TRUE, opt |-> IF new.opt = snap.opt THEN row.opt ELSE new.opt,
          file |-> IF new.file = snap.file THEN row.file ELSE new.file,
          st |-> IF new.st = snap.st THEN row.st ELSE new.st]
    ELSE IF row.has THEN row ELSE new

\* The file has just been placed, and the row is being told so.
Told(f) == \E s \in Slots : run[s].file = f /\ run[s].at \in {"placed", "saving"}

\* Somebody else has the row in hand.
InHand ==
    tellers # {} \/ (\E s \in Slots : run[s].at = "saving") \/ (\E p \in Pages : ask[p].at # "none")
----------------------------------------------------------------------------
(* The page *)

\* getWikipediaState: the page is loaded.
Load(p) ==
    /\ page[p].shown # row /\ page' = [page EXCEPT ![p].shown = row]
    /\ UNCHANGED <<listed, row, disk, queue, tellers, ask, cancel, excused>> /\ Normally

\* An option is offered unless the page shows it as downloading.
Offered(p, o) == ~(page[p].shown.st = "downloading" /\ page[p].shown.opt = o)

\* handleWikipediaSelect
Pick(p, o) ==
    /\ Offered(p, o) /\ page[p].picked # o /\ page' = [page EXCEPT ![p].picked = o]
    /\ UNCHANGED <<listed, row, disk, queue, tellers, ask, cancel, excused>> /\ Normally

\* The button is there for another option than the one shown, or after a failure.
CanSubmit(p) ==
    /\ page[p].picked # "nothing" /\ ask[p].at = "none"
    /\ page[p].picked # (IF page[p].shown.has THEN page[p].shown.opt ELSE "nothing") \/ page[p].shown.st = "failed"

\* The answer: after success the page forgets what is picked and asks again.
Answered(p, ok) ==
    page' = IF ok THEN [page EXCEPT ![p] = [shown |-> row', picked |-> "nothing"]] ELSE page

\* handleWikipediaSubmit, selectWikipedia: the row is read, and what it has installed stays.
Submit(p) ==
    LET o == page[p].picked
        installed == row.has /\ row.opt = o /\ row.st = "installed"
    IN
    /\ Asked /\ CanSubmit(p)
    /\ ask' = IF installed THEN ask
              ELSE [ask EXCEPT ![p] = [at |-> IF o = "none" THEN "delete" ELSE "look", opt |-> o,
                                       file |-> IF o = "none" THEN NoFile ELSE Url(o), snap |-> row]]
    /\ excused' = (excused \/ InHand)
    /\ UNCHANGED <<listed, row, disk, queue, tellers, cancel>> /\ Answered(p, installed)

\* "none": the file that was read is deleted, if it is there; a download of it is not looked at ...
DeleteOld(p) ==
    /\ ask[p].at = "delete" /\ disk' = disk \ {ask[p].snap.file}
    /\ ask' = [ask EXCEPT ![p].at = "save"]
    /\ excused' = (excused \/ \E f \in File : f = ask[p].snap.file /\ Told(f))
    /\ UNCHANGED <<listed, row, queue, tellers, cancel, page>> /\ Normally

\* ... and the row is emptied.
SaveNone(p) ==
    /\ ask[p].at = "save" /\ ask[p].opt = "none"
    /\ row' = Saved(ask[p].snap, [has |-> TRUE, opt |-> "none", file |-> NoFile, st |-> "none"])
    /\ ask' = [ask EXCEPT ![p] = NoAsk] /\ Answered(p, TRUE)
    /\ UNCHANGED <<listed, disk, queue, tellers, cancel, excused>> /\ Normally

UnderWay(f) == job[f].st \in {"waiting", "active", "delayed"}

\* getActiveByUrl: a job that is under way refuses the request, one that has ended is removed.
LookAtJob(p) ==
    LET f == ask[p].file IN
    /\ ask[p].at = "look"
    /\ IF UnderWay(f) THEN ask' = [ask EXCEPT ![p] = NoAsk] /\ UNCHANGED job
       ELSE ask' = [ask EXCEPT ![p].at = "save"] /\ job' = [job EXCEPT ![f] = NoJob]
    /\ UNCHANGED <<listed, row, disk, temp, run, key, events, tellers, cancel, page, excused>> /\ Normally

\* The row says that the option is downloading ...
SaveChoice(p) ==
    /\ ask[p].at = "save" /\ ask[p].opt # "none"
    /\ row' = Saved(ask[p].snap, [has |-> TRUE, opt |-> ask[p].opt, file |-> ask[p].file,
                                  st |-> "downloading"])
    /\ ask' = [ask EXCEPT ![p].at = "add"]
    /\ UNCHANGED <<listed, disk, queue, tellers, cancel, page, excused>> /\ Normally

\* ... and the job is added, unless one with its id has come in between. The row of a request
\* whose job could not be added is set to what it says already: both are one object.
AddJob(p) ==
    LET f == ask[p].file IN
    /\ ask[p].at = "add"
    /\ \/ /\ job' = IF job[f].st = "none" THEN [job EXCEPT ![f] = [st |-> "waiting", left |-> Attempts]]
                    ELSE job
          /\ UNCHANGED row /\ Answered(p, TRUE) /\ Normally /\ UNCHANGED excused
       \/ /\ UNCHANGED <<row, job>> /\ Answered(p, FALSE) /\ Fault /\ excused' = TRUE
    /\ ask' = [ask EXCEPT ![p] = NoAsk]
    /\ UNCHANGED <<listed, disk, temp, run, key, events, tellers, cancel>>
----------------------------------------------------------------------------
(* The download, and what it tells the row *)

Take(s, f) ==
    /\ job[f].st \in {"waiting", "delayed"} /\ job' = [job EXCEPT ![f].st = "active"]
    /\ run[s].at = "none" /\ \A t \in Slots : run[t].at = "none" => s <= t
    /\ run' = [run EXCEPT ![s] = [Idle EXCEPT !.file = f, !.at = "head", !.job = "own"]]
    /\ UNCHANGED <<listed, row, disk, temp, key, events, tellers, ask, cancel, page, excused>> /\ Normally

Begin(s) ==
    /\ run[s].at = "head" /\ run' = [run EXCEPT ![s].at = "fetch"] /\ temp' = temp \cup {run[s].file}
    /\ UNCHANGED <<listed, row, disk, job, key, events, tellers, ask, cancel, page, excused>> /\ Normally

\* The attempt is over. Every one that fails makes the worker emit the event, unless the job
\* has been removed under it; one that was cancelled is the last.
Failed(s, left) ==
    LET f == run[s].file IN
    IF run[s].job # "own" THEN UNCHANGED <<job, events>>
    ELSE /\ job' = [job EXCEPT ![f] = [st |-> IF left > 0 THEN "delayed" ELSE "failed", left |-> left]]
         /\ events' = events \cup {f}
Stops(s) == run' = [run EXCEPT ![s] = Idle]
Retries(s) == Failed(s, job[run[s].file].left - 1) /\ Stops(s)

\* The server does not answer, or stops sending.
Fail(s) ==
    /\ run[s].at \in {"head", "fetch"} /\ Fault /\ Retries(s)
    /\ UNCHANGED <<listed, row, disk, temp, key, tellers, ask, cancel, page, excused>>

\* The file is complete and gets its name; another execution may have given it that, and
\* without any file the attempt fails.
Place(s) ==
    LET f == run[s].file IN
    /\ run[s].at = "fetch"
    /\ IF f \in temp \cup disk
       THEN /\ run' = [run EXCEPT ![s].at = "placed"] /\ disk' = disk \cup {f} /\ temp' = temp \ {f}
            /\ UNCHANGED <<job, events>>
       ELSE Retries(s) /\ UNCHANGED <<disk, temp>>
    /\ UNCHANGED <<listed, row, key, tellers, ask, cancel, page, excused>> /\ Normally

\* The poll finds the cancel key: before the last byte the download stops, afterwards the job
\* fails and the callback goes on all the same.
Poll(s) ==
    LET f == run[s].file IN
    /\ run[s].at # "none" /\ run[s].job # "over" /\ f \in key /\ key' = key \ {f}
    /\ Failed(s, 0)
    /\ IF run[s].at \in {"head", "fetch"} THEN Stops(s) ELSE run' = [run EXCEPT ![s].job = "over"]
    /\ UNCHANGED <<listed, row, disk, temp, tellers, ask, cancel, page, excused>> /\ Normally

\* The callback, in the job: onWikipediaDownloadComplete reads the row; then it fetches the
\* catalogue, to find the option whose file this is, and an old version is of no option.
ReadDone(s) ==
    LET f == run[s].file IN
    /\ run[s].at = "placed"
    /\ \E opt \in {"none"} \cup {o \in Options : Url(o) = f} :
          /\ opt = "none" => Fault \/ (Normally /\ \A o \in Options : Url(o) # f)
          /\ opt # "none" => Normally
          /\ run' = [run EXCEPT ![s].at = "saving", ![s].snap = row, ![s].opt = opt]
    /\ excused' = (excused \/ InHand)
    /\ UNCHANGED <<listed, row, disk, temp, job, key, events, tellers, ask, cancel, page>>

\* Success: the row is of this file, and other versions of it are deleted.
SaveDone(s) ==
    LET t == run[s]
        opt == IF t.opt # "none" THEN t.opt ELSE IF t.snap.has THEN t.snap.opt ELSE "unknown" IN
    /\ t.at = "saving" /\ run' = [run EXCEPT ![s] = [t EXCEPT !.at = "end", !.snap = NoRow, !.opt = "none"]]
    /\ row' = Saved(t.snap, [has |-> TRUE, opt |-> opt, file |-> t.file, st |-> "installed"])
    /\ disk' = {f \in disk : f = t.file \/ f[1] # t.file[1]}
    /\ excused' = (excused \/ \E f \in disk \ disk' : Told(f))
    /\ UNCHANGED <<listed, temp, job, key, events, tellers, ask, cancel, page>> /\ Normally

\* A completed job leaves no entry.
End(s) ==
    /\ run[s].at = "end" /\ Stops(s)
    /\ job' = IF run[s].job = "own" THEN [job EXCEPT ![run[s].file] = NoJob] ELSE job
    /\ UNCHANGED <<listed, row, disk, temp, key, events, tellers, ask, cancel, page, excused>> /\ Normally

\* onWikipediaDownloadComplete of a failure reads the row.
Reads(f) ==
    /\ tellers' = tellers \cup {[file |-> f, snap |-> row]}
    /\ excused' = (excused \/ InHand)

\* The failed event of the worker.
ReadFailed(f) ==
    /\ f \in events /\ events' = events \ {f} /\ Reads(f)
    /\ UNCHANGED <<listed, row, disk, temp, job, run, key, ask, cancel, page>> /\ Normally

\* Mutant: a failure is not told.
SaveFailed_Never(t) ==
    /\ t \in tellers /\ tellers' = tellers \ {t}
    /\ UNCHANGED <<listed, row, disk, queue, ask, cancel, page, excused>> /\ Normally

\* Failure: the row fails if it is of this file.
SaveFailed(t) ==
    /\ t \in tellers /\ tellers' = tellers \ {t}
    /\ row' = IF t.snap.has /\ t.snap.file \in {NoFile, t.file}
              THEN Saved(t.snap, [t.snap EXCEPT !.st = "failed"]) ELSE row
    /\ UNCHANGED <<listed, disk, queue, ask, cancel, page, excused>> /\ Normally

\* The worker dies: its handlers with it, and its job is taken up again.
Dies ==
    /\ Fault /\ excused' = TRUE
    /\ job' = [f \in File |-> IF job[f].st = "active" THEN [job[f] EXCEPT !.st = "waiting"] ELSE job[f]]
    /\ run' = [s \in Slots |-> Idle] /\ tellers' = {} /\ events' = {}
    /\ UNCHANGED <<listed, row, disk, temp, key, ask, cancel, page>>
----------------------------------------------------------------------------
(* The other requests *)

\* cancelJob: the worker is told ...
Cancel(f) ==
    /\ Asked /\ cancel[f] = "none" /\ job[f].st # "none" /\ cancel' = [cancel EXCEPT ![f] = "wait"]
    /\ key' = key \cup {f}
    /\ UNCHANGED <<listed, row, disk, temp, job, run, events, tellers, ask, page, excused>>

KeyExpires(f) ==
    /\ f \in key /\ key' = key \ {f}
    /\ UNCHANGED <<listed, row, disk, temp, job, run, events, tellers, ask, cancel, page, excused>> /\ Normally

\* ... it has ended the job, or four seconds are over: the job is removed, whatever the worker
\* still does for it ...
RemoveJob(f) ==
    /\ cancel[f] = "wait" /\ cancel' = [cancel EXCEPT ![f] = "delete"]
    /\ job' = [job EXCEPT ![f] = NoJob]
    /\ run' = [s \in Slots |-> IF run[s].file = f /\ run[s].job = "own"
                               THEN [run[s] EXCEPT !.job = "gone"] ELSE run[s]]
    /\ UNCHANGED <<listed, row, disk, temp, key, events, tellers, ask, page, excused>> /\ Normally

\* ... the file is deleted, even one that was complete in time ...
DeleteFile(f) ==
    /\ cancel[f] = "delete" /\ disk' = disk \ {f} /\ cancel' = [cancel EXCEPT ![f] = "temp"]
    /\ excused' = (excused \/ Told(f))
    /\ UNCHANGED <<listed, row, queue, tellers, ask, page>> /\ Normally

\* ... then the .tmp file ...
DeleteTemp(f) ==
    /\ cancel[f] = "temp" /\ temp' = temp \ {f} /\ cancel' = [cancel EXCEPT ![f] = "tell"]
    /\ UNCHANGED <<listed, row, disk, job, run, key, events, tellers, ask, page, excused>> /\ Normally

\* ... and the row is told.
TellCancelled(f) ==
    /\ cancel[f] = "tell" /\ cancel' = [cancel EXCEPT ![f] = "none"] /\ Reads(f)
    /\ UNCHANGED <<listed, row, disk, queue, ask, page>> /\ Normally

\* The file is deleted on the page of the installed content: delete of the service does not
\* know the selection.
DeletePackage(f) ==
    /\ Asked /\ f \in disk /\ disk' = disk \ {f} /\ excused' = TRUE
    /\ UNCHANGED <<listed, row, queue, tellers, ask, cancel, page>>

\* The catalogue has a new version.
Moves(o) ==
    /\ used.moves < MaxMoves /\ used' = [used EXCEPT !.moves = @ + 1]
    /\ listed' = [listed EXCEPT ![o] = @ + 1]
    /\ UNCHANGED <<row, disk, queue, tellers, ask, cancel, page, excused>>

Request(p) == DeleteOld(p) \/ SaveNone(p) \/ LookAtJob(p) \/ SaveChoice(p) \/ AddJob(p)
Working(s) == Begin(s) \/ Place(s) \/ ReadDone(s) \/ SaveDone(s) \/ End(s)
Cancelling(f) == RemoveJob(f) \/ DeleteFile(f) \/ DeleteTemp(f) \/ TellCancelled(f)

Next ==
    \/ \E p \in Pages : Load(p) \/ Submit(p) \/ Request(p) \/ \E o \in Options \cup {"none"} : Pick(p, o)
    \/ \E s \in Slots : Working(s) \/ Fail(s) \/ Poll(s) \/ \E f \in File : Take(s, f)
    \/ \E f \in File : ReadFailed(f) \/ Cancel(f) \/ KeyExpires(f) \/ Cancelling(f) \/ DeletePackage(f)
    \/ \E t \in tellers : SaveFailed(t)
    \/ Dies \/ \E o \in Options : Moves(o)

Spec == Init /\ [][Next]_vars

\* The server answers, the worker takes its jobs and ends them, its handlers run to their end.
Fairness ==
    /\ \A p \in Pages : WF_vars(Request(p))
    /\ \A s \in Slots : WF_vars(Working(s))
    /\ \A f \in File : WF_vars(\E s \in Slots : Take(s, f)) /\ WF_vars(ReadFailed(f)) /\ WF_vars(Cancelling(f))
    /\ WF_vars(\E t \in tellers : SaveFailed(t))
FairSpec == Spec /\ Fairness
----------------------------------------------------------------------------
(* Properties *)

Quiet ==
    /\ ~InHand /\ events = {} /\ \A s \in Slots : run[s].at = "none"
    /\ \A f \in File : job[f].st \in {"none", "failed"} /\ cancel[f] = "none"

\* When nothing is under way the row tells the truth: nothing downloads, and what it has as
\* installed is there; through failures, retries and cancels, one that comes after the last
\* byte included (zim_service.ts:484-660, download_service.ts:194-235), unless two changed the
\* row at once, the worker died, or a file was deleted that was just being reported.
RowTellsTruth ==
    Quiet /\ ~excused => /\ row.st # "downloading"
                         /\ row.st = "installed" => row.file \in disk

\* What has to end: a row that waits for its download, unless it was read and changed by two
\* at once. One that failed for good or was cancelled has to be told.
Unsettled == row.st = "downloading" /\ ~excused
=============================================================================
