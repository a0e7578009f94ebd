---------------------------- MODULE Downloads_proofs ----------------------------
(****************************************************************************)
(* That the state of Downloads keeps its type, that an active download is   *)
(* never left without an execution, that one execution writes a file, and   *)
(* that a version on record has its file, for any number of versions,       *)
(* executions, requests and faults.                                         *)
(****************************************************************************)
EXTENDS Downloads, TLAPS

(* The inductive invariant, by the variables it speaks of *)

\* An execution that is not idle has a version; an entry that goes on has an attempt
\* left; an entry has an owner only while it is active, and the owner works on it.
Working == \A w \in Runs : run[w].ph # "idle" => run[w].file \in Files
Trying == \A f \in Files : job[f].st \in {"waiting", "active", "delayed"} =>
                             job[f].tries < MaxAttempts
Owned ==
    \A f \in Files : job[f].owner # None =>
        /\ job[f].st = "active"
        /\ run[job[f].owner].file = f
        /\ run[job[f].owner].ph # "idle"
        /\ ~run[job[f].owner].over
Entries == job \in [Files -> Job] /\ run \in [Runs -> Run] /\ Working /\ Trying /\ Owned

Stores ==
    /\ key \subseteq Files /\ temp \subseteq Files /\ disk \subseteq Files
    /\ row \in Files \cup {None} /\ library \subseteq Files /\ handed \subseteq Files
    /\ faults \in 0 .. MaxFaults

\* A request that is not done has a version, unless it is the reconciliation.
Asking == \A c \in Clients : Busy(c) /\ req[c].op # "reconcile" => req[c].file \in Files
Requests == req \in [Clients -> Request] /\ Asking /\ ops \in 0 .. MaxOps

History == cancelled \subseteq Files /\ past \subseteq {"beside", "callback", "crash", "dismissed"}

IInv == Entries /\ Stores /\ Requests /\ History

LEMMA Implications == IInv => TypeOK /\ ActiveIsWorkedOn
  <1>1. IInv => TypeOK
    BY DEF IInv, Entries, Stores, Requests, History, TypeOK
  <1>2. IInv => ActiveIsWorkedOn
    BY DEF IInv, Entries, Owned, ActiveIsWorkedOn
  <1> QED
    BY <1>1, <1>2
----------------------------------------------------------------------------
(* Entries and executions *)

LEMMA EntryTypes == NoJob \in Job /\ NewJob \in Job /\ NoRun \in Run /\ NoRequest \in Request
  <1>1. 0 \in 0 .. MaxAttempts
    BY DownloadsAssumption
  <1>2. NoJob \in Job
    BY <1>1 DEF NoJob, Job
  <1>3. NewJob \in Job
    BY <1>1 DEF NewJob, NoJob, Job
  <1>4. NoRun \in Run
    BY DEF NoRun, Run, Completing
  <1>5. NoRequest \in Request
    BY DEF NoRequest, Request, Ops
  <1> QED
    BY <1>2, <1>3, <1>4, <1>5

\* What an execution leaves of its entry.
LEMMA EntryEnds ==
  ASSUME NEW j \in Job, j.tries < MaxAttempts
  PROVE  /\ Retried(j) \in Job /\ Retried(j).owner = None
         /\ Retried(j).st \in {"delayed", "failed"}
         /\ Retried(j).st = "delayed" => Retried(j).tries < MaxAttempts
         /\ Failed(j) \in Job /\ Failed(j).owner = None /\ Failed(j).st = "failed"
  <1>1. j.tries + 1 \in 0 .. MaxAttempts
    BY DownloadsAssumption DEF Job
  <1>2. Failed(j) \in Job /\ Failed(j).owner = None /\ Failed(j).st = "failed"
    BY DEF Failed, Job
  <1>3. CASE j.tries + 1 < MaxAttempts
    <2>1. Retried(j) = [j EXCEPT !.st = "delayed", !.tries = j.tries + 1, !.owner = None]
      BY <1>3 DEF Retried
    <2> QED
      BY <1>1, <1>2, <1>3, <2>1 DEF Job
  <1>4. CASE ~(j.tries + 1 < MaxAttempts)
    <2>1. Retried(j) = [j EXCEPT !.st = "failed", !.tries = j.tries + 1, !.owner = None]
      BY <1>4 DEF Retried
    <2> QED
      BY <1>1, <1>2, <2>1 DEF Job
  <1> QED
    BY <1>3, <1>4

\* An entry that may stand in the queue without an execution.
Free(e) == /\ e \in Job /\ e.owner = None
           /\ e.st \in {"waiting", "active", "delayed"} => e.tries < MaxAttempts

LEMMA Continues ==
  ASSUME Entries, NEW w \in Runs, NEW r \in Run, run[w].ph # "idle", r.ph # "idle",
         r.file = run[w].file, r.over = run[w].over,
         run' = [run EXCEPT ![w] = r], job' = job
  PROVE  Entries'
  <1>1. run' \in [Runs -> Run]
    BY DEF Entries
  <1>2. /\ run'[w] = r
        /\ \A v \in Runs \ {w} : run'[v] = run[v]
    BY DEF Entries
  <1>3. Working'
    BY <1>2 DEF Entries, Working
  <1>4. Trying'
    BY DEF Entries, Trying
  <1>5. Owned'
    <2>1. ASSUME NEW f \in Files, job[f].owner # None
          PROVE  job[f].owner \in Runs
      BY <2>1 DEF Entries, Job
    <2> QED
      BY <1>2, <2>1 DEF Entries, Owned
  <1> QED
    BY <1>1, <1>3, <1>4, <1>5 DEF Entries

LEMMA Replaced ==
  ASSUME Entries, NEW f \in Files, NEW e, Free(e),
         job' = [job EXCEPT ![f] = e], run' = run
  PROVE  Entries'
  <1>1. job' \in [Files -> Job]
    BY DEF Entries, Free
  <1>2. /\ job'[f] = e
        /\ \A g \in Files \ {f} : job'[g] = job[g]
    BY DEF Entries
  <1>3. Working' /\ Trying' /\ Owned'
    BY <1>2 DEF Entries, Working, Trying, Owned, Free
  <1> QED
    BY <1>1, <1>3 DEF Entries

LEMMA Leaves ==
  ASSUME Entries, NEW w \in Runs, run[w].ph # "idle", NEW e, Free(e), Settles(w, e),
         NEW r \in Run, r.ph # "idle" => r.file \in Files,
         run' = [run EXCEPT ![w] = r]
  PROVE  Entries'
  <1>1. run[w].file \in Files
    BY DEF Entries, Working
  <1>2. job' \in [Files -> Job] /\ run' \in [Runs -> Run]
    BY <1>1 DEF Entries, Free, Settles
  <1>3. /\ run'[w] = r
        /\ \A v \in Runs \ {w} : run'[v] = run[v]
    BY DEF Entries
  <1>4. \A f \in Files : \/ job'[f] = job[f] /\ job[f].owner # w
                         \/ job'[f] = e
    <2>1. w # None
      BY DownloadsAssumption
    <2>2. \A f \in Files : job[f].owner = w => run[w].file = f
      BY <2>1 DEF Entries, Owned
    <2>3. CASE Owns(w)
      BY <1>1, <2>2, <2>3 DEF Entries, Settles
    <2>4. CASE ~Owns(w)
      BY <1>1, <2>2, <2>4 DEF Settles, Owns
    <2> QED
      BY <2>3, <2>4
  <1>5. Working'
    BY <1>3 DEF Entries, Working
  <1>6. Trying'
    BY <1>4 DEF Entries, Trying, Free
  <1>7. Owned'
    <2>1. ASSUME NEW f \in Files, job'[f].owner # None
          PROVE  /\ job'[f] = job[f] /\ job[f].owner \in Runs \ {w}
      BY <1>4, <2>1 DEF Entries, Job, Free
    <2> QED
      BY <1>3, <2>1 DEF Entries, Owned
  <1> QED
    BY <1>2, <1>5, <1>6, <1>7 DEF Entries

\* An attempt that fails leaves the entry to the next one, or failed.
LEMMA TryAgain ==
  ASSUME Entries, NEW w \in Runs, run[w].ph # "idle",
         Settles(w, Retried(job[run[w].file])), Stops(w)
  PROVE  Entries'
  <1>1. run[w].file \in Files /\ job[run[w].file] \in Job
    BY DEF Entries, Working
  <1>2. NoRun \in Run /\ NoRun.ph = "idle"
    BY EntryTypes DEF NoRun
  <1>3. CASE Owns(w)
    <2>1. job[run[w].file].tries < MaxAttempts
      BY <1>1, <1>3, DownloadsAssumption DEF Entries, Owned, Trying, Owns
    <2>2. Free(Retried(job[run[w].file]))
      BY <1>1, <2>1, EntryEnds DEF Free
    <2> QED
      BY <1>2, <2>2, Leaves DEF Stops
  <1>4. CASE ~Owns(w)
    <2>1. Settles(w, NoJob) /\ Free(NoJob)
      BY <1>4, EntryTypes DEF Settles, Free, NoJob
    <2> QED
      BY <1>2, <2>1, Leaves DEF Stops
  <1> QED
    BY <1>3, <1>4

----------------------------------------------------------------------------
(* The worker *)

LEMMA WorkEntries ==
  ASSUME Entries, Stores, NEW w \in Runs,
         Work(w) \/ CallbackFails(w)
  PROVE  Entries'
  <1> USE DEF Run
  <1>1. run[w] \in Run
    BY DEF Entries
  <1>2. ASSUME NEW ph \in Completing \cup {"head", "fetch", "place", "hand", "end"},
               run[w].ph # "idle", Goes(w, ph), job' = job
        PROVE  Entries'
    <2> DEFINE r == [run[w] EXCEPT !.ph = ph]
    <2>1. r \in Run /\ r.ph # "idle" /\ r.file = run[w].file /\ r.over = run[w].over
      BY <1>1, <1>2 DEF Completing
    <2>2. run' = [run EXCEPT ![w] = r]
      BY <1>2 DEF Goes
    <2> HIDE DEF r
    <2> QED
      BY <1>2, <2>1, <2>2, Continues
  <1>3. ASSUME NEW e, Free(e), run[w].ph # "idle", Settles(w, e), Stops(w)
        PROVE  Entries'
    <2>1. NoRun \in Run /\ NoRun.ph = "idle"
      BY EntryTypes DEF NoRun
    <2> QED
      BY <1>3, <2>1, Leaves DEF Stops
  <1>4. CASE Head(w) \/ Fetch(w) \/ Save(w) \/ Record(w) \/ Hand(w) \/ CallbackFails(w)
    BY <1>2, <1>4 DEF Head, Fetch, Save, Record, Hand, CallbackFails, Completing
  <1>5. CASE Look(w)
    <2> DEFINE r == [run[w] EXCEPT !.ph = "save", !.old = row]
    <2>1. r \in Run /\ r.ph # "idle" /\ r.file = run[w].file /\ r.over = run[w].over
      BY <1>1 DEF Completing, Stores
    <2>2. run' = [run EXCEPT ![w] = r] /\ run[w].ph # "idle" /\ job' = job
      BY <1>5 DEF Look
    <2> HIDE DEF r
    <2> QED
      BY <2>1, <2>2, Continues
  <1>6. CASE Wipe(w)
    <2> DEFINE r == [run[w] EXCEPT !.ph = "list", !.old = None]
    <2>1. r \in Run /\ r.ph # "idle" /\ r.file = run[w].file /\ r.over = run[w].over
      BY <1>1 DEF Completing
    <2>2. run' = [run EXCEPT ![w] = r] /\ run[w].ph # "idle" /\ job' = job
      BY <1>6 DEF Wipe
    <2> HIDE DEF r
    <2> QED
      BY <2>1, <2>2, Continues
  <1>7. CASE List(w)
    <2> DEFINE r == [run[w] EXCEPT !.ph = "write", !.listed = disk]
    <2>1. r \in Run /\ r.ph # "idle" /\ r.file = run[w].file /\ r.over = run[w].over
      BY <1>1 DEF Completing, Stores
    <2>2. run' = [run EXCEPT ![w] = r] /\ run[w].ph # "idle" /\ job' = job
      BY <1>7 DEF List
    <2> HIDE DEF r
    <2> QED
      BY <2>1, <2>2, Continues
  <1>8. CASE Write(w)
    <2> DEFINE r == [run[w] EXCEPT !.ph = "record", !.listed = {}]
    <2>1. r \in Run /\ r.ph # "idle" /\ r.file = run[w].file /\ r.over = run[w].over
      BY <1>1 DEF Completing
    <2>2. run' = [run EXCEPT ![w] = r] /\ run[w].ph # "idle" /\ job' = job
      BY <1>8 DEF Write
    <2> HIDE DEF r
    <2> QED
      BY <2>1, <2>2, Continues
  <1>9. CASE Place(w)
    <2>1. CASE Goes(w, "look") /\ job' = job
      BY <1>2, <1>9, <2>1 DEF Place, Completing
    <2>2. CASE Settles(w, Retried(job[run[w].file])) /\ Stops(w)
      BY <1>9, <2>2, TryAgain DEF Place
    <2> QED
      BY <1>9, <2>1, <2>2 DEF Place
  <1>10. CASE End(w)
    <2>1. Free(NoJob)
      BY EntryTypes DEF Free, NoJob
    <2> QED
      BY <1>3, <1>10, <2>1 DEF End
  <1> QED
    BY <1>4, <1>5, <1>6, <1>7, <1>8, <1>9, <1>10 DEF Work

LEMMA PollEntries ==
  ASSUME Entries, NEW w \in Runs, Poll(w)
  PROVE  Entries'
  <1> DEFINE j == job[run[w].file]
             r == IF run[w].ph \in {"head", "fetch"} THEN NoRun ELSE [run[w] EXCEPT !.over = TRUE]
  <1>1. run[w] \in Run /\ run[w].ph # "idle" /\ run[w].file \in Files
    BY DEF Entries, Working, Poll
  <1>2. j \in Job
    BY <1>1 DEF Entries
  <1>3. Free(Failed(j))
    BY <1>2 DEF Free, Failed, Job
  <1>4. r \in Run /\ (r.ph # "idle" => r.file \in Files)
    BY <1>1, EntryTypes DEF Run, NoRun
  <1>5. run' = [run EXCEPT ![w] = r]
    BY DEF Poll, Stops
  <1>6. Settles(w, Failed(j))
    BY DEF Poll
  <1> HIDE DEF j, r
  <1> QED
    BY <1>1, <1>3, <1>4, <1>5, <1>6, Leaves

LEMMA TakeEntries ==
  ASSUME Entries, NEW w \in Runs, Take(w)
  PROVE  Entries'
  <1>1. PICK f \in Files :
          /\ job[f].st = "waiting"
          /\ job' = [job EXCEPT ![f].st = "active", ![f].owner = w]
          /\ run' = [run EXCEPT ![w] = [NoRun EXCEPT !.file = f, !.ph = "head"]]
    BY DEF Take
  <1> DEFINE e == [job[f] EXCEPT !.st = "active", !.owner = w]
             r == [NoRun EXCEPT !.file = f, !.ph = "head"]
  <1>2. /\ e \in Job /\ e.st = "active" /\ e.owner = w /\ e.tries = job[f].tries
        /\ job' = [job EXCEPT ![f] = e]
    BY <1>1 DEF Entries, Job
  <1>3. /\ r \in Run /\ r.file = f /\ r.ph = "head" /\ ~r.over
        /\ run' = [run EXCEPT ![w] = r]
    BY <1>1, EntryTypes DEF NoRun, Run
  <1> HIDE DEF e, r
  <1>4. job' \in [Files -> Job] /\ run' \in [Runs -> Run]
    BY <1>2, <1>3 DEF Entries
  <1>5. /\ job'[f] = e /\ \A g \in Files \ {f} : job'[g] = job[g]
        /\ run'[w] = r /\ \A v \in Runs \ {w} : run'[v] = run[v]
    BY <1>2, <1>3 DEF Entries
  <1>6. Working'
    BY <1>3, <1>5 DEF Entries, Working
  <1>7. Trying'
    BY <1>1, <1>2, <1>5 DEF Entries, Trying
  <1>8. Owned'
    <2>1. run[w].ph = "idle" /\ w # None
      BY DownloadsAssumption DEF Take
    <2>2. \A g \in Files : job[g].owner # w
      BY <2>1 DEF Entries, Owned
    <2>3. \A g \in Files : job[g].owner \in Runs \cup {None}
      BY DEF Entries, Job
    <2>4. ASSUME NEW g \in Files \ {f}, job'[g].owner # None
          PROVE  job'[g] = job[g] /\ job[g].owner \in Runs \ {w}
      BY <1>5, <2>2, <2>3, <2>4
    <2>5. ASSUME NEW g \in Files \ {f}, job'[g].owner # None
          PROVE  /\ job'[g].st = "active" /\ run'[job'[g].owner].file = g
                 /\ run'[job'[g].owner].ph # "idle" /\ ~run'[job'[g].owner].over
      BY <1>5, <2>4, <2>5 DEF Entries, Owned
    <2>6. /\ job'[f].st = "active" /\ run'[job'[f].owner].file = f
          /\ run'[job'[f].owner].ph # "idle" /\ ~run'[job'[f].owner].over
      BY <1>2, <1>3, <1>5
    <2> QED
      BY <2>5, <2>6 DEF Owned
  <1> QED
    BY <1>4, <1>6, <1>7, <1>8 DEF Entries

LEMMA LossEntries ==
  ASSUME Entries, Crash \/ (\E w \in Runs : LoseLock(w))
  PROVE  Entries'
  <1>1. CASE Crash
    <2>1. \A f \in Files : [job[f] EXCEPT !.owner = None] \in Job
      BY DEF Entries, Job
    <2>2. job' = [f \in Files |-> [job[f] EXCEPT !.owner = None]]
      BY <1>1 DEF Crash
    <2>3. run' = [w \in Runs |-> NoRun]
      BY <1>1 DEF Crash
    <2>4. \A f \in Files : job'[f].owner = None /\ job'[f].st = job[f].st
                           /\ job'[f].tries = job[f].tries
      BY <2>2 DEF Entries, Job
    <2>5. job' \in [Files -> Job] /\ run' \in [Runs -> Run]
      BY <2>1, <2>2, <2>3, EntryTypes
    <2>6. Working'
      BY <2>3 DEF Working, NoRun
    <2> QED
      BY <2>4, <2>5, <2>6 DEF Entries, Trying, Owned
  <1>2. ASSUME NEW w \in Runs, LoseLock(w)
        PROVE  Entries'
    <2> DEFINE f == run[w].file
               e == [job[f] EXCEPT !.owner = None]
    <2>1. f \in Files
      BY <1>2 DEF LoseLock, Entries, Working
    <2>2. Free(e)
      BY <2>1 DEF Free, Entries, Trying, Job
    <2>3. job' = [job EXCEPT ![f] = e] /\ run' = run
      BY <1>2 DEF LoseLock
    <2> HIDE DEF f, e
    <2> QED
      BY <2>1, <2>2, <2>3, Replaced
  <1> QED
    BY <1>1, <1>2

LEMMA QueueEntries ==
  ASSUME Entries, NEW f \in Files, Promote(f) \/ RecoverStalled(f) \/ KeyExpires(f)
  PROVE  Entries'
  <1>1. CASE Promote(f)
    <2> DEFINE e == [job[f] EXCEPT !.st = "waiting"]
    <2>1. Free(e)
      BY <1>1 DEF Promote, Free, Entries, Trying, Owned, Job
    <2>2. job' = [job EXCEPT ![f] = e] /\ run' = run
      BY <1>1 DEF Promote
    <2> HIDE DEF e
    <2> QED
      BY <2>1, <2>2, Replaced
  <1>2. CASE RecoverStalled(f)
    <2> DEFINE e == [job[f] EXCEPT !.st = IF job[f].stalled THEN "failed" ELSE "waiting",
                                   !.stalled = TRUE]
    <2>1. Free(e)
      BY <1>2 DEF RecoverStalled, Free, Entries, Trying, Job
    <2>2. job' = [job EXCEPT ![f] = e] /\ run' = run
      BY <1>2 DEF RecoverStalled, Entries
    <2> HIDE DEF e
    <2> QED
      BY <2>1, <2>2, Replaced
  <1>3. CASE KeyExpires(f)
    BY <1>3 DEF KeyExpires, Entries, Working, Trying, Owned
  <1> QED
    BY <1>1, <1>2, <1>3
----------------------------------------------------------------------------
(* The requests *)

LEMMA RequestEntries ==
  ASSUME Entries, Requests, NEW c \in Clients, Arrive(c) \/ Restart(c) \/ Proceed(c)
  PROVE  Entries'
  <1>1. Free(NoJob) /\ Free(NewJob)
    BY EntryTypes, DownloadsAssumption DEF Free, NoJob, NewJob
  <1>2. CASE UNCHANGED <<job, run>>
    BY <1>2 DEF Entries, Working, Trying, Owned
  <1>3. ASSUME NEW f \in Files, JobBecomes(f, NoJob) \/ JobBecomes(f, NewJob), run' = run
        PROVE  Entries'
    BY <1>1, <1>3, Replaced DEF JobBecomes
  <1>4. CASE Clear(c) \/ Dispatch(c) \/ RemoveJob(c)
    <2>1. req[c].file \in Files
      BY <1>4 DEF Clear, Dispatch, RemoveJob, At, Requests, Asking, Busy
    <2> QED
      BY <1>2, <1>3, <1>4, <2>1 DEF Clear, Dispatch, RemoveJob
  <1>5. CASE Arrive(c) \/ Restart(c)
    BY <1>2, <1>5 DEF Arrive, Restart
  <1>6. CASE LookDownload(c) \/ LookUpdate(c) \/ Signal(c) \/ DeleteFile(c) \/ DeleteTemp(c)
    BY <1>2, <1>6 DEF LookDownload, LookUpdate, Signal, DeleteFile, DeleteTemp
  <1>7. CASE Unlink(c) \/ ReadLibrary(c) \/ WriteLibrary(c) \/ DropRow(c) \/ Scan(c) \/ Adopt(c)
    BY <1>2, <1>7 DEF Unlink, ReadLibrary, WriteLibrary, DropRow, Scan, Adopt
  <1> QED
    BY <1>4, <1>5, <1>6, <1>7 DEF Proceed

LEMMA RequestRequests ==
  ASSUME Requests, Stores, NEW c \in Clients, Arrive(c) \/ Restart(c) \/ Proceed(c)
  PROVE  req' \in [Clients -> Request] /\ Asking'
  <1> USE DEF Request
  <1>1. req[c] \in Request
    BY DEF Requests
  <1>2. ASSUME NEW r \in Request, req' = [req EXCEPT ![c] = r],
               r.at # "done" /\ r.op # "reconcile" => r.file \in Files
        PROVE  req' \in [Clients -> Request] /\ Asking'
    <2>1. req' \in [Clients -> Request]
      BY <1>2 DEF Requests
    <2>2. req'[c] = r /\ \A d \in Clients \ {c} : req'[d] = req[d]
      BY <1>2 DEF Requests
    <2> QED
      BY <1>2, <2>1, <2>2 DEF Requests, Asking, Busy
  <1>3. CASE req' = req
    BY <1>3 DEF Requests, Asking, Busy
  <1>4. CASE Done(c)
    BY <1>2, <1>4, EntryTypes DEF Done, NoRequest
  <1>5. ASSUME NEW step \in {"clear", "add", "remove", "deleteFile", "deleteTemp", "read", "drop"},
               Then(c, step), Busy(c)
        PROVE  req' \in [Clients -> Request] /\ Asking'
    <2> DEFINE r == [req[c] EXCEPT !.at = step]
    <2>1. r \in Request /\ r.op = req[c].op /\ r.file = req[c].file
      BY <1>1
    <2>2. req' = [req EXCEPT ![c] = r]
      BY <1>5 DEF Then
    <2>3. r.op # "reconcile" => r.file \in Files
      BY <1>5, <2>1 DEF Requests, Asking
    <2> HIDE DEF r
    <2> QED
      BY <1>2, <2>1, <2>2, <2>3
  <1>6. CASE Arrive(c)
    <2>1. PICK op \in Kinds, f \in Files :
            req' = [req EXCEPT ![c] = [op |-> op, file |-> f, listed |-> {},
                                       at |-> FirstStep(op)]]
      BY <1>6 DEF Arrive
    <2>2. op \in {"download", "update", "cancel", "dismiss", "delete"}
      BY DownloadsAssumption DEF Ops
    <2>3. FirstStep(op) \in {"look", "signal", "remove", "unlink"}
      BY <2>2 DEF FirstStep
    <2> DEFINE r == [op |-> op, file |-> f, listed |-> {}, at |-> FirstStep(op)]
    <2>4. r \in Request /\ r.file \in Files
      BY <2>2, <2>3 DEF Ops
    <2> HIDE DEF r
    <2> QED
      BY <1>2, <2>1, <2>4 DEF r
  <1>7. CASE Restart(c)
    <2> DEFINE r == [NoRequest EXCEPT !.op = "reconcile", !.at = "scan"]
    <2>1. r \in Request /\ r.op = "reconcile"
      BY EntryTypes DEF NoRequest, Ops
    <2>2. req' = [d \in Clients |-> IF d = c THEN r ELSE NoRequest]
      BY <1>7 DEF Restart
    <2> HIDE DEF r
    <2>3. NoRequest.at = "done"
      BY DEF NoRequest
    <2> QED
      BY <2>1, <2>2, <2>3, EntryTypes DEF Asking, Busy
  <1>8. CASE LookDownload(c) \/ LookUpdate(c) \/ Clear(c) \/ Dispatch(c) \/ Signal(c)
    BY <1>4, <1>5, <1>8 DEF LookDownload, LookUpdate, Clear, Dispatch, Signal, At, Busy
  <1>9. CASE RemoveJob(c) \/ DeleteFile(c) \/ DeleteTemp(c) \/ Unlink(c) \/ DropRow(c) \/ Adopt(c)
    BY <1>4, <1>5, <1>9 DEF RemoveJob, DeleteFile, DeleteTemp, Unlink, DropRow, Adopt, At, Busy
  <1>10. ASSUME NEW books \in SUBSET Files, NEW step \in {"write", "drop", "adopt"}, Busy(c),
                req' = [req EXCEPT ![c].listed = books, ![c].at = step]
         PROVE  req' \in [Clients -> Request] /\ Asking'
    <2> DEFINE r == [req[c] EXCEPT !.listed = books, !.at = step]
    <2>1. r \in Request /\ r.op = req[c].op /\ r.file = req[c].file
      BY <1>1
    <2>2. req' = [req EXCEPT ![c] = r]
      BY <1>10
    <2>3. r.op # "reconcile" => r.file \in Files
      BY <1>10, <2>1 DEF Requests, Asking
    <2> HIDE DEF r
    <2> QED
      BY <1>2, <2>1, <2>2, <2>3
  <1>11. CASE ReadLibrary(c)
    BY <1>5, <1>10, <1>11 DEF ReadLibrary, At, Busy, Stores
  <1>12. CASE WriteLibrary(c)
    <2>1. Busy(c) /\ req' = [req EXCEPT ![c].listed = {}, ![c].at = "drop"]
      BY <1>12 DEF WriteLibrary, At, Busy
    <2> QED
      BY <1>10, <2>1
  <1>13. CASE Scan(c)
    <2>1. Busy(c) /\ disk \in SUBSET Files /\ req' = [req EXCEPT ![c].listed = disk, ![c].at = "adopt"]
      BY <1>13 DEF Scan, At, Busy, Stores
    <2> QED
      BY <1>10, <2>1
  <1> QED
    BY <1>6, <1>7, <1>8, <1>9, <1>11, <1>12, <1>13 DEF Proceed
----------------------------------------------------------------------------
(* What is stored *)

LEMMA FaultCounted ==
  ASSUME Stores, Hit \/ Normally
  PROVE  (faults \in 0 .. MaxFaults)'
  BY DownloadsAssumption DEF Stores, Hit, Normally

LEMMA WorkStores ==
  ASSUME Entries, Stores, NEW w \in Runs,
         Take(w) \/ Work(w) \/ Poll(w) \/ FetchFails(w) \/ CallbackFails(w) \/ LoseLock(w)
  PROVE  Stores'
  <1>1. run[w].ph # "idle" => run[w].file \in Files
    BY DEF Entries, Working
  <1>2. run[w].listed \subseteq Files
    BY DEF Entries, Run
  <1>3. CASE Take(w) \/ Poll(w) \/ FetchFails(w) \/ CallbackFails(w) \/ LoseLock(w)
    <2>1. Hit \/ Normally
      BY <1>3 DEF Take, Poll, FetchFails, CallbackFails, LoseLock
    <2>2. UNCHANGED <<temp, disk, row, library, handed>> /\ key' \subseteq key
      BY <1>3 DEF Take, Poll, FetchFails, CallbackFails, LoseLock, files, store
    <2> QED
      BY <2>1, <2>2, FaultCounted DEF Stores
  <1>4. CASE Work(w)
    <2>1. Normally
      BY <1>4 DEF Work, Head, Fetch, Place, Look, Save, Wipe, List, Write, Record, Hand, End
    <2>2. CASE Head(w) \/ Fetch(w) \/ Place(w) \/ Wipe(w)
      BY <1>1, <2>1, <2>2, FaultCounted DEF Head, Fetch, Place, Wipe, Stores, files, store
    <2>3. CASE Look(w) \/ Save(w) \/ List(w) \/ Write(w) \/ Record(w) \/ Hand(w) \/ End(w)
      BY <1>1, <1>2, <2>1, <2>3, FaultCounted
         DEF Look, Save, List, Write, Record, Hand, End, Stores, files, store
    <2> QED
      BY <1>4, <2>2, <2>3 DEF Work
  <1> QED
    BY <1>3, <1>4

LEMMA RequestStores ==
  ASSUME Stores, Requests, NEW c \in Clients, Arrive(c) \/ Restart(c) \/ Proceed(c)
  PROVE  Stores'
  <1>1. Busy(c) /\ req[c].op # "reconcile" => req[c].file \in Files
    BY DEF Requests, Asking
  <1>2. req[c].listed \subseteq Files
    BY DEF Requests, Request
  <1>3. CASE Arrive(c) \/ Restart(c)
    BY <1>3, FaultCounted DEF Arrive, Restart, Stores, files, store
  <1>4. CASE LookDownload(c) \/ Clear(c) \/ LookUpdate(c) \/ Dispatch(c)
    BY <1>4, FaultCounted DEF LookDownload, Clear, LookUpdate, Dispatch, Stores, files, store
  <1>5. CASE Signal(c) \/ RemoveJob(c) \/ DeleteFile(c) \/ DeleteTemp(c)
    BY <1>1, <1>5, FaultCounted
       DEF Signal, RemoveJob, DeleteFile, DeleteTemp, At, Busy, Stores, files, store
  <1>6. CASE Unlink(c) \/ ReadLibrary(c) \/ DropRow(c) \/ Scan(c)
    BY <1>6, FaultCounted DEF Unlink, ReadLibrary, DropRow, Scan, Stores, files, store
  <1>7. CASE WriteLibrary(c) \/ Adopt(c)
    BY <1>2, <1>7, FaultCounted DEF WriteLibrary, Adopt, Stores, files, store
  <1> QED
    BY <1>3, <1>4, <1>5, <1>6, <1>7 DEF Proceed

LEMMA Remembered ==
  ASSUME History, Requests', NEW tags \in SUBSET {"callback", "crash", "dismissed"},
         Remember(tags)
  PROVE  History'
  <1>1. ASSUME NEW c \in Clients, req'[c].op = "cancel", req'[c].at = "remove"
        PROVE  req'[c].file \in Files
    BY <1>1 DEF Requests, Asking, Busy
  <1> QED
    BY <1>1 DEF History, Remember
----------------------------------------------------------------------------
(* The invariant *)

LEMMA IInvInit == Init => IInv
  <1> SUFFICES ASSUME Init
               PROVE  IInv
    OBVIOUS
  <1>1. Entries
    <2>1. job \in [Files -> Job] /\ run \in [Runs -> Run]
      BY EntryTypes DEF Init
    <2>2. Working
      BY DEF Init, Working, NoRun
    <2>3. Trying /\ Owned
      BY DEF Init, Trying, Owned, NoJob
    <2> QED
      BY <2>1, <2>2, <2>3 DEF Entries
  <1>2. Stores
    BY DownloadsAssumption DEF Init, Stores
  <1>3. Requests
    <2>1. req \in [Clients -> Request]
      BY EntryTypes DEF Init
    <2>2. Asking
      BY DEF Init, Asking, Busy, NoRequest
    <2> QED
      BY <2>1, <2>2, DownloadsAssumption DEF Init, Requests
  <1>4. History
    BY DEF Init, History
  <1> QED
    BY <1>1, <1>2, <1>3, <1>4 DEF IInv

LEMMA IInvNext == IInv /\ [Next]_vars => IInv'
  <1> SUFFICES ASSUME IInv, [Next]_vars
               PROVE  IInv'
    OBVIOUS
  <1> USE DEF IInv
  <1>1. CASE WorkerStep /\ UNCHANGED <<req, ops>>
    <2>1. Requests'
      BY <1>1 DEF Requests, Asking, Busy
    <2>2. ASSUME NEW w \in Runs, Take(w) \/ Work(w) \/ Poll(w) \/ FetchFails(w)
          PROVE  Entries' /\ Stores'
      <3>1. CASE FetchFails(w)
        BY <3>1, TryAgain, WorkStores DEF FetchFails
      <3> QED
        BY <2>2, <3>1, TakeEntries, WorkEntries, PollEntries, WorkStores
    <2>3. ASSUME NEW w \in Runs, CallbackFails(w) \/ LoseLock(w)
          PROVE  Entries' /\ Stores'
      <3>1. CASE CallbackFails(w)
        BY <3>1, WorkEntries, WorkStores
      <3>2. CASE LoseLock(w)
        <4>1. \E v \in Runs : LoseLock(v)
          BY <3>2
        <4> QED
          BY <3>2, <4>1, LossEntries, WorkStores
      <3> QED
        BY <2>3, <3>1, <3>2
    <2>4. ASSUME Crash
          PROVE  Entries' /\ Stores'
      <3>1. Entries'
        BY <2>4, LossEntries
      <3>2. (faults \in 0 .. MaxFaults)'
        BY <2>4, FaultCounted DEF Crash
      <3>3. UNCHANGED <<key, files, store>>
        BY <2>4 DEF Crash
      <3> QED
        BY <3>1, <3>2, <3>3 DEF Stores, files, store
    <2>5. Entries' /\ Stores'
      BY <1>1, <2>2, <2>3, <2>4 DEF WorkerStep
    <2>6. History'
      BY <1>1, <2>1, Remembered DEF WorkerStep
    <2> QED
      BY <2>1, <2>5, <2>6
  <1>2. CASE QueueStep /\ UNCHANGED <<req, ops>>
    <2>1. Requests'
      BY <1>2 DEF Requests, Asking, Busy
    <2>2. PICK f \in Files : Promote(f) \/ RecoverStalled(f) \/ KeyExpires(f)
      BY <1>2 DEF QueueStep
    <2>3. Entries'
      BY <2>2, QueueEntries
    <2>4. Stores'
      BY <2>2, FaultCounted DEF Promote, RecoverStalled, KeyExpires, Stores, files, store
    <2>5. History'
      BY <1>2, <2>1, Remembered DEF QueueStep
    <2> QED
      BY <2>1, <2>3, <2>4, <2>5
  <1>3. CASE RequestStep
    <2>1. PICK c \in Clients : Arrive(c) \/ Restart(c) \/ Proceed(c)
      BY <1>3 DEF RequestStep
    <2>2. Entries' /\ Stores'
      BY <2>1, RequestEntries, RequestStores
    <2>3. ops' \in 0 .. MaxOps
      BY <1>3, DownloadsAssumption DEF RequestStep, Arrive, Requests
    <2>4. Requests'
      BY <2>1, <2>3, RequestRequests DEF Requests
    <2>5. History'
      BY <1>3, <2>4, Remembered DEF RequestStep
    <2> QED
      BY <2>2, <2>4, <2>5
  <1>4. CASE UNCHANGED vars
    <2>1. Entries' /\ Stores'
      BY <1>4 DEF vars, Entries, Working, Trying, Owned, Stores
    <2>2. Requests' /\ History'
      BY <1>4 DEF vars, Requests, Asking, Busy, History
    <2> QED
      BY <2>1, <2>2
  <1> QED
    BY <1>1, <1>2, <1>3, <1>4 DEF Next

LEMMA IInvAlways == Spec => []IInv
  BY IInvInit, IInvNext, PTL DEF Spec

\* The entries, executions, files, requests and the history keep their types: no attempt
\* beyond the last, no record of anything but a version (run_download_job.ts:272-282,
\* collection_manifest_service.ts:299-335).
THEOREM DownloadsTypeCorrect == Spec => []TypeOK
  BY IInvAlways, Implications, PTL

\* However executions die, lose their lock, are cancelled, dismissed or started again, an
\* active download has an execution that works on it, or has lost its lock and is
\* recovered (run_download_job.ts:78-93,225-239, work.ts:51-68).
THEOREM DownloadsNotStuck == Spec => []ActiveIsWorkedOn
  BY IInvAlways, Implications, PTL
----------------------------------------------------------------------------
(* One execution writes the .tmp file of a version *)

Writing == {"head", "fetch", "place"} \cup Completing \cup {"hand", "end"}
Excused(f) == f \in cancelled \/ past \cap {"crash", "dismissed"} # {}
WritesOwn(w) == run[w].ph \in Writing => job[run[w].file].owner = w \/ Excused(run[w].file)

\* Whoever is at work has the entry, or there is an excuse; what cancels is remembered.
Writers == \A w \in Runs : WritesOwn(w)
Cancels == /\ key \subseteq cancelled
           /\ \A c \in Clients : req[c].op = "cancel" /\ req[c].at = "remove" => req[c].file \in cancelled

WInv == IInv /\ Writers /\ Cancels

LEMMA WritersAlone == WInv => OneWriter
  <1> SUFFICES ASSUME WInv, NEW v \in Runs, NEW w \in Runs, v # w, run[v].file = run[w].file,
                      run[v].ph \in Writing, run[w].ph \in Writing
               PROVE  Excused(run[v].file)
    BY DEF OneWriter, Excused, Writing
  <1> QED
    BY DEF WInv, Writers, WritesOwn

\* What is remembered stays so.
LEMMA ExcusesStay ==
  ASSUME NEW tags, Remember(tags)
  PROVE  /\ cancelled \subseteq cancelled' /\ past \subseteq past' /\ tags \subseteq past'
         /\ \A f : Excused(f) => Excused(f)'
         /\ \A c \in Clients : req'[c].op = "cancel" /\ req'[c].at = "remove"
                               => req'[c].file \in cancelled'
  BY DEF Remember, Excused

\* Whoever goes on writing keeps the entry, never had it, or has an excuse.
LEMMA WritersKeep ==
  ASSUME Writers, \A f : Excused(f) => Excused(f)',
         \A v \in Runs : run'[v].ph \in Writing =>
           \/ Excused(run[v].file)' \/ job'[run'[v].file].owner = v
           \/ /\ run[v].ph \in Writing /\ run'[v].file = run[v].file
              /\ \/ job'[run[v].file].owner = job[run[v].file].owner
                 \/ job[run[v].file].owner # v
  PROVE  Writers'
  <1> SUFFICES ASSUME NEW v \in Runs, run'[v].ph \in Writing
               PROVE  job'[run'[v].file].owner = v \/ Excused(run[v].file)'
    BY DEF Writers, WritesOwn
  <1>1. run[v].ph \in Writing => job[run[v].file].owner = v \/ Excused(run[v].file)
    BY DEF Writers, WritesOwn
  <1> QED
    BY <1>1

LEMMA WorkWrites ==
  ASSUME WInv, NEW w \in Runs,
         Take(w) \/ Work(w) \/ Poll(w) \/ FetchFails(w) \/ CallbackFails(w),
         \A f : Excused(f) => Excused(f)', cancelled \subseteq cancelled'
  PROVE  Writers'
  <1>1. Writers /\ Entries /\ Owned /\ job \in [Files -> Job] /\ run \in [Runs -> Run] /\ w # None
    BY DownloadsAssumption DEF WInv, IInv, Entries
  <1>2. ASSUME NEW r, run' = [run EXCEPT ![w] = r], job' = job,
               r.ph \in Writing => run[w].ph \in Writing /\ r.file = run[w].file
        PROVE  Writers'
    BY <1>1, <1>2, WritersKeep
  <1>3. ASSUME NEW r, NEW e, run' = [run EXCEPT ![w] = r], Settles(w, e), run[w].file \in Files,
               r.ph \in Writing => r.file \in cancelled
        PROVE  Writers'
    <2>1. \A f \in Files : job'[f] = job[f] \/ job[f].owner = w
      BY <1>1, <1>3 DEF Settles, Owns
    <2>2. ASSUME NEW v \in Runs \ {w}, run'[v].ph \in Writing
          PROVE  /\ run[v].ph \in Writing /\ run'[v].file = run[v].file
                 /\ \/ job'[run[v].file].owner = job[run[v].file].owner
                    \/ job[run[v].file].owner # v
      <3>1. run'[v] = run[v] /\ run[v].file \in Files
        BY <1>1, <1>3, <2>2 DEF Entries, Working, Writing, Completing
      <3> QED
        BY <2>1, <2>2, <3>1
    <2>3. run'[w].ph \in Writing => Excused(run[w].file)'
      BY <1>1, <1>3 DEF Excused
    <2> QED
      BY <1>1, <2>2, <2>3, WritersKeep
  <1>4. CASE Take(w)
    <2>1. PICK f \in Files :
            /\ job[f].st = "waiting"
            /\ job' = [job EXCEPT ![f].st = "active", ![f].owner = w]
            /\ run' = [run EXCEPT ![w] = [NoRun EXCEPT !.file = f, !.ph = "head"]]
      BY <1>4 DEF Take
    <2>2. job[f].owner = None /\ \A g \in Files \ {f} : job'[g] = job[g]
      BY <1>1, <2>1 DEF Owned
    <2>3. run'[w].file = f /\ job'[f].owner = w
      BY <1>1, <2>1 DEF Job, NoRun
    <2>4. ASSUME NEW v \in Runs \ {w}, run'[v].ph \in Writing
          PROVE  /\ run[v].ph \in Writing /\ run'[v].file = run[v].file
                 /\ \/ job'[run[v].file].owner = job[run[v].file].owner
                    \/ job[run[v].file].owner # v
      <3>1. run'[v] = run[v] /\ run[v].file \in Files /\ v # None
        BY <1>1, <2>1, <2>4, DownloadsAssumption DEF Entries, Working, Writing, Completing
      <3> QED
        BY <2>2, <2>4, <3>1
    <2> QED
      BY <1>1, <2>3, <2>4, WritersKeep
  <1>5. CASE Poll(w)
    <2>1. run[w].file \in cancelled /\ run[w].file \in Files
      BY <1>1, <1>5 DEF Poll, WInv, Cancels, Entries, Working
    <2>2. CASE Stops(w)
      BY <1>3, <1>5, <2>1, <2>2 DEF Poll, Stops, NoRun, Writing, Completing
    <2>3. CASE run' = [run EXCEPT ![w].over = TRUE]
      <3> DEFINE r == [run[w] EXCEPT !.over = TRUE]
      <3>1. run' = [run EXCEPT ![w] = r]
        BY <2>3
      <3>2. r.file = run[w].file
        BY <1>1 DEF Run
      <3> HIDE DEF r
      <3> QED
        BY <1>3, <1>5, <2>1, <3>1, <3>2 DEF Poll
    <2> QED
      BY <1>5, <2>2, <2>3 DEF Poll
  <1>6. ASSUME NEW e, Settles(w, e), Stops(w), run[w].ph # "idle"
        PROVE  Writers'
    BY <1>1, <1>3, <1>6 DEF Entries, Working, Stops, NoRun, Writing, Completing
  <1>7. ASSUME NEW ph, Goes(w, ph), job' = job,
               ph \in Writing => run[w].ph \in Writing
        PROVE  Writers'
    <2> DEFINE r == [run[w] EXCEPT !.ph = ph]
    <2>1. run' = [run EXCEPT ![w] = r] /\ r.file = run[w].file /\ r.ph = ph
      BY <1>1, <1>7 DEF Goes, Run
    <2> HIDE DEF r
    <2> QED
      BY <1>2, <1>7, <2>1
  <1>8. CASE FetchFails(w) \/ End(w) \/ Place(w)
    BY <1>6, <1>7, <1>8 DEF FetchFails, End, Place, Writing, Completing
  <1>9. CASE Head(w) \/ Fetch(w) \/ Save(w) \/ Record(w) \/ Hand(w) \/ CallbackFails(w)
    BY <1>7, <1>9 DEF Head, Fetch, Save, Record, Hand, CallbackFails, Writing, Completing
  <1>10. CASE Look(w) \/ Wipe(w) \/ List(w) \/ Write(w)
    <2>1. \E r : run' = [run EXCEPT ![w] = r] /\ r.file = run[w].file
      <3>1. CASE Look(w)
        <4>1. run' = [run EXCEPT ![w] = [run[w] EXCEPT !.ph = "save", !.old = row]]
          BY <3>1 DEF Look
        <4>2. [run[w] EXCEPT !.ph = "save", !.old = row].file = run[w].file
          BY <1>1 DEF Run
        <4> QED
          BY <4>1, <4>2
      <3>2. CASE Wipe(w)
        <4>1. run' = [run EXCEPT ![w] = [run[w] EXCEPT !.ph = "list", !.old = None]]
          BY <3>2 DEF Wipe
        <4>2. [run[w] EXCEPT !.ph = "list", !.old = None].file = run[w].file
          BY <1>1 DEF Run
        <4> QED
          BY <4>1, <4>2
      <3>3. CASE List(w)
        <4>1. run' = [run EXCEPT ![w] = [run[w] EXCEPT !.ph = "write", !.listed = disk]]
          BY <3>3 DEF List
        <4>2. [run[w] EXCEPT !.ph = "write", !.listed = disk].file = run[w].file
          BY <1>1 DEF Run
        <4> QED
          BY <4>1, <4>2
      <3>4. CASE Write(w)
        <4>1. run' = [run EXCEPT ![w] = [run[w] EXCEPT !.ph = "record", !.listed = {}]]
          BY <3>4 DEF Write
        <4>2. [run[w] EXCEPT !.ph = "record", !.listed = {}].file = run[w].file
          BY <1>1 DEF Run
        <4> QED
          BY <4>1, <4>2
      <3> QED
        BY <1>10, <3>1, <3>2, <3>3, <3>4
    <2>2. job' = job /\ run[w].ph \in Writing
      BY <1>10 DEF Look, Wipe, List, Write, Writing, Completing
    <2> QED
      BY <1>2, <2>1, <2>2
  <1> QED
    BY <1>4, <1>5, <1>8, <1>9, <1>10 DEF Work

\* An entry may change under an execution that has no claim to it.
LEMMA EntryWrites ==
  ASSUME WInv, NEW f \in Files, NEW e, e.owner = None,
         job' = [job EXCEPT ![f] = e], run' = run,
         \A g : Excused(g) => Excused(g)',
         job[f].owner = None \/ Excused(f)'
  PROVE  Writers'
  <1>1. Writers /\ Entries /\ job \in [Files -> Job]
    BY DEF WInv, IInv, Entries
  <1>2. /\ job'[f].owner = None /\ \A g \in Files \ {f} : job'[g] = job[g]
    BY <1>1
  <1>3. ASSUME NEW v \in Runs, run'[v].ph \in Writing
        PROVE  \/ Excused(run[v].file)' \/ job'[run'[v].file].owner = v
               \/ /\ run[v].ph \in Writing /\ run'[v].file = run[v].file
                  /\ \/ job'[run[v].file].owner = job[run[v].file].owner
                     \/ job[run[v].file].owner # v
    <2>1. run[v].file \in Files /\ run'[v] = run[v] /\ v # None
      BY <1>1, <1>3, DownloadsAssumption DEF Entries, Working, Writing, Completing
    <2>2. CASE run[v].file = f
      <3>1. CASE Excused(f)'
        <4>1. Excused(run[v].file)'
          BY <2>2, <3>1
        <4> QED
          BY <4>1
      <3>2. CASE job[f].owner = None
        BY <1>3, <2>1, <2>2, <3>2
      <3> QED
        BY <3>1, <3>2
    <2>3. CASE run[v].file # f
      BY <1>2, <1>3, <2>1, <2>3
    <2> QED
      BY <2>2, <2>3
  <1> QED
    BY <1>1, <1>3, WritersKeep

LEMMA LossWrites ==
  ASSUME Crash \/ (\E w \in Runs : LoseLock(w)), Remember({"crash"})
  PROVE  Writers'
  <1>1. "crash" \in past'
    BY ExcusesStay
  <1> QED
    BY <1>1 DEF Writers, WritesOwn, Excused

LEMMA QueueWrites ==
  ASSUME WInv, QueueStep
  PROVE  Writers'
  <1>1. PICK f \in Files : Promote(f) \/ RecoverStalled(f) \/ KeyExpires(f)
    BY DEF QueueStep
  <1>2. Remember({})
    BY DEF QueueStep
  <1>3. \A g : Excused(g) => Excused(g)'
    BY <1>2, ExcusesStay
  <1>4. Writers /\ Entries /\ job \in [Files -> Job] /\ job[f] \in Job
    BY DEF WInv, IInv, Entries
  <1>5. CASE KeyExpires(f)
    BY <1>3, <1>4, <1>5, WritersKeep DEF KeyExpires
  <1>6. CASE Promote(f)
    <2> DEFINE e == [job[f] EXCEPT !.st = "waiting"]
    <2>1. job[f].owner = None
      BY <1>4, <1>6 DEF Promote, Entries, Owned
    <2>2. job' = [job EXCEPT ![f] = e] /\ e.owner = None /\ run' = run
      BY <1>4, <1>6, <2>1 DEF Promote, Job
    <2> HIDE DEF e
    <2> QED
      BY <1>3, <2>1, <2>2, EntryWrites
  <1>7. CASE RecoverStalled(f)
    <2> DEFINE e == [job[f] EXCEPT !.st = IF job[f].stalled THEN "failed" ELSE "waiting",
                                   !.stalled = TRUE]
    <2>1. job[f].owner = None
      BY <1>7 DEF RecoverStalled
    <2>2. job' = [job EXCEPT ![f] = e] /\ e.owner = None /\ run' = run
      BY <1>4, <1>7, <2>1 DEF RecoverStalled, Job
    <2> HIDE DEF e
    <2> QED
      BY <1>3, <2>1, <2>2, EntryWrites
  <1> QED
    BY <1>1, <1>5, <1>6, <1>7

LEMMA RequestWrites ==
  ASSUME WInv, RequestStep
  PROVE  Writers'
  <1> DEFINE Tags(c) == IF req[c].op = "dismiss" /\ Live(req[c].file) THEN {"dismissed"} ELSE {}
  <1>1. PICK c \in Clients : \/ (Restart(c) \/ Proceed(c)) /\ Remember(Tags(c))
                             \/ Arrive(c) /\ Remember({})
    BY DEF RequestStep
  <1>2. \A g : Excused(g) => Excused(g)'
    BY <1>1, ExcusesStay
  <1>3. Writers /\ Entries /\ Requests
    BY DEF WInv, IInv
  <1>4. CASE UNCHANGED <<job, run>>
    BY <1>2, <1>3, <1>4, WritersKeep
  <1>5. NoJob.owner = None /\ NewJob.owner = None
    BY DEF NoJob, NewJob
  <1>6. ASSUME At(c, {"download", "update", "cancel", "dismiss"}, "clear")
               \/ At(c, {"download", "update", "cancel", "dismiss"}, "add")
               \/ At(c, {"download", "update", "cancel", "dismiss"}, "remove")
        PROVE  req[c].file \in Files
    BY <1>3, <1>6 DEF At, Requests, Asking, Busy
  <1>7. CASE Clear(c)
    <2> DEFINE f == req[c].file
    <2>1. f \in Files
      BY <1>6, <1>7 DEF Clear, At
    <2>2. CASE job[f].st = "active"
      BY <1>4, <1>7, <2>2 DEF Clear
    <2>3. CASE job[f].st # "active"
      <3>1. job[f].owner = None
        BY <1>3, <2>1, <2>3 DEF Entries, Owned
      <3>2. job' = [job EXCEPT ![f] = NoJob] /\ run' = run
        BY <1>7, <2>3 DEF Clear, JobBecomes
      <3> HIDE DEF f
      <3> QED
        BY <1>2, <1>5, <2>1, <3>1, <3>2, EntryWrites
    <2> QED
      BY <2>2, <2>3
  <1>8. CASE Dispatch(c)
    <2> DEFINE f == req[c].file
    <2>1. f \in Files
      BY <1>6, <1>8 DEF Dispatch, At
    <2>2. CASE job[f].st # "none"
      BY <1>4, <1>8, <2>2 DEF Dispatch
    <2>3. CASE job[f].st = "none"
      <3>1. job[f].owner = None
        BY <1>3, <2>1, <2>3 DEF Entries, Owned
      <3>2. job' = [job EXCEPT ![f] = NewJob] /\ run' = run
        BY <1>8, <2>3 DEF Dispatch, JobBecomes
      <3> HIDE DEF f
      <3> QED
        BY <1>2, <1>5, <2>1, <3>1, <3>2, EntryWrites
    <2> QED
      BY <2>2, <2>3
  <1>9. CASE RemoveJob(c) /\ Remember(Tags(c))
    <2> DEFINE f == req[c].file
    <2>1. f \in Files
      BY <1>6, <1>9 DEF RemoveJob, At
    <2>2. job' = [job EXCEPT ![f] = NoJob] /\ run' = run
      BY <1>9 DEF RemoveJob, JobBecomes
    <2>3. CASE req[c].op = "cancel"
      <3>1. f \in cancelled
        BY <1>9, <2>3 DEF WInv, Cancels, RemoveJob, At
      <3>2. PICK g \in Files : g = f
        BY <2>1
      <3>3. Excused(g)
        BY <3>1, <3>2 DEF Excused
      <3>4. Excused(g)'
        BY <1>2, <3>3
      <3>5. job' = [job EXCEPT ![g] = NoJob] /\ run' = run
        BY <2>2, <3>2
      <3> HIDE DEF f
      <3> QED
        BY <1>2, <1>5, <3>4, <3>5, EntryWrites
    <2>4. CASE req[c].op = "dismiss" /\ Live(f)
      <3>1. Tags(c) = {"dismissed"}
        BY <2>4
      <3>2. "dismissed" \in past'
        BY <1>9, <3>1, ExcusesStay
      <3> QED
        BY <3>2 DEF Writers, WritesOwn, Excused
    <2>5. CASE ~Live(f)
      <3>1. job[f].owner = None
        BY <1>3, <2>1, <2>5 DEF Entries, Owned, Live
      <3> HIDE DEF f
      <3> QED
        BY <1>2, <1>5, <2>1, <2>2, <3>1, EntryWrites
    <2> QED
      BY <1>9, <2>3, <2>4, <2>5 DEF RemoveJob, At
  <1>10. CASE Arrive(c) \/ Restart(c) \/ LookDownload(c) \/ LookUpdate(c) \/ Signal(c)
    BY <1>4, <1>10 DEF Arrive, Restart, LookDownload, LookUpdate, Signal
  <1>11. CASE DeleteFile(c) \/ DeleteTemp(c) \/ Unlink(c) \/ ReadLibrary(c) \/ WriteLibrary(c)
    BY <1>4, <1>11 DEF DeleteFile, DeleteTemp, Unlink, ReadLibrary, WriteLibrary
  <1>12. CASE DropRow(c) \/ Scan(c) \/ Adopt(c)
    BY <1>4, <1>12 DEF DropRow, Scan, Adopt
  <1> QED
    BY <1>1, <1>7, <1>8, <1>9, <1>10, <1>11, <1>12 DEF Proceed

LEMMA CancelsKept ==
  ASSUME WInv, Next
  PROVE  Cancels'
  <1>1. \E tags : Remember(tags)
    BY DEF Next, WorkerStep, QueueStep, RequestStep
  <1>2. /\ cancelled \subseteq cancelled'
        /\ \A c \in Clients : req'[c].op = "cancel" /\ req'[c].at = "remove"
                              => req'[c].file \in cancelled'
    BY <1>1, ExcusesStay
  <1>3. key \subseteq cancelled /\ Requests
    BY DEF WInv, Cancels, IInv
  <1>4. CASE key' \subseteq key
    BY <1>2, <1>3, <1>4 DEF Cancels
  <1>5. ASSUME NEW c \in Clients, Signal(c)
        PROVE  key' \subseteq cancelled'
    <2>1. CASE key' = key
      BY <1>2, <1>3, <2>1
    <2>2. CASE key' = key \cup {req[c].file} /\ Then(c, "remove")
      <3>1. /\ req'[c].op = "cancel" /\ req'[c].at = "remove" /\ req'[c].file = req[c].file
        BY <1>3, <1>5, <2>2 DEF Signal, At, Then, Requests, Request
      <3> QED
        BY <1>2, <1>3, <2>2, <3>1
    <2> QED
      BY <1>5, <2>1, <2>2 DEF Signal
  <1>6. CASE WorkerStep \/ QueueStep
    <2>1. \A w \in Runs : Work(w) => key' = key
      BY DEF Work, Head, Fetch, Place, Look, Save, Wipe, List, Write, Record, Hand, End, files, store
    <2> QED
      BY <1>4, <1>6, <2>1 DEF WorkerStep, QueueStep, Take, Poll, FetchFails, CallbackFails,
                              LoseLock, Crash, Promote, RecoverStalled, KeyExpires
  <1>7. CASE RequestStep
    <2>1. PICK c \in Clients : Arrive(c) \/ Restart(c) \/ Proceed(c)
      BY <1>7 DEF RequestStep
    <2>2. \/ Signal(c) \/ key' = key
      BY <2>1 DEF Arrive, Restart, Proceed, LookDownload, Clear, LookUpdate, Dispatch, RemoveJob,
                  DeleteFile, DeleteTemp, Unlink, ReadLibrary, WriteLibrary, DropRow, Scan, Adopt
    <2> QED
      BY <1>2, <1>4, <1>5, <2>2 DEF Cancels
  <1> QED
    BY <1>6, <1>7 DEF Next

LEMMA WInvInit == Init => WInv
  BY IInvInit DEF Init, WInv, Writers, WritesOwn, Cancels, Writing, Completing, NoRun, NoRequest

LEMMA WInvAlways == Spec => []WInv
  <1>1. Init => WInv
    BY WInvInit
  <1>2. ASSUME WInv, Next
        PROVE  WInv'
    <2>1. IInv'
      BY <1>2, IInvNext DEF WInv
    <2>2. Cancels'
      BY <1>2, CancelsKept
    <2>3. CASE QueueStep
      BY <1>2, <2>1, <2>2, <2>3, QueueWrites DEF WInv
    <2>4. CASE RequestStep
      BY <1>2, <2>1, <2>2, <2>4, RequestWrites DEF WInv
    <2>5. CASE WorkerStep
      <3>1. ASSUME NEW w \in Runs, NEW tags, Remember(tags),
                   Take(w) \/ Work(w) \/ Poll(w) \/ FetchFails(w) \/ CallbackFails(w)
            PROVE  Writers'
        BY <1>2, <3>1, ExcusesStay, WorkWrites
      <3>2. Writers'
        BY <2>5, <3>1, LossWrites DEF WorkerStep
      <3> QED
        BY <2>1, <2>2, <3>2 DEF WInv
    <2> QED
      BY <1>2, <2>3, <2>4, <2>5 DEF Next
  <1>3. ASSUME WInv, UNCHANGED vars
        PROVE  WInv'
    <2>1. IInv'
      BY <1>3, IInvNext DEF WInv
    <2>2. Writers' /\ Cancels'
      BY <1>3 DEF vars, WInv, Writers, WritesOwn, Excused, Cancels
    <2> QED
      BY <2>1, <2>2 DEF WInv
  <1> QED
    BY <1>1, <1>2, <1>3, PTL DEF Spec

\* The .tmp file of a version is never written by two executions, however many requests ask
\* for the version at once and whatever fails: that takes a lost lock, a cancelled download,
\* or a failed entry dismissed while it runs again (downloads.ts:39-40,
\* run_download_job.ts:272-282).
THEOREM DownloadsOneWriter == Spec => []OneWriter
  BY WInvAlways, WritersAlone, PTL
----------------------------------------------------------------------------
(* A version on record has its file *)

Kept == disk \cup cancelled
Excepting == \E c \in Clients : Deletes(c) \/ Reconciles(c)

\* While nothing has overlapped: an execution whose file is in place keeps it, whoever is
\* about to delete the old version is on record itself, and what a reconciliation has listed
\* is still there.
Brought == \A w \in Runs : Completes(w) => run[w].file \in Kept
OnRecord == \A w \in Runs : run[w].ph = "wipe" => row = run[w].file
Listed == \A c \in Clients : Reconciles(c) =>
            Busy(c) /\ (req[c].at = "adopt" => req[c].listed \subseteq Kept)
Recorded == row = None \/ row \in Kept \/ Excepting
Orderly == ~Beside /\ Brought /\ OnRecord /\ Listed /\ Recorded

\* Whoever deletes the file of a cancelled download is remembered.
Cancelling == \A c \in Clients : req[c].op = "cancel" /\ req[c].at \in {"remove", "deleteFile"}
                                   => req[c].file \in cancelled

RInv == WInv /\ Cancelling /\ ("beside" \notin past => Orderly)

LEMMA RecordKept == RInv => RecordHasFile
  BY DEF RInv, Orderly, Recorded, Kept, Excepting, RecordHasFile

\* A step that removes no file and writes no record.
LEMMA Untouched ==
  ASSUME Orderly, ~Beside', cancelled \subseteq cancelled', disk \subseteq disk',
         UNCHANGED <<row, req>>,
         \A v \in Runs : Completes(v)' => \/ run'[v].file \in disk'
                                          \/ Completes(v) /\ run'[v].file = run[v].file,
         \A v \in Runs : run'[v].ph = "wipe" => run[v].ph = "wipe" /\ run'[v].file = run[v].file
  PROVE  Orderly'
  <1>1. Kept \subseteq Kept'
    BY DEF Kept
  <1>2. Brought'
    BY <1>1 DEF Orderly, Brought, Kept
  <1>3. OnRecord'
    BY DEF Orderly, OnRecord
  <1>4. Listed' /\ Recorded'
    BY <1>1 DEF Orderly, Listed, Recorded, Excepting, Deletes, Reconciles, Busy
  <1> QED
    BY <1>2, <1>3, <1>4 DEF Orderly

\* A request that deletes at most what is cancelled and does not write the record.
LEMMA Requested ==
  ASSUME Orderly, ~Beside', cancelled \subseteq cancelled', disk \subseteq disk' \cup cancelled,
         UNCHANGED <<row, run>>, Excepting => Excepting',
         \A c \in Clients : Reconciles(c)' =>
            \/ Busy(c)' /\ (req'[c].at = "adopt" => req'[c].listed \subseteq disk')
            \/ req'[c] = req[c]
  PROVE  Orderly'
  <1>1. Kept \subseteq Kept'
    BY DEF Kept
  <1>2. Brought' /\ OnRecord'
    BY <1>1 DEF Orderly, Brought, OnRecord, Completes
  <1>3. Listed'
    BY <1>1 DEF Orderly, Listed, Kept, Reconciles, Busy
  <1>4. Recorded'
    BY <1>1 DEF Orderly, Recorded
  <1> QED
    BY <1>2, <1>3, <1>4 DEF Orderly

LEMMA WorkKeepsOrder ==
  ASSUME RInv, Orderly, ~Beside', cancelled \subseteq cancelled', UNCHANGED req, NEW w \in Runs,
         Take(w) \/ Work(w) \/ Poll(w) \/ FetchFails(w) \/ CallbackFails(w)
  PROVE  Orderly'
  <1> DEFINE Ending(ph) == ph \in Completing \cup {"hand", "end"}
  <1>1. run \in [Runs -> Run] /\ None \notin Files
    BY DownloadsAssumption DEF RInv, WInv, IInv, Entries
  <1>2. ASSUME NEW r, run' = [run EXCEPT ![w] = r], disk \subseteq disk', row' = row,
               Ending(r.ph) => r.file \in disk' \/ (Completes(w) /\ r.file = run[w].file),
               r.ph # "wipe"
        PROVE  Orderly'
    <2>1. run'[w] = r /\ \A v \in Runs \ {w} : run'[v] = run[v]
      BY <1>1, <1>2
    <2>2. ASSUME NEW v \in Runs, Completes(v)'
          PROVE  run'[v].file \in disk' \/ (Completes(v) /\ run'[v].file = run[v].file)
      BY <1>2, <2>1, <2>2 DEF Completes
    <2>3. ASSUME NEW v \in Runs, run'[v].ph = "wipe"
          PROVE  run[v].ph = "wipe" /\ run'[v].file = run[v].file
      BY <1>2, <2>1, <2>3
    <2> QED
      BY <1>2, <2>2, <2>3, Untouched
  <1>3. ASSUME Stops(w), disk' = disk, row' = row
        PROVE  Orderly'
    <2>1. ~Ending(NoRun.ph) /\ NoRun.ph # "wipe"
      BY DEF NoRun, Completing
    <2> QED
      BY <1>2, <1>3, <2>1 DEF Stops
  <1>4. ASSUME NEW ph, Goes(w, ph), disk \subseteq disk', row' = row, ph # "wipe",
               Ending(ph) => Completes(w) \/ run[w].file \in disk'
        PROVE  Orderly'
    <2> DEFINE r == [run[w] EXCEPT !.ph = ph]
    <2>1. run' = [run EXCEPT ![w] = r] /\ r.ph = ph /\ r.file = run[w].file
      BY <1>1, <1>4 DEF Goes, Run
    <2> HIDE DEF r
    <2> QED
      BY <1>2, <1>4, <2>1
  \* Those that complete at the same time complete the same version.
  <1>5. \A v \in Runs : Completes(v) /\ Completes(w) => run[v].file = run[w].file
    BY DEF Orderly, Beside
  <1>6. \A v \in Runs : run[v].ph = "wipe" => Completes(v)
    BY DEF Completes, Completing
  <1>7. ASSUME Completes(w), row' = run[w].file, disk' = disk, NEW ph, Goes(w, ph), Ending(ph)
        PROVE  Orderly'
    <2> DEFINE r == [run[w] EXCEPT !.ph = ph]
    <2>1. run' = [run EXCEPT ![w] = r] /\ r.ph = ph /\ r.file = run[w].file
      BY <1>1, <1>7 DEF Goes, Run
    <2> HIDE DEF r
    <2>2. run'[w] = r /\ \A v \in Runs \ {w} : run'[v] = run[v]
      BY <1>1, <2>1
    <2>3. Kept \subseteq Kept'
      BY <1>7 DEF Kept
    <2>4. Brought'
      BY <1>7, <2>1, <2>2, <2>3 DEF Orderly, Brought, Completes
    <2>5. OnRecord'
      BY <1>5, <1>6, <1>7, <2>1, <2>2 DEF OnRecord
    <2>6. Recorded'
      BY <1>7, <2>3 DEF Orderly, Brought, Recorded
    <2>7. Listed'
      BY <2>3 DEF Orderly, Listed, Reconciles, Busy
    <2> QED
      BY <2>4, <2>5, <2>6, <2>7 DEF Orderly
  <1>8. CASE Take(w)
    <2>1. PICK f \in Files : run' = [run EXCEPT ![w] = [NoRun EXCEPT !.file = f, !.ph = "head"]]
      BY <1>8 DEF Take
    <2> DEFINE r == [NoRun EXCEPT !.file = f, !.ph = "head"]
    <2>2. r.ph = "head" /\ run' = [run EXCEPT ![w] = r]
      BY <2>1 DEF NoRun
    <2> HIDE DEF r
    <2>3. ~Ending(r.ph) /\ r.ph # "wipe" /\ disk' = disk /\ row' = row
      BY <1>8, <2>2 DEF Completing, Take, files, store
    <2> QED
      BY <1>2, <2>2, <2>3
  <1>9. CASE Poll(w)
    <2>1. disk' = disk /\ row' = row
      BY <1>9 DEF Poll, files, store
    <2>2. CASE run' = [run EXCEPT ![w].over = TRUE]
      <3>1. \A v \in Runs : run'[v].file = run[v].file /\ run'[v].ph = run[v].ph
        BY <1>1, <2>2 DEF Run
      <3> QED
        BY <2>1, <3>1, Untouched DEF Completes
    <2> QED
      BY <1>3, <1>9, <2>1, <2>2 DEF Poll
  <1>10. CASE FetchFails(w)
    BY <1>3, <1>10 DEF FetchFails, files, store
  <1>11. CASE CallbackFails(w)
    <2>1. disk' = disk /\ row' = row /\ Completes(w)
      BY <1>11 DEF CallbackFails, files, store, Completes, Completing
    <2> QED
      BY <1>4, <1>11, <2>1 DEF CallbackFails
  <1>12. CASE Head(w) \/ Fetch(w)
    <2>1. ~Ending("fetch") /\ ~Ending("place")
      BY DEF Completing
    <2> QED
      BY <1>4, <1>12, <2>1 DEF Head, Fetch, files, store
  <1>13. CASE Place(w)
    <2>1. CASE Goes(w, "look") /\ run[w].file \in disk'
      <3>1. disk \subseteq disk' /\ row' = row
        BY <1>13 DEF Place, files, store
      <3> QED
        BY <1>4, <2>1, <3>1
    <2> QED
      BY <1>3, <1>13, <2>1 DEF Place, files, store
  <1>14. CASE Look(w)
    <2> DEFINE r == [run[w] EXCEPT !.ph = "save", !.old = row]
    <2>1. run' = [run EXCEPT ![w] = r] /\ r.ph = "save" /\ r.file = run[w].file
      BY <1>1, <1>14 DEF Look, Run
    <2> HIDE DEF r
    <2>2. Completes(w) /\ disk' = disk /\ row' = row
      BY <1>14 DEF Look, files, store, Completes, Completing
    <2> QED
      BY <1>2, <2>1, <2>2
  <1>15. CASE Save(w) \/ Record(w)
    <2>1. /\ Completes(w) /\ disk' = disk /\ row' = run[w].file
          /\ Goes(w, "wipe") \/ Goes(w, "hand")
      BY <1>15 DEF Save, Record, files, Completes, Completing
    <2>2. Ending("wipe") /\ Ending("hand")
      BY DEF Completing
    <2> QED
      BY <1>7, <2>1, <2>2
  <1>16. CASE Wipe(w)
    <2> DEFINE r == [run[w] EXCEPT !.ph = "list", !.old = None]
    <2>1. run' = [run EXCEPT ![w] = r] /\ r.ph = "list" /\ r.file = run[w].file
      BY <1>1, <1>16 DEF Wipe, Run
    <2> HIDE DEF r
    <2>2. run'[w] = r /\ \A v \in Runs \ {w} : run'[v] = run[v]
      BY <1>1, <2>1
    <2>3. /\ Completes(w) /\ row' = row /\ row = run[w].file
          /\ disk' = IF run[w].old = run[w].file THEN disk ELSE disk \ {run[w].old}
      BY <1>16 DEF Wipe, store, Completes, Completing, Orderly, OnRecord
    <2>4. run[w].file \in Kept'
      BY <2>3 DEF Orderly, Brought, Kept
    <2>5. Brought'
      BY <1>5, <2>1, <2>2, <2>3, <2>4 DEF Brought, Completes
    <2>6. OnRecord' /\ Recorded'
      BY <2>1, <2>2, <2>3, <2>4 DEF Orderly, OnRecord, Recorded
    <2>7. Listed'
      BY <2>3 DEF Orderly, Beside, Listed, Reconciles
    <2> QED
      BY <2>5, <2>6, <2>7 DEF Orderly
  <1>17. CASE List(w)
    <2> DEFINE r == [run[w] EXCEPT !.ph = "write", !.listed = disk]
    <2>1. run' = [run EXCEPT ![w] = r] /\ r.ph = "write" /\ r.file = run[w].file
      BY <1>1, <1>17 DEF List, Run
    <2> HIDE DEF r
    <2>2. Completes(w) /\ disk' = disk /\ row' = row
      BY <1>17 DEF List, files, store, Completes, Completing
    <2> QED
      BY <1>2, <2>1, <2>2
  <1>18. CASE Write(w)
    <2> DEFINE r == [run[w] EXCEPT !.ph = "record", !.listed = {}]
    <2>1. run' = [run EXCEPT ![w] = r] /\ r.ph = "record" /\ r.file = run[w].file
      BY <1>1, <1>18 DEF Write, Run
    <2> HIDE DEF r
    <2>2. Completes(w) /\ disk' = disk /\ row' = row
      BY <1>18 DEF Write, files, Completes, Completing
    <2> QED
      BY <1>2, <2>1, <2>2
  <1>19. CASE Hand(w)
    <2>1. Completes(w) /\ disk' = disk /\ row' = row /\ Goes(w, "end")
      BY <1>19 DEF Hand, files, Completes
    <2> QED
      BY <1>4, <2>1
  <1>20. CASE End(w)
    BY <1>3, <1>20 DEF End, files, store
  <1> QED
    BY <1>8, <1>9, <1>10, <1>11, <1>12, <1>13, <1>14, <1>15, <1>16, <1>17, <1>18, <1>19, <1>20 DEF Work

LEMMA RequestKeepsOrder ==
  ASSUME RInv, Orderly, ~Beside', cancelled \subseteq cancelled', NEW c \in Clients,
         Arrive(c) \/ Restart(c) \/ Proceed(c)
  PROVE  Orderly'
  <1>1. req \in [Clients -> Request] /\ run' = run
    BY DEF RInv, WInv, IInv, Requests, Arrive, Restart, Proceed, LookDownload, Clear, LookUpdate,
           Dispatch, Signal, RemoveJob, DeleteFile, DeleteTemp, Unlink, ReadLibrary, WriteLibrary,
           DropRow, Scan, Adopt
  <1> HIDE DEF RInv
  \* Steps after which the request deletes and reconciles if it did before.
  <1>2. ASSUME NEW r, req' = [req EXCEPT ![c] = r], disk \subseteq disk' \cup cancelled, row' = row,
               Deletes(c) \/ Reconciles(c) =>
                 \/ r.op = "reconcile"
                 \/ r.op = "delete" /\ r.at \in {"read", "write", "drop"},
               r.op = "reconcile" => r.at # "done" /\ (r.at = "adopt" => r.listed \subseteq disk')
        PROVE  Orderly'
    <2>1. req'[c] = r /\ \A d \in Clients \ {c} : req'[d] = req[d]
      BY <1>1, <1>2
    <2>2. Excepting => Excepting'
      BY <1>2, <2>1 DEF Excepting, Deletes, Reconciles
    <2>3. ASSUME NEW d \in Clients, Reconciles(d)'
          PROVE  \/ Busy(d)' /\ (req'[d].at = "adopt" => req'[d].listed \subseteq disk')
                 \/ req'[d] = req[d]
      BY <1>2, <2>1, <2>3 DEF Reconciles, Busy
    <2> QED
      BY <1>1, <1>2, <2>2, <2>3, Requested
  <1>3. ASSUME NEW step, Then(c, step), disk \subseteq disk' \cup cancelled, row' = row,
               req[c].op # "reconcile", Deletes(c) => step \in {"read", "write", "drop"}
        PROVE  Orderly'
    <2> DEFINE r == [req[c] EXCEPT !.at = step]
    <2>1. req' = [req EXCEPT ![c] = r] /\ r.op = req[c].op /\ r.at = step
      BY <1>1, <1>3 DEF Then, Request
    <2> HIDE DEF r
    <2> QED
      BY <1>2, <1>3, <2>1 DEF Deletes, Reconciles
  <1>4. ASSUME Done(c), disk \subseteq disk' \cup cancelled, row' = row, ~Deletes(c), ~Reconciles(c)
        PROVE  Orderly'
    <2>1. NoRequest.op = "download"
      BY DEF NoRequest
    <2> QED
      BY <1>2, <1>4, <2>1 DEF Done
  \* Nobody completes beside a deletion or a reconciliation.
  <1>5. ASSUME Deletes(c) \/ Reconciles(c)
        PROVE  Brought' /\ OnRecord' /\ \A w \in Runs : ~Completes(w)
    <2>1. \A w \in Runs : ~Completes(w) /\ run[w].ph # "wipe"
      BY <1>5 DEF Orderly, Beside, Completes, Completing
    <2> QED
      BY <1>1, <2>1 DEF Brought, OnRecord, Completes
  <1>6. ASSUME Done(c)
        PROVE  \A d \in Clients : /\ Reconciles(d)' => Reconciles(d)
                                  /\ Reconciles(d)' => req'[d] = req[d]
    <2>1. NoRequest.op = "download"
      BY DEF NoRequest
    <2> QED
      BY <1>1, <1>6, <2>1 DEF Done, Reconciles
  <1>7. CASE Arrive(c)
    <2>1. PICK op \in Kinds, f \in Files :
            req' = [req EXCEPT ![c] = [op |-> op, file |-> f, listed |-> {}, at |-> FirstStep(op)]]
      BY <1>7 DEF Arrive
    <2> DEFINE r == [op |-> op, file |-> f, listed |-> {}, at |-> FirstStep(op)]
    <2>2. req' = [req EXCEPT ![c] = r] /\ r.op # "reconcile"
      BY <2>1, DownloadsAssumption
    <2>3. disk' = disk /\ row' = row /\ ~Busy(c)
      BY <1>7 DEF Arrive, files, store
    <2> HIDE DEF r
    <2>4. ~Deletes(c)
      BY <2>3 DEF Deletes, Busy
    <2>5. CASE ~Reconciles(c)
      BY <1>2, <2>2, <2>3, <2>4, <2>5
    <2> QED
      BY <2>3, <2>5 DEF Orderly, Listed
  <1>8. CASE Restart(c)
    <2>1. disk' = disk /\ row' = row
      BY <1>8 DEF Restart, files, store
    <2> DEFINE r == [NoRequest EXCEPT !.op = "reconcile", !.at = "scan"]
    <2>2. r.op = "reconcile" /\ r.at = "scan" /\ NoRequest.at = "done"
      BY DEF NoRequest
    <2>3. \A d \in Clients : req'[d] = IF d = c THEN r ELSE NoRequest
      BY <1>8 DEF Restart
    <2> HIDE DEF r
    <2>4. Excepting'
      BY <2>2, <2>3 DEF Excepting, Reconciles
    <2>5. \A d \in Clients : Reconciles(d)' => Busy(d)' /\ req'[d].at # "adopt"
      BY <2>2, <2>3 DEF Reconciles, Busy, NoRequest
    <2> QED
      BY <1>1, <2>1, <2>4, <2>5, Requested
  <1>9. CASE LookDownload(c) \/ LookUpdate(c) \/ Signal(c) \/ Clear(c) \/ Dispatch(c) \/ RemoveJob(c)
             \/ DeleteFile(c) \/ DeleteTemp(c)
    <2>1. req[c].op \in {"download", "update", "cancel", "dismiss"}
      BY <1>9 DEF LookDownload, LookUpdate, Signal, Clear, Dispatch, RemoveJob, DeleteFile, DeleteTemp, At
    <2>2. ~Deletes(c) /\ ~Reconciles(c) /\ req[c].op # "reconcile"
      BY <2>1 DEF Deletes, Reconciles
    <2>3. row' = row
      BY <1>9 DEF LookDownload, LookUpdate, Signal, Clear, Dispatch, RemoveJob, DeleteFile, DeleteTemp, store
    <2>4. disk \subseteq disk' \cup cancelled
      <3>1. CASE DeleteFile(c)
        BY <3>1 DEF DeleteFile, At, RInv, Cancelling
      <3>2. CASE ~DeleteFile(c)
        BY <1>9, <3>2 DEF LookDownload, LookUpdate, Signal, Clear, Dispatch, RemoveJob, DeleteTemp, files
      <3> QED
        BY <3>1, <3>2
    <2>5. Done(c) \/ \E step : Then(c, step)
      BY <1>9 DEF LookDownload, LookUpdate, Signal, Clear, Dispatch, RemoveJob, DeleteFile, DeleteTemp
    <2> QED
      BY <1>3, <1>4, <2>2, <2>3, <2>4, <2>5
  <1>10. CASE Unlink(c)
    <2>1. row' = row /\ req[c].op = "delete" /\ req[c].at = "unlink"
      BY <1>10 DEF Unlink, store, At
    <2>2. ~Deletes(c) /\ ~Reconciles(c)
      BY <2>1 DEF Deletes, Reconciles
    <2>3. CASE req[c].file \notin disk
      BY <1>4, <1>10, <2>1, <2>2, <2>3 DEF Unlink
    <2>4. CASE req[c].file \in disk
      <3>1. req'[c].op = "delete" /\ req'[c].at = "read" /\ \A d \in Clients \ {c} : req'[d] = req[d]
        BY <1>1, <1>10, <2>1, <2>4 DEF Unlink, Then, Request
      <3>2. Deletes(c)' /\ ~Reconciles(c)'
        BY <3>1 DEF Deletes, Reconciles
      <3>3. /\ \A w \in Runs : ~Completes(w)' /\ run'[w].ph # "wipe"
            /\ \A d \in Clients : ~Reconciles(d)'
        BY <3>2 DEF Beside, Completes, Completing
      <3> QED
        BY <3>2, <3>3 DEF Orderly, Brought, OnRecord, Listed, Recorded, Excepting
    <2> QED
      BY <2>3, <2>4
  <1>11. CASE ReadLibrary(c) \/ WriteLibrary(c)
    <2>1. /\ req[c].op = "delete" /\ disk' = disk /\ row' = row
          /\ \E r : /\ req' = [req EXCEPT ![c] = r]
                    /\ r.op = "delete" /\ r.at \in {"read", "write", "drop"}
      <3> DEFINE s == [req[c] EXCEPT !.listed = library, !.at = "write"]
                 t == [req[c] EXCEPT !.listed = {}, !.at = "drop"]
                 u == [req[c] EXCEPT !.at = "drop"]
      <3>1. /\ req[c].op = "delete" /\ disk' = disk /\ row' = row
            /\ req' \in {[req EXCEPT ![c] = s], [req EXCEPT ![c] = t], [req EXCEPT ![c] = u]}
        BY <1>1, <1>11 DEF ReadLibrary, WriteLibrary, Then, At, files, store
      <3>2. s.op = req[c].op /\ t.op = req[c].op /\ u.op = req[c].op
            /\ s.at = "write" /\ t.at = "drop" /\ u.at = "drop"
        BY <1>1 DEF Request
      <3> HIDE DEF s, t, u
      <3> QED
        BY <3>1, <3>2
    <2> QED
      BY <1>2, <2>1
  <1>12. CASE DropRow(c)
    <2>1. Deletes(c) /\ row' = None /\ disk' = disk /\ Done(c)
      BY <1>12 DEF DropRow, At, Deletes, files
    <2>2. Kept \subseteq Kept'
      BY <2>1 DEF Kept
    <2>3. Listed'
      BY <1>6, <2>1, <2>2 DEF Orderly, Listed, Busy
    <2> QED
      BY <1>5, <2>1, <2>3 DEF Orderly, Recorded
  <1>13. CASE Scan(c)
    <2> DEFINE r == [req[c] EXCEPT !.listed = disk, !.at = "adopt"]
    <2>1. r.op = req[c].op /\ r.listed = disk /\ r.at = "adopt"
      BY <1>1 DEF Request
    <2>2. req' = [req EXCEPT ![c] = r] /\ disk' = disk /\ row' = row /\ req[c].op = "reconcile"
      BY <1>13 DEF Scan, At, files, store
    <2> HIDE DEF r
    <2> QED
      BY <1>2, <2>1, <2>2
  <1>14. CASE Adopt(c)
    <2>1. Reconciles(c) /\ req[c].at = "adopt" /\ disk' = disk /\ Done(c)
      BY <1>14 DEF Adopt, At, Reconciles, files
    <2>2. Kept \subseteq Kept'
      BY <2>1 DEF Kept
    <2>3. Listed'
      BY <1>6, <2>1, <2>2 DEF Orderly, Listed, Busy
    <2>4. row' = None \/ row' \in req[c].listed
      BY <1>14 DEF Adopt
    <2>5. Recorded'
      BY <2>1, <2>2, <2>4 DEF Orderly, Listed, Recorded
    <2> QED
      BY <1>5, <2>1, <2>3, <2>5 DEF Orderly
  <1> QED
    BY <1>7, <1>8, <1>9, <1>10, <1>11, <1>12, <1>13, <1>14 DEF Proceed

LEMMA CancellingKept ==
  ASSUME RInv, Next
  PROVE  Cancelling'
  <1>1. \E tags : Remember(tags)
    BY DEF Next, WorkerStep, QueueStep, RequestStep
  <1>2. /\ cancelled \subseteq cancelled'
        /\ \A c \in Clients : req'[c].op = "cancel" /\ req'[c].at = "remove"
                              => req'[c].file \in cancelled'
    BY <1>1, ExcusesStay
  <1>3. CASE UNCHANGED req
    BY <1>2, <1>3 DEF RInv, Cancelling
  <1>4. ASSUME \A c \in Clients : req'[c].op = "cancel" /\ req'[c].at = "deleteFile" =>
                 req'[c].file \in cancelled
        PROVE  Cancelling'
    BY <1>2, <1>4 DEF Cancelling
  <1>5. ASSUME NEW c \in Clients, Arrive(c) \/ Restart(c) \/ Proceed(c)
        PROVE  \A d \in Clients : req'[d].op = "cancel" /\ req'[d].at = "deleteFile" =>
                 req'[d].file \in cancelled
    <2>1. /\ req \in [Clients -> Request]
          /\ \A d \in Clients : req[d].op = "cancel" /\ req[d].at \in {"remove", "deleteFile"}
                                => req[d].file \in cancelled
      BY DEF RInv, WInv, IInv, Requests, Cancelling
    <2>2. CASE RemoveJob(c)
      <3>1. req[c].op = "cancel" => req[c].file \in cancelled
        BY <2>1, <2>2 DEF RemoveJob, At
      <3>2. \A d \in Clients \ {c} : req'[d] = req[d]
        BY <2>1, <2>2 DEF RemoveJob, Then, Done
      <3>3. \/ req'[c] = NoRequest
            \/ req'[c] = [req[c] EXCEPT !.at = "deleteFile"] /\ req[c].op = "cancel"
        BY <2>1, <2>2 DEF RemoveJob, Then, Done
      <3>4. req'[c].at = "deleteFile" => req'[c].file \in cancelled
        BY <2>1, <3>1, <3>3 DEF NoRequest, Request
      <3> QED
        BY <2>1, <3>2, <3>4
    <2>3. ASSUME NEW r, req' = [req EXCEPT ![c] = r], r.op # "cancel" \/ r.at # "deleteFile"
          PROVE  \A d \in Clients : req'[d].op = "cancel" /\ req'[d].at = "deleteFile" =>
                   req'[d].file \in cancelled
      BY <2>1, <2>3
    <2>4. CASE Arrive(c)
      <3>1. PICK op \in Kinds, f \in Files :
              req' = [req EXCEPT ![c] = [op |-> op, file |-> f, listed |-> {}, at |-> FirstStep(op)]]
        BY <2>4 DEF Arrive
      <3>2. FirstStep(op) # "deleteFile" \/ op # "cancel"
        BY DEF FirstStep
      <3> QED
        BY <2>3, <3>1, <3>2
    <2>5. CASE Restart(c)
      BY <2>5 DEF Restart, NoRequest
    <2>6. ASSUME NEW step, Then(c, step), step # "deleteFile"
          PROVE  \A d \in Clients : req'[d].op = "cancel" /\ req'[d].at = "deleteFile" =>
                   req'[d].file \in cancelled
      BY <2>1, <2>3, <2>6 DEF Then, Request
    <2>7. ASSUME Done(c)
          PROVE  \A d \in Clients : req'[d].op = "cancel" /\ req'[d].at = "deleteFile" =>
                   req'[d].file \in cancelled
      BY <2>3, <2>7 DEF Done, NoRequest
    <2>8. CASE LookDownload(c) \/ LookUpdate(c) \/ Signal(c) \/ Clear(c) \/ Dispatch(c)
               \/ DeleteFile(c) \/ DeleteTemp(c) \/ Unlink(c) \/ DropRow(c) \/ Adopt(c)
      BY <2>6, <2>7, <2>8 DEF LookDownload, LookUpdate, Signal, Clear, Dispatch,
                              DeleteFile, DeleteTemp, Unlink, DropRow, Adopt
    <2>9. CASE ReadLibrary(c) \/ WriteLibrary(c) \/ Scan(c)
      <3>1. req[c].op \in {"delete", "reconcile"}
        BY <2>9 DEF ReadLibrary, WriteLibrary, Scan, At
      <3>2. /\ \A d \in Clients \ {c} : req'[d] = req[d]
            /\ req'[c].op = req[c].op
        BY <2>1, <2>9 DEF ReadLibrary, WriteLibrary, Scan, Then, Request
      <3> QED
        BY <2>1, <3>1, <3>2
    <2> QED
      BY <1>5, <2>2, <2>4, <2>5, <2>8, <2>9 DEF Proceed
  <1>6. CASE RequestStep
    BY <1>4, <1>5, <1>6 DEF RequestStep
  <1> QED
    BY <1>3, <1>6 DEF Next

LEMMA OrderKept ==
  ASSUME RInv, Next, "beside" \notin past'
  PROVE  Orderly'
  <1>1. PICK tags : Remember(tags)
    BY DEF Next, WorkerStep, QueueStep, RequestStep
  <1>2. ~Beside' /\ "beside" \notin past /\ cancelled \subseteq cancelled'
    BY <1>1 DEF Remember
  <1>3. Orderly
    BY <1>2 DEF RInv
  <1>4. run \in [Runs -> Run]
    BY DEF RInv, WInv, IInv, Entries
  <1>5. CASE RequestStep
    BY <1>2, <1>3, <1>5, RequestKeepsOrder DEF RequestStep
  <1>6. CASE UNCHANGED req /\ WorkerStep
    <2>1. ASSUME NEW w \in Runs,
                 Take(w) \/ Work(w) \/ Poll(w) \/ FetchFails(w) \/ CallbackFails(w)
          PROVE  Orderly'
      BY <1>2, <1>3, <1>6, <2>1, WorkKeepsOrder
    <2>2. CASE UNCHANGED <<run, files, store>>
      BY <1>2, <1>3, <1>6, <2>2, Untouched DEF files, store, Completes
    <2>3. CASE Crash
      <3>1. \A v \in Runs : ~Completes(v)' /\ run'[v].ph # "wipe"
        BY <2>3 DEF Crash, Completes, Completing, NoRun
      <3> QED
        BY <1>2, <1>3, <1>6, <2>3, <3>1, Untouched DEF Crash, files, store
    <2> QED
      BY <1>6, <2>1, <2>2, <2>3 DEF WorkerStep, LoseLock
  <1>7. CASE UNCHANGED req /\ QueueStep
    <2>1. UNCHANGED <<run, disk, row>>
      BY <1>7 DEF QueueStep, Promote, RecoverStalled, KeyExpires, files, store
    <2> QED
      BY <1>2, <1>3, <1>7, <2>1, Untouched DEF Completes
  <1> QED
    BY <1>5, <1>6, <1>7 DEF Next

LEMMA RInvAlways == Spec => []RInv
  <1>1. Init => RInv
    <2>1. Init => WInv
      BY WInvInit
    <2>2. Init => Cancelling /\ Orderly
      BY DEF Init, Cancelling, Orderly, Beside, Brought, OnRecord, Listed, Recorded, Kept, Completes,
             Completing, Deletes, Reconciles, NoRun, NoRequest
    <2> QED
      BY <2>1, <2>2 DEF RInv
  <1>2. ASSUME RInv, [Next]_vars, WInv'
        PROVE  RInv'
    <2>1. CASE Next
      BY <1>2, <2>1, CancellingKept, OrderKept DEF RInv
    <2>2. CASE UNCHANGED vars
      <3>1. Cancelling'
        BY <1>2, <2>2 DEF vars, RInv, Cancelling
      <3>2. Orderly => Orderly'
        BY <2>2 DEF vars, files, store, Orderly, Beside, Brought, OnRecord, Listed, Recorded, Excepting, Kept,
                    Completes, Deletes, Reconciles, Busy
      <3>3. past' = past
        BY <2>2 DEF vars
      <3> QED
        BY <1>2, <3>1, <3>2, <3>3 DEF RInv
    <2> QED
      BY <1>2, <2>1, <2>2
  <1> QED
    BY <1>1, <1>2, WInvAlways, PTL DEF Spec

\* A version on record has its file, however often it is downloaded, updated and deleted, and
\* whatever fails, unless its download was cancelled, two of those that write the record
\* overlapped, or a deletion or reconciliation is going on (run_download_job.ts:113-146,
\* zim_service.ts:407-427).
THEOREM DownloadsRecordHasFile == Spec => []RecordHasFile
  BY RInvAlways, RecordKept, PTL
----------------------------------------------------------------------------
(* A finished download is delivered *)

\* Nothing was cancelled, nothing overlapped and no callback failed; no execution died and
\* none was dismissed either.
Clean == cancelled = {} /\ past \cap {"beside", "callback"} = {}
Quietly == Clean /\ past \cap {"crash", "dismissed"} = {}

\* What the callback has done by its next step ...
Stage(w) ==
    /\ run[w].ph \in {"wipe", "list", "write", "record", "hand", "end"} => row = run[w].file
    /\ run[w].ph = "write" => run[w].file \in run[w].listed
    /\ run[w].ph \in {"record", "hand", "end"} => run[w].file \in library
    /\ run[w].ph = "end" => run[w].file \in handed
Stages == \A w \in Runs : Stage(w)

\* ... and what it has left on disk and in the library beside its own version.
Tidy(w) ==
    /\ run[w].ph = "look" => disk \subseteq {run[w].file, row}
    /\ run[w].ph \in {"save", "wipe"} => disk \subseteq {run[w].file, run[w].old}
    /\ run[w].ph \in {"list", "write", "record", "hand", "end"} => disk \subseteq {run[w].file}
    /\ run[w].ph = "write" => run[w].listed \subseteq {run[w].file}
    /\ run[w].ph \in {"record", "hand", "end"} => library \subseteq {run[w].file}
Resting == (\A w \in Runs : ~Completes(w)) => disk \subseteq {row}
Deleted == \A c \in Clients : Deletes(c) => disk = {}
Adopted == \A c \in Clients : Reconciles(c) /\ req[c].at = "adopt" => req[c].listed = disk
Tidied == (\A w \in Runs : Tidy(w)) /\ Resting /\ Deleted /\ Adopted

DInv == RInv /\ (Clean => Stages) /\ (Quietly => Tidied)

\* Two executions that complete at once would both be of one version, and both own its entry.
Alone == \A v, w \in Runs : Completes(v) /\ Completes(w) => v = w

LEMMA AloneHolds == RInv /\ Quietly => Alone
  <1> SUFFICES ASSUME RInv, Quietly, NEW v \in Runs, NEW w \in Runs, Completes(v), Completes(w)
               PROVE  v = w
    BY DEF Alone
  <1>1. run[v].file = run[w].file
    BY DEF RInv, Quietly, Clean, Orderly, Beside
  <1>2. run[v].ph \in Writing /\ run[w].ph \in Writing
    BY DEF Completes, Writing
  <1>3. ~Excused(run[v].file) /\ ~Excused(run[w].file)
    BY DEF Quietly, Clean, Excused
  <1> QED
    BY <1>1, <1>2, <1>3 DEF RInv, WInv, Writers, WritesOwn

LEMMA AloneNext == RInv' /\ Quietly' => Alone'
  BY AloneHolds, PTL

\* The steps that have a record, a file or a place in the library to lose are those of an
\* execution that completes, of a deletion and of a reconciliation.
LEMMA NobodyBeside ==
  ASSUME ~Beside, NEW c \in Clients, Deletes(c) \/ Reconciles(c)
  PROVE  \A w \in Runs : ~Completes(w)
  BY DEF Beside

\* Whoever is at a stage or leaves anything completes.
LEMMA OnlyCompleting ==
  ASSUME NEW w \in Runs, ~Completes(w)
  PROVE  Stage(w) /\ Tidy(w)
  BY DEF Completes, Completing, Stage, Tidy

\* A step of an execution, with what the others keep.
LEMMA WorkDelivers ==
  ASSUME RInv, Clean, Orderly, Stages, UNCHANGED req, NEW w \in Runs,
         Take(w) \/ Work(w) \/ FetchFails(w)
  PROVE  Stages'
  <1>1. run \in [Runs -> Run] /\ run[w] \in Run
    BY DEF RInv, WInv, IInv, Entries
  <1>2. \A v \in Runs : Stage(v)
    BY DEF Stages
  <1>3. \A v \in Runs : Completes(v) /\ Completes(w) => run[v].file = run[w].file
    BY DEF Orderly, Beside
  \* The stages of the others depend on the record, the library and what is handed over.
  <1>4. ASSUME NEW r, run' = [run EXCEPT ![w] = r],
               row' = row \/ (Completes(w) /\ row' = run[w].file),
               library' = library \/ (Completes(w) /\ run[w].file \in library'),
               handed \subseteq handed',
               r.ph \in {"wipe", "list", "write", "record", "hand", "end"} => row' = r.file,
               r.ph = "write" => r.file \in r.listed,
               r.ph \in {"record", "hand", "end"} => r.file \in library',
               r.ph = "end" => r.file \in handed'
        PROVE  Stages'
    <2>1. run'[w] = r /\ \A v \in Runs \ {w} : run'[v] = run[v]
      BY <1>1, <1>4
    <2>2. Stage(w)'
      BY <1>4, <2>1 DEF Stage
    <2>3. ASSUME NEW v \in Runs \ {w}
          PROVE  Stage(v)'
      <3>1. CASE ~Completes(v)
        <4>1. run'[v].ph = run[v].ph /\ run[v].ph \notin Completing \cup {"hand", "end"}
          BY <2>1, <3>1 DEF Completes
        <4> QED
          BY <4>1 DEF Stage, Completing
      <3>2. CASE Completes(v)
        <4>1. /\ row' = row \/ row' = run[v].file
              /\ library' = library \/ run[v].file \in library'
          BY <1>3, <1>4, <3>2
        <4>2. Stage(v) /\ run'[v] = run[v]
          BY <1>2, <2>1
        <4> QED
          BY <1>4, <4>1, <4>2 DEF Stage
      <3> QED
        BY <3>1, <3>2
    <2> QED
      BY <2>2, <2>3 DEF Stages
  <1>5. ASSUME NEW ph, Goes(w, ph)
        PROVE  \E r : /\ run' = [run EXCEPT ![w] = r]
                      /\ r.ph = ph /\ r.file = run[w].file /\ r.listed = run[w].listed
    <2> DEFINE r == [run[w] EXCEPT !.ph = ph]
    <2>1. run' = [run EXCEPT ![w] = r] /\ r.ph = ph /\ r.file = run[w].file /\ r.listed = run[w].listed
      BY <1>1, <1>5 DEF Goes, Run
    <2> HIDE DEF r
    <2> QED
      BY <2>1
  <1>6. ASSUME Stops(w), UNCHANGED store
        PROVE  Stages'
    <2>1. NoRun.ph = "idle"
      BY DEF NoRun
    <2> QED
      BY <1>4, <1>6, <2>1 DEF Stops, store
  <1>7. CASE Take(w)
    <2>1. PICK f \in Files : run' = [run EXCEPT ![w] = [NoRun EXCEPT !.file = f, !.ph = "head"]]
      BY <1>7 DEF Take
    <2> DEFINE r == [NoRun EXCEPT !.file = f, !.ph = "head"]
    <2>2. r.ph = "head" /\ run' = [run EXCEPT ![w] = r] /\ UNCHANGED store
      BY <1>7, <2>1 DEF NoRun, Take
    <2> HIDE DEF r
    <2> QED
      BY <1>4, <2>2 DEF store
  <1>8. CASE FetchFails(w) \/ End(w)
    BY <1>6, <1>8 DEF FetchFails, End
  <1>9. CASE Head(w) \/ Fetch(w)
    <2>1. UNCHANGED store /\ (Goes(w, "fetch") \/ Goes(w, "place"))
      BY <1>9 DEF Head, Fetch
    <2> QED
      BY <1>4, <1>5, <2>1 DEF store
  <1>10. CASE Place(w)
    <2>1. UNCHANGED store /\ (Goes(w, "look") \/ Stops(w))
      BY <1>10 DEF Place
    <2> QED
      BY <1>4, <1>5, <1>6, <2>1 DEF store
  <1>11. CASE Look(w)
    <2> DEFINE r == [run[w] EXCEPT !.ph = "save", !.old = row]
    <2>1. run' = [run EXCEPT ![w] = r] /\ r.ph = "save" /\ UNCHANGED store
      BY <1>1, <1>11 DEF Look, Run
    <2> HIDE DEF r
    <2> QED
      BY <1>4, <2>1 DEF store
  <1>12. CASE Save(w)
    <2>1. /\ Completes(w) /\ row' = run[w].file /\ Goes(w, "wipe")
          /\ library' = library /\ handed' = handed
      BY <1>12 DEF Save, Completes, Completing
    <2> QED
      BY <1>4, <1>5, <2>1
  <1>13. CASE Wipe(w)
    <2> DEFINE r == [run[w] EXCEPT !.ph = "list", !.old = None]
    <2>1. run' = [run EXCEPT ![w] = r] /\ r.ph = "list" /\ r.file = run[w].file
      BY <1>1, <1>13 DEF Wipe, Run
    <2> HIDE DEF r
    <2>2. UNCHANGED store /\ run[w].ph = "wipe"
      BY <1>13 DEF Wipe
    <2>3. row = run[w].file
      BY <1>2, <2>2 DEF Stage
    <2> QED
      BY <1>4, <2>1, <2>2, <2>3 DEF store
  <1>14. CASE List(w)
    <2> DEFINE r == [run[w] EXCEPT !.ph = "write", !.listed = disk]
    <2>1. run' = [run EXCEPT ![w] = r] /\ r.ph = "write" /\ r.file = run[w].file /\ r.listed = disk
      BY <1>1, <1>14 DEF List, Run
    <2> HIDE DEF r
    <2>2. UNCHANGED store /\ run[w].ph = "list" /\ Completes(w)
      BY <1>14 DEF List, Completes, Completing
    <2>3. row = run[w].file
      BY <1>2, <2>2 DEF Stage
    <2>4. run[w].file \in disk
      BY <2>2 DEF Orderly, Brought, Kept, Clean
    <2> QED
      BY <1>4, <2>1, <2>2, <2>3, <2>4 DEF store
  <1>15. CASE Write(w)
    <2> DEFINE r == [run[w] EXCEPT !.ph = "record", !.listed = {}]
    <2>1. run' = [run EXCEPT ![w] = r] /\ r.ph = "record" /\ r.file = run[w].file
      BY <1>1, <1>15 DEF Write, Run
    <2> HIDE DEF r
    <2>2. /\ run[w].ph = "write" /\ Completes(w) /\ library' = run[w].listed
          /\ row' = row /\ handed' = handed
      BY <1>15 DEF Write, Completes, Completing
    <2>3. row = run[w].file /\ run[w].file \in library'
      BY <1>2, <2>2 DEF Stage
    <2> QED
      BY <1>4, <2>1, <2>2, <2>3
  <1>16. CASE Record(w)
    <2>1. /\ run[w].ph = "record" /\ Completes(w) /\ row' = run[w].file /\ Goes(w, "hand")
          /\ library' = library /\ handed' = handed
      BY <1>16 DEF Record, Completes, Completing
    <2>2. run[w].file \in library
      BY <1>2, <2>1 DEF Stage
    <2> QED
      BY <1>4, <1>5, <2>1, <2>2
  <1>17. CASE Hand(w)
    <2>1. /\ run[w].ph = "hand" /\ handed' = handed \cup {run[w].file} /\ Goes(w, "end")
          /\ library' = library /\ row' = row
      BY <1>17 DEF Hand
    <2>2. run[w].file \in library /\ row = run[w].file
      BY <1>2, <2>1 DEF Stage
    <2> QED
      BY <1>4, <1>5, <2>1, <2>2
  <1> QED
    BY <1>7, <1>8, <1>9, <1>10, <1>11, <1>12, <1>13, <1>14, <1>15, <1>16, <1>17 DEF Work

LEMMA WorkTidies ==
  ASSUME RInv, Orderly, ~Beside', Stages, Tidied, Alone, Alone', UNCHANGED req, NEW w \in Runs,
         Take(w) \/ Work(w) \/ FetchFails(w)
  PROVE  Tidied'
  <1>1. run \in [Runs -> Run] /\ run[w] \in Run /\ Stage(w) /\ Tidy(w)
    BY DEF RInv, WInv, IInv, Entries, Stages, Tidied
  \* A deletion or a reconciliation meets no execution that completes.
  <1>2. ASSUME ~(Completes(w) \/ Completes(w)') => disk' = disk
        PROVE  Deleted' /\ Adopted'
    <2>1. ASSUME NEW c \in Clients, Deletes(c) \/ Reconciles(c)
          PROVE  ~Completes(w) /\ ~Completes(w)'
      BY <2>1 DEF Orderly, Beside, Deletes, Reconciles
    <2>2. ASSUME NEW c \in Clients, Deletes(c) \/ Reconciles(c)
          PROVE  disk' = disk
      BY <1>2, <2>1, <2>2
    <2> QED
      BY <2>2 DEF Tidied, Deleted, Adopted, Deletes, Reconciles
  \* A step before anything is in place.
  <1>3. ASSUME NEW r, run' = [run EXCEPT ![w] = r], ~Completes(w), r.ph \notin Completing \cup {"hand", "end"},
               UNCHANGED <<disk, row, library>>
        PROVE  Tidied'
    <2>1. run'[w] = r /\ \A v \in Runs \ {w} : run'[v] = run[v]
      BY <1>1, <1>3
    <2>2. ~Completes(w)' /\ \A v \in Runs : Completes(v)' <=> Completes(v)
      BY <1>3, <2>1 DEF Completes
    <2>3. Resting'
      BY <1>3, <2>2 DEF Tidied, Resting
    <2>4. Tidy(w)'
      BY <1>3, <2>1 DEF Tidy, Completing
    <2>5. \A v \in Runs \ {w} : Tidy(v)'
      BY <1>3, <2>1 DEF Tidied, Tidy
    <2> QED
      BY <1>2, <1>3, <2>3, <2>4, <2>5 DEF Tidied
  \* A step of the one that completes.
  <1>4. ASSUME NEW r, run' = [run EXCEPT ![w] = r], Completes(w) \/ Completes(w)', Tidy(w)',
               Completes(w)' \/ disk' \subseteq {row'}
        PROVE  Tidied'
    <2>1. run'[w] = r /\ \A v \in Runs \ {w} : run'[v] = run[v]
      BY <1>1, <1>4
    <2>2. ASSUME NEW v \in Runs \ {w}
          PROVE  Tidy(v)'
      <3>1. Completes(v)' <=> Completes(v)
        BY <2>1 DEF Completes
      <3>2. ~Completes(v)
        BY <1>4, <3>1 DEF Alone
      <3>3. run'[v].ph \notin Completing \cup {"hand", "end"}
        BY <3>1, <3>2 DEF Completes
      <3> QED
        BY <3>3 DEF Tidy, Completing
    <2>3. Resting'
      BY <1>4 DEF Resting
    <2> QED
      BY <1>2, <1>4, <2>2, <2>3 DEF Tidied
  <1>5. ASSUME NEW ph, Goes(w, ph)
        PROVE  \E r : /\ run' = [run EXCEPT ![w] = r] /\ run'[w] = r /\ r.ph = ph
                      /\ r.file = run[w].file /\ r.old = run[w].old /\ r.listed = run[w].listed
    <2> DEFINE r == [run[w] EXCEPT !.ph = ph]
    <2>1. /\ run' = [run EXCEPT ![w] = r] /\ r.ph = ph
          /\ r.file = run[w].file /\ r.old = run[w].old /\ r.listed = run[w].listed
      BY <1>1, <1>5 DEF Goes, Run
    <2> HIDE DEF r
    <2> QED
      BY <1>1, <2>1
  <1>6. ASSUME Stops(w), ~Completes(w), UNCHANGED <<disk, row, library>>
        PROVE  Tidied'
    <2>1. NoRun.ph = "idle"
      BY DEF NoRun
    <2> QED
      BY <1>3, <1>6, <2>1 DEF Stops, Completing
  <1>7. CASE Take(w)
    <2>1. PICK f \in Files : run' = [run EXCEPT ![w] = [NoRun EXCEPT !.file = f, !.ph = "head"]]
      BY <1>7 DEF Take
    <2> DEFINE r == [NoRun EXCEPT !.file = f, !.ph = "head"]
    <2>2. r.ph = "head" /\ run' = [run EXCEPT ![w] = r] /\ UNCHANGED <<disk, row, library>>
      BY <1>7, <2>1 DEF NoRun, Take, files, store
    <2> HIDE DEF r
    <2>3. ~Completes(w)
      BY <1>7 DEF Take, Completes, Completing
    <2> QED
      BY <1>3, <2>2, <2>3 DEF Completing
  <1>8. CASE FetchFails(w)
    <2>1. ~Completes(w) /\ Stops(w) /\ UNCHANGED <<disk, row, library>>
      BY <1>8 DEF FetchFails, Completes, Completing, files, store
    <2> QED
      BY <1>6, <2>1
  <1>9. CASE Head(w) \/ Fetch(w)
    <2>1. ~Completes(w) /\ (Goes(w, "fetch") \/ Goes(w, "place")) /\ UNCHANGED <<disk, row, library>>
      BY <1>9 DEF Head, Fetch, Completes, Completing, files, store
    <2> QED
      BY <1>3, <1>5, <2>1 DEF Completing
  <1>10. CASE Place(w)
    <2>1. ~Completes(w) /\ row' = row
      BY <1>10 DEF Place, Completes, Completing, store
    <2>2. CASE Stops(w) /\ UNCHANGED files
      BY <1>6, <1>10, <2>1, <2>2 DEF Place, files, store
    <2>3. CASE Goes(w, "look") /\ disk' \subseteq disk \cup {run[w].file}
      <3>1. PICK r : /\ run' = [run EXCEPT ![w] = r] /\ run'[w] = r /\ r.ph = "look"
                     /\ r.file = run[w].file
        BY <1>5, <2>3
      <3>2. Completes(w)'
        BY <3>1 DEF Completes, Completing
      <3>3. \A v \in Runs : ~Completes(v)
        <4>1. ASSUME NEW v \in Runs \ {w}
              PROVE  ~Completes(v)
          <5>1. run'[v] = run[v]
            BY <1>1, <3>1
          <5>2. ~Completes(v)'
            BY <3>2 DEF Alone
          <5> QED
            BY <5>1, <5>2 DEF Completes
        <4> QED
          BY <2>1, <4>1
      <3>4. disk' \subseteq {run[w].file, row}
        BY <2>3, <3>3 DEF Tidied, Resting
      <3>5. Tidy(w)'
        BY <2>1, <3>1, <3>4 DEF Tidy
      <3> QED
        BY <1>4, <3>1, <3>2, <3>5
    <2> QED
      BY <1>10, <2>2, <2>3 DEF Place, files
  <1>11. CASE Look(w)
    <2> DEFINE r == [run[w] EXCEPT !.ph = "save", !.old = row]
    <2>1. run' = [run EXCEPT ![w] = r] /\ r.ph = "save" /\ r.file = run[w].file /\ r.old = row
      BY <1>1, <1>11 DEF Look, Run
    <2> HIDE DEF r
    <2>2. run'[w] = r /\ disk' = disk /\ run[w].ph = "look"
      BY <1>1, <1>11, <2>1 DEF Look, files
    <2>3. Completes(w)' /\ Tidy(w)'
      BY <1>1, <2>1, <2>2 DEF Tidy, Completes, Completing
    <2> QED
      BY <1>4, <2>1, <2>3
  <1>12. CASE Save(w)
    <2>1. Goes(w, "wipe") /\ disk' = disk /\ run[w].ph = "save"
      BY <1>12 DEF Save, files
    <2>2. PICK r : /\ run' = [run EXCEPT ![w] = r] /\ run'[w] = r /\ r.ph = "wipe"
                   /\ r.file = run[w].file /\ r.old = run[w].old
      BY <1>5, <2>1
    <2>3. Completes(w)' /\ Tidy(w)'
      BY <1>1, <2>1, <2>2 DEF Tidy, Completes, Completing
    <2> QED
      BY <1>4, <2>2, <2>3
  <1>13. CASE Wipe(w)
    <2> DEFINE r == [run[w] EXCEPT !.ph = "list", !.old = None]
    <2>1. run' = [run EXCEPT ![w] = r] /\ r.ph = "list" /\ r.file = run[w].file
      BY <1>1, <1>13 DEF Wipe, Run
    <2> HIDE DEF r
    <2>2. /\ run'[w] = r /\ run[w].ph = "wipe"
          /\ disk' = IF run[w].old = run[w].file THEN disk ELSE disk \ {run[w].old}
      BY <1>1, <1>13, <2>1 DEF Wipe
    <2>3. disk' \subseteq {run[w].file}
      BY <1>1, <2>2 DEF Tidy
    <2>4. Completes(w)' /\ Tidy(w)'
      BY <2>1, <2>2, <2>3 DEF Tidy, Completes, Completing
    <2> QED
      BY <1>4, <2>1, <2>4
  <1>14. CASE List(w)
    <2> DEFINE r == [run[w] EXCEPT !.ph = "write", !.listed = disk]
    <2>1. run' = [run EXCEPT ![w] = r] /\ r.ph = "write" /\ r.file = run[w].file /\ r.listed = disk
      BY <1>1, <1>14 DEF List, Run
    <2> HIDE DEF r
    <2>2. run'[w] = r /\ disk' = disk /\ run[w].ph = "list"
      BY <1>1, <1>14, <2>1 DEF List, files
    <2>3. Completes(w)' /\ Tidy(w)'
      BY <1>1, <2>1, <2>2 DEF Tidy, Completes, Completing
    <2> QED
      BY <1>4, <2>1, <2>3
  <1>15. CASE Write(w)
    <2> DEFINE r == [run[w] EXCEPT !.ph = "record", !.listed = {}]
    <2>1. run' = [run EXCEPT ![w] = r] /\ r.ph = "record" /\ r.file = run[w].file
      BY <1>1, <1>15 DEF Write, Run
    <2> HIDE DEF r
    <2>2. run'[w] = r /\ disk' = disk /\ run[w].ph = "write" /\ library' = run[w].listed
      BY <1>1, <1>15, <2>1 DEF Write, files
    <2>3. Completes(w)' /\ Tidy(w)'
      BY <1>1, <2>1, <2>2 DEF Tidy, Completes, Completing
    <2> QED
      BY <1>4, <2>1, <2>3
  <1>16. CASE Record(w) \/ Hand(w)
    <2>1. /\ Goes(w, "hand") \/ Goes(w, "end")
          /\ disk' = disk /\ library' = library /\ run[w].ph \in {"record", "hand"}
      BY <1>16 DEF Record, Hand, files
    <2>2. PICK r : /\ run' = [run EXCEPT ![w] = r] /\ run'[w] = r /\ r.ph \in {"hand", "end"}
                   /\ r.file = run[w].file
      BY <1>5, <2>1
    <2>3. Completes(w)' /\ Tidy(w)'
      BY <1>1, <2>1, <2>2 DEF Tidy, Completes
    <2> QED
      BY <1>4, <2>2, <2>3
  <1>17. CASE End(w)
    <2>1. run[w].ph = "end" /\ Stops(w) /\ disk' = disk /\ row' = row /\ Completes(w)
      BY <1>17 DEF End, files, store, Completes
    <2>2. disk' \subseteq {row'}
      BY <1>1, <2>1 DEF Stage, Tidy
    <2>3. NoRun.ph = "idle" /\ run'[w] = NoRun
      BY <1>1, <2>1 DEF NoRun, Stops
    <2>4. Tidy(w)'
      BY <2>3 DEF Tidy
    <2> QED
      BY <1>4, <2>1, <2>2, <2>4 DEF Stops
  <1> QED
    BY <1>7, <1>8, <1>9, <1>10, <1>11, <1>12, <1>13, <1>14, <1>15, <1>16, <1>17 DEF Work

\* A request writes the record or the library only where no execution completes ...
LEMMA RequestWritesAlone ==
  ASSUME NEW c \in Clients, Arrive(c) \/ Restart(c) \/ Proceed(c)
  PROVE  /\ run' = run /\ handed' = handed
         /\ UNCHANGED <<row, library>> \/ Deletes(c) \/ Reconciles(c)
  <1>1. CASE Arrive(c) \/ Restart(c)
    BY <1>1 DEF Arrive, Restart, store
  <1>2. CASE LookDownload(c) \/ Clear(c) \/ LookUpdate(c) \/ Dispatch(c)
    BY <1>2 DEF LookDownload, Clear, LookUpdate, Dispatch, store
  <1>3. CASE Signal(c) \/ RemoveJob(c) \/ DeleteFile(c) \/ DeleteTemp(c)
    BY <1>3 DEF Signal, RemoveJob, DeleteFile, DeleteTemp, store
  <1>4. CASE Unlink(c) \/ ReadLibrary(c) \/ Scan(c)
    BY <1>4 DEF Unlink, ReadLibrary, Scan, store
  <1>5. CASE WriteLibrary(c) \/ DropRow(c) \/ Adopt(c)
    BY <1>5 DEF WriteLibrary, DropRow, Adopt, At, Deletes, Reconciles
  <1> QED
    BY <1>1, <1>2, <1>3, <1>4, <1>5 DEF Proceed

\* ... so what one of them has done stays done.
LEMMA RequestDelivers ==
  ASSUME ~Beside, Stages, NEW c \in Clients, Arrive(c) \/ Restart(c) \/ Proceed(c)
  PROVE  Stages'
  <1>1. /\ run' = run /\ handed' = handed
        /\ UNCHANGED <<row, library>> \/ Deletes(c) \/ Reconciles(c)
    BY RequestWritesAlone
  <1>2. CASE UNCHANGED <<row, library>>
    BY <1>1, <1>2 DEF Stages, Stage
  <1>3. CASE Deletes(c) \/ Reconciles(c)
    <2>1. \A v \in Runs : run[v].ph \notin Completing \cup {"hand", "end"}
      BY <1>3, NobodyBeside DEF Completes
    <2> QED
      BY <1>1, <2>1 DEF Stages, Stage, Completing
  <1> QED
    BY <1>1, <1>2, <1>3

\* What is on disk is deleted only by a deletion, and only if nobody completes the record
\* is written.
LEMMA RequestTidies ==
  ASSUME RInv, Orderly, ~Beside', cancelled = {}, Tidied,
         NEW c \in Clients, Arrive(c) \/ Restart(c) \/ Proceed(c)
  PROVE  Tidied'
  <1>1. /\ req \in [Clients -> Request] /\ run' = run
        /\ UNCHANGED <<row, library>> \/ Deletes(c) \/ Reconciles(c)
    BY RequestWritesAlone DEF RInv, WInv, IInv, Requests
  <1>2. \A v \in Runs : Completes(v)' <=> Completes(v)
    BY <1>1 DEF Completes
  \* What executions leave stays little, whatever is deleted.
  <1>3. ASSUME disk' \subseteq disk
        PROVE  \A v \in Runs : Tidy(v)'
    <2>1. CASE UNCHANGED <<row, library>>
      BY <1>1, <1>3, <2>1 DEF Tidied, Tidy
    <2>2. CASE Deletes(c) \/ Reconciles(c)
      <3>1. \A v \in Runs : run'[v].ph \notin Completing \cup {"hand", "end"}
        BY <1>1, <2>2, NobodyBeside DEF Completes, Orderly
      <3> QED
        BY <3>1 DEF Tidy, Completing
    <2> QED
      BY <1>1, <2>1, <2>2
  \* A request that leaves disk and record alone.
  <1>4. ASSUME NEW r, req' = [req EXCEPT ![c] = r], disk' = disk, row' = row,
               r.op = "delete" /\ r.at \in {"read", "write", "drop"} => Deletes(c),
               r.op = "reconcile" /\ r.at = "adopt" => r.listed = disk
        PROVE  Tidied'
    <2>1. req'[c] = r /\ \A d \in Clients \ {c} : req'[d] = req[d]
      BY <1>1, <1>4
    <2>2. Resting'
      BY <1>2, <1>4 DEF Tidied, Resting
    <2>3. Deleted'
      BY <1>4, <2>1 DEF Tidied, Deleted, Deletes
    <2>4. Adopted'
      BY <1>4, <2>1 DEF Tidied, Adopted, Reconciles
    <2> QED
      BY <1>3, <1>4, <2>2, <2>3, <2>4 DEF Tidied
  <1>5. ASSUME NEW step, Then(c, step), disk' = disk, row' = row,
               req[c].op = "delete" /\ step \in {"read", "write", "drop"} => Deletes(c),
               req[c].op # "reconcile"
        PROVE  Tidied'
    <2> DEFINE r == [req[c] EXCEPT !.at = step]
    <2>1. req' = [req EXCEPT ![c] = r] /\ r.op = req[c].op /\ r.at = step
      BY <1>1, <1>5 DEF Then, Request
    <2> HIDE DEF r
    <2> QED
      BY <1>4, <1>5, <2>1
  <1>6. NoRequest.op = "download" /\ NoRequest.at = "done"
    BY DEF NoRequest
  <1>7. ASSUME Done(c), disk' = disk, row' = row
        PROVE  Tidied'
    BY <1>4, <1>6, <1>7 DEF Done
  <1>8. CASE Arrive(c)
    <2>1. PICK op \in Kinds, f \in Files :
            req' = [req EXCEPT ![c] = [op |-> op, file |-> f, listed |-> {}, at |-> FirstStep(op)]]
      BY <1>8 DEF Arrive
    <2> DEFINE r == [op |-> op, file |-> f, listed |-> {}, at |-> FirstStep(op)]
    <2>2. req' = [req EXCEPT ![c] = r] /\ r.op # "reconcile"
      BY <2>1, DownloadsAssumption
    <2>3. r.op = "delete" => r.at = "unlink"
      BY DEF FirstStep
    <2>4. disk' = disk /\ row' = row
      BY <1>8 DEF Arrive, files, store
    <2> HIDE DEF r
    <2> QED
      BY <1>4, <2>2, <2>3, <2>4
  <1>9. CASE Restart(c)
    <2>1. disk' = disk /\ row' = row
      BY <1>9 DEF Restart, files, store
    <2> DEFINE r == [NoRequest EXCEPT !.op = "reconcile", !.at = "scan"]
    <2>2. r.op = "reconcile" /\ r.at = "scan"
      BY DEF NoRequest
    <2>3. \A d \in Clients : req'[d] = IF d = c THEN r ELSE NoRequest
      BY <1>9 DEF Restart
    <2> HIDE DEF r
    <2>4. Deleted' /\ Adopted'
      BY <1>6, <2>2, <2>3 DEF Deleted, Adopted, Deletes, Reconciles
    <2>5. Resting'
      BY <1>2, <2>1 DEF Tidied, Resting
    <2> QED
      BY <1>3, <2>1, <2>4, <2>5 DEF Tidied
  <1>10. CASE LookDownload(c) \/ LookUpdate(c) \/ Signal(c) \/ Clear(c) \/ Dispatch(c) \/ RemoveJob(c)
              \/ DeleteTemp(c)
    <2>1. req[c].op \in {"download", "update", "cancel", "dismiss"}
      BY <1>10 DEF LookDownload, LookUpdate, Signal, Clear, Dispatch, RemoveJob, DeleteTemp, At
    <2>2. disk' = disk /\ row' = row
      BY <1>10 DEF LookDownload, LookUpdate, Signal, Clear, Dispatch, RemoveJob, DeleteTemp, files, store
    <2>3. Done(c) \/ \E step : Then(c, step)
      BY <1>10 DEF LookDownload, LookUpdate, Signal, Clear, Dispatch, RemoveJob, DeleteTemp
    <2> QED
      BY <1>5, <1>7, <2>1, <2>2, <2>3
  <1>11. ~DeleteFile(c)
    BY DEF DeleteFile, At, RInv, Cancelling
  <1>12. CASE Unlink(c)
    <2>1. /\ row' = row /\ disk' = disk \ {req[c].file}
          /\ req[c].op = "delete" /\ req[c].at = "unlink"
      BY <1>12 DEF Unlink, store, At
    <2>2. CASE req[c].file \notin disk
      BY <1>7, <1>12, <2>1, <2>2 DEF Unlink
    <2>3. CASE req[c].file \in disk
      <3>1. req'[c].op = "delete" /\ req'[c].at = "read" /\ \A d \in Clients \ {c} : req'[d] = req[d]
        BY <1>1, <1>12, <2>1, <2>3 DEF Unlink, Then, Request
      <3>2. Deletes(c)' /\ ~Reconciles(c)'
        BY <3>1 DEF Deletes, Reconciles
      <3>3. /\ \A w \in Runs : ~Completes(w)'
            /\ \A d \in Clients : ~Reconciles(d)'
        BY <3>2 DEF Beside
      <3>4. disk \subseteq {row}
        BY <1>2, <3>3 DEF Tidied, Resting
      <3>5. disk' = {}
        BY <2>1, <2>3, <3>4
      <3>6. Deleted' /\ Resting' /\ Adopted'
        BY <3>3, <3>5 DEF Deleted, Resting, Adopted
      <3> QED
        BY <1>3, <2>1, <3>6 DEF Tidied
    <2> QED
      BY <2>2, <2>3
  <1>13. CASE ReadLibrary(c) \/ WriteLibrary(c)
    <2> DEFINE s == [req[c] EXCEPT !.listed = library, !.at = "write"]
               t == [req[c] EXCEPT !.listed = {}, !.at = "drop"]
               u == [req[c] EXCEPT !.at = "drop"]
    <2>1. /\ req[c].op = "delete" /\ req[c].at \in {"read", "write"} /\ disk' = disk /\ row' = row
          /\ req' \in {[req EXCEPT ![c] = s], [req EXCEPT ![c] = t], [req EXCEPT ![c] = u]}
      BY <1>1, <1>13 DEF ReadLibrary, WriteLibrary, Then, At, files, store
    <2>2. s.op = req[c].op /\ t.op = req[c].op /\ u.op = req[c].op
      BY <1>1 DEF Request
    <2> HIDE DEF s, t, u
    <2>3. Deletes(c)
      BY <2>1 DEF Deletes
    <2> QED
      BY <1>4, <2>1, <2>2, <2>3
  <1>14. CASE DropRow(c) \/ Adopt(c)
    <2>1. disk' = disk /\ Done(c) /\ (Deletes(c) \/ Reconciles(c))
      BY <1>14 DEF DropRow, Adopt, At, Deletes, Reconciles, files
    <2>2. disk \subseteq {row}
      BY <2>1, NobodyBeside DEF Orderly, Tidied, Resting
    <2>3. disk' \subseteq {row'}
      <3>1. CASE DropRow(c)
        <4>1. Deletes(c)
          BY <3>1 DEF DropRow, At, Deletes
        <4> QED
          BY <2>1, <4>1 DEF Tidied, Deleted
      <3>2. CASE Adopt(c)
        <4>1. req[c].listed = disk
          BY <3>2 DEF Adopt, At, Tidied, Adopted, Reconciles
        <4>2. CASE disk = {}
          BY <2>1, <4>2
        <4>3. CASE disk # {}
          <5>1. row' \in disk
            BY <3>2, <4>1, <4>3 DEF Adopt
          <5> QED
            BY <2>1, <2>2, <5>1
        <4> QED
          BY <4>2, <4>3
      <3> QED
        BY <1>14, <3>1, <3>2
    <2>4. req'[c] = NoRequest /\ \A d \in Clients \ {c} : req'[d] = req[d]
      BY <1>1, <2>1 DEF Done
    <2>5. Deleted' /\ Adopted'
      BY <1>6, <2>1, <2>4 DEF Tidied, Deleted, Adopted, Deletes, Reconciles
    <2>6. Resting'
      BY <2>3 DEF Resting
    <2> QED
      BY <1>3, <2>1, <2>5, <2>6 DEF Tidied
  <1>15. CASE Scan(c)
    <2> DEFINE r == [req[c] EXCEPT !.listed = disk, !.at = "adopt"]
    <2>1. r.op = req[c].op /\ r.listed = disk /\ r.at = "adopt"
      BY <1>1 DEF Request
    <2>2. req' = [req EXCEPT ![c] = r] /\ disk' = disk /\ row' = row /\ req[c].op = "reconcile"
      BY <1>15 DEF Scan, At, files, store
    <2> HIDE DEF r
    <2> QED
      BY <1>4, <2>1, <2>2
  <1> QED
    BY <1>8, <1>9, <1>10, <1>11, <1>12, <1>13, <1>14, <1>15 DEF Proceed

LEMMA DInvInit == Init => (Clean => Stages) /\ (Quietly => Tidied)
  <1> SUFFICES ASSUME Init
               PROVE  Stages /\ Tidied
    OBVIOUS
  <1>1. \A w \in Runs : run[w].ph = "idle"
    BY DEF Init, NoRun
  <1>2. \A c \in Clients : req[c].op = "download"
    BY DEF Init, NoRequest
  <1>3. Stages /\ \A w \in Runs : Tidy(w)
    BY <1>1 DEF Stages, Stage, Tidy
  <1>4. Resting
    BY DEF Init, Resting
  <1>5. Deleted /\ Adopted
    BY <1>2 DEF Deleted, Adopted, Deletes, Reconciles
  <1> QED
    BY <1>3, <1>4, <1>5 DEF Tidied

LEMMA DInvNext ==
  ASSUME RInv, RInv', (Clean => Stages), (Quietly => Tidied), Next
  PROVE  (Clean => Stages)' /\ (Quietly => Tidied)'
  <1>1. PICK tags : Remember(tags)
    BY DEF Next, WorkerStep, QueueStep, RequestStep
  <1>2. cancelled \subseteq cancelled' /\ past \subseteq past'
    BY <1>1, ExcusesStay
  <1>3. ASSUME Clean'
        PROVE  Clean /\ Orderly /\ ~Beside' /\ Stages /\ cancelled = {}
    <2>1. cancelled = {} /\ Clean /\ "beside" \notin past
      BY <1>2, <1>3 DEF Clean
    <2>2. ~Beside'
      BY <1>1, <1>3 DEF Remember, Clean
    <2> QED
      BY <2>1, <2>2 DEF RInv
  <1>4. ASSUME Quietly'
        PROVE  Clean' /\ Tidied /\ Alone /\ Alone'
    <2>1. Clean' /\ Quietly
      BY <1>2, <1>3, <1>4 DEF Quietly
    <2> QED
      BY <1>4, <2>1, AloneHolds, AloneNext
  <1>5. CASE RequestStep
    <2>1. PICK c \in Clients : Arrive(c) \/ Restart(c) \/ Proceed(c)
      BY <1>5 DEF RequestStep
    <2>2. Clean' => Stages'
      BY <1>3, <2>1, RequestDelivers DEF Orderly
    <2>3. Quietly' => Tidied'
      BY <1>3, <1>4, <2>1, RequestTidies
    <2> QED
      BY <2>2, <2>3
  <1>6. CASE UNCHANGED <<run, disk, row, library, handed, req>>
    <2>1. Stages => Stages'
      BY <1>6 DEF Stages, Stage
    <2>2. Tidied => Tidied'
      BY <1>6 DEF Tidied, Tidy, Resting, Deleted, Adopted, Completes, Deletes, Reconciles
    <2> QED
      BY <1>3, <1>4, <2>1, <2>2
  <1>7. CASE UNCHANGED req /\ QueueStep
    <2>1. UNCHANGED <<run, disk, row, library, handed>>
      BY <1>7 DEF QueueStep, Promote, RecoverStalled, KeyExpires, files, store
    <2> QED
      BY <1>6, <1>7, <2>1
  <1>8. CASE UNCHANGED req /\ WorkerStep
    <2>1. ASSUME NEW w \in Runs, Take(w) \/ Work(w) \/ FetchFails(w)
          PROVE  (Clean => Stages)' /\ (Quietly => Tidied)'
      <3>1. Clean' => Stages'
        BY <1>3, <1>8, <2>1, WorkDelivers
      <3>2. Quietly' => Tidied'
        BY <1>3, <1>4, <1>8, <2>1, WorkTidies
      <3> QED
        BY <3>1, <3>2
    <2>2. ASSUME NEW w \in Runs, Poll(w)
          PROVE  ~Clean'
      BY <1>2, <2>2 DEF Poll, Clean, RInv, WInv, Cancels
    <2>3. CASE \E w \in Runs : CallbackFails(w) /\ Remember({"callback"})
      BY <2>3, ExcusesStay DEF Clean, Quietly
    <2>4. CASE \E w \in Runs : LoseLock(w) /\ Remember({"crash"})
      <3>1. UNCHANGED <<run, disk, row, library, handed>>
        BY <2>4 DEF LoseLock, files, store
      <3> QED
        BY <1>6, <1>8, <3>1
    <2>5. CASE Crash /\ Remember({"crash"})
      <3>1. ~Quietly'
        BY <2>5, ExcusesStay DEF Quietly
      <3>2. Stages'
        BY <2>5 DEF Crash, Stages, Stage, NoRun
      <3> QED
        BY <3>1, <3>2
    <2>6. CASE \E w \in Runs : Poll(w)
      BY <2>2, <2>6 DEF Quietly
    <2> QED
      BY <1>8, <2>1, <2>3, <2>4, <2>5, <2>6 DEF WorkerStep
  <1> QED
    BY <1>5, <1>7, <1>8 DEF Next

\* What an execution has to show when it ends.
LEMMA EndDelivers ==
  ASSUME DInv, NEW w \in Runs, run[w].ph = "end", Clean
  PROVE  LET f == run[w].file IN
         /\ row = f /\ f \in disk /\ f \in library /\ f \in handed
         /\ past \cap {"crash", "dismissed"} = {} => disk = {f} /\ library = {f}
  <1>1. Stage(w) /\ Orderly /\ Completes(w)
    BY DEF DInv, RInv, Stages, Clean, Completes
  <1>2. run[w].file \in disk
    BY <1>1 DEF Orderly, Brought, Kept, Clean
  <1>3. past \cap {"crash", "dismissed"} = {} => Tidy(w)
    BY DEF DInv, Quietly, Tidied
  <1> QED
    BY <1>1, <1>2, <1>3 DEF Stage, Tidy

\* A job that ends as completed has delivered its version, whatever was downloaded, updated,
\* deleted or reconciled before: on record, on disk, in the library and handed to the knowledge
\* base, and alone there unless an execution died or was dismissed (run_download_job.ts:104-207,
\* zim_service.ts:291-390).
THEOREM FinishedDelivers == Spec => FinishedIsDelivered
  <1>1. Spec => []DInv
    <2>1. Init /\ RInv => DInv
      BY DInvInit DEF DInv
    <2>2. DInv /\ RInv' /\ [Next]_vars => DInv'
      <3>1. CASE Next
        BY <3>1, DInvNext DEF DInv
      <3>2. CASE UNCHANGED vars
        <4>1. (Clean => Stages) => (Clean => Stages)'
          BY <3>2 DEF vars, files, store, Clean, Stages, Stage
        <4>2. (Quietly => Tidied) => (Quietly => Tidied)'
          BY <3>2 DEF vars, files, store, Quietly, Clean, Tidied, Tidy, Resting, Deleted, Adopted,
                      Completes, Deletes, Reconciles
        <4> QED
          BY <4>1, <4>2 DEF DInv
      <3> QED
        BY <3>1, <3>2
    <2> QED
      BY <2>1, <2>2, RInvAlways, PTL DEF Spec
  <1>2. DInv => [\A w \in Runs : Ended(w) =>
          LET f == run[w].file IN
          /\ row = f /\ f \in disk /\ f \in library /\ f \in handed
          /\ past \cap {"crash", "dismissed"} = {} => disk = {f} /\ library = {f}]_vars
    BY EndDelivers DEF Ended, Clean
  <1> QED
    BY <1>1, <1>2, PTL DEF FinishedIsDelivered
================================================================================
