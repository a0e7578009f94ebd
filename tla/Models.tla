-------------------------------- MODULE Models --------------------------------
(****************************************************************************)
(* The models of the assistant. They live in the AI host, a container of    *)
(* this machine or a host that an administrator has configured. A page      *)
(* offers to install and to delete them; installing is a job that pulls     *)
(* the model and broadcasts how far it is, which the page shows in a row.   *)
(****************************************************************************)
EXTENDS Naturals, FiniteSets

CONSTANTS
    Names,          \* models
    Admins,         \* requests that configure the host at the same time
    MaxWork,        \* jobs the worker runs side by side, 2 in the code
    Attempts,       \* attempts of a job, 40 in the code
    MaxAsked,       \* BOUND: clicks
    MaxFaults       \* BOUND: failures and processes that die

VARIABLES
    env,        \* the host that OLLAMA_BASE_URL names, and whether the server is to stay offline
    store,      \* the models that each host has
    local,      \* the container of the AI host
    remote,     \* the host that is configured instead
    installed,  \* the row of the service
    conf,       \* requests that configure
    job, work,  \* the queue, and what the worker does
    key,        \* cancel keys in Redis
    cancel,     \* requests that cancel
    row, timer, \* what the page shows of each download, and its timers
    seen,       \* the models that the page shows as installed
    used,
    excused     \* history: requests that configured at the same time, or died half-way
hosts == <<env, store, local, remote, installed, conf, excused>>
jobs == <<job, work, key, cancel>>
shown == <<row, timer, seen>>
vars == <<hosts, jobs, shown, used>>

\* The container, the host that the environment names, and two that can be configured: one in
\* the local network, and one outside it that is no Ollama.
Host == {"local", "env", "ollama", "other"}
Ollamas == Host \ {"other"}
NoJob == [st |-> "none", left |-> 0]
Idle == [at |-> "none", host |-> "none", aborted |-> FALSE]
NoConf == [at |-> "none", url |-> "none", was |-> FALSE, has |-> FALSE]

TypeOK ==
    /\ env \in [set: BOOLEAN, offline: BOOLEAN]
    /\ store \in [Host -> SUBSET Names] /\ local \in {"none", "stopped", "running"}
    /\ remote \in {"none", "ollama", "other"} /\ installed \in BOOLEAN
    /\ conf \in [Admins -> [at: {"none", "test", "key", "container", "row", "stop"},
                            url: {"none", "ollama", "other"}, was: BOOLEAN, has: BOOLEAN]]
    /\ job \in [Names -> [st: {"none", "waiting", "active", "completed", "failed"}, left: 0 .. Attempts]]
    /\ work \in [Names -> [at: {"none", "ready", "check", "pull"}, host: Host \cup {"none"}, aborted: BOOLEAN]]
    /\ key \subseteq Names /\ cancel \in [Names -> {"none", "poll", "remove"}]
    /\ row \in [Names -> {"none", "progress", "full", "error"}] /\ timer \subseteq Names
    /\ seen \subseteq Names
    /\ used \in [asked: 0 .. MaxAsked, faults: 0 .. MaxFaults]
    /\ excused \in BOOLEAN

Init ==
    /\ env \in [set: BOOLEAN, offline: BOOLEAN]
    /\ store = [h \in Host |-> {}] /\ local \in {"none", "running"} /\ remote = "none"
    /\ installed = (local = "running") /\ conf = [a \in Admins |-> NoConf]
    /\ job = [m \in Names |-> NoJob] /\ work = [m \in Names |-> Idle]
    /\ key = {} /\ cancel = [m \in Names |-> "none"]
    /\ row = [m \in Names |-> "none"] /\ timer = {}
    /\ seen = {} /\ used = [asked |-> 0, faults |-> 0] /\ excused = FALSE

Asked == used.asked < MaxAsked /\ used' = [used EXCEPT !.asked = @ + 1]
Fault == used.faults < MaxFaults /\ used' = [used EXCEPT !.faults = @ + 1]
Normally == UNCHANGED used
----------------------------------------------------------------------------
(* The host *)

\* A server that is to stay offline takes no notice of a configured host outside.
Heeded == remote # "none" /\ ~(env.offline /\ remote = "other")

\* _initialize: the configured host comes first, then that of the environment, then the
\* container, if it runs.
BaseUrl == IF Heeded THEN remote
           ELSE IF env.set THEN "env" ELSE IF local = "running" THEN "local" ELSE "none"

\* getModels: what the host lists, nothing if there is none.
GetModels == IF BaseUrl = "none" THEN {} ELSE store[BaseUrl]

Configuring == {a \in Admins : conf[a].at # "none"}
Beside(a) == excused' = (excused \/ Configuring \ {a} # {})

Configurable(a) == conf[a].at = "none"

\* configureRemote, "Save & Test" and "Clear": the row of the service is read ...
Configure(a, url) ==
    /\ Asked /\ Configurable(a)
    /\ conf' = [conf EXCEPT ![a] = [at |-> IF url = "none" THEN "key" ELSE "test", url |-> url,
                                    was |-> installed, has |-> FALSE]]
    /\ Beside(a)
    /\ UNCHANGED <<env, store, local, remote, installed, jobs, shown>>

\* ... a new host has to answer ...
Test(a) ==
    /\ conf[a].at = "test"
    /\ \/ conf' = [conf EXCEPT ![a].at = "key"] /\ Normally
       \/ conf' = [conf EXCEPT ![a] = NoConf] /\ Fault
    /\ UNCHANGED <<env, store, local, remote, installed, excused, jobs, shown>>

\* ... the setting is stored or cleared; the host of the environment is then taken to be
\* there, and no container is looked for ...
StoreUrl(a) ==
    /\ conf[a].at = "key" /\ remote' = conf[a].url
    /\ conf' = [conf EXCEPT ![a].at = IF conf[a].url = "none" /\ ~env.set THEN "container" ELSE "row",
                            ![a].has = env.set]
    /\ UNCHANGED <<env, store, local, installed, excused, jobs, shown>> /\ Normally

\* ... a local container, if there is one, is started again ...
StartLocal(a) ==
    /\ conf[a].at = "container"
    /\ \/ /\ local' = IF local = "none" THEN local ELSE "running"
          /\ conf' = [conf EXCEPT ![a].at = "row", ![a].has = local # "none"] /\ Normally
       \/ conf' = [conf EXCEPT ![a].at = "row"] /\ UNCHANGED local /\ Fault
    /\ UNCHANGED <<env, store, remote, installed, excused, jobs, shown>>

\* Mutant: without a configured host the service stays as it was.
SaveRow_Keeps(a) ==
    /\ conf[a].at = "row"
    /\ installed' = (installed \/ conf[a].url # "none")
    /\ conf' = [conf EXCEPT ![a] = IF conf[a].url = "none" THEN NoConf ELSE [@ EXCEPT !.at = "stop"]]
    /\ UNCHANGED <<env, store, local, remote, excused, jobs, shown>> /\ Normally

\* ... and the row is saved, if it differs from what was read.
SaveRow(a) ==
    LET now == conf[a].url # "none" \/ conf[a].has IN
    /\ conf[a].at = "row"
    /\ installed' = IF now = conf[a].was THEN installed ELSE now
    /\ conf' = [conf EXCEPT ![a] = IF conf[a].url = "none" THEN NoConf ELSE [@ EXCEPT !.at = "stop"]]
    /\ UNCHANGED <<env, store, local, remote, excused, jobs, shown>> /\ Normally

\* The local container gives way to the configured host; it may refuse to.
StopLocal(a) ==
    /\ conf[a].at = "stop" /\ conf' = [conf EXCEPT ![a] = NoConf]
    /\ \/ local' = (IF local = "running" THEN "stopped" ELSE local) /\ Normally
       \/ UNCHANGED local /\ Fault
    /\ UNCHANGED <<env, store, remote, installed, excused, jobs, shown>>
----------------------------------------------------------------------------
(* Downloads *)

\* The catalogue of the page offers what it does not show as installed, the table above it
\* deletes the rest, and the list of downloads cancels what has not failed.
Installable(m) == m \notin seen
Deletable(m) == m \in seen
Cancellable(m) == row[m] \in {"progress", "full"} /\ cancel[m] = "none"

\* dispatch removes a job that has failed; one in any other state stays as it is.
Queued(m) ==
    IF job[m].st \in {"none", "failed"}
    THEN [job EXCEPT ![m] = [st |-> "waiting", left |-> Attempts]] ELSE job

Install(m) ==
    /\ Asked /\ Installable(m) /\ job' = Queued(m)
    /\ UNCHANGED <<hosts, work, key, cancel, shown>>

Working == {m \in Names : work[m].at # "none"}

\* The job starts, with an OllamaService of its own, which finds its host with the first call.
Take(m) ==
    /\ job[m].st = "waiting" /\ work[m].at = "none" /\ Cardinality(Working) < MaxWork
    /\ job' = [job EXCEPT ![m].st = "active"]
    /\ work' = [work EXCEPT ![m] = [at |-> "ready", host |-> BaseUrl, aborted |-> FALSE]]
    /\ UNCHANGED <<hosts, key, cancel, shown>> /\ Normally

\* The poll of the cancel key aborts the pull, also one that has yet to begin.
Poll(m) ==
    /\ work[m].at \in {"check", "pull"} /\ m \in key
    /\ key' = key \ {m} /\ work' = [work EXCEPT ![m].aborted = TRUE]
    /\ UNCHANGED <<hosts, job, cancel, shown>> /\ Normally

\* Mutant: that the user has cancelled is seen only when the pull says so.
Fails_Retries(m, again) ==
    /\ work' = [work EXCEPT ![m] = Idle]
    /\ job' = IF job[m].st # "active" THEN job
              ELSE IF again /\ job[m].left > 1
                   THEN [job EXCEPT ![m] = [st |-> "waiting", left |-> @.left - 1]]
                   ELSE [job EXCEPT ![m].st = "failed"]

\* The attempt ends with an error: there is another one a minute later, unless the error
\* says that it is of no use, the user has cancelled, or the job is no longer there.
Fails(m, again) ==
    /\ work' = [work EXCEPT ![m] = Idle]
    /\ job' = IF job[m].st # "active" THEN job
              ELSE IF again /\ ~work[m].aborted /\ job[m].left > 1
                   THEN [job EXCEPT ![m] = [st |-> "waiting", left |-> @.left - 1]]
                   ELSE [job EXCEPT ![m].st = "failed"]

Succeeds(m) ==
    /\ work' = [work EXCEPT ![m] = Idle]
    /\ job' = IF job[m].st = "active" THEN [job EXCEPT ![m].st = "completed"] ELSE job

\* Until the host has listed its models no cancel is polled for.
Ready(m) ==
    /\ work[m].at = "ready"
    /\ \/ work[m].host = "none" /\ Fails(m, TRUE) /\ Normally
       \/ work[m].host # "none" /\ work' = [work EXCEPT ![m].at = "check"] /\ UNCHANGED job /\ Normally
       \/ Fails(m, TRUE) /\ Fault
    /\ UNCHANGED <<hosts, key, cancel, shown>>

\* A host that is no Ollama or does not answer fails the attempt; a model that is there needs
\* no pull, and nothing is broadcast of it.
Check(m) ==
    /\ work[m].at = "check"
    /\ \/ work[m].host = "other" /\ Fails(m, TRUE) /\ Normally
       \/ Fails(m, TRUE) /\ Fault
       \/ work[m].host \in Ollamas /\ m \in store[work[m].host] /\ Succeeds(m) /\ Normally
       \/ /\ work[m].host \in Ollamas /\ m \notin store[work[m].host]
          /\ work' = [work EXCEPT ![m].at = "pull"] /\ UNCHANGED job /\ Normally
    /\ UNCHANGED <<hosts, key, cancel, shown>>

\* What is broadcast reaches the page: percent, an error or a cancel.
Shows(m, what) ==
    /\ row' = [row EXCEPT ![m] = what]
    /\ timer' = IF what = "progress" THEN timer ELSE timer \cup {m}

\* Progress over the parts that are known so far; it is broadcast twice a second at most.
Progress(m) ==
    /\ work[m].at = "pull" /\ ~work[m].aborted
    /\ \E what \in {"progress", "full"} : row[m] # what /\ Shows(m, what)
    /\ UNCHANGED <<hosts, jobs, seen>> /\ Normally

\* The stream ends, whether its last progress was broadcast or not.
Complete(m) ==
    /\ work[m].at = "pull" /\ ~work[m].aborted /\ Succeeds(m)
    /\ store' = [store EXCEPT ![work[m].host] = @ \cup {m}]
    /\ \/ Shows(m, "full") \/ UNCHANGED <<row, timer>>
    /\ UNCHANGED <<env, local, remote, installed, conf, excused, key, cancel, seen>> /\ Normally

\* The pull fails: the host is too old for the model, or something may pass.
Break(m) ==
    /\ work[m].at = "pull" /\ ~work[m].aborted
    /\ \E again \in BOOLEAN : Fails(m, again)
    /\ Shows(m, "error") /\ Fault
    /\ UNCHANGED <<hosts, key, cancel, seen>>

\* An aborted pull is no error to anyone but the queue.
Abort(m) ==
    /\ work[m].at = "pull" /\ work[m].aborted /\ Fails(m, FALSE)
    /\ UNCHANGED <<hosts, key, cancel, shown>> /\ Normally

\* Cancelling, of a row in progress: the key is set, the job is given four seconds ...
Cancel(m) ==
    /\ Asked /\ Cancellable(m)
    /\ IF job[m].st = "none" THEN row' = [row EXCEPT ![m] = "none"] /\ UNCHANGED <<key, cancel>>
       ELSE key' = key \cup {m} /\ cancel' = [cancel EXCEPT ![m] = "poll"] /\ UNCHANGED row
    /\ UNCHANGED <<hosts, job, work, timer, seen>>

\* ... and removed, with its lock if need be; the row goes.
RemoveJob(m) ==
    /\ cancel[m] = "poll" /\ cancel' = [cancel EXCEPT ![m] = "none"]
    /\ job' = [job EXCEPT ![m] = NoJob]
    /\ row' = [row EXCEPT ![m] = "none"] /\ timer' = timer \cup {m}
    /\ UNCHANGED <<hosts, work, key, seen>> /\ Normally

KeyExpires(m) ==
    /\ m \in key /\ key' = key \ {m}
    /\ UNCHANGED <<hosts, job, work, cancel, shown>> /\ Normally

\* The worker dies; its jobs have stalled and are taken again.
WorkerDies ==
    /\ Fault
    /\ work' = [m \in Names |-> Idle]
    /\ job' = [m \in Names |-> IF job[m].st = "active" THEN [job[m] EXCEPT !.st = "waiting"] ELSE job[m]]
    /\ UNCHANGED <<hosts, key, cancel, shown>>

\* The server dies, with the requests it works on.
ServerDies ==
    /\ Fault
    /\ excused' = (excused \/ Configuring # {})
    /\ conf' = [a \in Admins |-> NoConf] /\ cancel' = [m \in Names |-> "none"]
    /\ UNCHANGED <<env, store, local, remote, installed, job, work, key, shown>>
----------------------------------------------------------------------------
(* The page *)

\* A timer of a row that had ended takes the row away, whatever it shows by then.
TimeOut(m) ==
    /\ m \in timer /\ timer' = timer \ {m} /\ row' = [row EXCEPT ![m] = "none"]
    /\ UNCHANGED <<hosts, jobs, seen>> /\ Normally

Reload ==
    /\ seen' = GetModels
    /\ row' = [m \in Names |-> "none"] /\ timer' = {}
    /\ UNCHANGED <<hosts, jobs>> /\ Normally

\* deleteModel answers the same whether the host has deleted it or not.
Delete(m) ==
    /\ Asked /\ Deletable(m)
    /\ store' = IF BaseUrl \in Ollamas THEN [store EXCEPT ![BaseUrl] = @ \ {m}] ELSE store
    /\ seen' = IF BaseUrl = "none" THEN {} ELSE store'[BaseUrl]
    /\ UNCHANGED <<env, local, remote, installed, conf, excused, jobs, row, timer>>

Works(m) == Take(m) \/ Ready(m) \/ Poll(m) \/ Check(m) \/ Complete(m) \/ Break(m) \/ Abort(m)

Next ==
    \/ \E a \in Admins :
          \/ \E url \in {"none", "ollama", "other"} : Configure(a, url)
          \/ Test(a) \/ StoreUrl(a) \/ StartLocal(a) \/ SaveRow(a) \/ StopLocal(a)
    \/ \E m \in Names :
          \/ Install(m) \/ Works(m) \/ Progress(m) \/ Cancel(m) \/ RemoveJob(m) \/ KeyExpires(m)
          \/ TimeOut(m) \/ Delete(m)
    \/ WorkerDies \/ ServerDies \/ Reload

\* The worker goes on with what it has taken, a minute passes, and so do the seconds of a
\* timer.
Fairness == \A m \in Names : WF_vars(Works(m)) /\ WF_vars(TimeOut(m))
Spec == Init /\ [][Next]_vars
FairSpec == Spec /\ Fairness
----------------------------------------------------------------------------
(* Properties *)

\* The assistant is marked as installed only if a host is configured, the environment names
\* one or a container is there, however often a host is configured and cleared, unless two
\* requests did so at the same time or one was cut short.
InstalledIsReachable ==
    Configuring = {} /\ ~excused => (installed => remote # "none" \/ env.set \/ local # "none")

\* A download whose cancel was polled is not tried again, wherever the poll meets it: before
\* the pull, during it, or after its last byte.
CancelledIsNotRetried ==
    [][\A m \in Names : work[m].aborted /\ job[m].st = "active" =>
                         job'[m].st # "waiting" \/ WorkerDies]_vars

\* What has to end: a download that was asked for, in whatever state its host is.
Unsettled(m) == job[m].st \in {"waiting", "active"}
=============================================================================
