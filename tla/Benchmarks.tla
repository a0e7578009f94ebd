------------------------------ MODULE Benchmarks ------------------------------
(****************************************************************************)
(* Benchmarks. A run measures processor, memory and disk, each in a         *)
(* container of its own, then a model, and stores a result. It is started   *)
(* by a request of the page that waits for it, by a job of the worker or    *)
(* from the command line; every one of them has a BenchmarkService of its   *)
(* own. What a run does is broadcast to every page. A result is shared with *)
(* the community by sending it to a repository and marking it as sent.      *)
(****************************************************************************)
EXTENDS Naturals, Sequences, FiniteSets

CONSTANTS
    Pages,          \* open benchmark pages
    Shell,          \* the command line
    Runs,           \* BOUND: runs
    Tags, NoTag,    \* builder tags
    Types,          \* BOUND: kinds of benchmark, of "full", "system" and "ai"
    Tests,          \* BOUND: how many of the four tests are made
    MaxShares,      \* BOUND: submissions
    MaxFaults       \* BOUND: failures and processes that die

VARIABLES
    run,        \* the runs
    page,       \* what each page shows
    result,     \* the table of results, oldest first
    share,      \* the submissions being made
    repository, \* what the repository has accepted
    used,       \* submissions and faults so far
    excused     \* history: results that two submissions met on, or whose mark was lost
vars == <<run, page, result, share, repository, used, excused>>

Test == <<"cpu", "memory", "read", "write">>
Part == {"cpu", "memory", "read", "write", "tokens", "ttft"}
Weight == [cpu |-> 25, memory |-> 15, read |-> 10, write |-> 10, tokens |-> 30, ttft |-> 10]
AI == {"tokens", "ttft"}

Steps == {"hardware", "image", "create", "test", "ai", "save", "report"}
Run == [at: Steps \cup {"none", "queued", "over"}, via: Pages \cup {Shell, "job"},
        type: Types, i: 1 .. Tests, got: SUBSET Part, again: BOOLEAN, left: BOOLEAN]
Row == [type: Types, ai: BOOLEAN, score: 0 .. 100, tag: Tags \cup {NoTag}, sent: BOOLEAN]
Page == [running: BOOLEAN, shows: {"nothing", "progress", "completed", "error"},
         waits: BOOLEAN, latest: Nat]
Share == [at: {"none", "tag", "look", "post", "save"}, id: Nat, anonymous: BOOLEAN,
          tag: Tags \cup {NoTag}, sends: Tags \cup {NoTag}]
NoRun == [at |-> "none", via |-> "job", type |-> "full", i |-> 1, got |-> {},
          again |-> FALSE, left |-> FALSE]
NoShare == [at |-> "none", id |-> 0, anonymous |-> FALSE, tag |-> NoTag, sends |-> NoTag]
Senders == Pages \cup {Shell}

TypeOK ==
    /\ run \in [Runs -> Run] /\ page \in [Pages -> Page] /\ share \in [Senders -> Share]
    /\ \A i \in DOMAIN result : result[i] \in Row
    /\ \A i \in DOMAIN repository : repository[i].id \in DOMAIN result
    /\ used \in [shares: 0 .. MaxShares, faults: 0 .. MaxFaults]
    /\ excused \subseteq DOMAIN result

Init ==
    /\ run = [r \in Runs |-> NoRun] /\ result = <<>> /\ repository = <<>>
    /\ page = [p \in Pages |-> [running |-> FALSE, shows |-> "nothing", waits |-> FALSE, latest |-> 0]]
    /\ share = [s \in Senders |-> NoShare]
    /\ used = [shares |-> 0, faults |-> 0] /\ excused = {}

Fault == used.faults < MaxFaults /\ used' = [used EXCEPT !.faults = @ + 1]
Normally == UNCHANGED used
Sharing == <<share, repository, excused>>
----------------------------------------------------------------------------
(* Runs *)

\* The status of a BenchmarkService that was made for the request.
ServiceStatus == "idle"

\* A page offers its buttons when it shows no run and waits for no answer.
Startable(p) == ~page[p].running /\ ~page[p].waits

\* While it waits, it steps through stages of its own invention.
Simulated(e) == [e EXCEPT !.shows = "progress"]

\* The buttons of the page: the request runs the benchmark itself.
Start(p, type) ==
    \E r \in Runs :
        /\ Startable(p) /\ run[r].at = "none" /\ ServiceStatus = "idle"
        /\ page' = [page EXCEPT ![p] = Simulated([@ EXCEPT !.running = TRUE, !.waits = TRUE])]
        /\ run' = [run EXCEPT ![r] = [NoRun EXCEPT !.at = "hardware", !.via = p, !.type = type]]
        /\ UNCHANGED <<result, Sharing>> /\ Normally

\* POST /run without sync, /run/system and /run/ai put a job into the queue; the command
\* line runs at once.
Dispatch(type) ==
    \E r \in Runs, via \in {Shell, "job"} :
        /\ run[r].at = "none" /\ ServiceStatus = "idle"
        /\ run' = [run EXCEPT ![r] = [NoRun EXCEPT !.type = type, !.via = via,
                                        !.at = IF via = "job" THEN "queued" ELSE "hardware"]]
        /\ UNCHANGED <<page, result, Sharing>> /\ Normally

\* The worker takes one job of this queue at a time.
Take(r) ==
    /\ run[r].at = "queued" /\ \A q \in Runs : run[q].via = "job" => run[q].at \notin Steps
    /\ run' = [run EXCEPT ![r].at = "hardware"]
    /\ UNCHANGED <<page, result, Sharing>> /\ Normally

\* _updateStatus tells every page, whoever runs; the end of any run ends the waiting.
Told(shows) ==
    [p \in Pages |-> IF shows = "progress" THEN [page[p] EXCEPT !.shows = shows]
                     ELSE [page[p] EXCEPT !.shows = shows, !.running = FALSE,
                                          !.latest = Len(result)]]

\* The run ends; the page that asked for it, if any, is answered, and takes every answer
\* but success for a failure. A container may have been left.
Ends(r, shows, left) ==
    LET told == Told(shows)
        asker == {run[r].via} \cap {p \in Pages : page[p].waits} IN
    /\ run' = [run EXCEPT ![r].at = "over", ![r].left = @ \/ left]
    /\ page' = [p \in Pages |-> IF p \in asker THEN [told[p] EXCEPT !.waits = FALSE] ELSE told[p]]
    /\ UNCHANGED result
Throws(r) == Fault /\ Ends(r, "error", FALSE)
\* An error of a test that has a container: the attempt to remove it may fail as well.
ThrowsBeside(r) == Fault /\ \E left \in BOOLEAN : Ends(r, "error", left)

Goes(r, e) ==
    /\ run' = [run EXCEPT ![r] = e] /\ page' = Told("progress") /\ UNCHANGED result

Hardware(r) ==
    /\ run[r].at = "hardware"
    /\ \/ Goes(r, [run[r] EXCEPT !.at = IF run[r].type = "ai" THEN "ai" ELSE "image"]) /\ Normally
       \/ Throws(r)
    /\ UNCHANGED Sharing

\* The image of sysbench is pulled when it is missing; that the pull failed is seen when
\* a container is to be made of it.
Image(r) ==
    /\ run[r].at = "image"
    /\ \/ Goes(r, [run[r] EXCEPT !.at = "create"]) /\ Normally
       \/ Throws(r)
    /\ UNCHANGED Sharing

Create(r) ==
    /\ run[r].at = "create"
    /\ \/ Goes(r, [run[r] EXCEPT !.at = "test"]) /\ Normally
       \/ ThrowsBeside(r)
    /\ UNCHANGED Sharing

AfterTest(e) ==
    IF e.i < Tests THEN [e EXCEPT !.i = @ + 1, !.at = "create"]
    ELSE [e EXCEPT !.at = IF e.type = "full" THEN "ai" ELSE "save"]

\* The container ends, its output is read, and it is removed; output that does not match
\* counts as zero. A container that cannot be removed is left, and the run goes on.
Measure(r) ==
    LET e == run[r] IN
    /\ e.at = "test"
    /\ \/ Goes(r, AfterTest([e EXCEPT !.got = @ \cup {Test[e.i]}])) /\ Normally
       \/ Goes(r, AfterTest([e EXCEPT !.got = @ \cup {Test[e.i]}, !.left = TRUE])) /\ Fault
       \/ Goes(r, AfterTest(e)) /\ Fault
       \/ ThrowsBeside(r)
    /\ UNCHANGED Sharing

\* The model is fetched if it is missing and asked once; only a full run goes on
\* without it.
Ask(r) ==
    LET e == run[r] IN
    /\ e.at = "ai"
    /\ \/ Goes(r, [e EXCEPT !.at = "save", !.got = @ \cup AI]) /\ Normally
       \/ e.type = "full" /\ Goes(r, [e EXCEPT !.at = "save"]) /\ Fault
       \/ e.type = "ai" /\ Throws(r)
    /\ UNCHANGED Sharing

\* The weighted mean of what was measured, a middling machine having half of full marks:
\* the model counts only when it answered, the system always.
Weigh(parts) ==
    LET W(p) == IF p \in parts THEN Weight[p] ELSE 0
    IN  W("cpu") + W("memory") + W("read") + W("write") + W("tokens") + W("ttft")
Score(got) == (50 * Weigh(got)) \div Weigh((Part \ AI) \cup (got \cap AI))

Save(r) ==
    LET e == run[r] IN
    /\ e.at = "save"
    /\ result' = Append(result, [type |-> e.type, ai |-> AI \subseteq e.got,
                                 score |-> Score(e.got), tag |-> NoTag, sent |-> FALSE])
    /\ run' = [run EXCEPT ![r].at = "report"] /\ page' = Told("progress")
    /\ UNCHANGED Sharing /\ Normally

Report(r) ==
    /\ run[r].at = "report" /\ Ends(r, "completed", FALSE) /\ Normally
    /\ UNCHANGED Sharing

\* Mutant: an answer that does not come is not taken for one.
ServerDies_Unnoticed ==
    /\ Fault
    /\ run' = [r \in Runs |-> IF run[r].via \in Pages /\ run[r].at \in Steps
                              THEN [run[r] EXCEPT !.at = "over"] ELSE run[r]]
    /\ excused' = excused \cup {share[p].id : p \in {q \in Pages : share[q].at = "save"}}
    /\ share' = [s \in Senders |-> IF s = Shell THEN share[s] ELSE NoShare]
    /\ UNCHANGED <<page, result, repository>>

\* The server dies: its runs end where they are, with the container, and the pages that
\* wait get no answer.
ServerDies ==
    /\ Fault
    /\ run' = [r \in Runs |-> IF run[r].via \in Pages /\ run[r].at \in Steps
                              THEN [run[r] EXCEPT !.at = "over", !.left = @ \/ run[r].at = "test"]
                              ELSE run[r]]
    /\ page' = [p \in Pages |-> IF page[p].waits
                  THEN [page[p] EXCEPT !.waits = FALSE, !.running = FALSE, !.shows = "error"]
                  ELSE page[p]]
    /\ excused' = excused \cup {share[p].id : p \in {q \in Pages : share[q].at = "save"}}
    /\ share' = [s \in Senders |-> IF s = Shell THEN share[s] ELSE NoShare]
    /\ UNCHANGED <<result, repository>>

\* The worker dies: its job has stalled and is run again, from the start, once.
WorkerDies ==
    /\ Fault
    /\ run' = [r \in Runs |-> IF run[r].via = "job" /\ run[r].at \in Steps
                 THEN [NoRun EXCEPT !.type = run[r].type, !.again = TRUE,
                                    !.left = run[r].left \/ run[r].at = "test",
                                    !.at = IF run[r].again THEN "over" ELSE "queued"]
                 ELSE run[r]]
    /\ UNCHANGED <<page, result, Sharing>>
----------------------------------------------------------------------------
(* Sharing *)

\* Mutant: submitToRepository does not look whether the result was sent.
Shareable_Again(i) == i \in DOMAIN result /\ result[i].type = "full" /\ result[i].ai

Shareable(i) == i \in DOMAIN result /\ result[i].type = "full" /\ result[i].ai /\ ~result[i].sent

\* The page offers to share the latest result it knows; its selector always has a tag.
Offered(p) == share[p].at = "none" /\ Shareable(page[p].latest)
TagChoices == Tags

ShareClick(p, tag, anonymous) ==
    /\ Offered(p)
    /\ used.shares < MaxShares /\ used' = [used EXCEPT !.shares = @ + 1]
    /\ share' = [share EXCEPT ![p] = [NoShare EXCEPT !.id = page[p].latest, !.tag = tag,
                    !.anonymous = anonymous,
                    !.at = IF anonymous THEN "look" ELSE "tag"]]
    /\ UNCHANGED <<run, page, result, repository, excused>>

\* benchmark:submit, for the latest result or one that is named.
ShareShell(i) ==
    /\ share[Shell].at = "none" /\ i \in DOMAIN result /\ ~result[i].sent
    /\ used.shares < MaxShares /\ used' = [used EXCEPT !.shares = @ + 1]
    /\ share' = [share EXCEPT ![Shell] = [NoShare EXCEPT !.id = i, !.at = "look"]]
    /\ UNCHANGED <<run, page, result, repository, excused>>

\* The chosen tag is stored first.
SaveTag(p) ==
    /\ share[p].at = "tag"
    /\ result' = [result EXCEPT ![share[p].id].tag = share[p].tag]
    /\ share' = [share EXCEPT ![p].at = "look"]
    /\ UNCHANGED <<run, page, repository, excused>> /\ Normally

\* submitToRepository refuses what must not or need not be sent ...
Refused(s) ==
    /\ share[s].at = "look" /\ ~Shareable(share[s].id)
    /\ share' = [share EXCEPT ![s] = NoShare]
    /\ UNCHANGED <<run, page, result, repository, excused>> /\ Normally

Look(s) ==
    /\ share[s].at = "look" /\ Shareable(share[s].id)
    /\ share' = [share EXCEPT ![s].at = "post",
           ![s].sends = IF share[s].anonymous THEN NoTag ELSE result[share[s].id].tag]
    /\ excused' = excused \cup {share[s].id : t \in {u \in Senders \ {s} :
                        share[u].id = share[s].id /\ share[u].at \in {"post", "save"}}}
    /\ UNCHANGED <<run, page, result, repository>> /\ Normally

\* ... and sends the rest. The repository takes it, with or without an answer that arrives
\* in time, or does not.
Post(s) ==
    LET e == share[s]
        taken == Append(repository, [id |-> e.id, tag |-> e.sends, by |-> e]) IN
    /\ e.at = "post"
    /\ \/ /\ repository' = taken /\ share' = [share EXCEPT ![s].at = "save"]
          /\ UNCHANGED excused /\ Normally
       \/ /\ Fault /\ repository' = taken /\ excused' = excused \cup {e.id}
          /\ share' = [share EXCEPT ![s] = NoShare]
       \/ Fault /\ share' = [share EXCEPT ![s] = NoShare] /\ UNCHANGED <<repository, excused>>
    /\ UNCHANGED <<run, page, result>>

\* The result is marked as sent; a page then fetches the latest.
Mark(s) ==
    /\ share[s].at = "save"
    /\ result' = [result EXCEPT ![share[s].id].sent = TRUE]
    /\ share' = [share EXCEPT ![s] = NoShare]
    /\ page' = IF s = Shell THEN page ELSE [page EXCEPT ![s].latest = Len(result)]
    /\ UNCHANGED <<run, repository, excused>> /\ Normally

Works(r) ==
    \/ Take(r) \/ Hardware(r) \/ Image(r) \/ Create(r) \/ Measure(r) \/ Ask(r) \/ Save(r)
    \/ Report(r)

Next ==
    \/ \E p \in Pages, type \in Types : Start(p, type)
    \/ \E type \in Types : Dispatch(type)
    \/ \E r \in Runs : Works(r)
    \/ ServerDies \/ WorkerDies
    \/ \E p \in Pages, tag \in TagChoices, anonymous \in BOOLEAN : ShareClick(p, tag, anonymous)
    \/ \E i \in DOMAIN result : ShareShell(i)
    \/ \E p \in Pages : SaveTag(p)
    \/ \E s \in Senders : Refused(s) \/ Look(s) \/ Post(s) \/ Mark(s)

\* A run goes on as long as its process lives.
Fairness == \A r \in Runs : WF_vars(Works(r))
Spec == Init /\ [][Next]_vars
FairSpec == Spec /\ Fairness
----------------------------------------------------------------------------
(* Properties *)

\* A result is in the repository once, however pages and the command line share it, unless
\* two of them were sending it at the same time or the mark was lost.
SharedOnce ==
    \A i, j \in DOMAIN repository :
        repository[i].id = repository[j].id => i = j \/ repository[i].id \in excused

\* What has to end: a benchmark that a page runs or waits for.
Unsettled == \E p \in Pages : page[p].running
=============================================================================
