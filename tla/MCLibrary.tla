------------------------------ MODULE MCLibrary ------------------------------
(* What an administrator fills the appliance with and looks after: maps, the    *)
(* Wikipedia package, the list of remote packages, notes and documents, and the *)
(* benchmarks. The parts share nothing, so that a behaviour is of one of them,  *)
(* chosen at the start.                                                         *)
EXTENDS Naturals
CONSTANTS
    Parts, MaxFaults,
    Curated, Global, Regions, Versions, Requests, Slots, Attempts, MapsAsked,
    Options, WikiPages, WikiAsked, MaxMoves,
    Total, PageSize, MaxFetches, Count, Screen, ListAsked,
    Texts, LifePages, LifeCalls, LifeClicks,
    BenchPages, Runs, Tags, Types, Tests, MaxShares

\* What the parts take for granted: bounds are numbers, names are not mixed up, a zoom level or
\* a month is not 0 and one of them is the newest, an option is not "none", and the shell and the worker are no pages.
ASSUME MCLibraryAssumption ==
    /\ {MaxFaults, Attempts, MapsAsked, WikiAsked, MaxMoves, ListAsked, LifeCalls,
        LifeClicks, MaxShares, Total, PageSize, Count, Screen} \subseteq Nat
    /\ Slots \subseteq Nat /\ MaxFetches \in Nat \ {0} /\ Attempts > 0 /\ Tests \in 1 .. 4
    /\ Versions \subseteq Nat \ {0} /\ (\E v \in Versions : \A w \in Versions : v >= w)
    /\ Curated \cap Global = {} /\ (Curated \cup Global) \cap Regions = {}
    /\ "world" \notin Curated \cup Global \cup Regions
    /\ Options \cap {"none", "unknown", "nothing"} = {}
    /\ "none" \notin Texts /\ "notes" \in LifePages /\ LifePages \cap {"dashboard", "api"} = {}
    /\ BenchPages \cap {"shell", "job"} = {} /\ "none" \notin Tags
    /\ Types \subseteq {"full", "system", "ai"} /\ "full" \in Types

VARIABLES
    part,       \* the part whose behaviour this is
    m_disk, m_temp, m_row, m_queue, m_run, m_key, m_cancel, m_drop, m_scan, m_base, m_world,
    m_req, m_used, m_excused,
    w_listed, w_row, w_disk, w_temp, w_job, w_run, w_key, w_events, w_tellers, w_ask,
    w_cancel, w_page, w_used, w_excused,
    e_installed, e_job, e_typed, e_query, e_list, e_req, e_polled, e_confirming,
    e_cancelling, e_used, e_excused,
    l_rows, l_reminders, l_docs, l_form, l_list, l_shown, l_uploading, l_calls, l_typed,
    l_used,
    b_run, b_page, b_result, b_share, b_repository, b_used, b_excused

M == INSTANCE MapLibrary WITH
    MaxAsked <- MapsAsked,
    disk <- m_disk, temp <- m_temp, row <- m_row, queue <- m_queue, run <- m_run,
    key <- m_key, cancel <- m_cancel, drop <- m_drop, scan <- m_scan, base <- m_base,
    world <- m_world, req <- m_req, used <- m_used, excused <- m_excused
W == INSTANCE Wikipedia WITH
    Pages <- WikiPages, MaxAsked <- WikiAsked,
    listed <- w_listed, row <- w_row, disk <- w_disk, temp <- w_temp, job <- w_job,
    run <- w_run, key <- w_key, events <- w_events, tellers <- w_tellers, ask <- w_ask, cancel <- w_cancel, page <- w_page,
    used <- w_used, excused <- w_excused
E == INSTANCE ZimExplorer WITH
    MaxAsked <- ListAsked,
    installed <- e_installed, job <- e_job, typed <- e_typed, query <- e_query,
    list <- e_list, req <- e_req, polled <- e_polled, confirming <- e_confirming,
    cancelling <- e_cancelling, used <- e_used, excused <- e_excused
L == INSTANCE LocalLife WITH
    Pages <- LifePages, MaxCalls <- LifeCalls, MaxClicks <- LifeClicks,
    rows <- l_rows, reminders <- l_reminders, docs <- l_docs, form <- l_form,
    list <- l_list, shown <- l_shown, uploading <- l_uploading, calls <- l_calls,
    typed <- l_typed, used <- l_used
B == INSTANCE Benchmarks WITH
    Pages <- BenchPages, Shell <- "shell", NoTag <- "none",
    run <- b_run, page <- b_page, result <- b_result, share <- b_share,
    repository <- b_repository, used <- b_used, excused <- b_excused

maps == <<m_disk, m_temp, m_row, m_queue, m_run, m_key, m_cancel, m_drop, m_scan, m_base,
    m_world, m_req, m_used, m_excused>>
wikipedia == <<w_listed, w_row, w_disk, w_temp, w_job, w_run, w_key, w_events, w_tellers,
    w_ask, w_cancel, w_page, w_used, w_excused>>
explorer == <<e_installed, e_job, e_typed, e_query, e_list, e_req, e_polled,
    e_confirming, e_cancelling, e_used, e_excused>>
localLife == <<l_rows, l_reminders, l_docs, l_form, l_list, l_shown, l_uploading,
    l_calls, l_typed, l_used>>
benchmarks == <<b_run, b_page, b_result, b_share, b_repository, b_used, b_excused>>
vars == <<part, maps, wikipedia, explorer, localLife, benchmarks>>

\* The other parts stay at the first of their initial states.
Init ==
    /\ part \in Parts
    /\ M!Init /\ W!Init /\ E!Init /\ L!Init /\ B!Init
    /\ part # "maps" => \A r \in M!Resource : m_row[r] = 0
    /\ part # "explorer" => e_installed = {}
    /\ part # "life" => \A i \in L!Ids : l_reminders[i] = "none"

Only(p) ==
    /\ part = p /\ UNCHANGED part
    /\ IF p = "maps" THEN TRUE ELSE UNCHANGED maps
    /\ IF p = "wiki" THEN TRUE ELSE UNCHANGED wikipedia
    /\ IF p = "explorer" THEN TRUE ELSE UNCHANGED explorer
    /\ IF p = "life" THEN TRUE ELSE UNCHANGED localLife
    /\ IF p = "bench" THEN TRUE ELSE UNCHANGED benchmarks

Next ==
    \/ Only("maps") /\ M!Next
    \/ Only("wiki") /\ W!Next
    \/ Only("explorer") /\ E!Next
    \/ Only("life") /\ L!Next
    \/ Only("bench") /\ B!Next

\* The fairness of each part.
Fairness ==
    /\ \A s \in Slots : WF_maps(part = "maps" /\ M!Work(s))
    /\ \A f \in M!File : WF_maps(part = "maps" /\ \E s \in Slots : M!Take(s, f))
    /\ \A p \in WikiPages : WF_wikipedia(part = "wiki" /\ W!Request(p))
    /\ \A s \in Slots : WF_wikipedia(part = "wiki" /\ W!Working(s))
    /\ \A f \in W!File :
          /\ WF_wikipedia(part = "wiki" /\ \E s \in Slots : W!Take(s, f))
          /\ WF_wikipedia(part = "wiki" /\ W!ReadFailed(f))
          /\ WF_wikipedia(part = "wiki" /\ W!Cancelling(f))
    /\ WF_wikipedia(part = "wiki" /\ (\E t \in w_tellers : W!SaveFailed(t)))
    /\ WF_explorer(part = "explorer" /\ E!FirstPage)
    /\ WF_explorer(part = "explorer" /\ E!FetchOnBottom)
    /\ WF_explorer(part = "explorer" /\ E!Search)
    /\ WF_explorer(part = "explorer" /\ E!Poll)
    /\ WF_explorer(part = "explorer" /\ E!Request)
    /\ \A c \in 1 .. LifeCalls : WF_localLife(part = "life" /\ L!Handle(c))
    /\ \A r \in Runs : WF_benchmarks(part = "bench" /\ B!Works(r))

FairSpec == Init /\ [][Next]_vars /\ Fairness
----------------------------------------------------------------------------
(* Properties *)

\* Every part keeps its types.
TypesOK ==
    /\ part = "maps" => M!TypeOK
    /\ part = "wiki" => W!TypeOK
    /\ part = "explorer" => E!TypeOK
    /\ part = "life" => L!TypeOK
    /\ part = "bench" => B!TypeOK

\* What a table or a list says is so: the rows of maps, documents and of the Wikipedia package
\* have their files, a map of the world is whole, the list of packages has all of them, a row
\* has its own text, and a result is in the repository once.
RowsTellTruth ==
    /\ part = "maps" => M!RowHasFile /\ M!WorldIsWhole
    /\ part = "wiki" => W!RowTellsTruth
    /\ part = "explorer" => E!NothingMissed
    /\ part = "life" => L!RowsKeepTheirText /\ L!RowHasFile
    /\ part = "bench" => B!SharedOnce

\* What each part has to wait for.
Waiting ==
    \/ part = "maps" /\ \E f \in M!File : M!Unsettled(f)
    \/ part = "wiki" /\ W!Unsettled
    \/ part = "explorer" /\ E!Unsettled
    \/ part = "life" /\ L!Unsettled
    \/ part = "bench" /\ B!Unsettled

\* What is waited for comes to an end: downloads and extracts, a selected package, the list of
\* packages, an upload, a benchmark; through jobs that are tried again, cancels and processes
\* that die. And what was completed stays so: a reminder.
Settles == L!ReminderStaysDone /\ (Waiting ~> ~Waiting)
=============================================================================
