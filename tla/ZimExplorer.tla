------------------------------ MODULE ZimExplorer ------------------------------
(****************************************************************************)
(* The table of the packages that Kiwix offers. The server asks for pages   *)
(* of the remote library and leaves out what is installed; the page asks    *)
(* for more while its table is not full, hides what is being downloaded,    *)
(* and lists the downloads, where one can be cancelled or dismissed.        *)
(****************************************************************************)
EXTENDS Naturals, FiniteSetsExt

CONSTANTS
    Total,          \* packages of the remote library
    PageSize,       \* entries of an upstream page, 60 in the code
    MaxFetches,     \* upstream pages of one request, 5 in the code
    Count,          \* entries that the page asks for, 12 in the code
    Screen,         \* rows that fill the table
    MaxAsked,       \* BOUND: clicks
    MaxFaults       \* BOUND: failures

VARIABLES
    installed,  \* packages in the directory of the server
    job,        \* their downloads
    typed, query, \* the search as it is typed, and as it is asked
    list,       \* what the page has of the list
    req,        \* the request for more of it
    polled,     \* the downloads as the page shows them
    confirming, cancelling, \* the download whose cancel is asked about, those being cancelled
    used,
    excused     \* history: a package was taken away
vars == <<installed, job, typed, query, list, req, polled, confirming, cancelling, used, excused>>
searched == <<typed, query>>
listing == <<list, req>>
downloads == <<polled, confirming, cancelling>>

Entry == 1 .. Total
Queries == {"", "word"}
\* The remote library is in order, and a search finds every other package of it: how many
\* there are, and which one is the i-th.
Found(q) == IF q = "" THEN Total ELSE Total \div 2
Result(q, i) == IF q = "" THEN i ELSE 2 * i
\* A list tells how often each package is in it; its order is that of the library.
NoItems == [e \in Entry |-> 0]
NoReq == [on |-> FALSE, q |-> "", start |-> 0, had |-> {}, acc |-> NoItems, fetched |-> 0, over |-> FALSE]
Unloaded == [loaded |-> FALSE, items |-> NoItems, next |-> 0, more |-> FALSE]

TypeOK ==
    /\ installed \subseteq Entry /\ job \in [Entry -> {"none", "active", "failed"}]
    /\ typed \in Queries /\ query \in Queries
    /\ list \in [loaded: BOOLEAN, items: [Entry -> Nat], next: 0 .. Total, more: BOOLEAN]
    /\ req \in [on: BOOLEAN, q: Queries, start: 0 .. Total, had: SUBSET Entry, acc: [Entry -> Nat],
                fetched: 0 .. MaxFetches, over: BOOLEAN]
    /\ polled \in [Entry -> {"none", "active", "failed"}] /\ confirming \in 0 .. Total
    /\ cancelling \subseteq Entry /\ excused \in BOOLEAN
    /\ used \in [asked: 0 .. MaxAsked, faults: 0 .. MaxFaults]

Init ==
    /\ installed \in SUBSET Entry /\ job = [e \in Entry |-> "none"] /\ typed = "" /\ query = ""
    /\ list = Unloaded /\ req = NoReq /\ polled = job /\ confirming = 0 /\ cancelling = {}
    /\ used = [asked |-> 0, faults |-> 0] /\ excused = FALSE

Asked == used.asked < MaxAsked /\ used' = [used EXCEPT !.asked = @ + 1]
Fault == used.faults < MaxFaults /\ used' = [used EXCEPT !.faults = @ + 1]
Normally == UNCHANGED used
----------------------------------------------------------------------------
(* listRemote *)

\* How many rows a list has.
Size(items) == MapThenSumSet(LAMBDA e : items[e], Entry)

\* Mutant: the offset advances by what was asked for.
Advanced_Asked(start, n, total) == IF start + PageSize > total THEN total ELSE start + PageSize

\* The offset advances by what was returned.
Advanced(start, n, total) == start + n

\* Mutant: the upstream pages of a request are not counted.
LastFetch_Never == FALSE

\* MAX_KIWIX_FETCHES, so that one request does not walk through the library.
LastFetch == req.fetched + 1 = MaxFetches

\* One upstream page, of any length: what is installed or was seen is left out; an empty one ends
\* the loop, and so does enough of them, or the end of the library.
Fetch ==
    LET found == Found(req.q)
        Page(n) == {Result(req.q, i) : i \in req.start + 1 .. req.start + n}
        Wanted(e) == e \notin req.had /\ req.acc[e] = 0
    IN
    /\ req.on /\ ~req.over
    /\ \E n \in 0 .. PageSize :
        LET acc == [e \in Entry |-> IF e \in Page(n) /\ Wanted(e) THEN 1 ELSE req.acc[e]]
            start == Advanced(req.start, n, found)
        IN /\ req.start + n <= found
           /\ IF n = 0 /\ req.start < found THEN Fault ELSE Normally
           /\ req' = [req EXCEPT !.acc = acc, !.start = start, !.fetched = @ + 1,
                                 !.over = \/ n = 0 \/ Size(acc) >= Count \/ start >= found
                                          \/ LastFetch]
    /\ UNCHANGED <<installed, job, searched, list, downloads, excused>>

\* The answer: for a search that is not the current one it is left in the cache.
Deliver ==
    /\ req.on /\ req.over /\ req' = NoReq
    /\ list' = IF req.q # query THEN list
               ELSE [loaded |-> TRUE, items |-> [e \in Entry |-> list.items[e] + req.acc[e]],
                     next |-> req.start, more |-> req.start < Found(req.q)]
    /\ UNCHANGED <<installed, job, searched, downloads, excused>> /\ Normally

\* A request fails; it is made again.
FetchFails ==
    /\ Fault /\ req.on /\ ~req.over /\ req' = NoReq
    /\ UNCHANGED <<installed, job, searched, list, downloads, excused>>
----------------------------------------------------------------------------
(* The table *)

\* What is shown: without what is being downloaded.
Visible == [e \in Entry |-> IF polled[e] = "none" THEN list.items[e] ELSE 0]

Ask(start) == req' = [NoReq EXCEPT !.on = TRUE, !.q = query, !.start = start, !.had = installed]

\* The first page of a search; the files of the server are read once per request.
FirstPage ==
    /\ ~list.loaded /\ ~req.on /\ Ask(0)
    /\ UNCHANGED <<installed, job, searched, list, downloads, excused>> /\ Normally

\* Mutant: nothing is asked for while nothing is shown.
FetchOnBottom_Shown ==
    /\ list.loaded /\ ~req.on /\ list.more /\ Size(Visible) < Screen /\ Size(Visible) > 0 /\ Ask(list.next)
    /\ UNCHANGED <<installed, job, searched, list, downloads, excused>> /\ Normally

\* fetchOnBottomReached: after every fetch, as long as the table is not full.
FetchOnBottom ==
    /\ list.loaded /\ ~req.on /\ list.more /\ Size(Visible) < Screen /\ Ask(list.next)
    /\ UNCHANGED <<installed, job, searched, list, downloads, excused>> /\ Normally

\* The user scrolls to the end of a full one.
Scroll ==
    /\ Asked /\ list.loaded /\ ~req.on /\ list.more /\ Size(Visible) >= Screen /\ Ask(list.next)
    /\ UNCHANGED <<installed, job, searched, list, downloads, excused>>

\* A word is typed; it is asked for a little later.
Type(q) ==
    /\ Asked /\ typed # q /\ typed' = q
    /\ UNCHANGED <<installed, job, query, listing, downloads, excused>>

\* The list of another search begins again; a request that is under way goes on for the old one.
Search ==
    /\ query # typed /\ query' = typed /\ list' = Unloaded /\ req' = NoReq
    /\ UNCHANGED <<installed, job, typed, downloads, excused>> /\ Normally
----------------------------------------------------------------------------
(* Downloads *)

\* downloadFile, downloadRemote: refused while a download of it runs.
Download(e) ==
    /\ Asked /\ Visible[e] > 0 /\ job[e] # "active" /\ job' = [job EXCEPT ![e] = "active"]
    /\ UNCHANGED <<installed, searched, listing, downloads, excused>>

\* The worker.
Finish(e) ==
    /\ job[e] = "active"
    /\ \/ job' = [job EXCEPT ![e] = "none"] /\ installed' = installed \cup {e} /\ Normally
       \/ job' = [job EXCEPT ![e] = "failed"] /\ UNCHANGED installed /\ Fault
    /\ UNCHANGED <<searched, listing, downloads, excused>>

\* useDownloads polls.
Poll ==
    /\ polled # job /\ polled' = job
    /\ UNCHANGED <<installed, job, searched, listing, confirming, cancelling, excused>> /\ Normally

\* handleDismiss
Dismiss(e) ==
    /\ Asked /\ polled[e] = "failed"
    /\ job' = IF job[e] = "failed" THEN [job EXCEPT ![e] = "none"] ELSE job
    /\ polled' = job'
    /\ UNCHANGED <<installed, searched, listing, confirming, cancelling, excused>>

\* The button asks first; "Keep" takes it back.
Confirm(e) ==
    /\ polled[e] = "active" /\ e \notin cancelling /\ confirming # e /\ confirming' = e
    /\ UNCHANGED <<installed, job, searched, listing, polled, cancelling, excused>> /\ Normally
Keep ==
    /\ confirming # 0 /\ polled[confirming] = "active" /\ confirming' = 0
    /\ UNCHANGED <<installed, job, searched, listing, polled, cancelling, excused>> /\ Normally

\* handleCancel
Cancel(e) ==
    /\ Asked /\ confirming = e /\ polled[e] = "active" /\ confirming' = 0
    /\ cancelling' = cancelling \cup {e}
    /\ UNCHANGED <<installed, job, searched, listing, polled, excused>>

\* The request ends, well or not. The job is gone, and its file too, complete or not.
Cancelled(e) ==
    /\ e \in cancelling /\ cancelling' = cancelling \ {e}
    /\ \/ /\ job' = [job EXCEPT ![e] = "none"] /\ installed' = installed \ {e} /\ excused' = TRUE /\ Normally
       \/ UNCHANGED <<job, installed, excused>> /\ Fault
    /\ polled' = job'
    /\ UNCHANGED <<searched, listing, confirming>>

Page == FirstPage \/ FetchOnBottom \/ Search \/ Poll
Request == Fetch \/ Deliver \/ FetchFails
Next ==
    \/ Page \/ Request \/ Scroll \/ Keep \/ \E q \in Queries : Type(q)
    \/ \E e \in Entry : Download(e) \/ Finish(e) \/ Dismiss(e) \/ Confirm(e) \/ Cancel(e) \/ Cancelled(e)

Spec == Init /\ [][Next]_vars

\* The page runs its effects and timers, the server answers.
Fairness ==
    /\ WF_vars(FirstPage) /\ WF_vars(FetchOnBottom) /\ WF_vars(Search) /\ WF_vars(Poll) /\ WF_vars(Request)
FairSpec == Spec /\ Fairness
----------------------------------------------------------------------------
(* Properties *)

\* At the end of the list everything that is not installed is in it, and nothing twice.
NothingMissed ==
    list.loaded /\ ~list.more =>
        /\ \A e \in Entry : list.items[e] <= 1
        /\ excused \/ \A i \in 1 .. Found(query) :
               Result(query, i) \in installed \/ list.items[Result(query, i)] = 1

\* What has to end: a table with room, while the list goes on. The first pages of the library
\* may be installed as a whole.
Unsettled == Size(Visible) < Screen /\ ~(list.loaded /\ ~list.more)
=============================================================================
