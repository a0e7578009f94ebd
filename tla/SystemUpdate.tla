----------------------------- MODULE SystemUpdate -----------------------------
(****************************************************************************)
(* The update of MONAD itself. The settings pages ask the server, which     *)
(* writes a request file into a shared directory; an updater, either the    *)
(* side car (update-watcher.sh) or the daemon of the host                   *)
(* (monad_updater_daemon.py), removes it, edits the compose file, pulls the *)
(* images, recreates the containers, that of the server first, and tells    *)
(* how far it is in a status file which the pages poll. Beside it the       *)
(* server keeps what it knows of the newest release.                        *)
(****************************************************************************)
EXTENDS Naturals, FiniteSets

CONSTANTS
    Kinds,          \* the updaters considered: "sidecar", "daemon"
    Pages,          \* open pages
    Watcher,        \* the loop that looks for the request file
    Callers,        \* HTTP calls the daemon serves at the same time
    NoOne,
    Services,       \* containers to recreate, the server is number 1
    MaxVersion,     \* BOUND: releases
    Latest, Blank,  \* the tag "latest" and the empty tag
    NoFile, Empty,  \* no request file, a file truncated and not yet written
    MaxRequests,    \* BOUND: updates started from pages and calls of the daemon
    MaxChecks,      \* BOUND: forced looks for a release
    MaxFaults       \* BOUND: faults

Version == 1 .. MaxVersion
Tag == Version \cup {Latest, Blank}
Actors == Callers \cup {Watcher}

ASSUME UpdateAssumption ==
    /\ Kinds \subseteq {"sidecar", "daemon"}
    /\ Services \in Nat \ {0} /\ MaxVersion \in Nat \ {0}
    /\ Watcher \notin Callers /\ NoOne \notin Actors
    /\ {MaxRequests, MaxChecks, MaxFaults} \subseteq Nat
    /\ NoFile \notin Tag /\ Empty \notin Tag /\ Latest \notin Version /\ Blank \notin Version
    /\ NoFile # Empty /\ Latest # Blank

VARIABLES
    kind,       \* which updater is installed
    request,    \* the request file
    status,     \* the stage in the status file
    compose,    \* the tag of the server's image in the compose file
    image,      \* the version that tag had when it was pulled
    server,     \* "down", "booting", "fresh" before its self-heal, "up"
    running,    \* the version the server runs
    kv,         \* what the server knows of the newest release
    released,   \* the newest release
    upd,        \* the threads of the updater
    lock,       \* who holds the daemon's lock
    page,       \* the pages
    ask,        \* their requests for an update, in the server
    chk,        \* their forced looks for a release, in the server
    job,        \* CheckUpdateJob
    used,       \* requests, checks and faults so far
    past        \* history: what a promise may except

disk == <<request, status, compose, image>>
serverVars == <<server, running, kv, job>>
pageVars == <<page, ask, chk>>
vars == <<kind, disk, serverVars, released, upd, lock, pageVars, used, past>>

Running == {"starting", "preparing", "pulling", "pulled", "recreating"}
Stage == Running \cup {"idle", "checking", "complete", "error"}

\* A thread of the updater: what it does, the stage it writes, tag and container.
Thread == [at: {"poll", "remove", "lock", "say", "saying", "list", "tag", "pull",
                "stop", "up", "linger", "idle"},
           say: Stage, op: {"update", "check"}, tag: Tag, i: 1 .. Services]

\* A page: its state; seen is seenAdvancedStageRef; avail is what it offers. Since
\* the update was started: polled, that it has polled since the last status; runs,
\* how runs ended; stale, that the status was then that of an earlier run.
Page == [st: {"ready", "updating", "done"}, seen: BOOLEAN, avail: BOOLEAN,
         polled: BOOLEAN, stale: BOOLEAN,
         runs: SUBSET {"complete", "error", "crash"}]

Ask == [at: {"none", "check", "open", "write"}, tag: Tag, fd: BOOLEAN]
Check == [at: {"none", "fetch", "avail", "latest"}, got: Version]

NoThread == [at |-> "idle", say |-> "idle", op |-> "update", tag |-> Latest, i |-> 1]
Polling == [NoThread EXCEPT !.at = "poll"]
NoAsk == [at |-> "none", tag |-> Latest, fd |-> FALSE]
NoCheck == [at |-> "none", got |-> 1]
Fresh(avail) == [st |-> "ready", seen |-> FALSE, avail |-> avail,
                 polled |-> FALSE, stale |-> FALSE, runs |-> {}]

TypeOK ==
    /\ kind \in Kinds
    /\ request \in Tag \cup {NoFile, Empty}
    /\ status \in Stage \cup {"halfway"}
    /\ compose \in Tag /\ image \in Version
    /\ server \in {"down", "booting", "fresh", "up"} /\ running \in Version
    /\ kv \in [avail: BOOLEAN, latest: 0 .. MaxVersion]
    /\ released \in Version
    /\ upd \in [Actors -> Thread] /\ lock \in Actors \cup {NoOne}
    /\ page \in [Pages -> Page] /\ ask \in [Pages -> Ask] /\ chk \in [Pages -> Check]
    /\ job \in {"none", "write"}
    /\ used \in [requests: 0 .. MaxRequests, checks: 0 .. MaxChecks,
                 faults: 0 .. MaxFaults]
    /\ past \subseteq {"late", "overlap", "torn", "crash"}

\* A server that runs the first release and has looked for a release, or has not.
Init ==
    /\ kind \in Kinds
    /\ request = NoFile /\ status = "idle"
    /\ compose = Latest /\ image = 1
    /\ server = "up" /\ running = 1 /\ released \in Version
    /\ \E v \in {0, released} : kv = [avail |-> v > 1, latest |-> v]
    /\ upd = [a \in Actors |-> IF a = Watcher THEN Polling ELSE NoThread]
    /\ lock = NoOne
    /\ page = [p \in Pages |-> Fresh(kv.avail)]
    /\ ask = [p \in Pages |-> NoAsk] /\ chk = [p \in Pages |-> NoCheck]
    /\ job = "none"
    /\ used = [requests |-> 0, checks |-> 0, faults |-> 0]
    /\ past = {}

Serving == server \in {"fresh", "up"}
Fault == used.faults < MaxFaults /\ used' = [used EXCEPT !.faults = @ + 1]
Normally == UNCHANGED used
----------------------------------------------------------------------------
(* The updater *)

Thus(a, u) == upd' = [upd EXCEPT ![a] = u]
Saying(a, stage) == [upd[a] EXCEPT !.at = "say", !.say = stage]
Freed(a) == IF lock = a THEN NoOne ELSE lock
Ended(a) == IF a = Watcher THEN Polling ELSE NoThread
\* Every page that waits for an update remembers how a run ended.
Remember(ends) ==
    page' = [p \in Pages |->
        IF page[p].st = "updating"
        THEN [page[p] EXCEPT !.polled = FALSE, !.runs = @ \cup ends] ELSE page[p]]

\* The watcher reads the request file. The server may just have truncated it: jq
\* then prints no tag at all, the daemon takes the default.
ReadRequest ==
    /\ upd[Watcher].at = "poll" /\ request # NoFile
    /\ Thus(Watcher, [upd[Watcher] EXCEPT !.at = "remove", !.op = "update",
          !.tag = IF request # Empty THEN request
                  ELSE IF kind = "sidecar" THEN Blank ELSE Latest])
    /\ UNCHANGED <<kind, disk, serverVars, released, lock, pageVars, past>> /\ Normally

\* It removes the file it finds now, which a server still writing has open.
RemoveRequest ==
    /\ upd[Watcher].at = "remove"
    /\ request' = NoFile
    /\ ask' = [p \in Pages |-> [ask[p] EXCEPT !.fd = FALSE]]
    /\ Thus(Watcher, IF kind = "sidecar" THEN Saying(Watcher, "starting")
                     ELSE [upd[Watcher] EXCEPT !.at = "lock"])
    /\ UNCHANGED <<kind, status, compose, image, serverVars, released, lock, page, chk, past>>
    /\ Normally

\* A call of the daemon: an update with the default tag, or a check. The daemon
\* writes "idle" before it serves any.
Post(c) ==
    /\ kind = "daemon" /\ upd[c].at = "idle"
    /\ upd[Watcher].say = "idle" => upd[Watcher].at \notin {"say", "saying"}
    /\ used.requests < MaxRequests /\ used' = [used EXCEPT !.requests = @ + 1]
    /\ \E op \in {"update", "check"} : Thus(c, [NoThread EXCEPT !.at = "lock", !.op = op])
    /\ UNCHANGED <<kind, disk, serverVars, released, lock, pageVars, past>>

\* Mutant: a daemon that serves its calls without a lock.
Acquire_Unlocked(a) ==
    /\ upd[a].at = "lock" /\ lock' = a
    /\ Thus(a, Saying(a, IF upd[a].op = "check" THEN "checking" ELSE "starting"))
    /\ UNCHANGED <<kind, disk, serverVars, released, pageVars, past>> /\ Normally

Acquire(a) ==
    /\ upd[a].at = "lock" /\ lock = NoOne
    /\ lock' = a
    /\ Thus(a, Saying(a, IF upd[a].op = "check" THEN "checking" ELSE "starting"))
    /\ UNCHANGED <<kind, disk, serverVars, released, pageVars, past>> /\ Normally

\* write_status truncates the file ...
Truncate(a) ==
    /\ upd[a].at = "say"
    /\ status' = "halfway"
    /\ Thus(a, [upd[a] EXCEPT !.at = "saying"])
    /\ UNCHANGED <<kind, request, compose, image, serverVars, released, lock, pageVars, past>>
    /\ Normally

\* ... and writes it; what comes next depends on the stage.
After(a) ==
    LET u == upd[a] IN
    CASE u.say = "starting" /\ kind = "daemon" -> Saying(a, "preparing")
      [] u.say = "preparing" \/ (u.say = "starting" /\ kind = "sidecar") -> [u EXCEPT !.at = "tag"]
      [] u.say = "checking" -> [u EXCEPT !.at = "list"]
      [] u.say = "pulling" -> [u EXCEPT !.at = "pull"]
      [] u.say = "pulled" -> [u EXCEPT !.at = "linger"]
      [] u.say = "recreating" -> [u EXCEPT !.at = "stop"]
      [] u.say \in {"complete", "error"} /\ kind = "sidecar" -> [u EXCEPT !.at = "linger"]
      [] OTHER -> Ended(a)

WriteStatus(a) ==
    LET u == upd[a] IN
    /\ u.at = "saying"
    /\ status' = u.say
    /\ Thus(a, After(a))
    /\ lock' = IF u.say \in {"complete", "idle"} THEN Freed(a) ELSE lock
    /\ Remember(IF u.op = "update" THEN {u.say} \cap {"complete", "error"} ELSE {})
    /\ past' = IF u.say = "error" /\ lock # NoOne THEN past \cup {"late"} ELSE past
    /\ UNCHANGED <<kind, request, compose, image, serverVars, released, ask, chk>> /\ Normally

\* A step fails: the side car says so and returns, the daemon leaves the lock first.
Fails(a) ==
    /\ Thus(a, Saying(a, "error")) /\ lock' = Freed(a)
    /\ Remember(IF upd[a].op = "update" THEN {"error"} ELSE {})
Succeeds(a, u) == Thus(a, u) /\ UNCHANGED <<lock, page>> /\ Normally

\* The side car's sed wants a tag to replace, an empty one stays.
ApplyTag(a) ==
    /\ upd[a].at = "tag"
    /\ \/ /\ compose' = IF kind = "sidecar" /\ compose = Blank THEN Blank ELSE upd[a].tag
          /\ Succeeds(a, Saying(a, "pulling"))
       \/ Fault /\ Fails(a) /\ UNCHANGED compose
    /\ UNCHANGED <<kind, request, status, image, serverVars, released, ask, chk, past>>

ListImages(a) ==
    /\ upd[a].at = "list"
    /\ Succeeds(a, [upd[a] EXCEPT !.at = "pull"]) \/ (Fault /\ Fails(a))
    /\ UNCHANGED <<kind, disk, serverVars, released, ask, chk, past>>

\* Mutant: the name of the tag is kept in place of the release it stands for.
Resolved_Name(tag) == tag

Resolved(tag) == IF tag = Latest THEN released ELSE tag

\* Mutant: the daemon leaves its lock before it says how a check ended.
Pull_LeavesLock(a) ==
    /\ upd[a].at = "pull"
    /\ compose # Blank /\ image' = Resolved(compose)
    /\ Thus(a, Saying(a, IF upd[a].op = "check" THEN "idle" ELSE "recreating"))
    /\ lock' = IF upd[a].op = "check" THEN Freed(a) ELSE lock
    /\ UNCHANGED <<kind, request, status, compose, serverVars, released, pageVars, used, past>>

Pull(a) ==
    /\ upd[a].at = "pull"
    /\ \/ /\ compose # Blank /\ image' = Resolved(compose)
          /\ Succeeds(a, Saying(a, IF upd[a].op = "check" THEN "idle"
                                   ELSE IF kind = "sidecar" THEN "pulled" ELSE "recreating"))
       \/ (IF compose = Blank THEN Normally ELSE Fault) /\ Fails(a) /\ UNCHANGED image
    /\ UNCHANGED <<kind, request, status, compose, serverVars, released, ask, chk, past>>

\* What a server that stops leaves half stored.
Torn == IF \E p \in Pages : chk[p].at = "latest" THEN {"torn"} ELSE {}

\* The server goes and its requests with it; the pages see their calls fail.
ServerStops ==
    /\ ask' = [p \in Pages |-> NoAsk] /\ chk' = [p \in Pages |-> NoCheck] /\ job' = "none"
    /\ page' = [p \in Pages |->
         IF ask[p].at # "none" /\ page[p].st = "updating"
         THEN [page[p] EXCEPT !.st = "ready"] ELSE page[p]]

Stop(a) ==
    /\ upd[a].at = "stop"
    /\ Thus(a, [upd[a] EXCEPT !.at = "up"])
    /\ IF upd[a].i = 1 THEN server' = "down" /\ ServerStops /\ past' = past \cup Torn
       ELSE UNCHANGED <<server, pageVars, job, past>>
    /\ UNCHANGED <<kind, disk, running, kv, released, lock>> /\ Normally

Up(a) ==
    LET u == upd[a] IN
    /\ u.at = "up"
    /\ \/ /\ Succeeds(a, IF u.i < Services
                         THEN [Saying(a, "recreating") EXCEPT !.i = @ + 1]
                         ELSE Saying(a, "complete"))
          /\ IF u.i = 1 THEN server' = "booting" /\ running' = image
             ELSE UNCHANGED <<server, running>>
       \/ Fault /\ Fails(a) /\ UNCHANGED <<server, running>>
    /\ UNCHANGED <<kind, disk, kv, job, released, ask, chk, past>>

\* The pauses of the side car, two seconds after "pulled" and five before "idle",
\* are no shorter than the two seconds between the polls of a page.
Linger ==
    LET u == upd[Watcher] IN
    /\ u.at = "linger"
    /\ Serving => \A p \in Pages : page[p].st = "updating" => page[p].polled
    /\ Thus(Watcher, Saying(Watcher, IF u.say = "pulled" THEN "recreating" ELSE "idle"))
    /\ UNCHANGED <<kind, disk, serverVars, released, lock, pageVars, past>> /\ Normally

Restarted == [a \in Actors |-> IF a = Watcher THEN [NoThread EXCEPT !.at = "say"] ELSE NoThread]

\* The updater dies and is started again.
Crash ==
    /\ Fault
    /\ upd' = Restarted /\ lock' = NoOne
    /\ Remember({"crash"}) /\ past' = past \cup {"crash"}
    /\ UNCHANGED <<kind, disk, serverVars, released, ask, chk>>

\* An operator runs update_monad.sh: pull, then recreate every container, the side
\* car among them.
Script ==
    /\ Fault /\ compose # Blank
    /\ image' = Resolved(compose) /\ running' = Resolved(compose)
    /\ server' = "booting"
    /\ ask' = [p \in Pages |-> NoAsk] /\ chk' = [p \in Pages |-> NoCheck] /\ job' = "none"
    /\ page' = [p \in Pages |->
         IF page[p].st # "updating" THEN page[p]
         ELSE IF ask[p].at # "none" THEN [page[p] EXCEPT !.st = "ready"]
         ELSE [page[p] EXCEPT !.runs = @ \cup {"crash"}]]
    /\ IF kind = "sidecar" THEN upd' = Restarted ELSE UNCHANGED upd
    /\ past' = past \cup Torn \cup {"crash"}
    /\ UNCHANGED <<kind, request, status, compose, kv, released, lock>>
----------------------------------------------------------------------------
(* The server *)

\* The server starts, and later clears an offer it has caught up with.
Boot ==
    /\ server = "booting" /\ server' = "fresh"
    /\ UNCHANGED <<kind, disk, running, kv, job, released, upd, lock, pageVars, past>> /\ Normally

Newer(v) == v > running

\* Mutant: the self-heal leaves the offer.
Heal_Leaves ==
    /\ server = "fresh" /\ server' = "up"
    /\ UNCHANGED <<kind, disk, running, kv, job, released, upd, lock, pageVars, past>> /\ Normally

Heal ==
    /\ server = "fresh" /\ server' = "up"
    /\ kv' = IF kv.latest # 0 /\ ~Newer(kv.latest) THEN [kv EXCEPT !.avail = FALSE] ELSE kv
    /\ UNCHANGED <<kind, disk, running, job, released, upd, lock, pageVars, past>> /\ Normally

Busy == Running \cup {"checking"}
Refuse(p) ==
    /\ ask' = [ask EXCEPT ![p] = NoAsk]
    /\ page' = [page EXCEPT ![p].st = IF @ = "updating" THEN "ready" ELSE @]

\* requestUpdate reads the status, of which half a file is as good as none ...
RequestCheck(p) ==
    /\ ask[p].at = "check"
    /\ IF status \in Busy THEN Refuse(p)
       ELSE /\ ask' = [ask EXCEPT ![p].at = "open",
                          ![p].tag = IF kv.latest = 0 THEN Latest ELSE kv.latest]
            /\ UNCHANGED page
    /\ UNCHANGED <<kind, disk, serverVars, released, upd, lock, chk, past>> /\ Normally

\* ... truncates the request file or makes one ...
RequestOpen(p) ==
    /\ ask[p].at = "open"
    /\ request' = Empty
    /\ ask' = [ask EXCEPT ![p].at = "write", ![p].fd = TRUE]
    /\ UNCHANGED <<kind, status, compose, image, serverVars, released, upd, lock, page, chk, past>>
    /\ Normally

\* ... and writes into it, whether it still has a name or not.
RequestWrite(p) ==
    /\ ask[p].at = "write"
    /\ request' = IF ask[p].fd THEN ask[p].tag ELSE request
    /\ ask' = [ask EXCEPT ![p] = NoAsk]
    /\ UNCHANGED <<kind, status, compose, image, serverVars, released, upd, lock, page, chk, past>>
    /\ Normally

\* A forced checkLatestVersion: GitHub answers, or does not ...
Fetch(p) ==
    /\ chk[p].at = "fetch"
    /\ \/ /\ chk' = [chk EXCEPT ![p] = [at |-> "avail", got |-> released]]
          /\ UNCHANGED page /\ Normally
       \/ /\ Fault /\ chk' = [chk EXCEPT ![p] = NoCheck]
          /\ page' = [page EXCEPT ![p].avail = FALSE]
    /\ UNCHANGED <<kind, disk, serverVars, released, upd, lock, ask, past>>

Overlap(p) == IF \E q \in Pages \ {p} : chk[q].at \in {"avail", "latest"}
              THEN past \cup {"overlap"} ELSE past

\* ... and the two values are stored one after the other.
StoreAvail(p) ==
    /\ chk[p].at = "avail"
    /\ kv' = [kv EXCEPT !.avail = Newer(chk[p].got)]
    /\ chk' = [chk EXCEPT ![p].at = "latest"]
    /\ past' = Overlap(p)
    /\ UNCHANGED <<kind, disk, server, running, job, released, upd, lock, page, ask>> /\ Normally

StoreLatest(p) ==
    /\ chk[p].at = "latest"
    /\ kv' = [kv EXCEPT !.latest = chk[p].got]
    /\ chk' = [chk EXCEPT ![p] = NoCheck]
    /\ page' = [page EXCEPT ![p].avail = Newer(chk[p].got)]
    /\ past' = Overlap(p)
    /\ UNCHANGED <<kind, disk, server, running, job, released, upd, lock, ask>> /\ Normally

\* CheckUpdateJob asks checkLatestVersion without force, so for what is stored ...
JobReads ==
    /\ Serving /\ job = "none" /\ ~kv.avail
    /\ job' = "write"
    /\ UNCHANGED <<kind, disk, server, running, kv, released, upd, lock, pageVars, past>>
    /\ Normally

\* ... and withdraws the offer when there was none.
JobWrites ==
    /\ job = "write" /\ job' = "none"
    /\ kv' = [kv EXCEPT !.avail = FALSE]
    /\ UNCHANGED <<kind, disk, server, running, released, upd, lock, pageVars, past>> /\ Normally
----------------------------------------------------------------------------
(* The pages, and the world *)

Advanced == {"pulling", "pulled", "recreating", "complete"}

\* Mutant: seenAdvancedStageRef is not reset.
Start_KeepsSeen(p) ==
    /\ Serving /\ page[p].st = "ready" /\ page[p].avail /\ ask[p].at = "none"
    /\ used.requests < MaxRequests /\ used' = [used EXCEPT !.requests = @ + 1]
    /\ page' = [page EXCEPT ![p] = [Fresh(TRUE) EXCEPT !.st = "updating",
                          !.seen = page[p].seen, !.stale = status \in Advanced]]
    /\ ask' = [ask EXCEPT ![p] = [NoAsk EXCEPT !.at = "check"]]
    /\ UNCHANGED <<kind, disk, serverVars, released, upd, lock, chk, past>>

\* "Start Update": polling begins before the server has answered.
Start(p) ==
    /\ Serving /\ page[p].st = "ready" /\ page[p].avail /\ ask[p].at = "none"
    /\ used.requests < MaxRequests /\ used' = [used EXCEPT !.requests = @ + 1]
    /\ page' = [page EXCEPT ![p] = [Fresh(TRUE) EXCEPT !.st = "updating",
                                        !.stale = status \in Advanced]]
    /\ ask' = [ask EXCEPT ![p] = [NoAsk EXCEPT !.at = "check"]]
    /\ UNCHANGED <<kind, disk, serverVars, released, upd, lock, chk, past>>

\* Mutant: a page that goes on after an error.
Poll_Hopes(p) ==
    /\ page[p].st = "updating"
    /\ page' = [page EXCEPT ![p].polled = TRUE,
         ![p].seen = Serving /\ (@ \/ status \in Advanced),
         ![p].st = IF Serving /\ (status = "complete" \/ (status = "idle" /\ page[p].seen))
                   THEN "done" ELSE @]
    /\ UNCHANGED <<kind, disk, serverVars, released, upd, lock, ask, chk, past>> /\ Normally

\* One poll: no answer, an answer that ends the update, an error, or progress.
Poll(p) ==
    LET g == page[p]
        seen == g.seen \/ status \in Advanced
        told == [g EXCEPT !.seen = seen, !.polled = TRUE] IN
    /\ g.st = "updating"
    /\ page' = [page EXCEPT ![p] =
         IF ~Serving \/ status = "halfway" THEN [g EXCEPT !.polled = TRUE]
         ELSE IF status = "complete" \/ (status = "idle" /\ seen) THEN [told EXCEPT !.st = "done"]
         ELSE IF status = "error" THEN [told EXCEPT !.st = "ready"]
         ELSE told]
    /\ UNCHANGED <<kind, disk, serverVars, released, upd, lock, ask, chk, past>> /\ Normally

\* A page that believes to be done looks for a release, as "Check Again" does ...
Recheck(p) ==
    /\ Serving /\ page[p].st \in {"ready", "done"} /\ chk[p].at = "none"
    /\ used.checks < MaxChecks /\ used' = [used EXCEPT !.checks = @ + 1]
    /\ chk' = [chk EXCEPT ![p].at = "fetch"]
    /\ UNCHANGED <<kind, disk, serverVars, released, upd, lock, page, ask, past>>

\* ... and is loaded again, whatever came of it.
Reload(p) ==
    /\ Serving /\ page[p].st = "done" /\ chk[p].at = "none"
    /\ page' = [page EXCEPT ![p] = Fresh(kv.avail)]
    /\ UNCHANGED <<kind, disk, serverVars, released, upd, lock, ask, chk, past>> /\ Normally

Release ==
    /\ released < MaxVersion /\ released' = released + 1
    /\ UNCHANGED <<kind, disk, serverVars, upd, lock, pageVars, past>> /\ Normally

Works(a) ==
    \/ Acquire(a) \/ Truncate(a) \/ WriteStatus(a) \/ ApplyTag(a) \/ ListImages(a)
    \/ Pull(a) \/ Stop(a) \/ Up(a)
Answers(p) ==
    \/ RequestCheck(p) \/ RequestOpen(p) \/ RequestWrite(p)
    \/ Fetch(p) \/ StoreAvail(p) \/ StoreLatest(p)

Next ==
    \/ ReadRequest \/ RemoveRequest \/ Linger \/ Crash \/ Script
    \/ \E a \in Actors : Works(a)
    \/ \E c \in Callers : Post(c)
    \/ \E p \in Pages : Answers(p) \/ Start(p) \/ Poll(p) \/ Recheck(p) \/ Reload(p)
    \/ Boot \/ Heal \/ JobReads \/ JobWrites \/ Release

Spec == Init /\ [][Next]_vars

\* The watcher loops, the server starts and answers, timers fire.
Fairness ==
    /\ WF_vars(ReadRequest \/ RemoveRequest \/ Linger) /\ WF_vars(Works(Watcher))
    /\ WF_vars(Boot) /\ WF_vars(Heal) /\ WF_vars(JobReads) /\ WF_vars(JobWrites)
    /\ \A p \in Pages : WF_vars(Answers(p)) /\ WF_vars(Poll(p))
FairSpec == Spec /\ Fairness
----------------------------------------------------------------------------
(* Properties *)

\* A thread that is in the middle of an update, from its first status to its last.
Working(a) ==
    /\ upd[a].op = "update"
    /\ \/ upd[a].at \in {"tag", "pull", "stop", "up"}
       \/ upd[a].at \in {"say", "linger"} /\ upd[a].say \in Running \ {"starting"}
       \/ upd[a].at = "saying" /\ upd[a].say \in Running

\* While an update is being made the status file says so, or is just being written:
\* only so is a second request refused (system_update_service.ts:33). The daemon
\* reports a failure after it has left its lock, perhaps over the next run ("late").
RunningIsShown ==
    \A a \in Actors : Working(a) => status \in Running \cup {"halfway"} \/ "late" \in past

\* Two updates never edit the compose file and recreate containers side by side,
\* whether they come from the request file or from calls of the daemon.
OneRunAtATime == \A a, b \in Actors : Working(a) /\ Working(b) => a = b

\* A page that takes its update for complete has lived through the end of a run since
\* it asked, except where the status of an earlier run was still there: a missed
\* "complete" is guessed from "idle" (update.tsx:307), never from too early a one.
CompletionIsOfARun ==
    \A p \in Pages : page[p].st = "done" => page[p].runs # {} \/ page[p].stale

\* What the server offers is newer than what it runs, once it has healed itself and
\* no look for a release is between its two writes, has been stopped there, or has met
\* another.
OfferIsNewer ==
    server = "up" /\ kv.avail /\ (\A p \in Pages : chk[p].at # "latest")
        => Newer(kv.latest) \/ past \cap {"overlap", "torn"} # {}

\* What is shown and offered is so, of the update that is made, of its end and of a release.
StatusTellsTruth == RunningIsShown /\ CompletionIsOfARun /\ OfferIsNewer

\* With the side car a page never waits for ever: a request is refused, or a run ends
\* and is seen, unless the server is not coming back or the updater was interrupted.
PageSettles ==
    \A p \in Pages : (kind = "sidecar" /\ page[p].st = "updating") ~>
        (page[p].st # "updating" \/ server = "down" \/ "crash" \in past)
=============================================================================
