--------------------------- MODULE ServiceContainers ---------------------------
(****************************************************************************)
(* One service, its row in the services table and its containers in Docker. *)
(* Requests install, reinstall, update, start, stop and restart it; every   *)
(* page that lists the services also syncs the row with Docker, and a job   *)
(* looks for newer images.  A request gets a DockerService of its own from  *)
(* the framework, so activeInstallations and the status cache of one        *)
(* request are seen by no other and the requests meet only in the row and   *)
(* in Docker.                                                               *)
(****************************************************************************)
EXTENDS Naturals, FiniteSets

CONSTANTS
    Slots,          \* requests that can run at the same time
    Ids,            \* BOUND: the containers that can be created
    MaxVersion,     \* BOUND: the image tags, ordered by age
    MaxOps,         \* BOUND: requests in one behaviour
    MaxFaults,      \* BOUND: faults in one behaviour
    Kinds,          \* the operations requested
    None

Versions == 1 .. MaxVersion
Ops == {"install", "reinstall", "update", "start", "stop", "restart", "read", "check"}
Faults == {"docker", "dies", "by hand"}

ASSUME ServiceAssumption ==
    /\ None \notin Ids /\ None \notin Versions
    /\ MaxVersion \in Nat \ {0} /\ MaxOps \in Nat /\ MaxFaults \in Nat
    /\ Kinds \subseteq Ops

VARIABLES
    row,        \* the row of the service
    docker,     \* containers by id
    req,        \* the request of every slot
    met,        \* history: operations and faults that ran while the request did
    ops,        \* requests so far
    faults,     \* faults so far
    past        \* history: the server has gone down in the middle of a request, and
                \* a container was removed by an installation or by hand

vars == <<row, docker, req, met, ops, faults, past>>

Row == [installed: BOOLEAN, status: {"idle", "installing", "error"},
        image: Versions, avail: Versions \cup {None}]

\* "main" is the container /<service_name>, "old" is /<service_name>_old.
Container == [name: {"unused", "main", "old", "gone"}, running: BOOLEAN, image: Versions]

Steps == {"done", "mark", "pull", "find", "stop", "drop", "unset", "rename", "create",
          "boot", "record", "clean", "sweep", "remove", "health", "tidy", "purge", "discard",
          "back", "restore", "restart", "act", "list", "sync", "offer"}
Results == {"none", "refused", "ok", "failed", "installed", "updated", "rolled back"}

Request == [op: Ops, at: Steps, row: Row, seen: Ids \cup {None}, made: Ids \cup {None},
            to: Versions, again: BOOLEAN, result: Results]

NewRow == [installed |-> FALSE, status |-> "idle", image |-> 1, avail |-> None]
NoRequest(result) ==
    [op |-> "read", at |-> "done", row |-> NewRow, seen |-> None, made |-> None, to |-> 1,
     again |-> TRUE, result |-> result]

TypeOK ==
    /\ row \in Row
    /\ docker \in [Ids -> Container]
    /\ req \in [Slots -> Request]
    /\ met \in [Slots -> SUBSET (Ops \cup Faults)]
    /\ ops \in 0 .. MaxOps
    /\ faults \in 0 .. MaxFaults
    /\ past \subseteq {"down", "cleared"}

Named(n) == {i \in Ids : docker[i].name = n}
InDocker(i) == i \in Ids /\ docker[i].name \in {"main", "old"}
Running(i) == InDocker(i) /\ docker[i].running
Find(n) == IF Named(n) = {} THEN None ELSE CHOOSE i \in Named(n) : TRUE
Active(r) == req[r].at # "done"

\* save() of a model writes the columns that differ from the copy it was loaded as.
Saved(copy, new) == [f \in DOMAIN row |-> IF new[f] # copy[f] THEN new[f] ELSE row[f]]

\* The service is not installed yet, or it has been and runs.
Init ==
    /\ \E here \in BOOLEAN :
         LET first(i) == here /\ i = CHOOSE j \in Ids : TRUE
         IN /\ row = [NewRow EXCEPT !.installed = here]
            /\ docker = [i \in Ids |-> [name |-> IF first(i) THEN "main" ELSE "unused",
                                        running |-> first(i), image |-> 1]]
    /\ req = [r \in Slots |-> NoRequest("none")]
    /\ met = [r \in Slots |-> {}]
    /\ ops = 0 /\ faults = 0 /\ past = {}
----------------------------------------------------------------------------
(* What the steps are made of *)

At(r, kinds, step) == req[r].op \in kinds /\ req[r].at = step
Goes(r, step) == req' = [req EXCEPT ![r].at = step]
Ends(r, result) == req' = [req EXCEPT ![r] = NoRequest(result)]
Saves(r, new) == row' = Saved(req[r].row, new)
SavesAndGoes(r, new, step) ==
    Saves(r, new) /\ req' = [req EXCEPT ![r].at = step, ![r].row = new]

Normally == UNCHANGED faults
Hit == faults < MaxFaults /\ faults' = faults + 1

SetRunning(i, on) == docker' = [docker EXCEPT ![i].running = on]
Rename(i, n) == docker' = [docker EXCEPT ![i].name = n]
RemoveContainer(i) ==
    docker' = IF InDocker(i) THEN [docker EXCEPT ![i].name = "gone", ![i].running = FALSE]
              ELSE docker

\* Docker refuses to start what runs and to stop what does not.
CanStart(i) == InDocker(i) /\ ~docker[i].running

\* A call succeeds, or it fails because of the state or of a fault.
Works(can) == can /\ Normally
Fails(can) == (~can /\ Normally) \/ Hit

\* History: what ran beside the requests that go on after this step.
Remembers(things) ==
    met' = [r \in Slots |-> CASE req'[r].at = "done" -> {}
                             [] Active(r) -> met[r] \cup things
                             [] OTHER -> {req[p].op : p \in {p \in Slots : Active(p)}}]

\* docker.createContainer: the name must be free.
CreateMain(r, image, step) ==
    LET i == Find("unused") IN
        /\ i # None
        /\ docker' = [docker EXCEPT ![i] = [name |-> "main", running |-> FALSE,
                                            image |-> image]]
        /\ req' = [req EXCEPT ![r].made = i, ![r].at = step]
----------------------------------------------------------------------------
(* Requests *)

\* The row is read; installed, or an installation in progress, may refuse the request.
Accepted(op) ==
    CASE op = "install" -> ~row.installed /\ row.status # "installing"
      [] op \in {"update", "start", "stop", "restart", "check"} -> row.installed
      [] OTHER -> TRUE

FirstStep(op) ==
    CASE op \in {"install", "reinstall"} -> "mark"
      [] op = "update" -> "pull"
      [] op \in {"start", "stop", "restart"} -> "find"
      [] op = "read" -> "list"
      [] op = "check" -> "offer"

Arrive(r) ==
    /\ ~Active(r) /\ ops < MaxOps
    /\ ops' = ops + 1
    /\ \E op \in Kinds, to \in Versions :
         /\ op # "update" => to = 1
         /\ IF Accepted(op)
            THEN req' = [req EXCEPT ![r] = [NoRequest("none") EXCEPT
                                              !.op = op, !.at = FirstStep(op), !.row = row,
                                              !.to = to]]
            ELSE Ends(r, "refused")
         /\ Remembers({op})
    /\ UNCHANGED <<row, docker, faults, past>>

\* installation_status = 'installing' before the work begins.
Mark(r) ==
    /\ At(r, {"install", "reinstall"}, "mark")
    /\ SavesAndGoes(r, [req[r].row EXCEPT !.status = "installing"],
                    IF req[r].op = "install" THEN "create" ELSE "find")
    /\ UNCHANGED <<docker, ops>> /\ Normally
----------------------------------------------------------------------------
(* Install and reinstall *)

\* Reinstall takes the container down; whatever fails on the way is only logged.
ReinstallFind(r) ==
    /\ At(r, {"reinstall"}, "find")
    /\ LET i == Find("main") IN
         \/ /\ i = None /\ Goes(r, "unset") /\ Normally
         \/ /\ Goes(r, "unset") /\ Hit
         \/ /\ i # None /\ Normally
            /\ req' = [req EXCEPT ![r].seen = i,
                                  ![r].at = IF docker[i].running THEN "stop" ELSE "drop"]
    /\ UNCHANGED <<row, docker, ops>>

ReinstallStop(r) ==
    /\ At(r, {"reinstall"}, "stop")
    /\ \/ Works(Running(req[r].seen)) /\ SetRunning(req[r].seen, FALSE)
       \/ Fails(Running(req[r].seen)) /\ UNCHANGED docker
    /\ Goes(r, "drop")
    /\ UNCHANGED <<row, ops>>

ReinstallDrop(r) ==
    /\ At(r, {"reinstall"}, "drop")
    /\ \/ Normally /\ RemoveContainer(req[r].seen)
       \/ Hit /\ UNCHANGED docker
    /\ Goes(r, "unset")
    /\ UNCHANGED <<row, ops>>

\* The copy says "installing" already, so that only installed is written; MySQL gave it
\* as 0 or 1, which differs from any boolean.
ReinstallUnset(r) ==
    /\ At(r, {"reinstall"}, "unset")
    /\ row' = [row EXCEPT !.installed = FALSE]
    /\ req' = [req EXCEPT ![r].row.installed = FALSE, ![r].at = "create"]
    /\ UNCHANGED <<docker, ops>> /\ Normally

\* MUTANT of InstallCreate: the new container is never started.
InstallCreate_NoBoot(r) ==
    /\ At(r, {"install", "reinstall"}, "create")
    /\ \/ Works(Named("main") = {}) /\ CreateMain(r, req[r].row.image, "record")
       \/ Fails(Named("main") = {}) /\ Goes(r, "clean") /\ UNCHANGED docker
    /\ UNCHANGED <<row, ops>>

\* _createContainer: the image is pulled and the container created.
InstallCreate(r) ==
    /\ At(r, {"install", "reinstall"}, "create")
    /\ \/ Works(Named("main") = {}) /\ CreateMain(r, req[r].row.image, "boot")
       \/ Fails(Named("main") = {}) /\ Goes(r, "clean") /\ UNCHANGED docker
    /\ UNCHANGED <<row, ops>>

InstallBoot(r) ==
    /\ At(r, {"install", "reinstall"}, "boot")
    /\ \/ /\ Works(CanStart(req[r].made))
          /\ SetRunning(req[r].made, TRUE) /\ Goes(r, "record")
       \/ Fails(CanStart(req[r].made)) /\ Goes(r, "clean") /\ UNCHANGED docker
    /\ UNCHANGED <<row, ops>>

InstallRecord(r) ==
    /\ At(r, {"install", "reinstall"}, "record")
    /\ Saves(r, [req[r].row EXCEPT !.installed = TRUE, !.status = "idle"])
    /\ Ends(r, "installed")
    /\ UNCHANGED <<docker, ops>> /\ Normally

\* MUTANTS of CleanMark: the row stays as it is; the status is not one of the column's.
CleanMark_NoRow(r) ==
    /\ req[r].at = "clean"
    /\ Goes(r, "sweep")
    /\ UNCHANGED <<row, docker, ops>> /\ Normally
CleanMark_Failed(r) ==
    /\ req[r].at = "clean"
    /\ row' = [row EXCEPT !.status = "failed"]
    /\ Goes(r, "sweep")
    /\ UNCHANGED <<docker, ops>> /\ Normally

\* _cleanupFailedInstallation, run by the catch of _createContainer and once more by
\* the caller: mark the row, then remove the container that has the name.
CleanMark(r) ==
    /\ req[r].at = "clean"
    /\ row' = [row EXCEPT !.status = "error"]
    /\ Goes(r, "sweep")
    /\ UNCHANGED <<docker, ops>> /\ Normally

CleanEnds(r) ==
    IF req[r].again THEN req' = [req EXCEPT ![r].at = "clean", ![r].again = FALSE]
    ELSE Ends(r, "failed")

CleanFind(r) ==
    /\ req[r].at = "sweep"
    /\ \/ /\ Works(Named("main") # {})
          /\ req' = [req EXCEPT ![r].seen = Find("main"), ![r].at = "remove"]
       \/ Fails(Named("main") # {}) /\ CleanEnds(r)
    /\ UNCHANGED <<row, docker, ops>>

CleanRemove(r) ==
    /\ req[r].at = "remove"
    /\ \/ Normally /\ RemoveContainer(req[r].seen)
       \/ Hit /\ UNCHANGED docker
    /\ CleanEnds(r)
    /\ UNCHANGED <<row, ops>>

Install(r) == Mark(r) \/ InstallCreate(r) \/ InstallBoot(r) \/ InstallRecord(r)
Reinstall(r) == ReinstallFind(r) \/ ReinstallStop(r) \/ ReinstallDrop(r) \/ ReinstallUnset(r)
Clean(r) == CleanMark(r) \/ CleanFind(r) \/ CleanRemove(r)
----------------------------------------------------------------------------
(* Update *)

\* An error that no inner handler catches ends the request and nothing is undone.
Abandons(r) == Ends(r, "failed") /\ UNCHANGED docker

UpdatePull(r) ==
    /\ At(r, {"update"}, "pull")
    /\ \/ Normally /\ Goes(r, "find") /\ UNCHANGED docker
       \/ Hit /\ Abandons(r)
    /\ UNCHANGED <<row, ops>>

UpdateFind(r) ==
    /\ At(r, {"update"}, "find")
    /\ LET i == Find("main") IN
         \/ /\ Works(i # None)
            /\ req' = [req EXCEPT ![r].seen = i,
                                  ![r].at = IF docker[i].running THEN "stop" ELSE "rename"]
            /\ UNCHANGED docker
         \/ Fails(i # None) /\ Abandons(r)
    /\ UNCHANGED <<row, ops>>

UpdateStop(r) ==
    /\ At(r, {"update"}, "stop")
    /\ \/ Works(Running(req[r].seen)) /\ SetRunning(req[r].seen, FALSE) /\ Goes(r, "rename")
       \/ Fails(Running(req[r].seen)) /\ Abandons(r)
    /\ UNCHANGED <<row, ops>>

\* MUTANT of UpdateRename: the old container is removed instead of kept aside.
UpdateRename_Removes(r) ==
    /\ At(r, {"update"}, "rename")
    /\ \/ Works(InDocker(req[r].seen)) /\ RemoveContainer(req[r].seen) /\ Goes(r, "create")
       \/ Fails(InDocker(req[r].seen)) /\ Abandons(r)
    /\ UNCHANGED <<row, ops>>

UpdateRename(r) ==
    /\ At(r, {"update"}, "rename")
    /\ LET can == InDocker(req[r].seen) /\ Named("old") = {} IN
         \/ Works(can) /\ Rename(req[r].seen, "old") /\ Goes(r, "create")
         \/ Fails(can) /\ Abandons(r)
    /\ UNCHANGED <<row, ops>>

\* The one call whose failure is rolled back at once.
UpdateCreate(r) ==
    /\ At(r, {"update"}, "create")
    /\ \/ Works(Named("main") = {}) /\ CreateMain(r, req[r].to, "boot")
       \/ Fails(Named("main") = {}) /\ Goes(r, "back") /\ UNCHANGED docker
    /\ UNCHANGED <<row, ops>>

UpdateBoot(r) ==
    /\ At(r, {"update"}, "boot")
    /\ \/ /\ Works(CanStart(req[r].made))
          /\ SetRunning(req[r].made, TRUE) /\ Goes(r, "health")
       \/ Fails(CanStart(req[r].made)) /\ Abandons(r)
    /\ UNCHANGED <<row, ops>>

\* MUTANT of UpdateHealth: the old container is forgotten.
UpdateHealth_NoTidy(r) ==
    /\ At(r, {"update"}, "health")
    /\ \/ /\ Works(InDocker(req[r].made))
          /\ Goes(r, IF Running(req[r].made) THEN "record" ELSE "discard")
          /\ UNCHANGED docker
       \/ Fails(InDocker(req[r].made)) /\ Abandons(r)
    /\ UNCHANGED <<row, ops>>

\* Five seconds later: does the new container still run?
UpdateHealth(r) ==
    /\ At(r, {"update"}, "health")
    /\ \/ /\ Works(InDocker(req[r].made))
          /\ Goes(r, IF Running(req[r].made) THEN "tidy" ELSE "discard")
          /\ UNCHANGED docker
       \/ Fails(InDocker(req[r].made)) /\ Abandons(r)
    /\ UNCHANGED <<row, ops>>

UpdateTidy(r) ==
    /\ At(r, {"update"}, "tidy")
    /\ \/ Normally /\ req' = [req EXCEPT ![r].seen = Find("old"), ![r].at = "purge"]
       \/ Hit /\ Goes(r, "record")
    /\ UNCHANGED <<row, docker, ops>>

UpdatePurge(r) ==
    /\ At(r, {"update"}, "purge")
    /\ \/ Normally /\ RemoveContainer(req[r].seen)
       \/ Hit /\ UNCHANGED docker
    /\ Goes(r, "record")
    /\ UNCHANGED <<row, ops>>

UpdateRecord(r) ==
    /\ At(r, {"update"}, "record")
    /\ Saves(r, [req[r].row EXCEPT !.image = req[r].to, !.avail = None])
    /\ Ends(r, "updated")
    /\ UNCHANGED <<docker, ops>> /\ Normally

\* Stop and remove the new container, as far as Docker lets it.
UpdateDiscard(r) ==
    /\ At(r, {"update"}, "discard")
    /\ \/ Normally /\ RemoveContainer(req[r].made)
       \/ Hit /\ UNCHANGED docker
    /\ Goes(r, "back")
    /\ UNCHANGED <<row, ops>>

\* Without an old container the two rollbacks differ: one reports success all the same.
UpdateBack(r) ==
    /\ At(r, {"update"}, "back")
    /\ \/ /\ Works(Named("old") # {})
          /\ req' = [req EXCEPT ![r].seen = Find("old"), ![r].at = "restore"]
       \/ /\ Named("old") = {} /\ Normally
          /\ Ends(r, IF req[r].made = None THEN "failed" ELSE "rolled back")
       \/ Hit /\ Ends(r, "failed")
    /\ UNCHANGED <<row, docker, ops>>

\* MUTANT of UpdateRestore: the old container gets its name back and is left stopped.
UpdateRestore_NoStart(r) ==
    /\ At(r, {"update"}, "restore")
    /\ LET can == InDocker(req[r].seen) /\ Named("main") = {} IN
         \/ Works(can) /\ Rename(req[r].seen, "main") /\ Ends(r, "rolled back")
         \/ Fails(can) /\ Abandons(r)
    /\ UNCHANGED <<row, ops>>

UpdateRestore(r) ==
    /\ At(r, {"update"}, "restore")
    /\ LET can == InDocker(req[r].seen) /\ Named("main") = {} IN
         \/ Works(can) /\ Rename(req[r].seen, "main") /\ Goes(r, "restart")
         \/ Fails(can) /\ Abandons(r)
    /\ UNCHANGED <<row, ops>>

UpdateRestart(r) ==
    /\ At(r, {"update"}, "restart")
    /\ \/ /\ Works(CanStart(req[r].seen))
          /\ SetRunning(req[r].seen, TRUE) /\ Ends(r, "rolled back")
       \/ Fails(CanStart(req[r].seen)) /\ Abandons(r)
    /\ UNCHANGED <<row, ops>>

Update(r) ==
    \/ UpdatePull(r) \/ UpdateFind(r) \/ UpdateStop(r) \/ UpdateRename(r) \/ UpdateCreate(r)
    \/ UpdateBoot(r) \/ UpdateHealth(r) \/ UpdateTidy(r) \/ UpdatePurge(r) \/ UpdateRecord(r)
    \/ UpdateDiscard(r) \/ UpdateBack(r) \/ UpdateRestore(r) \/ UpdateRestart(r)
----------------------------------------------------------------------------
(* Start, stop, restart *)

AffectFind(r) ==
    /\ At(r, {"start", "stop", "restart"}, "find")
    /\ LET i == Find("main") IN
         \/ /\ Works(i # None)
            /\ IF req[r].op = "start" /\ docker[i].running
               THEN Ends(r, "ok")
               ELSE req' = [req EXCEPT ![r].seen = i, ![r].at = "act"]
         \/ Fails(i # None) /\ Ends(r, "failed")
    /\ UNCHANGED <<row, docker, ops>>

AffectAct(r) ==
    /\ At(r, {"start", "stop", "restart"}, "act")
    /\ LET i == req[r].seen
           can == CASE req[r].op = "start" -> CanStart(i)
                    [] req[r].op = "stop" -> Running(i)
                    [] OTHER -> InDocker(i)
       IN \/ Works(can) /\ SetRunning(i, req[r].op # "stop") /\ Ends(r, "ok")
          \/ Fails(can) /\ Abandons(r)
    /\ UNCHANGED <<row, ops>>
----------------------------------------------------------------------------
(* Reading the services, and the nightly check *)

\* A failed listing is an empty listing.
ReadList(r) ==
    /\ At(r, {"read"}, "list")
    /\ \/ Normally /\ req' = [req EXCEPT ![r].seen = Find("main"), ![r].at = "sync"]
       \/ Hit /\ Goes(r, "sync")
    /\ UNCHANGED <<row, docker, ops>>

\* MUTANT of Synced: a container that came back is not noticed.
Synced_OnlyGone(copy, exists) ==
    IF copy.installed /\ ~exists THEN [copy EXCEPT !.installed = FALSE, !.status = "idle"]
    ELSE copy

Synced(copy, exists) ==
    IF copy.installed = exists THEN copy
    ELSE [copy EXCEPT !.installed = exists, !.status = "idle"]

\* _syncContainersWithDatabase, with the row and the listing read before.
ReadSync(r) ==
    /\ At(r, {"read"}, "sync")
    /\ Saves(r, Synced(req[r].row, req[r].seen # None)) /\ Ends(r, "ok")
    /\ UNCHANGED <<docker, ops>> /\ Normally

\* The newest tag above the recorded image, if any; a registry error skips the service.
CheckOffer(r) ==
    /\ At(r, {"check"}, "offer")
    /\ \/ /\ Normally /\ Ends(r, "ok")
          /\ \E latest \in {v \in Versions : v > req[r].row.image} \cup {None} :
               Saves(r, [req[r].row EXCEPT !.avail = latest])
       \/ Hit /\ Ends(r, "failed") /\ UNCHANGED row
    /\ UNCHANGED <<docker, ops>>
----------------------------------------------------------------------------
(* The environment *)

\* A container exits by itself.
Dies ==
    /\ Hit
    /\ \E i \in Ids : Running(i) /\ SetRunning(i, FALSE)
    /\ UNCHANGED <<row, req, ops>>

\* Somebody removes it on the host.
RemovedByHand ==
    /\ Hit
    /\ \E i \in Ids : InDocker(i) /\ RemoveContainer(i)
    /\ UNCHANGED <<row, req, ops>>

\* The server goes down, and what it was doing with it.
Shutdown ==
    /\ Hit
    /\ \E r \in Slots : Active(r)
    /\ req' = [r \in Slots |-> NoRequest("none")]
    /\ UNCHANGED <<row, docker, ops>>

Proceed(r) ==
    \/ Install(r) \/ Reinstall(r) \/ Clean(r) \/ Update(r)
    \/ AffectFind(r) \/ AffectAct(r) \/ ReadList(r) \/ ReadSync(r) \/ CheckOffer(r)

Removes == \E i \in Ids : InDocker(i) /\ ~InDocker(i)'

Step(r) ==
    /\ Proceed(r)
    /\ Remembers(IF faults' > faults THEN {"docker"} ELSE {})
    /\ past' = IF req[r].op # "update" /\ Removes THEN past \cup {"cleared"} ELSE past

Next ==
    \/ \E r \in Slots : Arrive(r) \/ Step(r)
    \/ Dies /\ Remembers({"dies"}) /\ UNCHANGED past
    \/ RemovedByHand /\ Remembers({"by hand"}) /\ past' = past \cup {"cleared"}
    \/ Shutdown /\ Remembers({}) /\ past' = past \cup {"down"}

Spec == Init /\ [][Next]_vars
----------------------------------------------------------------------------
(* Properties *)

\* Request r ends in this step with that result, and ran beside nothing but these.
Finishes(r, kinds, result, beside) ==
    /\ Active(r) /\ req[r].op \in kinds
    /\ req'[r].at = "done" /\ req'[r].result = result
    /\ met[r] \subseteq beside

Main == Named("main")
Old == Named("old")

\* However updates overlap, whatever Docker refuses, whichever container exits and
\* whenever the server goes down: updates never take the last container of the service
\* away.  Only an installation that replaces it does, or somebody on the host.
UpdatesKeepAContainer ==
    [][(\E i \in Ids : InDocker(i)) /\ (\A i \in Ids : ~InDocker(i)')
         => "cleared" \in past']_vars

\* An update that reports its rollback has put the container it began with back under
\* its name, running, and left no other.
RolledBackIsBack ==
    [][\A r \in Slots :
         Finishes(r, {"update"}, "rolled back", {"read", "check", "docker", "dies"}) =>
            /\ Old' = {}
            /\ \E i \in Ids \ {req[r].made} : Main' = {i} /\ docker'[i].running]_vars

\* An update that reports success left the new container under the name and the tag it
\* runs in the row, and nothing of the old one unless Docker kept it.
UpdatedRuns ==
    [][\A r \in Slots :
         Finishes(r, {"update"}, "updated", {"read", "check", "docker", "dies"}) =>
            /\ Main' = {req[r].made}
            /\ docker'[req[r].made].image = row'.image /\ row'.image = req[r].to
            /\ "docker" \notin met[r] => Old' = {}]_vars

\* An installation that completes has its container running and its row says so,
\* whatever the pages that read the services meanwhile wrote into the row.
InstallDelivers ==
    [][\A r \in Slots :
         Finishes(r, {"install", "reinstall"}, "installed",
                  {"read", "check", "start", "restart", "docker"}) =>
            /\ row'.installed /\ row'.status = "idle"
            /\ Main' = {req[r].made} /\ docker'[req[r].made].running
            /\ docker'[req[r].made].image = row'.image]_vars

\* Reading the services when nothing is being done to them brings the row in line with
\* Docker, whatever earlier requests left behind.
SyncRepairs ==
    [][\A r \in Slots :
         Finishes(r, {"read"}, "ok", {"check", "start", "stop", "restart", "dies"}) =>
            (row'.installed <=> Main' # {})]_vars

\* A row that says "installing", which refuses every further installation, is going to
\* change: an installation is running, unless the server went down during one.
InstallingIsWorkedOn ==
    row.status = "installing" =>
        "down" \in past \/ \E r \in Slots : Active(r) /\ req[r].op \in {"install", "reinstall"}

\* docker_service.ts:865: a failed installation removes "any partially created container",
\* here of an installation during which nothing else happened.
CleanupRemovesOwn ==
    [][\A r \in Slots :
         req[r].at = "remove" /\ req'[r].at # "remove" /\ met[r] = {} /\ Removes =>
            req[r].seen = req[r].made]_vars
============================================================================
