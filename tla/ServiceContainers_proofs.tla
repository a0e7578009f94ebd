------------------------ MODULE ServiceContainers_proofs ------------------------
(****************************************************************************)
(* Proofs about ServiceContainers, for any number of requests, containers,  *)
(* tags and faults.                                                         *)
(****************************************************************************)
EXTENDS ServiceContainers, TLAPS

(* The inductive invariant *)

Inst == {"install", "reinstall"}
Reqs == [Slots -> Request]
Dockers == [Ids -> Container]

\* Only installations reach these steps; after Mark their copy of the row says
\* "installing", so that writing another status is never mistaken for no change.
StepOK ==
    \A r \in Slots :
        /\ req[r].at \in {"mark", "drop", "unset", "clean", "sweep", "remove"} => req[r].op \in Inst
        /\ req[r].op \in Inst /\ req[r].at \in {"find", "stop", "drop", "unset", "create", "boot",
                                              "record"} => req[r].row.status = "installing"

\* The request will still write a status other than "installing".
Owes(q) ==
    /\ q.op \in Inst
    /\ \/ q.at \in {"find", "stop", "drop", "unset", "create", "boot", "record", "clean"}
       \/ q.at \in {"sweep", "remove"} /\ q.again

WorkOK == row.status = "installing" => "down" \in past \/ \E r \in Slots : Owes(req[r])

IInv == TypeOK /\ StepOK /\ WorkOK

\* What an action of request r has to show; its history is dealt with once for all.
Good(r) ==
    /\ row' \in Row /\ docker' \in Dockers /\ req' \in Reqs
    /\ ops' \in 0 .. MaxOps /\ faults' \in 0 .. MaxFaults
    /\ \A q \in Slots \ {r} : req'[q] = req[q]
    /\ req'[r].at \in {"mark", "drop", "unset", "clean", "sweep", "remove"} => req'[r].op \in Inst
    /\ req'[r].op \in Inst /\ req'[r].at \in {"find", "stop", "drop", "unset", "create", "boot",
                                            "record"} => req'[r].row.status = "installing"
    /\ row'.status = "installing" =>
          Owes(req'[r]) \/ (row.status = "installing" /\ ~Owes(req[r]))
----------------------------------------------------------------------------
(* The operators that actions are made of *)

LEMMA FindSpec ==
  ASSUME NEW n
  PROVE  /\ Find(n) \in Ids \cup {None}
         /\ Find(n) # None => Find(n) \in Ids /\ docker[Find(n)].name = n
         /\ Named(n) # {} => Find(n) # None
  BY ServiceAssumption DEF Find, Named

LEMMA NoRequestType ==
  ASSUME NEW result \in Results
  PROVE  /\ NoRequest(result) \in Request /\ NoRequest(result).at = "done"
         /\ NewRow \in Row
  BY ServiceAssumption DEF NoRequest, NewRow, Request, Row, Versions, Ops, Steps

LEMMA GoesType ==
  ASSUME req \in Reqs, NEW r \in Slots, NEW step \in Steps, Goes(r, step)
  PROVE  /\ req' \in Reqs /\ \A q \in Slots \ {r} : req'[q] = req[q]
         /\ req'[r].at = step /\ req'[r].op = req[r].op /\ req'[r].row = req[r].row
         /\ req'[r].again = req[r].again
  BY DEF Goes, Reqs, Request

LEMMA EndsType ==
  ASSUME req \in Reqs, NEW r \in Slots, NEW result \in Results, Ends(r, result)
  PROVE  /\ req' \in Reqs /\ \A q \in Slots \ {r} : req'[q] = req[q]
         /\ req'[r].at = "done" /\ ~Owes(req'[r])
  <1>1. req' = [req EXCEPT ![r] = NoRequest(result)]
    BY DEF Ends
  <1>2. req'[r] = NoRequest(result) /\ req' \in Reqs
    BY <1>1, NoRequestType DEF Reqs
  <1> QED
    BY <1>1, <1>2, NoRequestType DEF Owes, Reqs

LEMMA SeesType ==
  ASSUME req \in Reqs, NEW r \in Slots, NEW step \in Steps, NEW i \in Ids \cup {None},
         req' = [req EXCEPT ![r].seen = i, ![r].at = step]
  PROVE  /\ req' \in Reqs /\ \A q \in Slots \ {r} : req'[q] = req[q]
         /\ req'[r].at = step /\ req'[r].op = req[r].op /\ req'[r].row = req[r].row
         /\ req'[r].again = req[r].again
  BY DEF Reqs, Request

LEMMA SavedType ==
  ASSUME row \in Row, NEW copy \in Row, NEW new \in Row
  PROVE  /\ Saved(copy, new) \in Row
         /\ Saved(copy, new).status = IF new.status # copy.status THEN new.status ELSE row.status
  BY DEF Saved, Row

LEMMA DockerType ==
  ASSUME docker \in Dockers
  PROVE  /\ \A i \in Ids, on \in BOOLEAN : SetRunning(i, on) => docker' \in Dockers
         /\ \A i \in Ids : Rename(i, "old") \/ Rename(i, "main") => docker' \in Dockers
         /\ \A i : RemoveContainer(i) => docker' \in Dockers
  BY DEF Dockers, Container, SetRunning, Rename, RemoveContainer, InDocker

LEMMA CreateType ==
  ASSUME docker \in Dockers, req \in Reqs, NEW r \in Slots, NEW image \in Versions,
         NEW step \in Steps, CreateMain(r, image, step)
  PROVE  /\ docker' \in Dockers
         /\ req' \in Reqs /\ \A q \in Slots \ {r} : req'[q] = req[q]
         /\ req'[r].at = step /\ req'[r].op = req[r].op /\ req'[r].row = req[r].row
         /\ req'[r].again = req[r].again
  <1> DEFINE i == Find("unused")
  <1>1. i \in Ids
    BY FindSpec DEF CreateMain
  <1>2. /\ docker' = [docker EXCEPT ![i] = [name |-> "main", running |-> FALSE,
                                            image |-> image]]
        /\ req' = [req EXCEPT ![r].made = i, ![r].at = step]
    BY DEF CreateMain
  <1> HIDE DEF i
  <1> QED
    BY <1>1, <1>2 DEF Dockers, Container, Reqs, Request

LEMMA FaultsType ==
  ASSUME faults \in 0 .. MaxFaults, Normally \/ Hit
  PROVE  faults' \in 0 .. MaxFaults
  BY ServiceAssumption DEF Normally, Hit

LEMMA Typed ==
  ASSUME IInv, NEW r \in Slots
  PROVE  /\ row \in Row /\ docker \in Dockers /\ req \in Reqs
         /\ ops \in 0 .. MaxOps /\ faults \in 0 .. MaxFaults
         /\ req[r] \in Request /\ req[r].row \in Row /\ req[r].to \in Versions
         /\ req[r].row.image \in Versions
         /\ req[r].seen \in Ids \cup {None} /\ req[r].made \in Ids \cup {None}
  BY DEF IInv, TypeOK, Reqs, Dockers, Request, Row
----------------------------------------------------------------------------
(* Requests that install nothing *)

\* A request that is no installation keeps Good unless it sets the status.
LEMMA OtherGood ==
  ASSUME IInv, NEW r \in Slots, req[r].op \notin Inst,
         req' \in Reqs, \A q \in Slots \ {r} : req'[q] = req[q],
         \/ req'[r].at = "done" /\ ~Owes(req'[r])
         \/ /\ req'[r].op = req[r].op
            /\ req'[r].at \notin {"mark", "drop", "unset", "clean", "sweep", "remove"},
         row' \in Row, row'.status = "installing" => row.status = "installing",
         docker' \in Dockers, ops' = ops, Normally \/ Hit
  PROVE  Good(r)
  <1>1. ops' \in 0 .. MaxOps /\ faults' \in 0 .. MaxFaults
    BY Typed, FaultsType
  <1>2. ~Owes(req[r])
    BY DEF Owes
  <1> QED
    BY <1>1, <1>2 DEF Good

LEMMA UpdateGood ==
  ASSUME IInv, NEW r \in Slots, Update(r)
  PROVE  Good(r)
  <1> USE Typed, FindSpec, DockerType DEF Works, Fails
  <1>1. req[r].op = "update" /\ req[r].op \notin Inst
    BY DEF Update, UpdatePull, UpdateFind, UpdateStop, UpdateRename, UpdateCreate, UpdateBoot,
      UpdateHealth, UpdateTidy, UpdatePurge, UpdateRecord, UpdateDiscard, UpdateBack,
      UpdateRestore, UpdateRestart, At, Inst
  <1>2. CASE UpdatePull(r)
    BY <1>1, <1>2, OtherGood, GoesType, EndsType DEF UpdatePull, Abandons, Steps, Results
  <1>3. CASE UpdateFind(r)
    <2>1. CASE req' = [req EXCEPT ![r].seen = Find("main"),
                                  ![r].at = IF docker[Find("main")].running THEN "stop"
                                            ELSE "rename"]
      <3> DEFINE step == IF docker[Find("main")].running THEN "stop" ELSE "rename"
      <3>1. step \in Steps /\ step \in {"stop", "rename"}
        BY DEF Steps
      <3> HIDE DEF step
      <3>2. req' \in Reqs /\ (\A q \in Slots \ {r} : req'[q] = req[q]) /\ req'[r].at = step
            /\ req'[r].op = req[r].op
        BY <2>1, <3>1, SeesType DEF step
      <3> QED
        BY <1>1, <1>3, <3>1, <3>2, OtherGood DEF UpdateFind, Abandons, Ends
    <2>2. CASE Abandons(r)
      BY <1>1, <1>3, <2>2, OtherGood, EndsType DEF UpdateFind, Abandons, Results
    <2> QED
      BY <1>3, <2>1, <2>2 DEF UpdateFind
  <1>4. CASE UpdateStop(r)
    <2>1. Running(req[r].seen) => req[r].seen \in Ids
      BY DEF Running, InDocker
    <2> QED
      BY <1>1, <1>4, <2>1, OtherGood, GoesType, EndsType DEF UpdateStop, Abandons, Steps, Results
  <1>5. CASE UpdateRename(r)
    <2>1. InDocker(req[r].seen) => req[r].seen \in Ids
      BY DEF InDocker
    <2> QED
      BY <1>1, <1>5, <2>1, OtherGood, GoesType, EndsType
         DEF UpdateRename, Abandons, Steps, Results
  <1>6. CASE UpdateCreate(r)
    BY <1>1, <1>6, OtherGood, GoesType, CreateType DEF UpdateCreate, Steps
  <1>7. CASE UpdateBoot(r)
    <2>1. CanStart(req[r].made) => req[r].made \in Ids
      BY DEF CanStart, InDocker
    <2> QED
      BY <1>1, <1>7, <2>1, OtherGood, GoesType, EndsType DEF UpdateBoot, Abandons, Steps, Results
  <1>8. CASE UpdateHealth(r)
    <2> DEFINE step == IF Running(req[r].made) THEN "tidy" ELSE "discard"
    <2>1. step \in Steps /\ step \in {"tidy", "discard"}
      BY DEF Steps
    <2>2. CASE Goes(r, step)
      <3> HIDE DEF step
      <3> QED
        BY <1>1, <1>8, <2>1, <2>2, OtherGood, GoesType DEF UpdateHealth, Abandons
    <2>3. CASE Abandons(r)
      BY <1>1, <1>8, <2>3, OtherGood, EndsType DEF UpdateHealth, Abandons, Results
    <2> QED
      BY <1>8, <2>2, <2>3 DEF UpdateHealth
  <1>9. CASE UpdateTidy(r)
    BY <1>1, <1>9, OtherGood, GoesType, SeesType DEF UpdateTidy, Steps
  <1>10. CASE UpdatePurge(r)
    BY <1>1, <1>10, OtherGood, GoesType DEF UpdatePurge, Steps
  <1>11. CASE UpdateRecord(r)
    <2> DEFINE new == [req[r].row EXCEPT !.image = req[r].to, !.avail = None]
    <2>1. new \in Row /\ new.status = req[r].row.status
      BY DEF Row
    <2>2. row' = Saved(req[r].row, new) /\ Ends(r, "updated") /\ UNCHANGED <<docker, ops>>
          /\ Normally
      BY <1>11 DEF UpdateRecord, Saves
    <2> HIDE DEF new
    <2>3. row' \in Row /\ row'.status = row.status
      BY <2>1, <2>2, SavedType
    <2> QED
      BY <1>1, <2>2, <2>3, OtherGood, EndsType DEF Results
  <1>12. CASE UpdateDiscard(r)
    BY <1>1, <1>12, OtherGood, GoesType DEF UpdateDiscard, Steps
  <1>13. CASE UpdateBack(r)
    <2> DEFINE result == IF req[r].made = None THEN "failed" ELSE "rolled back"
    <2>1. result \in Results /\ "failed" \in Results
      BY DEF Results
    <2>2. CASE Ends(r, result) \/ Ends(r, "failed")
      <3> HIDE DEF result
      <3> QED
        BY <1>1, <1>13, <2>1, <2>2, OtherGood, EndsType DEF UpdateBack
    <2>3. CASE req' = [req EXCEPT ![r].seen = Find("old"), ![r].at = "restore"]
      <3>1. Find("old") \in Ids \cup {None} /\ "restore" \in Steps
        BY FindSpec DEF Steps
      <3>2. req' \in Reqs /\ (\A q \in Slots \ {r} : req'[q] = req[q]) /\ req'[r].at = "restore"
            /\ req'[r].op = req[r].op
        BY <2>3, <3>1, SeesType
      <3>3. row' = row /\ docker' = docker /\ ops' = ops /\ (Normally \/ Hit)
        BY <1>13 DEF UpdateBack
      <3> QED
        BY <1>1, <3>2, <3>3, OtherGood
    <2> QED
      BY <1>13, <2>2, <2>3 DEF UpdateBack
  <1>14. CASE UpdateRestore(r)
    <2>1. InDocker(req[r].seen) => req[r].seen \in Ids
      BY DEF InDocker
    <2> QED
      BY <1>1, <1>14, <2>1, OtherGood, GoesType, EndsType
         DEF UpdateRestore, Abandons, Steps, Results
  <1>15. CASE UpdateRestart(r)
    <2>1. CanStart(req[r].seen) => req[r].seen \in Ids
      BY DEF CanStart, InDocker
    <2> QED
      BY <1>1, <1>15, <2>1, OtherGood, EndsType DEF UpdateRestart, Abandons, Results
  <1> QED
    BY <1>2, <1>3, <1>4, <1>5, <1>6, <1>7, <1>8, <1>9, <1>10, <1>11, <1>12, <1>13, <1>14, <1>15
       DEF Update

LEMMA AffectGood ==
  ASSUME IInv, NEW r \in Slots, AffectFind(r) \/ AffectAct(r)
  PROVE  Good(r)
  <1> USE Typed, FindSpec, DockerType DEF Works, Fails
  <1>1. req[r].op \in {"start", "stop", "restart"} /\ req[r].op \notin Inst
    BY DEF AffectFind, AffectAct, At, Inst
  <1>2. CASE AffectFind(r)
    <2>1. row' = row /\ docker' = docker /\ ops' = ops /\ (Normally \/ Hit)
      BY <1>2 DEF AffectFind
    <2>2. CASE Ends(r, "ok") \/ Ends(r, "failed")
      BY <1>1, <2>1, <2>2, OtherGood, EndsType DEF Results
    <2>3. CASE req' = [req EXCEPT ![r].seen = Find("main"), ![r].at = "act"]
      <3>1. Find("main") \in Ids \cup {None} /\ "act" \in Steps
        BY FindSpec DEF Steps
      <3>2. req' \in Reqs /\ (\A q \in Slots \ {r} : req'[q] = req[q]) /\ req'[r].at = "act"
            /\ req'[r].op = req[r].op
        BY <2>3, <3>1, SeesType
      <3> QED
        BY <1>1, <2>1, <3>2, OtherGood
    <2> QED
      BY <1>2, <2>2, <2>3 DEF AffectFind
  <1>3. CASE AffectAct(r)
    <2> DEFINE i == req[r].seen
    <2>1. /\ row' = row /\ ops' = ops /\ (Normally \/ Hit)
          /\ Ends(r, "ok") \/ Ends(r, "failed")
      BY <1>3 DEF AffectAct, Abandons
    <2>2. docker' \in Dockers
      <3>1. CanStart(i) \/ Running(i) \/ InDocker(i) => i \in Ids
        BY DEF CanStart, Running, InDocker
      <3>2. CASE Abandons(r)
        BY <3>2 DEF Abandons
      <3>3. CASE SetRunning(i, req[r].op # "stop")
            /\ (CanStart(i) \/ Running(i) \/ InDocker(i))
        BY <3>1, <3>3
      <3> QED
        BY <1>1, <1>3, <3>2, <3>3 DEF AffectAct
    <2> QED
      BY <1>1, <2>1, <2>2, OtherGood, EndsType DEF Results
  <1> QED
    BY <1>2, <1>3

LEMMA ReadGood ==
  ASSUME IInv, NEW r \in Slots, ReadList(r) \/ ReadSync(r) \/ CheckOffer(r)
  PROVE  Good(r)
  <1> USE Typed, FindSpec
  <1>1. req[r].op \in {"read", "check"} /\ req[r].op \notin Inst
    BY DEF ReadList, ReadSync, CheckOffer, At, Inst
  <1>2. CASE ReadList(r)
    <2>1. row' = row /\ docker' = docker /\ ops' = ops /\ (Normally \/ Hit)
      BY <1>2 DEF ReadList
    <2>2. /\ req' \in Reqs /\ \A q \in Slots \ {r} : req'[q] = req[q]
          /\ req'[r].at = "sync" /\ req'[r].op = req[r].op
      <3>1. Find("main") \in Ids \cup {None} /\ "sync" \in Steps
        BY FindSpec DEF Steps
      <3> QED
        BY <1>2, <3>1, SeesType, GoesType DEF ReadList
    <2> QED
      BY <1>1, <2>1, <2>2, OtherGood
  <1>3. CASE ReadSync(r)
    <2> DEFINE new == Synced(req[r].row, req[r].seen # None)
    <2>1. new \in Row /\ (new.status = req[r].row.status \/ new.status = "idle")
      BY DEF Synced, Row
    <2>2. /\ row' = Saved(req[r].row, new) /\ Ends(r, "ok") /\ docker' = docker /\ ops' = ops
          /\ Normally
      BY <1>3 DEF ReadSync, Saves
    <2> HIDE DEF new
    <2>3. row' \in Row /\ (row'.status = "installing" => row.status = "installing")
      BY <2>1, <2>2, SavedType
    <2> QED
      BY <1>1, <2>2, <2>3, OtherGood, EndsType DEF Results
  <1>4. CASE CheckOffer(r)
    <2>1. /\ docker' = docker /\ ops' = ops /\ (Normally \/ Hit)
          /\ Ends(r, "ok") \/ Ends(r, "failed")
      BY <1>4 DEF CheckOffer
    <2>2. row' \in Row /\ (row'.status = "installing" => row.status = "installing")
      <3>1. CASE row' = row
        BY <3>1
      <3>2. ASSUME NEW latest \in Versions \cup {None},
                   row' = Saved(req[r].row, [req[r].row EXCEPT !.avail = latest])
            PROVE  row' \in Row /\ row'.status = row.status
        <4> DEFINE new == [req[r].row EXCEPT !.avail = latest]
        <4>1. new \in Row /\ new.status = req[r].row.status
          BY DEF Row
        <4>2. row' = Saved(req[r].row, new)
          BY <3>2
        <4> HIDE DEF new
        <4> QED
          BY <4>1, <4>2, SavedType
      <3> QED
        BY <1>4, <3>1, <3>2 DEF CheckOffer, Saves
    <2> QED
      BY <1>1, <2>1, <2>2, OtherGood, EndsType DEF Results
  <1> QED
    BY <1>2, <1>3, <1>4
----------------------------------------------------------------------------
(* Installations *)

\* An installation that goes on keeps Good as long as it owes the row a status.
LEMMA WorkingGood ==
  ASSUME IInv, NEW r \in Slots, req[r].op \in Inst,
         req' \in Reqs, \A q \in Slots \ {r} : req'[q] = req[q],
         req'[r].op = req[r].op, Owes(req'[r]),
         req'[r].at \in {"find", "stop", "drop", "unset", "create", "boot", "record"} =>
            req'[r].row.status = "installing",
         row' \in Row, docker' \in Dockers, ops' = ops, Normally \/ Hit
  PROVE  Good(r)
  <1>1. ops' \in 0 .. MaxOps /\ faults' \in 0 .. MaxFaults
    BY Typed, FaultsType
  <1> QED
    BY <1>1 DEF Good

LEMMA InstallGood ==
  ASSUME IInv, NEW r \in Slots, Install(r)
  PROVE  Good(r)
  <1> USE Typed, FindSpec, DockerType DEF Works, Fails
  <1>1. req[r].op \in Inst
    BY DEF Install, Mark, InstallCreate, InstallBoot, InstallRecord, At, Inst
  <1>2. req[r].at \in {"create", "boot", "record"} => req[r].row.status = "installing"
    BY <1>1 DEF IInv, StepOK
  <1>3. CASE Mark(r)
    <2> DEFINE new == [req[r].row EXCEPT !.status = "installing"]
               step == IF req[r].op = "install" THEN "create" ELSE "find"
    <2>1. new \in Row /\ new.status = "installing" /\ step \in Steps /\ step \in {"create", "find"}
      BY DEF Row, Steps
    <2>2. /\ row' = Saved(req[r].row, new)
          /\ req' = [req EXCEPT ![r].at = step, ![r].row = new]
          /\ docker' = docker /\ ops' = ops /\ Normally
      BY <1>3 DEF Mark, SavesAndGoes, Saves
    <2> HIDE DEF new, step
    <2>3. row' \in Row
      BY <2>1, <2>2, SavedType
    <2>4. /\ req' \in Reqs /\ \A q \in Slots \ {r} : req'[q] = req[q]
          /\ req'[r].op = req[r].op /\ req'[r].at = step /\ req'[r].row = new
      BY <2>1, <2>2 DEF Reqs, Request
    <2>5. Owes(req'[r])
      BY <1>1, <2>1, <2>4 DEF Owes
    <2> QED
      BY <1>1, <2>1, <2>2, <2>3, <2>4, <2>5, WorkingGood
  <1>4. CASE InstallCreate(r)
    <2>1. req[r].at = "create" /\ row' = row /\ ops' = ops /\ (Normally \/ Hit)
      BY <1>4 DEF InstallCreate, At
    <2>2. /\ docker' \in Dockers
          /\ req' \in Reqs /\ \A q \in Slots \ {r} : req'[q] = req[q]
          /\ req'[r].op = req[r].op /\ req'[r].at \in {"boot", "clean"}
          /\ req'[r].row = req[r].row
      BY <1>4, CreateType, GoesType DEF InstallCreate, Steps
    <2>3. Owes(req'[r])
      BY <1>1, <2>2 DEF Owes
    <2> QED
      BY <1>1, <1>2, <2>1, <2>2, <2>3, WorkingGood
  <1>5. CASE InstallBoot(r)
    <2>1. req[r].at = "boot" /\ row' = row /\ ops' = ops /\ (Normally \/ Hit)
      BY <1>5 DEF InstallBoot, At
    <2>2. docker' \in Dockers
      BY <1>5 DEF InstallBoot, CanStart, InDocker
    <2>3. /\ req' \in Reqs /\ \A q \in Slots \ {r} : req'[q] = req[q]
          /\ req'[r].op = req[r].op /\ req'[r].at \in {"record", "clean"}
          /\ req'[r].row = req[r].row
      BY <1>5, GoesType DEF InstallBoot, Steps
    <2>4. Owes(req'[r])
      BY <1>1, <2>3 DEF Owes
    <2> QED
      BY <1>1, <1>2, <2>1, <2>2, <2>3, <2>4, WorkingGood
  <1>6. CASE InstallRecord(r)
    <2> DEFINE new == [req[r].row EXCEPT !.installed = TRUE, !.status = "idle"]
    <2>1. new \in Row /\ new.status = "idle" /\ req[r].row.status = "installing"
      BY <1>2, <1>6 DEF Row, InstallRecord, At
    <2>2. /\ row' = Saved(req[r].row, new) /\ Ends(r, "installed")
          /\ docker' = docker /\ ops' = ops /\ Normally
      BY <1>6 DEF InstallRecord, Saves
    <2> HIDE DEF new
    <2>3. row' \in Row /\ row'.status = "idle"
      BY <2>1, <2>2, SavedType
    <2>4. /\ req' \in Reqs /\ \A q \in Slots \ {r} : req'[q] = req[q]
          /\ req'[r].at = "done"
      BY <2>2, EndsType DEF Results
    <2>5. ops' \in 0 .. MaxOps /\ faults' \in 0 .. MaxFaults
      BY <2>2, FaultsType
    <2> QED
      BY <2>2, <2>3, <2>4, <2>5 DEF Good
  <1> QED
    BY <1>3, <1>4, <1>5, <1>6 DEF Install

LEMMA ReinstallGood ==
  ASSUME IInv, NEW r \in Slots, Reinstall(r)
  PROVE  Good(r)
  <1> USE Typed, FindSpec, DockerType DEF Works, Fails
  <1>1. req[r].op \in Inst /\ req[r].row.status = "installing"
    BY DEF Reinstall, ReinstallFind, ReinstallStop, ReinstallDrop, ReinstallUnset, At, Inst,
      IInv, StepOK
  <1>2. CASE ReinstallFind(r)
    <2>1. row' = row /\ docker' = docker /\ ops' = ops /\ (Normally \/ Hit)
      BY <1>2 DEF ReinstallFind
    <2> DEFINE step == IF docker[Find("main")].running THEN "stop" ELSE "drop"
    <2>2. step \in Steps /\ step \in {"stop", "drop"} /\ "unset" \in Steps
      BY DEF Steps
    <2>3. \/ Goes(r, "unset")
          \/ req' = [req EXCEPT ![r].seen = Find("main"), ![r].at = step]
      BY <1>2 DEF ReinstallFind
    <2> HIDE DEF step
    <2>4. /\ req' \in Reqs /\ \A q \in Slots \ {r} : req'[q] = req[q]
          /\ req'[r].op = req[r].op /\ req'[r].at \in {"stop", "drop", "unset"}
          /\ req'[r].row = req[r].row
      BY <2>2, <2>3, GoesType, SeesType
    <2>5. Owes(req'[r])
      BY <1>1, <2>4 DEF Owes
    <2> QED
      BY <1>1, <2>1, <2>4, <2>5, WorkingGood
  <1>3. CASE ReinstallStop(r) \/ ReinstallDrop(r)
    <2>1. row' = row /\ ops' = ops /\ (Normally \/ Hit)
      BY <1>3 DEF ReinstallStop, ReinstallDrop
    <2>2. docker' \in Dockers
      BY <1>3 DEF ReinstallStop, ReinstallDrop, Running, InDocker
    <2>3. /\ req' \in Reqs /\ \A q \in Slots \ {r} : req'[q] = req[q]
          /\ req'[r].op = req[r].op /\ req'[r].at \in {"drop", "unset"}
          /\ req'[r].row = req[r].row
      BY <1>3, GoesType DEF ReinstallStop, ReinstallDrop, Steps
    <2>4. Owes(req'[r])
      BY <1>1, <2>3 DEF Owes
    <2> QED
      BY <1>1, <2>1, <2>2, <2>3, <2>4, WorkingGood
  <1>4. CASE ReinstallUnset(r)
    <2>1. row' \in Row /\ docker' = docker /\ ops' = ops /\ Normally
      BY <1>4 DEF ReinstallUnset, Row
    <2>2. req' = [req EXCEPT ![r].row.installed = FALSE, ![r].at = "create"]
      BY <1>4 DEF ReinstallUnset
    <2>3. /\ req' \in Reqs /\ \A q \in Slots \ {r} : req'[q] = req[q]
          /\ req'[r].op = req[r].op /\ req'[r].at = "create"
          /\ req'[r].row.status = req[r].row.status
      <3> DEFINE copy == [req[r].row EXCEPT !.installed = FALSE]
                 new == [req[r] EXCEPT !.row = copy, !.at = "create"]
      <3>1. copy \in Row /\ copy.status = req[r].row.status
        BY DEF Row
      <3>2. req' = [req EXCEPT ![r] = new]
        BY <2>2 DEF Reqs, Request
      <3> HIDE DEF copy
      <3>3. new \in Request /\ new.row = copy /\ new.op = req[r].op /\ new.at = "create"
        BY <3>1 DEF Request, Steps
      <3> HIDE DEF new
      <3> QED
        BY <3>1, <3>2, <3>3 DEF Reqs
    <2>4. Owes(req'[r])
      BY <1>1, <2>3 DEF Owes
    <2> QED
      BY <1>1, <2>1, <2>3, <2>4, WorkingGood
  <1> QED
    BY <1>2, <1>3, <1>4 DEF Reinstall

LEMMA CleanGood ==
  ASSUME IInv, NEW r \in Slots, Clean(r)
  PROVE  Good(r)
  <1> USE Typed, FindSpec, DockerType DEF Works, Fails
  <1>1. req[r].op \in Inst /\ req[r].at \in {"clean", "sweep", "remove"}
    BY DEF Clean, CleanMark, CleanFind, CleanRemove, IInv, StepOK
  <1>2. CASE CleanMark(r)
    <2>1. row' \in Row /\ row'.status = "error" /\ docker' = docker /\ ops' = ops /\ Normally
      BY <1>2 DEF CleanMark, Row
    <2>2. /\ req' \in Reqs /\ \A q \in Slots \ {r} : req'[q] = req[q]
          /\ req'[r].op = req[r].op /\ req'[r].at = "sweep"
      BY <1>2, GoesType DEF CleanMark, Steps
    <2>3. ops' \in 0 .. MaxOps /\ faults' \in 0 .. MaxFaults
      BY <2>1, FaultsType
    <2> QED
      BY <1>1, <2>1, <2>2, <2>3 DEF Good
  <1>3. CASE CleanFind(r) \/ CleanRemove(r)
    <2>1. row' = row /\ ops' = ops /\ (Normally \/ Hit)
      BY <1>3 DEF CleanFind, CleanRemove
    <2>2. docker' \in Dockers
      BY <1>3 DEF CleanFind, CleanRemove
    <2>3. \/ req' = [req EXCEPT ![r].seen = Find("main"), ![r].at = "remove"]
          \/ req[r].again /\ req' = [req EXCEPT ![r].at = "clean", ![r].again = FALSE]
          \/ ~req[r].again /\ Ends(r, "failed")
      BY <1>3 DEF CleanFind, CleanRemove, CleanEnds
    <2>4. CASE req' = [req EXCEPT ![r].seen = Find("main"), ![r].at = "remove"]
      <3>1. Find("main") \in Ids \cup {None} /\ "remove" \in Steps
        BY FindSpec DEF Steps
      <3>2. /\ req' \in Reqs /\ \A q \in Slots \ {r} : req'[q] = req[q]
            /\ req'[r].op = req[r].op /\ req'[r].at = "remove"
            /\ req'[r].again = req[r].again
        BY <2>4, <3>1, SeesType
      <3>3. req[r].at = "sweep"
        BY <1>3, <3>2, <2>4 DEF CleanFind, CleanRemove, CleanEnds, Ends, NoRequest, Reqs, Request
      <3>4. Owes(req[r]) => Owes(req'[r])
        BY <1>1, <3>2, <3>3 DEF Owes
      <3>5. ops' \in 0 .. MaxOps /\ faults' \in 0 .. MaxFaults
        BY <2>1, FaultsType
      <3> QED
        BY <1>1, <2>1, <2>2, <3>2, <3>4, <3>5 DEF Good
    <2>5. CASE req[r].again /\ req' = [req EXCEPT ![r].at = "clean", ![r].again = FALSE]
      <3>1. /\ req' \in Reqs /\ \A q \in Slots \ {r} : req'[q] = req[q]
            /\ req'[r].op = req[r].op /\ req'[r].at = "clean"
        BY <2>5 DEF Reqs, Request, Steps
      <3>2. Owes(req'[r])
        BY <1>1, <3>1 DEF Owes
      <3> QED
        BY <1>1, <2>1, <2>2, <3>1, <3>2, WorkingGood
    <2>6. CASE ~req[r].again /\ Ends(r, "failed")
      <3>1. /\ req' \in Reqs /\ \A q \in Slots \ {r} : req'[q] = req[q]
            /\ req'[r].at = "done"
        BY <2>6, EndsType DEF Results
      <3>2. ~Owes(req[r])
        <4>1. req[r].at # "clean"
          BY <1>3 DEF CleanFind, CleanRemove
        <4> QED
          BY <1>1, <2>6, <4>1 DEF Owes
      <3>3. ops' \in 0 .. MaxOps /\ faults' \in 0 .. MaxFaults
        BY <2>1, FaultsType
      <3> QED
        BY <2>1, <2>2, <3>1, <3>2, <3>3 DEF Good
    <2> QED
      BY <2>3, <2>4, <2>5, <2>6
  <1> QED
    BY <1>2, <1>3 DEF Clean
----------------------------------------------------------------------------
(* Every step keeps the invariant *)

LEMMA ArriveGood ==
  ASSUME IInv, NEW r \in Slots, Arrive(r)
  PROVE  Good(r)
  <1> USE Typed
  <1>1. /\ row' = row /\ docker' = docker /\ faults' = faults /\ ops' = ops + 1
        /\ ops < MaxOps /\ req[r].at = "done"
    BY DEF Arrive, Active
  <1>2. ops' \in 0 .. MaxOps
    BY <1>1, ServiceAssumption
  <1>3. ~Owes(req[r])
    BY <1>1 DEF Owes
  <1>4. CASE Ends(r, "refused")
    <2>1. /\ req' \in Reqs /\ \A q \in Slots \ {r} : req'[q] = req[q]
          /\ req'[r].at = "done"
      BY <1>4, EndsType DEF Results
    <2> QED
      BY <1>1, <1>2, <1>3, <2>1 DEF Good
  <1>5. ASSUME NEW op \in Kinds, NEW to \in Versions,
               req' = [req EXCEPT ![r] = [NoRequest("none") EXCEPT !.op = op,
                                            !.at = FirstStep(op), !.row = row, !.to = to]]
        PROVE  Good(r)
    <2> DEFINE new == [NoRequest("none") EXCEPT !.op = op, !.at = FirstStep(op), !.row = row,
                                                !.to = to]
               step == FirstStep(op)
    <2>1. op \in Ops
      BY ServiceAssumption
    <2>2. /\ step \in Steps /\ step \in {"mark", "pull", "find", "list", "offer"}
          /\ step = "mark" => op \in Inst
          /\ op \in Inst => step = "mark"
      BY <2>1 DEF FirstStep, Ops, Steps, Inst
    <2> HIDE DEF step
    <2>3. NoRequest("none") \in Request
      BY NoRequestType DEF Results
    <2>4. new \in Request /\ new.op = op /\ new.at = step
      BY <2>1, <2>2, <2>3 DEF Request, step
    <2>5. req' = [req EXCEPT ![r] = new]
      BY <1>5
    <2> HIDE DEF new
    <2>6. /\ req' \in Reqs /\ \A q \in Slots \ {r} : req'[q] = req[q]
          /\ req'[r].op = op /\ req'[r].at = step
      BY <2>4, <2>5 DEF Reqs
    <2> QED
      BY <1>1, <1>2, <1>3, <2>2, <2>6 DEF Good
  <1> QED
    BY <1>4, <1>5 DEF Arrive

LEMMA ProceedGood ==
  ASSUME IInv, NEW r \in Slots, Proceed(r)
  PROVE  Good(r)
  BY InstallGood, ReinstallGood, CleanGood, UpdateGood, AffectGood, ReadGood DEF Proceed

LEMMA MetType ==
  ASSUME IInv, NEW things \in SUBSET (Ops \cup Faults), Remembers(things)
  PROVE  met' \in [Slots -> SUBSET (Ops \cup Faults)]
  <1>1. \A p \in Slots : req[p].op \in Ops
    BY Typed DEF Request
  <1>2. {req[p].op : p \in {p \in Slots : Active(p)}} \subseteq Ops
    BY <1>1
  <1>3. \A r \in Slots : met[r] \subseteq Ops \cup Faults
    BY DEF IInv, TypeOK
  <1> QED
    BY <1>2, <1>3 DEF Remembers

LEMMA GoodStep ==
  ASSUME IInv, NEW r \in Slots, Good(r), met' \in [Slots -> SUBSET (Ops \cup Faults)],
         past \subseteq past', past' \subseteq {"down", "cleared"}
  PROVE  IInv'
  <1>1. TypeOK'
    BY DEF Good, TypeOK, Reqs, Dockers
  <1>2. StepOK'
    BY DEF Good, StepOK, IInv
  <1>3. WorkOK'
    <2> SUFFICES ASSUME row'.status = "installing", "down" \notin past'
                 PROVE  \E q \in Slots : Owes(req'[q])
      BY DEF WorkOK
    <2>1. CASE Owes(req'[r])
      BY <2>1
    <2>2. CASE row.status = "installing" /\ ~Owes(req[r])
      <3>1. PICK q \in Slots : Owes(req[q])
        BY <2>2 DEF IInv, WorkOK
      <3>2. req'[q] = req[q]
        BY <2>2, <3>1 DEF Good
      <3> QED
        BY <3>1, <3>2
    <2> QED
      BY <2>1, <2>2 DEF Good
  <1> QED
    BY <1>1, <1>2, <1>3 DEF IInv

\* What happens outside the requests: the row stays and only a shutdown ends requests.
LEMMA EnvironmentStep ==
  ASSUME IInv, \/ Dies /\ Remembers({"dies"}) /\ UNCHANGED past
               \/ RemovedByHand /\ Remembers({"by hand"}) /\ past' = past \cup {"cleared"}
               \/ Shutdown /\ Remembers({}) /\ past' = past \cup {"down"}
  PROVE  IInv'
  <1>1. /\ row \in Row /\ docker \in Dockers /\ req \in Reqs /\ ops \in 0 .. MaxOps
        /\ faults \in 0 .. MaxFaults /\ past \subseteq {"down", "cleared"}
    BY DEF IInv, TypeOK, Reqs, Dockers
  <1>2. row' = row /\ ops' = ops /\ Hit
    BY DEF Dies, RemovedByHand, Shutdown
  <1>3. faults' \in 0 .. MaxFaults
    BY <1>1, <1>2, FaultsType
  <1>4. met' \in [Slots -> SUBSET (Ops \cup Faults)]
    BY MetType DEF Faults
  <1>5. docker' \in Dockers
    BY <1>1, DockerType DEF Dies, RemovedByHand, Shutdown
  <1>6. past' \subseteq {"down", "cleared"} /\ past \subseteq past'
    BY <1>1
  <1>7. CASE req' = req
    <2>1. TypeOK'
      BY <1>1, <1>2, <1>3, <1>4, <1>5, <1>6, <1>7 DEF TypeOK, Reqs, Dockers
    <2>2. StepOK'
      BY <1>7 DEF IInv, StepOK
    <2>3. WorkOK'
      BY <1>2, <1>6, <1>7 DEF IInv, WorkOK
    <2> QED
      BY <2>1, <2>2, <2>3 DEF IInv
  <1>8. CASE Shutdown /\ past' = past \cup {"down"}
    <2>1. req' = [r \in Slots |-> NoRequest("none")]
      BY <1>8 DEF Shutdown
    <2>2. req' \in Reqs /\ \A r \in Slots : req'[r].at = "done"
      BY <2>1, NoRequestType DEF Results, Reqs
    <2>3. TypeOK'
      BY <1>1, <1>2, <1>3, <1>4, <1>5, <1>6, <2>2 DEF TypeOK, Reqs, Dockers
    <2>4. StepOK'
      BY <2>2 DEF StepOK
    <2>5. WorkOK'
      BY <1>8 DEF WorkOK
    <2> QED
      BY <2>3, <2>4, <2>5 DEF IInv
  <1> QED
    BY <1>7, <1>8 DEF Dies, RemovedByHand

LEMMA InitInv == Init => IInv
  <1> SUFFICES ASSUME Init PROVE IInv
    OBVIOUS
  <1>1. \A r \in Slots : req[r] \in Request /\ req[r].at = "done"
    BY NoRequestType DEF Init, Results
  <1>2. req \in Reqs
    BY <1>1, NoRequestType DEF Init, Results, Reqs
  <1>3. row \in Row /\ row.status = "idle"
    <2>1. PICK here \in BOOLEAN : row = [NewRow EXCEPT !.installed = here]
      BY DEF Init
    <2>2. NewRow \in Row /\ NewRow.status = "idle"
      BY NoRequestType DEF Results, NewRow
    <2> QED
      BY <2>1, <2>2 DEF Row
  <1>4. docker \in Dockers
    <2>1. PICK here \in BOOLEAN :
            docker = [i \in Ids |->
                        [name |-> IF here /\ i = CHOOSE j \in Ids : TRUE THEN "main" ELSE "unused",
                         running |-> here /\ i = CHOOSE j \in Ids : TRUE, image |-> 1]]
      BY DEF Init
    <2>2. 1 \in Versions
      BY ServiceAssumption DEF Versions
    <2>3. \A i \in Ids : (here /\ i = CHOOSE j \in Ids : TRUE) \in BOOLEAN
      OBVIOUS
    <2> QED
      BY <2>1, <2>2, <2>3 DEF Dockers, Container
  <1>5. /\ met \in [Slots -> SUBSET (Ops \cup Faults)] /\ past \subseteq {"down", "cleared"}
        /\ ops \in 0 .. MaxOps /\ faults \in 0 .. MaxFaults
    BY ServiceAssumption DEF Init
  <1>6. TypeOK
    BY <1>2, <1>3, <1>4, <1>5 DEF TypeOK, Reqs, Dockers
  <1> QED
    BY <1>1, <1>3, <1>6 DEF IInv, StepOK, WorkOK

LEMMA StepInv == IInv /\ [Next]_vars => IInv'
  <1> SUFFICES ASSUME IInv, [Next]_vars PROVE IInv'
    OBVIOUS
  <1>1. past \subseteq {"down", "cleared"}
    BY DEF IInv, TypeOK
  <1>2. ASSUME NEW r \in Slots, Arrive(r) PROVE IInv'
    <2>1. Good(r)
      BY <1>2, ArriveGood
    <2>2. met' \in [Slots -> SUBSET (Ops \cup Faults)]
      <3>1. PICK op \in Kinds : Remembers({op})
        BY <1>2 DEF Arrive
      <3>2. {op} \subseteq Ops \cup Faults
        BY ServiceAssumption
      <3> QED
        BY <3>1, <3>2, MetType
    <2> QED
      BY <1>1, <1>2, <2>1, <2>2, GoodStep DEF Arrive
  <1>3. ASSUME NEW r \in Slots, Step(r) PROVE IInv'
    <2>1. Good(r)
      BY <1>3, ProceedGood DEF Step
    <2>2. met' \in [Slots -> SUBSET (Ops \cup Faults)]
      <3> DEFINE things == IF faults' > faults THEN {"docker"} ELSE {}
      <3>1. things \subseteq Ops \cup Faults
        BY DEF Faults
      <3>2. Remembers(things)
        BY <1>3 DEF Step
      <3> HIDE DEF things
      <3> QED
        BY <3>1, <3>2, MetType
    <2>3. past \subseteq past' /\ past' \subseteq {"down", "cleared"}
      BY <1>1, <1>3 DEF Step
    <2> QED
      BY <2>1, <2>2, <2>3, GoodStep
  <1>4. CASE UNCHANGED vars
    BY <1>4 DEF vars, IInv, TypeOK, StepOK, WorkOK, Owes
  <1> QED
    BY <1>2, <1>3, <1>4, EnvironmentStep DEF Next

(* TypeOK: whatever requests, faults and restarts do, the row has a status of the   *)
(* column and every copy of it that a request holds is a possible row.              *)
THEOREM ServiceTypeCorrect == Spec => []TypeOK
  <1>1. Spec => []IInv
    BY InitInv, StepInv, PTL DEF Spec
  <1>2. IInv => TypeOK
    BY DEF IInv
  <1> QED
    BY <1>1, <1>2, PTL

(* InstallingIsWorkedOn: a row that says "installing", and so refuses every other     *)
(* installation, is being worked on by an installation that still owes it another     *)
(* status, unless the server went down in the middle of a request.                    *)
THEOREM InstallationInCharge == Spec => []InstallingIsWorkedOn
  <1>1. Spec => []IInv
    BY InitInv, StepInv, PTL DEF Spec
  <1>2. IInv => InstallingIsWorkedOn
    BY DEF IInv, WorkOK, InstallingIsWorkedOn, Owes, Inst, Active
  <1> QED
    BY <1>1, <1>2, PTL

----------------------------------------------------------------------------
(* Updates keep a container *)

\* An update between the creation of its container and the end of its rollback or clean-up, and
\* one that has found a container to replace.
Replaces(q) == q.op = "update" /\ q.at \in {"boot", "health", "tidy", "purge", "discard"}
Late(q) == q.op = "update" /\ q.at \notin {"done", "pull", "find"}

Somewhere == \E i \in Ids : InDocker(i)

\* Names in Docker are unique, so one update at a time replaces; its container is "main", and the
\* one it replaces is still "old".
Replacing ==
    /\ \A r, s \in Slots : Replaces(req[r]) /\ Replaces(req[s]) => r = s
    /\ \A r \in Slots : Replaces(req[r]) =>
          /\ req[r].made \in Named("main") /\ Named("old") # {}
          /\ req[r].at = "purge" => req[r].seen \in Named("old")
SomeLeft == \A r \in Slots : Late(req[r]) => Somewhere
Kept == Replacing /\ SomeLeft
KInv == "cleared" \in past \/ Kept

\* What a step that clears nothing has to show.
Keeps == Kept' /\ (Somewhere => Somewhere')

LEMMA SameNames ==
    ASSUME docker' \in [Ids -> Container], docker \in [Ids -> Container],
           \A i \in Ids : docker'[i].name = docker[i].name
    PROVE  /\ \A n : Named(n)' = Named(n)
           /\ Somewhere' <=> Somewhere
  BY DEF Named, Somewhere, InDocker

\* The names stay, and the request neither starts to replace nor, without a container, gets late.
LEMMA FreeStep ==
    ASSUME IInv, IInv', Kept, NEW r \in Slots,
           \A i \in Ids : docker'[i].name = docker[i].name,
           \A q \in Slots \ {r} : req'[q] = req[q],
           Replaces(req'[r]) => /\ Replaces(req[r]) /\ req'[r].made = req[r].made
                                /\ req'[r].at = "purge" => req'[r].seen \in Named("old"),
           Late(req'[r]) => Late(req[r]) \/ Somewhere
    PROVE  Keeps
  <1>1. (\A n : Named(n)' = Named(n)) /\ (Somewhere' <=> Somewhere)
    BY SameNames DEF IInv, TypeOK
  <1>2. Replacing'
    <2>1. \A q \in Slots : Replaces(req'[q]) => Replaces(req[q]) /\ req'[q].made = req[q].made
      OBVIOUS
    <2>2. \A q, s \in Slots : Replaces(req'[q]) /\ Replaces(req'[s]) => q = s
      BY <2>1 DEF Kept, Replacing
    <2>3. ASSUME NEW q \in Slots, Replaces(req'[q])
          PROVE  /\ req'[q].made \in Named("main") /\ Named("old") # {}
                 /\ req'[q].at = "purge" => req'[q].seen \in Named("old")
      <3>1. req[q].made \in Named("main") /\ Named("old") # {}
        BY <2>1, <2>3 DEF Kept, Replacing
      <3>2. CASE q = r
        BY <2>3, <3>1, <3>2
      <3>3. CASE q # r
        BY <2>3, <3>1, <3>3 DEF Kept, Replacing
      <3> QED BY <3>2, <3>3
    <2> QED BY <1>1, <2>2, <2>3 DEF Replacing, Replaces
  <1>3. SomeLeft'
    <2>1. ASSUME NEW q \in Slots, Late(req'[q]) PROVE Somewhere
      <3>1. CASE q = r
        BY <2>1, <3>1 DEF Kept, SomeLeft
      <3>2. CASE q # r
        BY <2>1, <3>2 DEF Kept, SomeLeft
      <3> QED BY <3>1, <3>2
    <2> QED BY <1>1, <2>1 DEF SomeLeft, Late
  <1> QED BY <1>1, <1>2, <1>3 DEF Keeps, Kept

\* A name is taken that was free: nobody replaces who would have needed it.
LEMMA NoneReplaces ==
    ASSUME Kept, Named("main") = {} \/ Named("old") = {}
    PROVE  \A r \in Slots : ~Replaces(req[r])
  BY DEF Kept, Replacing

LEMMA NamingStep ==
    ASSUME IInv, Kept, NEW r \in Slots, Named("main") = {} \/ Named("old") = {},
           \A q \in Slots \ {r} : req'[q] = req[q], ~Replaces(req'[r]),
           NEW i \in Ids, docker'[i].name \in {"main", "old"}
    PROVE  Keeps
  <1>1. Somewhere'
    BY DEF Somewhere, InDocker
  <1>2. \A q \in Slots : ~Replaces(req'[q])
    BY NoneReplaces
  <1> QED BY <1>1, <1>2 DEF Keeps, Kept, SomeLeft, Replacing, Replaces

LEMMA CreateIs ==
    ASSUME IInv, NEW r \in Slots, NEW image, NEW step, CreateMain(r, image, step)
    PROVE  \E i \in Ids : /\ docker[i].name = "unused" /\ docker'[i].name = "main"
                          /\ \A j \in Ids \ {i} : docker'[j] = docker[j]
                          /\ req'[r].made = i /\ req'[r].at = step /\ req'[r].op = req[r].op
                          /\ \A q \in Slots \ {r} : req'[q] = req[q]
  <1> DEFINE i == Find("unused")
  <1>1. i \in Ids /\ docker[i].name = "unused"
    BY FindSpec DEF CreateMain
  <1>2. /\ docker' = [docker EXCEPT ![i] = [name |-> "main", running |-> FALSE, image |-> image]]
        /\ req' = [req EXCEPT ![r].made = i, ![r].at = step]
    BY DEF CreateMain
  <1> HIDE DEF i
  <1>3. docker'[i].name = "main" /\ \A j \in Ids \ {i} : docker'[j] = docker[j]
    BY <1>1, <1>2, Typed DEF Dockers
  <1>4. /\ req'[r].made = i /\ req'[r].at = step /\ req'[r].op = req[r].op
        /\ \A q \in Slots \ {r} : req'[q] = req[q]
    BY <1>1, <1>2, Typed DEF Reqs, Request
  <1> QED BY <1>1, <1>3, <1>4

LEMMA RunningNames ==
    ASSUME IInv, NEW i, NEW on, SetRunning(i, on)
    PROVE  \A j \in Ids : docker'[j].name = docker[j].name
  <1>1. docker' = [docker EXCEPT ![i].running = on]
    BY DEF SetRunning
  <1>2. \A j \in Ids : docker[j] \in Container
    BY DEF IInv, TypeOK
  <1>3. ASSUME NEW j \in Ids PROVE docker'[j].name = docker[j].name
    <2>1. CASE j = i
      <3>1. docker'[j] = [docker[j] EXCEPT !.running = on]
        BY <1>1, <2>1 DEF IInv, TypeOK
      <3> QED BY <1>2, <3>1 DEF Container
    <2>2. CASE j # i
      BY <1>1, <2>2 DEF IInv, TypeOK
    <2> QED BY <2>1, <2>2
  <1> QED BY <1>3

LEMMA RemovedIs ==
    ASSUME IInv, NEW i, RemoveContainer(i)
    PROVE  /\ InDocker(i) => i \in Ids /\ docker'[i].name = "gone" /\ Removes
           /\ ~InDocker(i) => docker' = docker
           /\ \A j \in Ids \ {i} : docker'[j].name = docker[j].name
  <1>1. CASE ~InDocker(i)
    BY <1>1 DEF RemoveContainer
  <1>2. CASE InDocker(i)
    <2>1. i \in Ids /\ docker' = [docker EXCEPT ![i].name = "gone", ![i].running = FALSE]
      BY <1>2 DEF RemoveContainer, InDocker
    <2>2. docker'[i].name = "gone" /\ \A j \in Ids \ {i} : docker'[j] = docker[j]
      BY <2>1 DEF IInv, TypeOK, Container
    <2>3. Removes
      BY <1>2, <2>1, <2>2 DEF Removes, InDocker
    <2> QED BY <1>2, <2>1, <2>2, <2>3
  <1> QED BY <1>1, <1>2

LEMMA RequestIs ==
    ASSUME IInv, NEW r \in Slots
    PROVE  /\ \A step : Goes(r, step) =>
                 /\ req'[r].at = step /\ req'[r].op = req[r].op
                 /\ req'[r].made = req[r].made /\ req'[r].seen = req[r].seen
                 /\ \A q \in Slots \ {r} : req'[q] = req[q]
           /\ \A result : Ends(r, result) =>
                 /\ req'[r].at = "done" /\ \A q \in Slots \ {r} : req'[q] = req[q]
  <1>1. req \in Reqs /\ req[r] \in Request
    BY Typed
  <1>2. ASSUME NEW step, Goes(r, step)
        PROVE  /\ req'[r].at = step /\ req'[r].op = req[r].op
               /\ req'[r].made = req[r].made /\ req'[r].seen = req[r].seen
               /\ \A q \in Slots \ {r} : req'[q] = req[q]
    BY <1>1, <1>2 DEF Goes, Reqs, Request
  <1>3. ASSUME NEW result, Ends(r, result)
        PROVE  req'[r].at = "done" /\ \A q \in Slots \ {r} : req'[q] = req[q]
    BY <1>1, <1>3 DEF Ends, Reqs, NoRequest
  <1> QED BY <1>2, <1>3

LEMMA SameDocker == ASSUME IInv, UNCHANGED docker PROVE \A i \in Ids : docker'[i].name = docker[i].name
  OBVIOUS

LEMMA EndsKeeps ==
    ASSUME IInv, IInv', Kept, NEW r \in Slots, NEW result, Ends(r, result),
           \A i \in Ids : docker'[i].name = docker[i].name
    PROVE  Keeps
  <1>1. req'[r].at = "done" /\ \A q \in Slots \ {r} : req'[q] = req[q]
    BY RequestIs
  <1>2. ~Replaces(req'[r]) /\ ~Late(req'[r])
    BY <1>1 DEF Replaces, Late
  <1> QED BY <1>1, <1>2, FreeStep

LEMMA AbandonsKeeps ==
    ASSUME IInv, IInv', Kept, NEW r \in Slots, Abandons(r) PROVE Keeps
  BY EndsKeeps DEF Abandons

\* An update goes on and the names stay.
LEMMA GoesKeeps ==
    ASSUME IInv, IInv', Kept, NEW r \in Slots, NEW step, Goes(r, step), req[r].op = "update",
           step \in {"boot", "health", "tidy", "discard"} => Replaces(req[r]),
           step # "purge", step = "find" \/ Late(req[r]),
           \A i \in Ids : docker'[i].name = docker[i].name
    PROVE  Keeps
  <1>1. /\ req'[r].at = step /\ req'[r].op = "update" /\ req'[r].made = req[r].made
        /\ \A q \in Slots \ {r} : req'[q] = req[q]
    BY RequestIs
  <1>2. Replaces(req'[r]) => Replaces(req[r])
    BY <1>1 DEF Replaces
  <1>3. Late(req'[r]) => Late(req[r])
    BY <1>1 DEF Late
  <1> QED BY <1>1, <1>2, <1>3, FreeStep

LEMMA FindKeeps ==
    ASSUME IInv, IInv', Kept, NEW r \in Slots, UpdatePull(r) \/ UpdateFind(r) PROVE Keeps
  <1>1. CASE UpdatePull(r)
    <2>1. req[r].op = "update"
      BY <1>1 DEF UpdatePull, At
    <2>2. CASE Goes(r, "find") /\ UNCHANGED docker
      BY <2>1, <2>2, GoesKeeps, SameDocker
    <2> QED BY <1>1, <2>2, AbandonsKeeps DEF UpdatePull
  <1>2. CASE UpdateFind(r)
    <2> DEFINE i == Find("main")
               step == IF docker[i].running THEN "stop" ELSE "rename"
    <2>1. CASE Abandons(r)
      BY <2>1, AbandonsKeeps
    <2>2. CASE i # None /\ req' = [req EXCEPT ![r].seen = i, ![r].at = step] /\ UNCHANGED docker
      <3>1. i \in Ids /\ docker[i].name = "main"
        BY <2>2, FindSpec
      <3>2. Somewhere
        BY <3>1 DEF Somewhere, InDocker
      <3>3. step \in {"stop", "rename"}
        OBVIOUS
      <3> HIDE DEF i, step
      <3>4. req'[r].at = step /\ \A q \in Slots \ {r} : req'[q] = req[q]
        BY <2>2, Typed DEF Reqs, Request
      <3>5. ~Replaces(req'[r])
        BY <3>3, <3>4 DEF Replaces
      <3> QED BY <2>2, <3>2, <3>4, <3>5, SameDocker, FreeStep
    <2> QED BY <1>2, <2>1, <2>2 DEF UpdateFind, Works
  <1> QED BY <1>1, <1>2

LEMMA RenameKeeps ==
    ASSUME IInv, IInv', Kept, NEW r \in Slots, UpdateStop(r) \/ UpdateRename(r) PROVE Keeps
  <1>1. req[r].op = "update" /\ Late(req[r])
    BY DEF UpdateStop, UpdateRename, At, Late
  <1>2. CASE UpdateStop(r)
    <2>1. CASE SetRunning(req[r].seen, FALSE) /\ Goes(r, "rename")
      BY <1>1, <2>1, RunningNames, GoesKeeps
    <2> QED BY <1>2, <2>1, AbandonsKeeps DEF UpdateStop
  <1>3. CASE UpdateRename(r)
    <2> DEFINE i == req[r].seen
    <2>1. CASE InDocker(i) /\ Named("old") = {} /\ Rename(i, "old") /\ Goes(r, "create")
      <3>1. i \in Ids /\ docker'[i].name = "old"
        BY <2>1 DEF InDocker, Rename, IInv, TypeOK, Container
      <3>2. req'[r].at = "create" /\ \A q \in Slots \ {r} : req'[q] = req[q]
        BY <2>1, RequestIs
      <3>3. ~Replaces(req'[r])
        BY <3>2 DEF Replaces
      <3> HIDE DEF i
      <3> QED BY <2>1, <3>1, <3>2, <3>3, NamingStep
    <2> QED BY <1>3, <2>1, AbandonsKeeps DEF UpdateRename, Works
  <1> QED BY <1>2, <1>3

\* The container that is created finds the one that it replaces under the other name.
LEMMA CreateKeeps ==
    ASSUME IInv, IInv', Kept, NEW r \in Slots, UpdateCreate(r) PROVE Keeps
  <1>1. req[r].op = "update" /\ Late(req[r])
    BY DEF UpdateCreate, At, Late
  <1>2. CASE Goes(r, "back") /\ UNCHANGED docker
    BY <1>1, <1>2, GoesKeeps, SameDocker
  <1>3. CASE Named("main") = {} /\ CreateMain(r, req[r].to, "boot")
    <2>1. PICK i \in Ids : /\ docker[i].name = "unused" /\ docker'[i].name = "main"
                           /\ \A j \in Ids \ {i} : docker'[j] = docker[j]
                           /\ req'[r].made = i /\ req'[r].at = "boot"
                           /\ \A q \in Slots \ {r} : req'[q] = req[q]
      BY <1>3, CreateIs
    <2>2. PICK j \in Ids : docker[j].name = "old"
      BY <1>1, <1>3 DEF Kept, SomeLeft, Somewhere, InDocker, Named
    <2>3. docker'[j].name = "old"
      BY <2>1, <2>2
    <2>4. \A q \in Slots \ {r} : ~Replaces(req'[q])
      BY <1>3, <2>1, NoneReplaces
    <2>5. Somewhere'
      BY <2>3 DEF Somewhere, InDocker
    <2>6. Replacing'
      BY <2>1, <2>3, <2>4 DEF Replacing, Replaces, Named
    <2> QED BY <2>5, <2>6 DEF Keeps, Kept, SomeLeft
  <1> QED BY <1>2, <1>3 DEF UpdateCreate, Works

LEMMA HealthKeeps ==
    ASSUME IInv, IInv', Kept, NEW r \in Slots, UpdateBoot(r) \/ UpdateHealth(r) \/ UpdateTidy(r) PROVE Keeps
  <1>1. req[r].op = "update" /\ Late(req[r]) /\ Replaces(req[r])
    BY DEF UpdateBoot, UpdateHealth, UpdateTidy, At, Late, Replaces
  <1>2. CASE UpdateBoot(r)
    <2>1. CASE SetRunning(req[r].made, TRUE) /\ Goes(r, "health")
      BY <1>1, <2>1, RunningNames, GoesKeeps
    <2> QED BY <1>2, <2>1, AbandonsKeeps DEF UpdateBoot
  <1>3. CASE UpdateHealth(r)
    <2>1. CASE (Goes(r, "tidy") \/ Goes(r, "discard")) /\ UNCHANGED docker
      BY <1>1, <2>1, SameDocker, GoesKeeps
    <2> QED BY <1>3, <2>1, AbandonsKeeps DEF UpdateHealth
  <1>4. CASE UpdateTidy(r)
    <2>1. UNCHANGED docker
      BY <1>4 DEF UpdateTidy
    <2>2. CASE Goes(r, "record")
      BY <1>1, <2>1, <2>2, SameDocker, GoesKeeps
    <2>3. CASE req' = [req EXCEPT ![r].seen = Find("old"), ![r].at = "purge"]
      <3>1. Find("old") \in Named("old")
        BY <1>1, FindSpec DEF Kept, Replacing, Named
      <3>2. /\ req'[r].at = "purge" /\ req'[r].made = req[r].made /\ req'[r].seen = Find("old")
            /\ \A q \in Slots \ {r} : req'[q] = req[q]
        BY <2>3, Typed DEF Reqs, Request
      <3> QED BY <1>1, <2>1, <3>1, <3>2, SameDocker, FreeStep
    <2> QED BY <1>4, <2>2, <2>3 DEF UpdateTidy
  <1> QED BY <1>2, <1>3, <1>4

\* Whichever of its two containers an update removes, it leaves the other.
LEMMA RemoveKeeps ==
    ASSUME IInv, IInv', Kept, NEW r \in Slots, UpdatePurge(r) \/ UpdateDiscard(r) PROVE Keeps
  <1>1. req[r].op = "update" /\ Late(req[r]) /\ Replaces(req[r])
    BY DEF UpdatePurge, UpdateDiscard, At, Late, Replaces
  <1>2. req'[r].at \in {"record", "back"} /\ \A q \in Slots \ {r} : req'[q] = req[q]
    BY RequestIs DEF UpdatePurge, UpdateDiscard
  <1>3. \A q \in Slots : ~Replaces(req'[q])
    BY <1>1, <1>2 DEF Kept, Replacing, Replaces
  <1>4. req[r].made \in Ids /\ docker[req[r].made].name = "main"
    BY <1>1 DEF Kept, Replacing, Named
  <1>5. PICK i \in Ids : docker'[i].name \in {"main", "old"}
    <2>1. PICK j \in Ids : docker[j].name = "old"
      BY <1>1 DEF Kept, Replacing, Named
    <2>2. CASE UNCHANGED docker
      BY <2>1, <2>2
    <2>3. CASE UpdatePurge(r) /\ RemoveContainer(req[r].seen)
      <3>1. req[r].seen \in Ids /\ docker[req[r].seen].name = "old"
        BY <1>1, <2>3 DEF Kept, Replacing, Named, UpdatePurge, At
      <3>2. docker'[req[r].made].name = docker[req[r].made].name
        BY <1>4, <2>3, <3>1, RemovedIs
      <3> QED BY <1>4, <3>2
    <2>4. CASE UpdateDiscard(r) /\ RemoveContainer(req[r].made)
      <3>1. docker'[j].name = docker[j].name
        BY <1>4, <2>1, <2>4, RemovedIs
      <3> QED BY <2>1, <3>1
    <2> QED BY <2>2, <2>3, <2>4 DEF UpdatePurge, UpdateDiscard
  <1>6. Somewhere'
    BY <1>5 DEF Somewhere, InDocker
  <1> QED BY <1>3, <1>6 DEF Keeps, Kept, SomeLeft, Replacing, Replaces

LEMMA RestoreKeeps ==
    ASSUME IInv, IInv', Kept, NEW r \in Slots,
           UpdateRecord(r) \/ UpdateBack(r) \/ UpdateRestore(r) \/ UpdateRestart(r)
    PROVE  Keeps
  <1>1. req[r].op = "update" /\ Late(req[r])
    BY DEF UpdateRecord, UpdateBack, UpdateRestore, UpdateRestart, At, Late
  <1>2. CASE UpdateRecord(r)
    BY <1>2, EndsKeeps, SameDocker DEF UpdateRecord
  <1>3. CASE UpdateBack(r)
    <2>1. UNCHANGED docker
      BY <1>3 DEF UpdateBack
    <2>2. CASE req' = [req EXCEPT ![r].seen = Find("old"), ![r].at = "restore"]
      <3>1. req'[r].at = "restore" /\ \A q \in Slots \ {r} : req'[q] = req[q]
        BY <2>2, Typed DEF Reqs, Request
      <3>2. ~Replaces(req'[r])
        BY <3>1 DEF Replaces
      <3> QED BY <1>1, <2>1, <3>1, <3>2, SameDocker, FreeStep
    <2>3. CASE \E result : Ends(r, result)
      BY <2>1, <2>3, SameDocker, EndsKeeps
    <2> QED BY <1>3, <2>2, <2>3 DEF UpdateBack
  <1>4. CASE UpdateRestore(r)
    <2> DEFINE i == req[r].seen
    <2>1. CASE InDocker(i) /\ Named("main") = {} /\ Rename(i, "main") /\ Goes(r, "restart")
      <3>1. i \in Ids /\ docker'[i].name = "main"
        BY <2>1 DEF InDocker, Rename, IInv, TypeOK, Container
      <3>2. req'[r].at = "restart" /\ \A q \in Slots \ {r} : req'[q] = req[q]
        BY <2>1, RequestIs
      <3>3. ~Replaces(req'[r])
        BY <3>2 DEF Replaces
      <3> HIDE DEF i
      <3> QED BY <2>1, <3>1, <3>2, <3>3, NamingStep
    <2> QED BY <1>4, <2>1, AbandonsKeeps DEF UpdateRestore, Works
  <1>5. CASE UpdateRestart(r)
    <2>1. CASE SetRunning(req[r].seen, TRUE) /\ Ends(r, "rolled back")
      BY <2>1, RunningNames, EndsKeeps
    <2> QED BY <1>5, <2>1, AbandonsKeeps DEF UpdateRestart
  <1> QED BY <1>2, <1>3, <1>4, <1>5

LEMMA UpdateKeeps ==
    ASSUME IInv, IInv', Kept, NEW r \in Slots, Update(r) PROVE Keeps
  BY FindKeeps, RenameKeeps, CreateKeeps, HealthKeeps, RemoveKeeps, RestoreKeeps DEF Update

\* Another request never becomes an update on its way.
LEMMA OtherStays ==
    ASSUME IInv, NEW r \in Slots, req[r].op # "update",
           \/ Install(r) \/ Reinstall(r) \/ Clean(r)
           \/ AffectFind(r) \/ AffectAct(r) \/ ReadList(r) \/ ReadSync(r) \/ CheckOffer(r)
    PROVE  /\ ~Replaces(req'[r]) /\ ~Late(req'[r])
           /\ \A q \in Slots \ {r} : req'[q] = req[q]
  <1>1. req \in Reqs /\ req[r] \in Request /\ req[r].op # "update"
    BY Typed
  <1>2. \/ req'[r].op = req[r].op \/ req'[r].at = "done"
    <2>1. ASSUME NEW step, Goes(r, step) PROVE req'[r].op = req[r].op
      BY <2>1, RequestIs
    <2>2. ASSUME NEW result, Ends(r, result) PROVE req'[r].at = "done"
      BY <2>2, RequestIs
    <2>3. CASE Install(r)
      <3>1. CASE Mark(r)
        BY <1>1, <3>1 DEF Mark, SavesAndGoes, Reqs, Request
      <3>2. ASSUME NEW image, NEW step, CreateMain(r, image, step) PROVE req'[r].op = req[r].op
        BY <3>2, CreateIs
      <3> QED BY <2>1, <2>2, <2>3, <3>1, <3>2 DEF Install, InstallCreate, InstallBoot, InstallRecord
    <2>4. CASE Reinstall(r)
      BY <1>1, <2>1, <2>4 DEF Reinstall, ReinstallFind, ReinstallStop, ReinstallDrop, ReinstallUnset,
                             Reqs, Request
    <2>5. CASE Clean(r)
      BY <1>1, <2>1, <2>2, <2>5 DEF Clean, CleanMark, CleanFind, CleanRemove, CleanEnds, Reqs, Request
    <2>6. CASE AffectFind(r) \/ AffectAct(r)
      BY <1>1, <2>2, <2>6 DEF AffectFind, AffectAct, Abandons, Reqs, Request
    <2>7. CASE ReadList(r) \/ ReadSync(r) \/ CheckOffer(r)
      BY <1>1, <2>1, <2>2, <2>7 DEF ReadList, ReadSync, CheckOffer, Reqs, Request
    <2> QED BY <2>3, <2>4, <2>5, <2>6, <2>7
  <1>3. Good(r)
    BY ProceedGood DEF Proceed
  <1> QED BY <1>1, <1>2, <1>3 DEF Replaces, Late, Good

\* What it does to the names: nothing, or it takes a free one, or it removes.
LEMMA OtherNames ==
    ASSUME IInv, NEW r \in Slots,
           \/ Install(r) \/ Reinstall(r) \/ Clean(r)
           \/ AffectFind(r) \/ AffectAct(r) \/ ReadList(r) \/ ReadSync(r) \/ CheckOffer(r)
    PROVE  \/ \A i \in Ids : docker'[i].name = docker[i].name
           \/ Named("main") = {} /\ \E i \in Ids : docker'[i].name = "main"
           \/ Removes
  <1>1. CASE UNCHANGED docker
    BY <1>1, SameDocker
  <1>2. ASSUME NEW i, NEW on, SetRunning(i, on) PROVE \A j \in Ids : docker'[j].name = docker[j].name
    BY <1>2, RunningNames
  <1>3. ASSUME NEW i, RemoveContainer(i) PROVE UNCHANGED docker \/ Removes
    BY <1>3, RemovedIs
  <1>4. ASSUME NEW image, NEW step, CreateMain(r, image, step) PROVE \E i \in Ids : docker'[i].name = "main"
    BY <1>4, CreateIs
  <1>5. CASE Install(r)
    BY <1>1, <1>2, <1>4, <1>5 DEF Install, Mark, InstallCreate, InstallBoot, InstallRecord, Works
  <1>6. CASE Reinstall(r)
    BY <1>1, <1>2, <1>3, <1>6 DEF Reinstall, ReinstallFind, ReinstallStop, ReinstallDrop, ReinstallUnset
  <1>7. CASE Clean(r)
    BY <1>1, <1>3, <1>7 DEF Clean, CleanMark, CleanFind, CleanRemove
  <1>8. CASE AffectAct(r)
    BY <1>1, <1>2, <1>8 DEF AffectAct, Abandons
  <1>9. CASE AffectFind(r) \/ ReadList(r) \/ ReadSync(r) \/ CheckOffer(r)
    BY <1>1, <1>9 DEF AffectFind, ReadList, ReadSync, CheckOffer
  <1> QED BY <1>5, <1>6, <1>7, <1>8, <1>9

LEMMA StepKeeps ==
    ASSUME IInv, IInv', Kept, NEW r \in Slots, Step(r), "cleared" \notin past' PROVE Keeps
  <1>1. CASE Update(r)
    BY <1>1, UpdateKeeps
  <1>2. CASE req[r].op # "update" /\ ~Update(r)
    <2>1. \/ Install(r) \/ Reinstall(r) \/ Clean(r)
          \/ AffectFind(r) \/ AffectAct(r) \/ ReadList(r) \/ ReadSync(r) \/ CheckOffer(r)
      BY <1>2 DEF Step, Proceed
    <2>2. ~Removes
      BY <1>2 DEF Step
    <2>3. ~Replaces(req'[r]) /\ ~Late(req'[r]) /\ \A q \in Slots \ {r} : req'[q] = req[q]
      BY <1>2, <2>1, OtherStays
    <2>4. CASE \A i \in Ids : docker'[i].name = docker[i].name
      BY <2>3, <2>4, FreeStep
    <2>5. CASE Named("main") = {} /\ \E i \in Ids : docker'[i].name = "main"
      BY <2>3, <2>5, NamingStep
    <2> QED BY <2>1, <2>2, <2>4, <2>5, OtherNames
  <1>3. req[r].op # "update" \/ Update(r)
    <2>1. Clean(r) => req[r].op \in Inst
      BY DEF IInv, StepOK, Clean, CleanMark, CleanFind, CleanRemove
    <2> QED
      BY <2>1 DEF Step, Proceed, Install, Mark, InstallCreate, InstallBoot, InstallRecord,
         Reinstall, ReinstallFind, ReinstallStop, ReinstallDrop, ReinstallUnset,
         AffectFind, AffectAct, ReadList, ReadSync, CheckOffer, At, Inst
  <1> QED BY <1>1, <1>2, <1>3

LEMMA ArriveKeeps ==
    ASSUME IInv, IInv', Kept, NEW r \in Slots, Arrive(r) PROVE Keeps
  <1>1. UNCHANGED docker /\ req \in Reqs
    BY Typed DEF Arrive
  <1>2. PICK op \in Kinds, to \in Versions :
           IF Accepted(op)
           THEN req' = [req EXCEPT ![r] = [NoRequest("none") EXCEPT
                                             !.op = op, !.at = FirstStep(op), !.row = row, !.to = to]]
           ELSE Ends(r, "refused")
    BY DEF Arrive
  <1>3. CASE ~Accepted(op)
    BY <1>1, <1>2, <1>3, SameDocker, EndsKeeps
  <1>4. CASE Accepted(op)
    <2>1. /\ req'[r].op = op /\ req'[r].at = FirstStep(op)
          /\ \A q \in Slots \ {r} : req'[q] = req[q]
      BY <1>1, <1>2, <1>4 DEF Reqs, NoRequest
    <2>2. ~Replaces(req'[r]) /\ ~Late(req'[r])
      BY <2>1 DEF FirstStep, Replaces, Late
    <2> QED BY <1>1, <2>1, <2>2, SameDocker, FreeStep
  <1> QED BY <1>3, <1>4

LEMMA QuietKeeps ==
    ASSUME IInv, IInv', Kept, UNCHANGED req, \A i \in Ids : docker'[i].name = docker[i].name
    PROVE  Keeps
  <1>1. (\A n : Named(n)' = Named(n)) /\ (Somewhere' <=> Somewhere)
    BY SameNames DEF IInv, TypeOK
  <1> QED BY <1>1 DEF Keeps, Kept, Replacing, SomeLeft, Replaces, Late

LEMMA NextKeeps ==
    ASSUME IInv, IInv', Kept, [Next]_vars, "cleared" \notin past' PROVE Keeps
  <1>1. ASSUME NEW r \in Slots, Arrive(r) \/ Step(r) PROVE Keeps
    BY <1>1, ArriveKeeps, StepKeeps
  <1>2. CASE Dies
    BY <1>2, RunningNames, QuietKeeps DEF Dies
  <1>3. CASE Shutdown
    <2>1. \A r \in Slots : req'[r].at = "done"
      BY <1>3 DEF Shutdown, NoRequest
    <2>2. \A r \in Slots : ~Replaces(req'[r]) /\ ~Late(req'[r])
      BY <2>1 DEF Replaces, Late
    <2> QED BY <1>3, <2>2 DEF Shutdown, Keeps, Kept, Replacing, SomeLeft, Somewhere, InDocker, Replaces, Late
  <1>4. CASE UNCHANGED vars
    BY <1>4, SameDocker, QuietKeeps DEF vars
  <1> QED BY <1>1, <1>2, <1>3, <1>4 DEF Next

LEMMA ClearedStays == ASSUME [Next]_vars PROVE past \subseteq past'
  BY DEF Next, Arrive, Step, vars

LEMMA KInvFirst == Init => KInv
  BY DEF Init, KInv, Kept, Replacing, SomeLeft, Replaces, Late, NoRequest

\* UpdatesKeepAContainer: however many updates overlap, whichever call of Docker fails, whichever
\* container exits and wherever the server goes down, the step that removes the last container of
\* the service is an installation's or somebody's on the host, or comes after such a one.
THEOREM UpdatesLeaveOne == Spec => UpdatesKeepAContainer
  <1>1. IInv /\ IInv' /\ KInv /\ [Next]_vars => KInv' /\ (Somewhere /\ ~Somewhere' => "cleared" \in past')
    <2> SUFFICES ASSUME IInv, IInv', KInv, [Next]_vars, "cleared" \notin past' PROVE Keeps
        BY DEF KInv, Keeps
    <2>1. Kept
      BY ClearedStays DEF KInv
    <2> QED BY <2>1, NextKeeps
  <1>2. Spec => []IInv
    BY InitInv, StepInv, PTL DEF Spec
  <1>3. IInv /\ IInv' /\ KInv /\ [Next]_vars =>
          [(\E i \in Ids : InDocker(i)) /\ (\A i \in Ids : ~InDocker(i)') => "cleared" \in past']_vars
    BY <1>1 DEF Somewhere
  <1>4. Spec => []KInv
    BY <1>1, <1>2, KInvFirst, PTL DEF Spec
  <1> QED BY <1>2, <1>3, <1>4, PTL DEF Spec, UpdatesKeepAContainer
----------------------------------------------------------------------------
(****************************************************************************)
(* What a request leaves behind when it reports success.  A request         *)
(* remembers the operations and faults it met; as long as these are         *)
(* harmless to it, the row, the containers and what it remembers of both    *)
(* still fit, step by step, so that they fit at its end.                    *)
(****************************************************************************)

\* What an update, an installation and a reading can meet and still keep their word.
Calm == {"read", "check", "docker", "dies"}
Gentle == {"read", "check", "start", "restart", "docker"}
Still == {"check", "start", "stop", "restart", "dies"}

\* Who runs beside a request has been met by it, and a name is the name of one container.
Beside == \A r, q \in Slots : Active(r) /\ Active(q) /\ r # q => req[q].op \in met[r]
OneEach == \A n \in {"main", "old"} : \A i, j \in Named(n) : i = j

\* A column is as in the copy that the request holds, unless it has met who writes it.
CopyOK(r) == Active(r) =>
    /\ "update" \notin met[r] => row.image = req[r].row.image
    /\ {"update", "check"} \cap met[r] = {} => row.avail = req[r].row.avail
    /\ (Inst \cup {"read"}) \cap met[r] = {} /\ req[r].op = "read" => row.installed = req[r].row.installed

\* An installation writes "installed" over a copy that is not, and its container has the name.
InstCopy(r) ==
    req[r].op \in Inst /\ (req[r].at \in {"create", "boot", "record"} \/ (req[r].at = "mark" /\ req[r].op = "install"))
       => ~req[r].row.installed
InstDocker(r) == req[r].op \in Inst /\ met[r] \subseteq Gentle =>
    /\ req[r].at \in {"boot", "record"} =>
          Main = {req[r].made} /\ docker[req[r].made].image = req[r].row.image
    /\ req[r].at = "record" => docker[req[r].made].running

\* The two containers of an update, stage by stage.
Created(r) == Main = {req[r].made} /\ docker[req[r].made].image = req[r].to
UpdDocker(r) == req[r].op = "update" /\ met[r] \subseteq Calm =>
    /\ req[r].at \in {"stop", "rename"} => Main = {req[r].seen}
    /\ req[r].at = "create" => Main = {} /\ Old = {req[r].seen}
    /\ req[r].at \in {"boot", "health", "tidy", "discard", "purge"} => Created(r) /\ Old = {req[r].seen}
    /\ req[r].at = "record" => Created(r) /\ ("docker" \notin met[r] => Old = {})
    /\ req[r].at \in {"back", "restore"} =>
          Old = {req[r].seen} /\ Main \in {{}, {req[r].made}} /\ req[r].made # req[r].seen
    /\ req[r].at = "restart" => Main = {req[r].seen} /\ Old = {} /\ req[r].made # req[r].seen

ReadOK(r) == req[r].op = "read" /\ req[r].at = "sync" /\ met[r] \subseteq Still =>
    (req[r].seen # None <=> Main # {})

\* Until it creates a container, an update has none.
Fresh(r) ==
    req[r].op = "update" /\ req[r].at \in {"pull", "find", "stop", "rename", "create"} => req[r].made = None

Outcome(r) == CopyOK(r) /\ Fresh(r) /\ InstCopy(r) /\ InstDocker(r) /\ UpdDocker(r) /\ ReadOK(r)
OInv == Beside /\ OneEach /\ \A r \in Slots : Outcome(r)
----------------------------------------------------------------------------
(* What a step of a request changes *)

LEMMA StepIs ==
    ASSUME IInv, NEW r \in Slots, Proceed(r)
    PROVE  /\ Active(r)
           /\ \A q \in Slots \ {r} : req'[q] = req[q]
           /\ req'[r].op = req[r].op \/ req'[r].at = "done"
  <1>1. Good(r) /\ req \in Reqs /\ req[r] \in Request
    BY ProceedGood, Typed
  <1>2. Active(r)
    BY DEF Active, Proceed, Install, Mark, InstallCreate, InstallBoot, InstallRecord,
           Reinstall, ReinstallFind, ReinstallStop, ReinstallDrop, ReinstallUnset,
           Clean, CleanMark, CleanFind, CleanRemove,
           Update, UpdatePull, UpdateFind, UpdateStop, UpdateRename, UpdateCreate, UpdateBoot,
           UpdateHealth, UpdateTidy, UpdatePurge, UpdateRecord, UpdateDiscard, UpdateBack,
           UpdateRestore, UpdateRestart,
           AffectFind, AffectAct, ReadList, ReadSync, CheckOffer, At
  <1>3. ASSUME NEW step, Goes(r, step) PROVE req'[r].op = req[r].op
    BY <1>3, RequestIs
  <1>4. ASSUME NEW result, Ends(r, result) PROVE req'[r].at = "done"
    BY <1>4, RequestIs
  <1>5. ASSUME NEW image, NEW step, CreateMain(r, image, step) PROVE req'[r].op = req[r].op
    BY <1>5, CreateIs
  <1>6. req'[r].op = req[r].op \/ req'[r].at = "done"
    <2>1. CASE Mark(r) \/ ReinstallFind(r) \/ ReinstallUnset(r) \/ CleanFind(r) \/ CleanRemove(r)
               \/ UpdateFind(r) \/ UpdateTidy(r) \/ UpdateBack(r) \/ AffectFind(r) \/ ReadList(r)
      <3>1. CASE Mark(r)
        BY <1>1, <3>1 DEF Mark, SavesAndGoes, Reqs, Request
      <3>2. CASE ReinstallFind(r) \/ ReinstallUnset(r)
        BY <1>1, <1>3, <3>2 DEF ReinstallFind, ReinstallUnset, Reqs, Request
      <3>3. CASE CleanFind(r) \/ CleanRemove(r)
        BY <1>1, <1>4, <3>3 DEF CleanFind, CleanRemove, CleanEnds, Reqs, Request
      <3>4. CASE UpdateFind(r)
        BY <1>1, <1>4, <3>4 DEF UpdateFind, Abandons, Reqs, Request
      <3>5. CASE UpdateTidy(r)
        BY <1>1, <1>3, <3>5 DEF UpdateTidy, Reqs, Request
      <3>6. CASE UpdateBack(r)
        BY <1>1, <1>4, <3>6 DEF UpdateBack, Reqs, Request
      <3>7. CASE AffectFind(r)
        BY <1>1, <1>4, <3>7 DEF AffectFind, Reqs, Request
      <3>8. CASE ReadList(r)
        BY <1>1, <1>3, <3>8 DEF ReadList, Reqs, Request
      <3> QED BY <2>1, <3>1, <3>2, <3>3, <3>4, <3>5, <3>6, <3>7, <3>8
    <2>2. ASSUME \/ \E step : Goes(r, step)
                 \/ \E result : Ends(r, result)
                 \/ \E image, step : CreateMain(r, image, step)
          PROVE  req'[r].op = req[r].op \/ req'[r].at = "done"
      BY <1>3, <1>4, <1>5, <2>2
    <2>3. CASE InstallCreate(r) \/ InstallBoot(r) \/ InstallRecord(r) \/ ReinstallStop(r) \/ ReinstallDrop(r)
               \/ CleanMark(r)
      BY <2>2, <2>3 DEF InstallCreate, InstallBoot, InstallRecord, ReinstallStop, ReinstallDrop, CleanMark
    <2>4. CASE UpdatePull(r) \/ UpdateStop(r) \/ UpdateRename(r) \/ UpdateCreate(r) \/ UpdateBoot(r)
      BY <2>2, <2>4 DEF UpdatePull, UpdateStop, UpdateRename, UpdateCreate, UpdateBoot, Abandons
    <2>5. CASE UpdateHealth(r) \/ UpdatePurge(r) \/ UpdateRecord(r) \/ UpdateDiscard(r)
                \/ UpdateRestore(r) \/ UpdateRestart(r)
      BY <2>2, <2>5 DEF UpdateHealth, UpdatePurge, UpdateRecord, UpdateDiscard, UpdateRestore,
            UpdateRestart, Abandons
    <2>6. CASE AffectAct(r) \/ ReadSync(r) \/ CheckOffer(r)
      BY <2>2, <2>6 DEF AffectAct, ReadSync, CheckOffer, Abandons
    <2> QED BY <2>1, <2>3, <2>4, <2>5, <2>6 DEF Proceed, Install, Reinstall, Clean, Update
  <1>7. \A q \in Slots \ {r} : req'[q] = req[q]
    BY <1>1 DEF Good
  <1> QED BY <1>2, <1>6, <1>7

LEMMA SavedIs ==
    ASSUME IInv, NEW r \in Slots, NEW new \in Row, Saves(r, new)
    PROVE  /\ row'.image = IF new.image # req[r].row.image THEN new.image ELSE row.image
           /\ row'.avail = IF new.avail # req[r].row.avail THEN new.avail ELSE row.avail
           /\ row'.installed = IF new.installed # req[r].row.installed THEN new.installed ELSE row.installed
           /\ row'.status = IF new.status # req[r].row.status THEN new.status ELSE row.status
  BY Typed DEF Saves, Saved, Row

\* Which requests write which column.
RowEffect(r) ==
    /\ req[r].op # "update" => row'.image = row.image
    /\ req[r].op \notin {"update", "check"} => row'.avail = row.avail
    /\ req[r].op \notin Inst \cup {"read"} => row'.installed = row.installed

LEMMA RowStep == ASSUME IInv, NEW r \in Slots, Proceed(r) PROVE RowEffect(r)
  <1>1. row \in Row /\ req[r].row \in Row /\ req[r].row.image \in Versions
    BY Typed
  <1>2. CASE UNCHANGED row
    BY <1>2 DEF RowEffect
  <1>3. CASE \E new \in Row : /\ Saves(r, new)
                              /\ new.image = req[r].row.image \/ req[r].op = "update"
                              /\ new.avail = req[r].row.avail \/ req[r].op \in {"update", "check"}
                              /\ new.installed = req[r].row.installed \/ req[r].op \in Inst \cup {"read"}
    BY <1>3, SavedIs DEF RowEffect
  <1>4. CASE Mark(r)
    <2> DEFINE new == [req[r].row EXCEPT !.status = "installing"]
    <2>1. new \in Row /\ new.image = req[r].row.image /\ new.avail = req[r].row.avail
          /\ new.installed = req[r].row.installed
      BY <1>1 DEF Row
    <2>2. Saves(r, new)
      BY <1>4 DEF Mark, SavesAndGoes
    <2> QED BY <1>3, <2>1, <2>2
  <1>5. CASE ReinstallUnset(r) \/ CleanMark(r)
    <2>1. row'.image = row.image /\ row'.avail = row.avail
      BY <1>1, <1>5 DEF ReinstallUnset, CleanMark, Row
    <2>2. req[r].op \in Inst
      BY <1>5 DEF ReinstallUnset, CleanMark, At, Inst, IInv, StepOK
    <2> QED BY <2>1, <2>2 DEF RowEffect, Inst
  <1>6. CASE InstallRecord(r)
    <2> DEFINE new == [req[r].row EXCEPT !.installed = TRUE, !.status = "idle"]
    <2>1. new \in Row /\ new.image = req[r].row.image /\ new.avail = req[r].row.avail
      BY <1>1 DEF Row
    <2>2. Saves(r, new) /\ req[r].op \in Inst
      BY <1>6 DEF InstallRecord, At, Inst
    <2> QED BY <1>3, <2>1, <2>2
  <1>7. CASE UpdateRecord(r)
    <2> DEFINE new == [req[r].row EXCEPT !.image = req[r].to, !.avail = None]
    <2>1. new \in Row /\ new.installed = req[r].row.installed
      BY <1>1, Typed DEF Row
    <2>2. Saves(r, new) /\ req[r].op = "update"
      BY <1>7 DEF UpdateRecord, At
    <2> QED BY <1>3, <2>1, <2>2
  <1>8. CASE ReadSync(r)
    <2> DEFINE new == Synced(req[r].row, req[r].seen # None)
    <2>1. new \in Row /\ new.image = req[r].row.image /\ new.avail = req[r].row.avail
      BY <1>1 DEF Synced, Row
    <2>2. Saves(r, new) /\ req[r].op = "read"
      BY <1>8 DEF ReadSync, At
    <2> QED BY <1>3, <2>1, <2>2
  <1>9. ASSUME NEW latest \in Versions \cup {None}, Saves(r, [req[r].row EXCEPT !.avail = latest]), CheckOffer(r)
        PROVE  RowEffect(r)
    <2> DEFINE new == [req[r].row EXCEPT !.avail = latest]
    <2>1. new \in Row /\ new.image = req[r].row.image /\ new.installed = req[r].row.installed
      BY <1>1 DEF Row
    <2>2. req[r].op = "check"
      BY <1>9 DEF CheckOffer, At
    <2> QED BY <1>3, <1>9, <2>1, <2>2
  <1>10. CASE CheckOffer(r)
    BY <1>2, <1>9, <1>10 DEF CheckOffer
  <1> QED
    BY <1>2, <1>4, <1>5, <1>6, <1>7, <1>8, <1>10
       DEF Proceed, Install, InstallCreate, InstallBoot,
           Reinstall, ReinstallFind, ReinstallStop, ReinstallDrop,
           Clean, CleanFind, CleanRemove,
           Update, UpdatePull, UpdateFind, UpdateStop, UpdateRename, UpdateCreate, UpdateBoot,
           UpdateHealth, UpdateTidy, UpdatePurge, UpdateDiscard, UpdateBack,
           UpdateRestore, UpdateRestart, AffectFind, AffectAct, ReadList

\* What names and images a step touches: none; or it gives a free name; or it removes.
Untouched == \A i \in Ids : docker'[i].name = docker[i].name /\ docker'[i].image = docker[i].image
Given(i, n) ==
    /\ Named(n) = {} /\ docker'[i].name = n
    /\ \A j \in Ids \ {i} : docker'[j].name = docker[j].name
Gone(i) ==
    /\ docker'[i].name = "gone"
    /\ \A j \in Ids \ {i} : docker'[j].name = docker[j].name

LEMMA RunningTouches ==
    ASSUME IInv, NEW i, NEW on, SetRunning(i, on)
    PROVE  /\ Untouched
           /\ i \in Ids => docker'[i].running = on
           /\ \A j \in Ids \ {i} : docker'[j] = docker[j]
  <1>1. docker' = [docker EXCEPT ![i].running = on] /\ \A j \in Ids : docker[j] \in Container
    BY DEF SetRunning, IInv, TypeOK
  <1>2. \A j \in Ids \ {i} : docker'[j] = docker[j]
    BY <1>1 DEF IInv, TypeOK
  <1>3. ASSUME i \in Ids
        PROVE  docker'[i].running = on /\ docker'[i].name = docker[i].name /\ docker'[i].image = docker[i].image
    <2>1. docker'[i] = [docker[i] EXCEPT !.running = on]
      BY <1>1, <1>3 DEF IInv, TypeOK
    <2> QED BY <1>1, <1>3, <2>1 DEF Container
  <1> QED BY <1>2, <1>3 DEF Untouched

LEMMA CreateGives ==
    ASSUME IInv, NEW r \in Slots, NEW image, NEW step, CreateMain(r, image, step), Named("main") = {}
    PROVE  \E i \in Ids : /\ Given(i, "main") /\ docker[i].name = "unused" /\ docker'[i].image = image
                          /\ req'[r].made = i /\ req'[r].at = step /\ req'[r].op = req[r].op
                          /\ req'[r].row = req[r].row /\ req'[r].to = req[r].to /\ req'[r].seen = req[r].seen
  <1> DEFINE i == Find("unused")
  <1>1. i \in Ids /\ docker[i].name = "unused"
    BY FindSpec DEF CreateMain
  <1>2. /\ docker' = [docker EXCEPT ![i] = [name |-> "main", running |-> FALSE, image |-> image]]
        /\ req' = [req EXCEPT ![r].made = i, ![r].at = step]
    BY DEF CreateMain
  <1> HIDE DEF i
  <1>3. Given(i, "main") /\ docker'[i].image = image
    BY <1>1, <1>2, Typed DEF Dockers, Given
  <1>4. /\ req'[r].made = i /\ req'[r].at = step /\ req'[r].op = req[r].op
        /\ req'[r].row = req[r].row /\ req'[r].to = req[r].to /\ req'[r].seen = req[r].seen
    BY <1>1, <1>2, Typed DEF Reqs, Request
  <1> QED BY <1>1, <1>3, <1>4

LEMMA RenameGives ==
    ASSUME IInv, NEW i \in Ids, NEW n \in {"main", "old"}, Named(n) = {}, Rename(i, n)
    PROVE  Given(i, n) /\ \A j \in Ids : docker'[j].running = docker[j].running /\ docker'[j].image = docker[j].image
  <1>1. docker' = [docker EXCEPT ![i].name = n] /\ \A j \in Ids : docker[j] \in Container
    BY DEF Rename, IInv, TypeOK
  <1>2. docker'[i] = [docker[i] EXCEPT !.name = n] /\ \A j \in Ids \ {i} : docker'[j] = docker[j]
    BY <1>1 DEF IInv, TypeOK
  <1>3. docker'[i].name = n /\ docker'[i].running = docker[i].running /\ docker'[i].image = docker[i].image
    BY <1>1, <1>2 DEF Container
  <1> QED BY <1>2, <1>3 DEF Given

LEMMA RemovedGone ==
    ASSUME IInv, NEW i, RemoveContainer(i)
    PROVE  /\ InDocker(i) => i \in Ids /\ Gone(i)
           /\ ~InDocker(i) => docker' = docker
           /\ \A j \in Ids \ {i} : docker'[j] = docker[j]
  <1>1. \A j \in Ids \ {i} : docker'[j] = docker[j]
    BY DEF RemoveContainer, IInv, TypeOK
  <1> QED BY <1>1, RemovedIs DEF Gone

LEMMA DockerStep ==
    ASSUME IInv, NEW r \in Slots, Proceed(r)
    PROVE  /\ \/ Untouched
              \/ \E i \in Ids : Gone(i) \/ Given(i, "main") \/ Given(i, "old")
           /\ req[r].op \notin Inst \cup {"update"} => Untouched
           /\ req[r].op \in {"read", "check"} => docker' = docker
           /\ req[r].op \in {"start", "restart"} =>
                 \A i \in Ids : docker[i].running => docker'[i].running
  <1>1. CASE UNCHANGED docker
    BY <1>1 DEF Untouched
  <1>2. ASSUME NEW i, NEW on, SetRunning(i, on) PROVE Untouched
    BY <1>2, RunningTouches
  <1>3. ASSUME NEW i, RemoveContainer(i) PROVE Untouched \/ \E j \in Ids : Gone(j)
    BY <1>3, RemovedGone DEF Untouched
  <1>4. ASSUME NEW image, NEW step, CreateMain(r, image, step), Named("main") = {}
        PROVE  \E i \in Ids : Given(i, "main")
    BY <1>4, CreateGives
  <1>5. ASSUME Install(r) \/ Reinstall(r) \/ Clean(r) \/ Update(r)
        PROVE  req[r].op \in Inst \cup {"update"}
    BY <1>5 DEF Install, Mark, InstallCreate, InstallBoot, InstallRecord,
           Reinstall, ReinstallFind, ReinstallStop, ReinstallDrop, ReinstallUnset,
           Clean, CleanMark, CleanFind, CleanRemove,
           Update, UpdatePull, UpdateFind, UpdateStop, UpdateRename, UpdateCreate, UpdateBoot,
           UpdateHealth, UpdateTidy, UpdatePurge, UpdateRecord, UpdateDiscard, UpdateBack,
           UpdateRestore, UpdateRestart, At, Inst, IInv, StepOK
  <1>6. CASE Install(r) \/ Reinstall(r) \/ Clean(r) \/ Update(r)
    <2> DEFINE Effect == Untouched \/ \E i \in Ids : Gone(i) \/ Given(i, "main") \/ Given(i, "old")
    <2>1. docker' = docker => Effect
      BY <1>1
    <2>2. CASE Install(r)
      <3>1. Effect
        BY <1>2, <1>4, <2>1, <2>2 DEF Install, Mark, InstallCreate, InstallBoot, InstallRecord, Works
      <3> QED BY <1>5, <2>2, <3>1 DEF Inst
    <2>3. CASE Reinstall(r)
      <3>1. Effect
        BY <1>2, <1>3, <2>1, <2>3 DEF Reinstall, ReinstallFind, ReinstallStop, ReinstallDrop, ReinstallUnset
      <3> QED BY <1>5, <2>3, <3>1 DEF Inst
    <2>4. CASE Clean(r)
      <3>1. Effect
        BY <1>3, <2>1, <2>4 DEF Clean, CleanMark, CleanFind, CleanRemove
      <3> QED BY <1>5, <2>4, <3>1 DEF Inst
    <2>5. CASE UpdateRename(r) \/ UpdateRestore(r)
      <3>1. ASSUME InDocker(req[r].seen), NEW n \in {"main", "old"}, Named(n) = {}, Rename(req[r].seen, n)
            PROVE  Effect
        <4>1. req[r].seen \in Ids
          BY <3>1 DEF InDocker
        <4> QED BY <3>1, <4>1, RenameGives
      <3>2. Effect
        BY <2>1, <2>5, <3>1 DEF UpdateRename, UpdateRestore, Works, Abandons
      <3> QED BY <1>5, <1>6, <3>2 DEF Inst
    <2>6. CASE UpdatePull(r) \/ UpdateFind(r) \/ UpdateStop(r) \/ UpdateCreate(r) \/ UpdateBoot(r)
      <3>1. Effect
        BY <1>2, <1>4, <2>1, <2>6 DEF UpdatePull, UpdateFind, UpdateStop, UpdateCreate, UpdateBoot, Abandons, Works
      <3> QED BY <1>5, <1>6, <3>1 DEF Inst
    <2>7. CASE UpdateHealth(r) \/ UpdateTidy(r) \/ UpdatePurge(r) \/ UpdateRecord(r) \/ UpdateDiscard(r)
                \/ UpdateBack(r) \/ UpdateRestart(r)
      <3>1. Effect
        BY <1>2, <1>3, <2>1, <2>7 DEF UpdateHealth, UpdateTidy, UpdatePurge, UpdateRecord, UpdateDiscard,
              UpdateBack, UpdateRestart, Abandons
      <3> QED BY <1>5, <1>6, <3>1 DEF Inst
    <2> QED BY <1>6, <2>2, <2>3, <2>4, <2>5, <2>6, <2>7 DEF Update
  <1>7. CASE AffectAct(r)
    <2> DEFINE i == req[r].seen
    <2>1. CASE UNCHANGED docker
      BY <1>1, <2>1, <1>7 DEF AffectAct, At, Untouched
    <2>2. CASE SetRunning(i, req[r].op # "stop")
      <3>1. Untouched /\ (i \in Ids => docker'[i].running = (req[r].op # "stop"))
            /\ \A j \in Ids \ {i} : docker'[j] = docker[j]
        BY <2>2, RunningTouches
      <3>2. req[r].op \in {"start", "stop", "restart"}
        BY <1>7 DEF AffectAct, At
      <3> QED BY <3>1, <3>2
    <2> QED BY <1>7, <2>1, <2>2 DEF AffectAct, Abandons
  <1>8. CASE AffectFind(r) \/ ReadList(r) \/ ReadSync(r) \/ CheckOffer(r)
    BY <1>8 DEF AffectFind, ReadList, ReadSync, CheckOffer, Untouched
  <1> QED BY <1>6, <1>7, <1>8 DEF Proceed

LEMMA OneStays ==
    ASSUME IInv, OneEach,
           Untouched \/ \E i \in Ids : Gone(i) \/ Given(i, "main") \/ Given(i, "old")
    PROVE  OneEach'
  <1>1. CASE Untouched
    BY <1>1 DEF OneEach, Untouched, Named
  <1>2. ASSUME NEW i \in Ids, Gone(i) PROVE OneEach'
    BY <1>2 DEF OneEach, Gone, Named
  <1>3. ASSUME NEW i \in Ids, Given(i, "main") PROVE OneEach'
    BY <1>3 DEF OneEach, Given, Named
  <1>4. ASSUME NEW i \in Ids, Given(i, "old") PROVE OneEach'
    BY <1>4 DEF OneEach, Given, Named
  <1> QED BY <1>1, <1>2, <1>3, <1>4

----------------------------------------------------------------------------
(* Whom a request has met *)

LEMMA MetIs ==
    ASSUME NEW r \in Slots, NEW things, Remembers(things)
    PROVE  /\ req'[r].at # "done" /\ Active(r) => met'[r] = met[r] \cup things
           /\ req'[r].at # "done" /\ ~Active(r) => met'[r] = {req[p].op : p \in {p \in Slots : Active(p)}}
  BY DEF Remembers

LEMMA BesideStays ==
    ASSUME Beside, NEW r \in Slots, NEW things, Remembers(things),
           \A q \in Slots \ {r} : req'[q] = req[q],
           \/ req'[r].at = "done"
           \/ Active(r) /\ req'[r].op = req[r].op
           \/ ~Active(r) /\ req'[r].op \in things
    PROVE  Beside'
  <1> SUFFICES ASSUME NEW p \in Slots, NEW q \in Slots, req'[p].at # "done", req'[q].at # "done", p # q
               PROVE  req'[q].op \in met'[p]
    BY DEF Beside, Active
  <1>1. CASE p # r /\ q # r
    BY <1>1, MetIs DEF Beside, Active
  <1>2. CASE p = r
    BY <1>2, MetIs DEF Beside, Active
  <1>3. CASE q = r
    BY <1>3, MetIs DEF Beside, Active
  <1> QED BY <1>1, <1>2, <1>3

LEMMA BesideKept ==
    ASSUME Beside, NEW things, Remembers(things), UNCHANGED req PROVE Beside'
  BY MetIs DEF Beside, Active
----------------------------------------------------------------------------
(* A step beside a request leaves its outcome *)

Harmless == Calm \cup Gentle \cup Still

\* What a step that is not of request r leaves alone, as far as r has met nobody who may touch it.
Frame(r) ==
    /\ "update" \notin met'[r] => row'.image = row.image
    /\ {"update", "check"} \cap met'[r] = {} => row'.avail = row.avail
    /\ (Inst \cup {"read"}) \cap met'[r] = {} => row'.installed = row.installed
    /\ met'[r] \subseteq Harmless => Untouched
    /\ met'[r] \subseteq Gentle => \A i \in Ids : docker[i].running => docker'[i].running

LEMMA DoneOutcome == ASSUME NEW r \in Slots, req'[r].at = "done" PROVE Outcome(r)'
  BY DEF Outcome, CopyOK, Fresh, InstCopy, InstDocker, UpdDocker, ReadOK, Active

LEMMA OtherOutcome ==
    ASSUME IInv, IInv', NEW r \in Slots, Outcome(r), req'[r] = req[r], met[r] \subseteq met'[r], Frame(r)
    PROVE  Outcome(r)'
  <1>1. CopyOK(r)'
    BY DEF Outcome, CopyOK, Frame, Active
  <1>2. Fresh(r)' /\ InstCopy(r)'
    BY DEF Outcome, Fresh, InstCopy
  <1>3. CASE ~(met'[r] \subseteq Harmless)
    <2>1. ~(met'[r] \subseteq Gentle) /\ ~(met'[r] \subseteq Calm) /\ ~(met'[r] \subseteq Still)
      BY <1>3 DEF Harmless
    <2> QED BY <1>1, <1>2, <2>1 DEF Outcome, InstDocker, UpdDocker, ReadOK
  <1>4. CASE met'[r] \subseteq Harmless
    <2>1. Untouched
      BY <1>4 DEF Frame
    <2>2. Main' = Main /\ Old' = Old
      BY <2>1 DEF Untouched, Main, Old, Named
    <2>3. req[r].made \in Ids \cup {None}
      BY Typed
    <2>4. Main = {req[r].made} => req[r].made \in Ids
      BY DEF Main, Named
    <2>5. Main = {req[r].made} => docker'[req[r].made].image = docker[req[r].made].image
      BY <2>1, <2>4 DEF Untouched
    <2>6. InstDocker(r)'
      <3> SUFFICES ASSUME met'[r] \subseteq Gentle, InstDocker(r) PROVE InstDocker(r)'
        BY DEF InstDocker, Outcome
      <3>1. met[r] \subseteq Gentle
        OBVIOUS
      <3>2. Main = {req[r].made} /\ docker[req[r].made].running => docker'[req[r].made].running
        BY <2>4 DEF Frame
      <3> QED BY <2>2, <2>5, <3>1, <3>2 DEF InstDocker
    <2>7. UpdDocker(r)'
      <3> SUFFICES ASSUME met'[r] \subseteq Calm, UpdDocker(r) PROVE UpdDocker(r)'
        BY DEF UpdDocker, Outcome
      <3>1. met[r] \subseteq Calm
        OBVIOUS
      <3>2. Created(r) => Created(r)'
        BY <2>2, <2>5 DEF Created
      <3> QED BY <2>2, <3>1, <3>2 DEF UpdDocker
    <2>8. ReadOK(r)'
      <3> SUFFICES ASSUME met'[r] \subseteq Still, ReadOK(r) PROVE ReadOK(r)'
        BY DEF ReadOK, Outcome
      <3>1. met[r] \subseteq Still
        OBVIOUS
      <3> QED BY <2>2, <3>1 DEF ReadOK
    <2> QED BY <1>1, <1>2, <2>6, <2>7, <2>8 DEF Outcome
  <1> QED BY <1>3, <1>4

LEMMA StepFrame ==
    ASSUME IInv, Beside, NEW q \in Slots, Proceed(q), NEW r \in Slots, r # q, Active(r), met[r] \subseteq met'[r]
    PROVE  Frame(r)
  <1>1. Active(q)
    BY StepIs
  <1>2. req[q].op \in met'[r]
    BY <1>1 DEF Beside
  <1>3. RowEffect(q)
    BY RowStep
  <1>4. /\ req[q].op \notin Inst \cup {"update"} => Untouched
        /\ req[q].op \in {"read", "check"} => docker' = docker
        /\ req[q].op \in {"start", "restart"} => \A i \in Ids : docker[i].running => docker'[i].running
    BY DockerStep
  <1>5. met'[r] \subseteq Harmless => Untouched
    BY <1>2, <1>4 DEF Harmless, Calm, Gentle, Still, Inst
  <1>6. met'[r] \subseteq Gentle => \A i \in Ids : docker[i].running => docker'[i].running
    <2> SUFFICES ASSUME met'[r] \subseteq Gentle, NEW i \in Ids, docker[i].running PROVE docker'[i].running
      OBVIOUS
    <2>1. req[q].op \in {"read", "check", "start", "restart", "docker"}
      BY <1>2 DEF Gentle
    <2>2. req[q].op # "docker"
      BY Typed DEF Request, Ops
    <2> QED BY <1>4, <2>1, <2>2
  <1>7. "update" \notin met'[r] => row'.image = row.image
    BY <1>2, <1>3 DEF RowEffect
  <1>8. {"update", "check"} \cap met'[r] = {} => row'.avail = row.avail
    BY <1>2, <1>3 DEF RowEffect
  <1>9. (Inst \cup {"read"}) \cap met'[r] = {} => row'.installed = row.installed
    BY <1>2, <1>3 DEF RowEffect
  <1> QED BY <1>5, <1>6, <1>7, <1>8, <1>9 DEF Frame

----------------------------------------------------------------------------
(* What stays fitting in a step of the request itself *)

LEMMA GoesIs ==
    ASSUME IInv, NEW r \in Slots, NEW step, Goes(r, step)
    PROVE  /\ req'[r].at = step /\ req'[r].op = req[r].op /\ req'[r].row = req[r].row
           /\ req'[r].seen = req[r].seen /\ req'[r].made = req[r].made /\ req'[r].to = req[r].to
  BY Typed DEF Goes, Reqs, Request

LEMMA EndsIs ==
    ASSUME IInv, NEW r \in Slots, NEW result, Ends(r, result)
    PROVE  req'[r].at = "done" /\ req'[r].result = result
  BY Typed DEF Ends, NoRequest, Reqs

LEMMA MarkIs ==
    ASSUME IInv, NEW r \in Slots, Mark(r)
    PROVE  /\ row'.image = row.image /\ row'.avail = row.avail
           /\ req'[r].row = [req[r].row EXCEPT !.status = "installing"] /\ req'[r].op = req[r].op
           /\ req'[r].at = (IF req[r].op = "install" THEN "create" ELSE "find")
           /\ req[r].op \in Inst /\ req[r].at = "mark"
  <1> DEFINE new == [req[r].row EXCEPT !.status = "installing"]
             step == IF req[r].op = "install" THEN "create" ELSE "find"
  <1>1. new \in Row /\ new.image = req[r].row.image /\ new.avail = req[r].row.avail
    BY Typed DEF Row
  <1>2. Saves(r, new) /\ req' = [req EXCEPT ![r].at = step, ![r].row = new]
    BY DEF Mark, SavesAndGoes
  <1>3. row'.image = row.image /\ row'.avail = row.avail
    BY <1>1, <1>2, SavedIs
  <1>4. req[r].op \in Inst /\ req[r].at = "mark"
    BY DEF Mark, At, Inst
  <1> HIDE DEF new, step
  <1>5. req'[r].row = new /\ req'[r].op = req[r].op /\ req'[r].at = step
    BY <1>2, Typed DEF Reqs, Request
  <1> QED BY <1>3, <1>4, <1>5 DEF new, step

LEMMA OwnCopy ==
    ASSUME IInv, NEW r \in Slots, CopyOK(r), Proceed(r), req'[r].at # "done", met[r] \subseteq met'[r]
    PROVE  CopyOK(r)'
  <1> DEFINE Same == /\ row'.image = row.image /\ req'[r].row.image = req[r].row.image
                     /\ row'.avail = row.avail /\ req'[r].row.avail = req[r].row.avail
                     /\ req'[r].op = "read" => row'.installed = row.installed
                                               /\ req'[r].row.installed = req[r].row.installed
  <1>1. Active(r) /\ req'[r].op = req[r].op
    BY StepIs
  <1>2. Same => CopyOK(r)'
    BY <1>1 DEF CopyOK
  <1>3. CASE UNCHANGED row /\ req'[r].row = req[r].row
    <2>1. Same
      BY <1>3
    <2> QED BY <1>2, <2>1
  <1>4. \A step : Goes(r, step) => req'[r].row = req[r].row
    BY GoesIs
  <1>5. \A result : ~Ends(r, result)
    BY EndsIs
  <1>6. \A image, step : CreateMain(r, image, step) => req'[r].row = req[r].row
    <2> SUFFICES ASSUME NEW image, NEW step, CreateMain(r, image, step) PROVE req'[r].row = req[r].row
      OBVIOUS
    <2>1. req' = [req EXCEPT ![r].made = Find("unused"), ![r].at = step]
      BY DEF CreateMain
    <2> QED BY <2>1, Typed DEF Reqs, Request
  <1>7. CASE Install(r)
    <2>1. CASE Mark(r)
      <3>1. Same
        BY <2>1, MarkIs, <1>1, Typed DEF Row, Inst
      <3> QED BY <1>2, <3>1
    <2> QED BY <1>3, <1>4, <1>5, <1>6, <1>7, <2>1 DEF Install, InstallCreate, InstallBoot, InstallRecord
  <1>8. CASE Reinstall(r)
    <2>1. CASE ReinstallUnset(r)
      <3>1. Same
        BY <1>1, <2>1, Typed DEF ReinstallUnset, At, Row, Reqs, Request
      <3> QED BY <1>2, <3>1
    <2>2. CASE ReinstallFind(r)
      <3>1. UNCHANGED row /\ req'[r].row = req[r].row
        BY <1>4, <2>2, Typed DEF ReinstallFind, Reqs, Request
      <3> QED BY <1>3, <3>1
    <2> QED BY <1>3, <1>4, <1>8, <2>1, <2>2 DEF Reinstall, ReinstallStop, ReinstallDrop
  <1>9. CASE Clean(r)
    <2>1. CASE CleanMark(r)
      <3>1. row'.image = row.image /\ row'.avail = row.avail /\ Goes(r, "sweep")
        BY <2>1, Typed DEF CleanMark, Row
      <3>2. req[r].op \in Inst
        BY <2>1 DEF CleanMark, IInv, StepOK
      <3>3. Same
        BY <1>1, <1>4, <3>1, <3>2 DEF Inst
      <3> QED BY <1>2, <3>3
    <2>2. CASE CleanFind(r) \/ CleanRemove(r)
      <3>1. UNCHANGED row /\ req'[r].row = req[r].row
        BY <1>5, <2>2, Typed DEF CleanFind, CleanRemove, CleanEnds, Reqs, Request
      <3> QED BY <1>3, <3>1
    <2> QED BY <1>9, <2>1, <2>2 DEF Clean
  <1>10. CASE Update(r)
    <2>1. CASE UpdateFind(r) \/ UpdateTidy(r) \/ UpdateBack(r)
      <3>1. UNCHANGED row
        BY <2>1 DEF UpdateFind, UpdateTidy, UpdateBack
      <3>2. CASE UpdateFind(r)
        BY <1>3, <1>5, <3>1, <3>2, Typed DEF UpdateFind, Abandons, Reqs, Request
      <3>3. CASE UpdateTidy(r)
        BY <1>3, <1>4, <3>1, <3>3, Typed DEF UpdateTidy, Reqs, Request
      <3>4. CASE UpdateBack(r)
        BY <1>3, <1>5, <3>1, <3>4, Typed DEF UpdateBack, Reqs, Request
      <3> QED BY <2>1, <3>2, <3>3, <3>4
    <2>2. CASE ~(UpdateFind(r) \/ UpdateTidy(r) \/ UpdateBack(r))
      BY <1>3, <1>4, <1>5, <1>6, <1>10, <2>2
         DEF Update, UpdatePull, UpdateStop, UpdateRename, UpdateCreate, UpdateBoot, UpdateHealth,
             UpdatePurge, UpdateRecord, UpdateDiscard, UpdateRestore, UpdateRestart, Abandons
    <2> QED BY <2>1, <2>2
  <1>11. CASE AffectFind(r)
    BY <1>3, <1>5, <1>11, Typed DEF AffectFind, Reqs, Request
  <1>12. CASE ReadList(r)
    <2>1. UNCHANGED row /\ req'[r].row = req[r].row
      BY <1>4, <1>12, Typed DEF ReadList, Reqs, Request
    <2> QED BY <1>3, <2>1
  <1> QED
    BY <1>5, <1>7, <1>8, <1>9, <1>10, <1>11, <1>12 DEF Proceed, AffectAct, Abandons, ReadSync, CheckOffer

\* An installation: its copy of the row, and the container it makes.
LEMMA OwnInstall ==
    ASSUME IInv, NEW r \in Slots, Outcome(r), Proceed(r), req'[r].at # "done", met[r] \subseteq met'[r],
           req[r].op \in Inst
    PROVE  InstCopy(r)' /\ InstDocker(r)'
  <1>1. req'[r].op = req[r].op /\ InstCopy(r) /\ InstDocker(r)
    BY StepIs DEF Outcome
  <1>2. \A result : ~Ends(r, result)
    BY EndsIs
  <1>3. CASE req'[r].at \notin {"mark", "create", "boot", "record"}
    BY <1>3 DEF InstCopy, InstDocker
  <1>4. CASE Mark(r)
    <2>1. /\ req'[r].row = [req[r].row EXCEPT !.status = "installing"]
          /\ req'[r].at = (IF req[r].op = "install" THEN "create" ELSE "find") /\ req[r].at = "mark"
      BY <1>4, MarkIs
    <2>2. req[r].op = "install" => ~req[r].row.installed
      BY <1>1, <2>1 DEF InstCopy, Inst
    <2>3. req'[r].row.installed = req[r].row.installed
      BY <2>1, Typed DEF Row
    <2> QED BY <1>1, <2>1, <2>2, <2>3 DEF InstCopy, InstDocker
  <1>5. CASE ReinstallUnset(r)
    <2>1. req'[r].at = "create" /\ ~req'[r].row.installed
      BY <1>5, Typed DEF ReinstallUnset, Reqs, Request, Row
    <2> QED BY <2>1 DEF InstCopy, InstDocker
  <1>6. CASE InstallCreate(r)
    <2>1. CASE Goes(r, "clean")
      BY <1>3, <2>1, GoesIs
    <2>2. CASE Named("main") = {} /\ CreateMain(r, req[r].row.image, "boot")
      <3>1. PICK i \in Ids : /\ Given(i, "main") /\ docker[i].name = "unused" /\ docker'[i].image = req[r].row.image
                             /\ req'[r].made = i /\ req'[r].at = "boot" /\ req'[r].row = req[r].row
        BY <2>2, CreateGives
      <3>2. Main' = {i}
        BY <3>1 DEF Given, Main, Named
      <3>3. req[r].at = "create"
        BY <1>6 DEF InstallCreate, At
      <3> QED BY <1>1, <3>1, <3>2, <3>3 DEF InstCopy, InstDocker
    <2> QED BY <1>6, <2>1, <2>2 DEF InstallCreate, Works
  <1>7. CASE InstallBoot(r)
    <2>1. CASE Goes(r, "clean")
      BY <1>3, <2>1, GoesIs
    <2>2. CASE CanStart(req[r].made) /\ SetRunning(req[r].made, TRUE) /\ Goes(r, "record")
      <3>1. /\ req'[r].at = "record" /\ req'[r].row = req[r].row /\ req'[r].made = req[r].made
            /\ req[r].at = "boot"
        BY <1>7, <2>2, GoesIs DEF InstallBoot, At
      <3>2. req[r].made \in Ids
        BY <2>2 DEF CanStart, InDocker
      <3>3. Untouched /\ docker'[req[r].made].running
        BY <2>2, <3>2, RunningTouches
      <3>4. Main' = Main /\ docker'[req[r].made].image = docker[req[r].made].image
        BY <3>2, <3>3 DEF Untouched, Main, Named
      <3> QED BY <1>1, <3>1, <3>3, <3>4 DEF InstCopy, InstDocker
    <2> QED BY <1>7, <2>1, <2>2 DEF InstallBoot, Works
  <1>8. CASE Reinstall(r) /\ ~ReinstallUnset(r)
    <2>1. req'[r].at \in {"unset", "stop", "drop"}
      <3>1. CASE ReinstallFind(r)
        BY <3>1, GoesIs, Typed DEF ReinstallFind, Reqs, Request
      <3> QED BY <1>8, <3>1, GoesIs DEF Reinstall, ReinstallStop, ReinstallDrop
    <2> QED BY <1>3, <2>1
  <1>9. CASE Clean(r)
    <2>1. req'[r].at \in {"clean", "sweep", "remove"}
      <3>1. CASE CleanMark(r)
        BY <3>1, GoesIs DEF CleanMark
      <3>2. CASE CleanFind(r) \/ CleanRemove(r)
        BY <1>2, <3>2, Typed DEF CleanFind, CleanRemove, CleanEnds, Reqs, Request
      <3> QED BY <1>9, <3>1, <3>2 DEF Clean
    <2> QED BY <1>3, <2>1
  <1>10. Install(r) \/ Reinstall(r) \/ Clean(r)
    BY DEF Proceed, Inst, Update, UpdatePull, UpdateFind, UpdateStop, UpdateRename, UpdateCreate, UpdateBoot,
           UpdateHealth, UpdateTidy, UpdatePurge, UpdateRecord, UpdateDiscard, UpdateBack,
           UpdateRestore, UpdateRestart, AffectFind, AffectAct, ReadList, ReadSync, CheckOffer, At
  <1> QED BY <1>2, <1>4, <1>5, <1>6, <1>7, <1>8, <1>9, <1>10 DEF Install, InstallRecord

\* A reading knows whether there is a container.
LEMMA OwnReading ==
    ASSUME IInv, NEW r \in Slots, ReadList(r), faults' > faults => "docker" \in met'[r]
    PROVE  ReadOK(r)'
  <1>1. CASE Goes(r, "sync") /\ Hit
    <2>1. "docker" \in met'[r]
      BY <1>1, Typed DEF Hit
    <2> QED BY <2>1 DEF ReadOK, Still
  <1>2. CASE req' = [req EXCEPT ![r].seen = Find("main"), ![r].at = "sync"]
    <2>1. req'[r].seen = Find("main")
      BY <1>2, Typed DEF Reqs, Request
    <2>2. Find("main") # None <=> Main # {}
      BY FindSpec DEF Main, Find
    <2>3. Main' = Main
      BY DEF ReadList, Main, Named
    <2> QED BY <2>1, <2>2, <2>3 DEF ReadOK
  <1> QED BY <1>1, <1>2 DEF ReadList

\* A name that is one container's: the one that is found under it.
LEMMA FindOne ==
    ASSUME OneEach, NEW n \in {"main", "old"}, Find(n) # None
    PROVE  Named(n) = {Find(n)}
  BY FindSpec DEF OneEach, Named

LEMMA UntouchedNames == ASSUME Untouched PROVE Main' = Main /\ Old' = Old
  BY DEF Untouched, Main, Old, Named

\* The stages before the old container is out of the way.
LEMMA OwnUpdateFirst ==
    ASSUME IInv, OneEach, NEW r \in Slots, Outcome(r), req'[r].at # "done", met[r] \subseteq met'[r],
           met'[r] \subseteq Calm, req'[r].op = req[r].op, \A result : ~Ends(r, result),
           UpdatePull(r) \/ UpdateFind(r) \/ UpdateStop(r) \/ UpdateRename(r)
    PROVE  UpdDocker(r)' /\ Fresh(r)'
  <1>1. UpdDocker(r) /\ Fresh(r) /\ met[r] \subseteq Calm
    BY DEF Outcome
  <1>2. CASE UpdatePull(r)
    <2>1. req'[r].at = "find" /\ req'[r].made = req[r].made /\ req[r].at = "pull"
      BY <1>2, GoesIs DEF UpdatePull, Abandons, At
    <2> QED BY <1>1, <2>1 DEF UpdDocker, Fresh
  <1>3. CASE UpdateFind(r)
    <2> DEFINE i == Find("main")
               step == IF docker[i].running THEN "stop" ELSE "rename"
    <2>1. /\ i # None /\ req' = [req EXCEPT ![r].seen = i, ![r].at = step] /\ UNCHANGED docker
          /\ req[r].at = "find"
      BY <1>3 DEF UpdateFind, Abandons, Works, At
    <2>2. Main = {i} /\ Main' = Main
      BY <2>1, FindOne DEF Main, Named
    <2>3. step \in {"stop", "rename"}
      OBVIOUS
    <2> HIDE DEF i, step
    <2>4. req'[r].seen = i /\ req'[r].at = step /\ req'[r].made = req[r].made
      BY <2>1, Typed DEF Reqs, Request
    <2> QED BY <1>1, <2>1, <2>2, <2>3, <2>4 DEF UpdDocker, Fresh
  <1>4. CASE UpdateStop(r)
    <2>1. SetRunning(req[r].seen, FALSE) /\ Goes(r, "rename") /\ req[r].at = "stop" /\ req[r].op = "update"
      BY <1>4 DEF UpdateStop, Abandons, At
    <2>2. req'[r].at = "rename" /\ req'[r].seen = req[r].seen /\ req'[r].made = req[r].made
      BY <2>1, GoesIs
    <2>3. Main' = Main
      BY <2>1, RunningTouches, UntouchedNames
    <2> QED BY <1>1, <2>1, <2>2, <2>3 DEF UpdDocker, Fresh
  <1>5. CASE UpdateRename(r)
    <2> DEFINE i == req[r].seen
    <2>1. /\ InDocker(i) /\ Named("old") = {} /\ Rename(i, "old") /\ Goes(r, "create")
          /\ req[r].at = "rename" /\ req[r].op = "update"
      BY <1>5 DEF UpdateRename, Works, Abandons, At
    <2>2. i \in Ids /\ Main = {i}
      BY <1>1, <2>1 DEF InDocker, UpdDocker
    <2>3. Given(i, "old")
      BY <2>1, <2>2, RenameGives
    <2>4. Main' = {} /\ Old' = {i}
      BY <2>1, <2>2, <2>3 DEF Given, Main, Old, Named
    <2>5. req'[r].at = "create" /\ req'[r].seen = i /\ req'[r].made = req[r].made
      BY <2>1, GoesIs
    <2> HIDE DEF i
    <2> QED BY <1>1, <2>1, <2>4, <2>5 DEF UpdDocker, Fresh
  <1> QED BY <1>2, <1>3, <1>4, <1>5

\* The stages in which there are two.
LEMMA OwnUpdateTwo ==
    ASSUME IInv, OneEach, NEW r \in Slots, Outcome(r), req'[r].at # "done", met[r] \subseteq met'[r],
           met'[r] \subseteq Calm, req'[r].op = req[r].op, \A result : ~Ends(r, result),
           faults' > faults => "docker" \in met'[r],
           UpdateCreate(r) \/ UpdateBoot(r) \/ UpdateHealth(r) \/ UpdateTidy(r) \/ UpdatePurge(r)
    PROVE  UpdDocker(r)' /\ Fresh(r)'
  <1>1. UpdDocker(r) /\ Fresh(r) /\ met[r] \subseteq Calm
    BY DEF Outcome
  <1>2. CASE UpdateCreate(r)
    <2>1. Main = {} /\ Old = {req[r].seen} /\ req[r].made = None
      BY <1>1, <1>2 DEF UpdateCreate, At, UpdDocker, Fresh
    <2>2. req[r].seen \in Ids /\ docker[req[r].seen].name = "old"
      BY <2>1 DEF Old, Named
    <2>3. CASE Goes(r, "back") /\ UNCHANGED docker
      <3>1. /\ req'[r].at = "back" /\ req'[r].seen = req[r].seen /\ req'[r].made = req[r].made
            /\ Main' = Main /\ Old' = Old
        BY <2>3, GoesIs DEF Main, Old, Named
      <3>2. req[r].made # req[r].seen
        BY <2>1, <2>2, ServiceAssumption
      <3> QED BY <2>1, <3>1, <3>2 DEF UpdDocker, Fresh
    <2>4. CASE Named("main") = {} /\ CreateMain(r, req[r].to, "boot")
      <3>1. PICK i \in Ids : /\ Given(i, "main") /\ docker[i].name = "unused" /\ docker'[i].image = req[r].to
                             /\ req'[r].made = i /\ req'[r].at = "boot"
                             /\ req'[r].to = req[r].to /\ req'[r].seen = req[r].seen
        BY <2>4, CreateGives
      <3>2. Main' = {i} /\ Old' = Old
        BY <3>1 DEF Given, Main, Old, Named
      <3>3. Created(r)'
        BY <3>1, <3>2 DEF Created
      <3> QED BY <2>1, <3>1, <3>2, <3>3 DEF UpdDocker, Fresh
    <2> QED BY <1>2, <2>3, <2>4 DEF UpdateCreate, Works
  <1>3. CASE ~UpdateCreate(r)
    <2>1. Created(r) /\ Old = {req[r].seen} /\ req[r].at \in {"boot", "health", "tidy", "purge"}
      BY <1>1, <1>3 DEF UpdateBoot, UpdateHealth, UpdateTidy, UpdatePurge, At, UpdDocker
    <2>2. req[r].made \in Ids /\ docker[req[r].made].name = "main"
      BY <2>1 DEF Created, Main, Named
    <2>3. req[r].seen \in Ids /\ docker[req[r].seen].name = "old"
      BY <2>1 DEF Old, Named
    <2>4. ASSUME Untouched, req'[r].made = req[r].made, req'[r].to = req[r].to
          PROVE  Created(r)' /\ Old' = Old
      BY <2>1, <2>2, <2>4, UntouchedNames DEF Created, Untouched
    <2>5. UNCHANGED docker => Untouched
      BY DEF Untouched
    <2>6. CASE UpdateBoot(r)
      <3>1. SetRunning(req[r].made, TRUE) /\ Goes(r, "health")
        BY <2>6 DEF UpdateBoot, Abandons
      <3>2. Created(r)' /\ Old' = Old /\ req'[r].at = "health" /\ req'[r].seen = req[r].seen
        BY <2>4, <3>1, GoesIs, RunningTouches
      <3> QED BY <2>1, <3>2 DEF UpdDocker, Fresh
    <2>7. CASE UpdateHealth(r)
      <3>1. (Goes(r, "tidy") \/ Goes(r, "discard")) /\ UNCHANGED docker
        BY <2>7 DEF UpdateHealth, Abandons
      <3>2. Created(r)' /\ Old' = Old /\ req'[r].at \in {"tidy", "discard"} /\ req'[r].seen = req[r].seen
        BY <2>4, <2>5, <3>1, GoesIs
      <3> QED BY <2>1, <3>2 DEF UpdDocker, Fresh
    <2>8. CASE UpdateTidy(r)
      <3>1. UNCHANGED docker
        BY <2>8 DEF UpdateTidy
      <3>2. CASE Hit /\ Goes(r, "record")
        <4>1. "docker" \in met'[r]
          BY <3>2, Typed DEF Hit
        <4>2. Created(r)' /\ req'[r].at = "record"
          BY <2>4, <2>5, <3>1, <3>2, GoesIs
        <4> QED BY <4>1, <4>2 DEF UpdDocker, Fresh
      <3>3. CASE req' = [req EXCEPT ![r].seen = Find("old"), ![r].at = "purge"]
        <4>1. req'[r].seen = Find("old") /\ req'[r].at = "purge" /\ req'[r].made = req[r].made /\ req'[r].to = req[r].to
          BY <3>3, Typed DEF Reqs, Request
        <4>2. Old = {Find("old")}
          BY <2>3, FindSpec, FindOne DEF Old, Named
        <4>3. Created(r)' /\ Old' = Old
          BY <2>4, <2>5, <3>1, <4>1
        <4> QED BY <4>1, <4>2, <4>3 DEF UpdDocker, Fresh
      <3> QED BY <2>8, <3>2, <3>3 DEF UpdateTidy
    <2>9. CASE UpdatePurge(r)
      <3>1. req'[r].at = "record" /\ req'[r].made = req[r].made /\ req'[r].to = req[r].to
        BY <2>9, GoesIs DEF UpdatePurge
      <3>2. CASE Hit /\ UNCHANGED docker
        <4>1. "docker" \in met'[r]
          BY <3>2, Typed DEF Hit
        <4> QED BY <2>4, <2>5, <3>1, <3>2, <4>1 DEF UpdDocker, Fresh
      <3>3. CASE RemoveContainer(req[r].seen)
        <4>1. Gone(req[r].seen) /\ docker'[req[r].made] = docker[req[r].made]
          BY <2>2, <2>3, <3>3, RemovedGone DEF InDocker
        <4>2. Main' = Main /\ Old' = {}
          BY <2>1, <2>3, <4>1 DEF Gone, Main, Old, Named
        <4>3. Created(r)'
          BY <2>1, <3>1, <4>1, <4>2 DEF Created
        <4> QED BY <3>1, <4>2, <4>3 DEF UpdDocker, Fresh
      <3> QED BY <2>9, <3>2, <3>3 DEF UpdatePurge
    <2> QED BY <1>3, <2>6, <2>7, <2>8, <2>9
  <1> QED BY <1>2, <1>3

\* The way back.
LEMMA OwnUpdateBack ==
    ASSUME IInv, OneEach, NEW r \in Slots, Outcome(r), req'[r].at # "done", met[r] \subseteq met'[r],
           met'[r] \subseteq Calm, req'[r].op = req[r].op, \A result : ~Ends(r, result),
           UpdateDiscard(r) \/ UpdateBack(r) \/ UpdateRestore(r)
    PROVE  UpdDocker(r)' /\ Fresh(r)'
  <1>1. UpdDocker(r) /\ met[r] \subseteq Calm
    BY DEF Outcome
  <1>2. CASE UpdateDiscard(r)
    <2>1. Created(r) /\ Old = {req[r].seen}
      BY <1>1, <1>2 DEF UpdateDiscard, At, UpdDocker
    <2>2. /\ req[r].made \in Ids /\ docker[req[r].made].name = "main"
          /\ req[r].seen \in Ids /\ docker[req[r].seen].name = "old"
      BY <2>1 DEF Created, Main, Old, Named
    <2>3. req'[r].at = "back" /\ req'[r].made = req[r].made /\ req'[r].seen = req[r].seen
      BY <1>2, GoesIs DEF UpdateDiscard
    <2>4. CASE UNCHANGED docker
      <3>1. Main' = Main /\ Old' = Old
        BY <2>4 DEF Main, Old, Named
      <3> QED BY <2>1, <2>2, <2>3, <3>1 DEF UpdDocker, Fresh, Created
    <2>5. CASE RemoveContainer(req[r].made)
      <3>1. Gone(req[r].made)
        BY <2>2, <2>5, RemovedGone DEF InDocker
      <3>2. Main' = {} /\ Old' = Old
        BY <2>1, <2>2, <3>1 DEF Gone, Created, Main, Old, Named
      <3> QED BY <2>1, <2>2, <2>3, <3>2 DEF UpdDocker, Fresh
    <2> QED BY <1>2, <2>4, <2>5 DEF UpdateDiscard
  <1>3. CASE UpdateBack(r)
    <2>1. Old = {req[r].seen} /\ Main \in {{}, {req[r].made}} /\ req[r].made # req[r].seen
      BY <1>1, <1>3 DEF UpdateBack, At, UpdDocker
    <2>2. req' = [req EXCEPT ![r].seen = Find("old"), ![r].at = "restore"] /\ UNCHANGED docker
      BY <1>3 DEF UpdateBack
    <2>3. req'[r].seen = Find("old") /\ req'[r].at = "restore" /\ req'[r].made = req[r].made
      BY <2>2, Typed DEF Reqs, Request
    <2>4. Old = {Find("old")}
      BY <2>1, FindSpec, FindOne DEF Old
    <2>5. Main' = Main /\ Old' = Old
      BY <2>2 DEF Main, Old, Named
    <2> QED BY <2>1, <2>3, <2>4, <2>5 DEF UpdDocker, Fresh
  <1>4. CASE UpdateRestore(r)
    <2> DEFINE i == req[r].seen
    <2>1. Old = {i} /\ req[r].made # i
      BY <1>1, <1>4 DEF UpdateRestore, At, UpdDocker
    <2>2. InDocker(i) /\ Named("main") = {} /\ Rename(i, "main") /\ Goes(r, "restart")
      BY <1>4 DEF UpdateRestore, Works, Abandons
    <2>3. i \in Ids /\ Given(i, "main")
      BY <2>2, RenameGives DEF InDocker
    <2>4. Main' = {i} /\ Old' = {}
      BY <2>1, <2>3 DEF Given, Main, Old, Named
    <2>5. req'[r].at = "restart" /\ req'[r].seen = i /\ req'[r].made = req[r].made
      BY <2>2, GoesIs
    <2> HIDE DEF i
    <2> QED BY <2>1, <2>4, <2>5 DEF UpdDocker, Fresh
  <1> QED BY <1>2, <1>3, <1>4

LEMMA OwnUpdate ==
    ASSUME IInv, OneEach, NEW r \in Slots, Outcome(r), req'[r].at # "done", met[r] \subseteq met'[r],
           req'[r].op = req[r].op, faults' > faults => "docker" \in met'[r], Update(r)
    PROVE  UpdDocker(r)' /\ Fresh(r)'
  <1>1. \A result : ~Ends(r, result)
    BY EndsIs
  <1>2. Fresh(r)'
    <2>1. \A step : Goes(r, step) => req'[r].made = req[r].made /\ req'[r].at = step
      BY GoesIs
    <2>2. Fresh(r)
      BY DEF Outcome
    <2>3. CASE UpdatePull(r) \/ UpdateStop(r) \/ UpdateRename(r)
      BY <1>1, <2>1, <2>2, <2>3 DEF UpdatePull, UpdateStop, UpdateRename, Abandons, At, Fresh
    <2>4. CASE UpdateFind(r)
      <3>1. req'[r].made = req[r].made
        BY <1>1, <2>4, Typed DEF UpdateFind, Abandons, Reqs, Request
      <3> QED BY <2>2, <2>4, <3>1 DEF UpdateFind, At, Fresh
    <2>5. CASE UpdateCreate(r)
      <3>1. CASE Named("main") = {} /\ CreateMain(r, req[r].to, "boot")
        <4>1. req'[r].at = "boot"
          BY <3>1, CreateGives
        <4> QED BY <4>1 DEF Fresh
      <3> QED BY <2>1, <2>5, <3>1 DEF UpdateCreate, Works, Fresh
    <2>6. CASE UpdateTidy(r)
      <3>1. req'[r].at \in {"purge", "record"}
        BY <2>1, <2>6, Typed DEF UpdateTidy, Reqs, Request
      <3> QED BY <3>1 DEF Fresh
    <2>7. CASE UpdateBack(r)
      <3>1. req'[r].at = "restore"
        BY <1>1, <2>7, Typed DEF UpdateBack, Reqs, Request
      <3> QED BY <3>1 DEF Fresh
    <2>8. CASE UpdateBoot(r) \/ UpdateHealth(r) \/ UpdatePurge(r) \/ UpdateDiscard(r) \/ UpdateRestore(r)
      <3>1. req'[r].at \in {"health", "tidy", "discard", "record", "back", "restart"}
        BY <1>1, <2>1, <2>8 DEF UpdateBoot, UpdateHealth, UpdatePurge, UpdateDiscard, UpdateRestore, Abandons
      <3> QED BY <3>1 DEF Fresh
    <2>9. ~UpdateRecord(r) /\ ~UpdateRestart(r)
      BY <1>1 DEF UpdateRecord, UpdateRestart, Abandons
    <2> QED BY <2>3, <2>4, <2>5, <2>6, <2>7, <2>8, <2>9 DEF Update
  <1>3. CASE ~(met'[r] \subseteq Calm)
    BY <1>2, <1>3 DEF UpdDocker
  <1>4. CASE met'[r] \subseteq Calm
    BY <1>1, <1>4, OwnUpdateFirst, OwnUpdateTwo, OwnUpdateBack DEF Update, UpdateRecord, UpdateRestart, Abandons
  <1> QED BY <1>3, <1>2, <1>4

LEMMA OwnOutcome ==
    ASSUME IInv, OneEach, NEW r \in Slots, Outcome(r), Proceed(r), req'[r].at # "done", met[r] \subseteq met'[r],
           faults' > faults => "docker" \in met'[r]
    PROVE  Outcome(r)'
  <1>1. req'[r].op = req[r].op
    BY StepIs
  <1>2. CopyOK(r)'
    BY OwnCopy DEF Outcome
  <1>3. CASE req[r].op \in Inst
    BY <1>1, <1>2, <1>3, OwnInstall DEF Outcome, Fresh, UpdDocker, ReadOK, Inst
  <1>4. CASE req[r].op = "update"
    <2>1. Update(r)
      BY <1>4 DEF Proceed, Install, Mark, InstallCreate, InstallBoot, InstallRecord, Reinstall, ReinstallFind,
             ReinstallStop, ReinstallDrop, ReinstallUnset, Clean, CleanMark, CleanFind, CleanRemove,
             AffectFind, AffectAct, ReadList, ReadSync, CheckOffer, At, Inst, IInv, StepOK
    <2> QED BY <1>1, <1>2, <1>4, <2>1, OwnUpdate DEF Outcome, InstCopy, InstDocker, ReadOK, Inst
  <1>5. CASE req[r].op \notin Inst \cup {"update"}
    <2>1. ReadOK(r)'
      <3>1. CASE req[r].op # "read"
        BY <1>1, <3>1 DEF ReadOK
      <3>2. CASE ReadList(r)
        BY <3>2, OwnReading
      <3>3. CASE ReadSync(r)
        BY <3>3, EndsIs DEF ReadSync
      <3>4. CASE req[r].op = "read" /\ ~ReadList(r) /\ ~ReadSync(r)
        BY <3>4 DEF Proceed, Install, Mark, InstallCreate, InstallBoot, InstallRecord, Reinstall, ReinstallFind,
             ReinstallStop, ReinstallDrop, ReinstallUnset, Clean, CleanMark, CleanFind, CleanRemove,
             Update, UpdatePull, UpdateFind, UpdateStop, UpdateRename, UpdateCreate, UpdateBoot,
             UpdateHealth, UpdateTidy, UpdatePurge, UpdateRecord, UpdateDiscard, UpdateBack,
             UpdateRestore, UpdateRestart, AffectFind, AffectAct, CheckOffer, At, Inst, IInv, StepOK
      <3> QED BY <3>1, <3>2, <3>3, <3>4
    <2> QED BY <1>1, <1>2, <1>5, <2>1 DEF Outcome, Fresh, InstCopy, InstDocker, UpdDocker
  <1> QED BY <1>3, <1>4, <1>5

LEMMA StepOutcome ==
    ASSUME IInv, IInv', OInv, NEW q \in Slots, Step(q) PROVE OInv'
  <1> DEFINE things == IF faults' > faults THEN {"docker"} ELSE {}
  <1>1. Proceed(q) /\ Remembers(things) /\ Beside /\ OneEach /\ \A r \in Slots : Outcome(r)
    BY DEF Step, OInv
  <1>2. Active(q) /\ (\A r \in Slots \ {q} : req'[r] = req[r]) /\ (req'[q].op = req[q].op \/ req'[q].at = "done")
    BY <1>1, StepIs
  <1>3. \A r \in Slots : Active(r) /\ req'[r].at # "done" => met'[r] = met[r] \cup things
    BY <1>1, MetIs
  <1> HIDE DEF things
  <1>4. Beside'
    BY <1>1, <1>2, BesideStays
  <1>5. OneEach'
    BY <1>1, DockerStep, OneStays
  <1>6. ASSUME NEW r \in Slots, req'[r].at # "done" PROVE Outcome(r)'
    <2>1. CASE r = q
      <3>1. faults' > faults => "docker" \in met'[r]
        BY <1>2, <1>3, <1>6, <2>1 DEF things
      <3> QED BY <1>1, <1>2, <1>3, <1>6, <2>1, <3>1, OwnOutcome
    <2>2. CASE r # q
      <3>1. req'[r] = req[r] /\ Active(r) /\ met[r] \subseteq met'[r]
        BY <1>2, <1>3, <1>6, <2>2 DEF Active
      <3>2. Frame(r)
        BY <1>1, <2>2, <3>1, StepFrame
      <3> QED BY <1>1, <3>1, <3>2, OtherOutcome
    <2> QED BY <2>1, <2>2
  <1>7. \A r \in Slots : Outcome(r)'
    BY <1>6, DoneOutcome
  <1> QED BY <1>4, <1>5, <1>7 DEF OInv

LEMMA ArriveOutcome ==
    ASSUME IInv, IInv', OInv, NEW q \in Slots, Arrive(q) PROVE OInv'
  <1>1. PICK op \in Kinds, to \in Versions :
           /\ IF Accepted(op)
              THEN req' = [req EXCEPT ![q] = [NoRequest("none") EXCEPT
                                                !.op = op, !.at = FirstStep(op), !.row = row, !.to = to]]
              ELSE Ends(q, "refused")
           /\ Remembers({op})
    BY DEF Arrive
  <1>2. UNCHANGED <<row, docker>> /\ ~Active(q) /\ req \in Reqs
    BY Typed DEF Arrive
  <1>3. Accepted(op) => /\ req'[q].op = op /\ req'[q].at = FirstStep(op) /\ req'[q].row = row
                        /\ req'[q].made = None
    BY <1>1, <1>2 DEF Reqs, NoRequest
  <1>4. ~Accepted(op) => req'[q].at = "done"
    BY <1>1, EndsIs
  <1>5. \A r \in Slots \ {q} : req'[r] = req[r]
    BY <1>1, <1>2 DEF Reqs, Ends
  <1>6. Beside'
    BY <1>1, <1>2, <1>3, <1>4, <1>5, BesideStays DEF OInv
  <1>7. OneEach'
    BY <1>2, OneStays DEF OInv, Untouched
  <1>8. ASSUME NEW r \in Slots, req'[r].at # "done" PROVE Outcome(r)'
    <2>1. CASE r = q
      <3>1. Accepted(op)
        BY <1>4, <1>8, <2>1
      <3>2. FirstStep(op) \in {"mark", "pull", "find", "list", "offer"}
        BY ServiceAssumption DEF FirstStep, Ops
      <3>3. op = "install" => ~row.installed
        BY <3>1 DEF Accepted
      <3>4. op \in Inst => FirstStep(op) = "mark"
        BY DEF Inst, FirstStep
      <3>5. CopyOK(r)'
        BY <1>2, <1>3, <2>1, <3>1 DEF CopyOK
      <3>6. InstCopy(r)'
        BY <1>3, <2>1, <3>1, <3>3, <3>4 DEF InstCopy
      <3> QED BY <1>3, <2>1, <3>1, <3>2, <3>5, <3>6 DEF Outcome, Fresh, InstDocker, UpdDocker, ReadOK
    <2>2. CASE r # q
      <3>1. req'[r] = req[r] /\ Active(r)
        BY <1>5, <1>8, <2>2 DEF Active
      <3>2. met[r] \subseteq met'[r]
        BY <1>1, <1>8, <3>1, MetIs
      <3>3. Frame(r)
        BY <1>2 DEF Frame, Untouched
      <3> QED BY <3>1, <3>2, <3>3, OtherOutcome DEF OInv
    <2> QED BY <2>1, <2>2
  <1>9. \A r \in Slots : Outcome(r)'
    BY <1>8, DoneOutcome
  <1> QED BY <1>6, <1>7, <1>9 DEF OInv

\* What happens to the containers by itself, or by somebody's hand.
LEMMA EnvironmentOutcome ==
    ASSUME IInv, IInv', OInv, UNCHANGED <<row, req>>,
           \/ Remembers({"dies"}) /\ \E i \in Ids : SetRunning(i, FALSE)
           \/ Remembers({"by hand"}) /\ \E i \in Ids : InDocker(i) /\ RemoveContainer(i)
    PROVE  OInv'
  <1>1. Beside'
    BY BesideKept DEF OInv
  <1>2. CASE Remembers({"dies"}) /\ \E i \in Ids : SetRunning(i, FALSE)
    <2>1. Untouched
      BY <1>2, RunningTouches
    <2>2. OneEach'
      BY <2>1, OneStays DEF OInv
    <2>3. ASSUME NEW r \in Slots, req'[r].at # "done" PROVE Outcome(r)'
      <3>1. met'[r] = met[r] \cup {"dies"} /\ req'[r] = req[r]
        BY <1>2, <2>3, MetIs DEF Active
      <3>2. Frame(r)
        <4>1. "dies" \in met'[r] /\ "dies" \notin Gentle /\ row' = row
          BY <3>1 DEF Gentle
        <4>2. ~(met'[r] \subseteq Gentle)
          BY <4>1
        <4> QED BY <2>1, <4>1, <4>2 DEF Frame
      <3> QED BY <3>1, <3>2, OtherOutcome DEF OInv
    <2>4. \A r \in Slots : Outcome(r)'
      BY <2>3, DoneOutcome
    <2> QED BY <1>1, <2>2, <2>4 DEF OInv
  <1>3. CASE Remembers({"by hand"}) /\ \E i \in Ids : InDocker(i) /\ RemoveContainer(i)
    <2>1. \E i \in Ids : Gone(i)
      BY <1>3, RemovedGone
    <2>2. OneEach'
      BY <2>1, OneStays DEF OInv
    <2>3. ASSUME NEW r \in Slots, req'[r].at # "done" PROVE Outcome(r)'
      <3>1. met'[r] = met[r] \cup {"by hand"} /\ req'[r] = req[r]
        BY <1>3, <2>3, MetIs DEF Active
      <3>2. Frame(r)
        <4>1. "by hand" \in met'[r] /\ "by hand" \notin Harmless /\ "by hand" \notin Gentle /\ row' = row
          BY <3>1 DEF Harmless, Calm, Gentle, Still
        <4>2. ~(met'[r] \subseteq Gentle) /\ ~(met'[r] \subseteq Harmless)
          BY <4>1
        <4> QED BY <4>1, <4>2 DEF Frame
      <3> QED BY <3>1, <3>2, OtherOutcome DEF OInv
    <2>4. \A r \in Slots : Outcome(r)'
      BY <2>3, DoneOutcome
    <2> QED BY <1>1, <2>2, <2>4 DEF OInv
  <1> QED BY <1>2, <1>3

LEMMA NextOutcome == ASSUME IInv, IInv', OInv, [Next]_vars PROVE OInv'
  <1>1. ASSUME NEW q \in Slots, Arrive(q) \/ Step(q) PROVE OInv'
    BY <1>1, ArriveOutcome, StepOutcome
  <1>2. CASE Dies /\ Remembers({"dies"})
    BY <1>2, EnvironmentOutcome DEF Dies
  <1>3. CASE RemovedByHand /\ Remembers({"by hand"})
    BY <1>3, EnvironmentOutcome DEF RemovedByHand
  <1>4. CASE Shutdown
    <2>1. (\A r \in Slots : req'[r].at = "done") /\ UNCHANGED docker
      BY <1>4 DEF Shutdown, NoRequest
    <2>2. Beside' /\ \A r \in Slots : Outcome(r)'
      BY <2>1, DoneOutcome DEF Beside, Active
    <2>3. OneEach'
      BY <2>1, OneStays DEF OInv, Untouched
    <2> QED BY <2>2, <2>3 DEF OInv
  <1>5. CASE UNCHANGED vars
    BY <1>5 DEF vars, OInv, Beside, OneEach, Outcome, CopyOK, Fresh, InstCopy, InstDocker, UpdDocker, ReadOK,
               Created, Active, Main, Old, Named
  <1> QED BY <1>1, <1>2, <1>3, <1>4, <1>5 DEF Next

LEMMA FirstOutcome == Init => OInv
  <1> SUFFICES ASSUME Init PROVE OInv
    OBVIOUS
  <1>1. \A r \in Slots : req[r].at = "done"
    BY DEF Init, NoRequest
  <1>2. Beside /\ \A r \in Slots : Outcome(r)
    BY <1>1 DEF Beside, Active, Outcome, CopyOK, Fresh, InstCopy, InstDocker, UpdDocker, ReadOK
  <1>3. PICK here \in BOOLEAN :
           docker = [i \in Ids |-> [name |-> IF here /\ i = (CHOOSE j \in Ids : TRUE) THEN "main" ELSE "unused",
                                    running |-> here /\ i = (CHOOSE j \in Ids : TRUE), image |-> 1]]
    BY DEF Init
  <1>4. \A i \in Ids : docker[i].name \in {"main", "old"} => i = CHOOSE j \in Ids : TRUE
    BY <1>3
  <1>5. OneEach
    BY <1>4 DEF OneEach, Named
  <1> QED BY <1>2, <1>5 DEF OInv

----------------------------------------------------------------------------
(* What follows when a request reports its result *)

\* Only the request itself ends it with a result.
LEMMA FinishIs ==
    ASSUME IInv, [Next]_vars, NEW r \in Slots, Active(r), req'[r].at = "done", req'[r].result # "none"
    PROVE  Proceed(r)
  <1>1. req'[r] # req[r]
    BY DEF Active
  <1>2. ASSUME NEW q \in Slots, Arrive(q) PROVE FALSE
    <2>1. q # r /\ req \in Reqs
      BY <1>2, Typed DEF Arrive
    <2>2. req'[r] = req[r]
      BY <1>2, <2>1 DEF Arrive, Ends, Reqs
    <2> QED BY <1>1, <2>2
  <1>3. ASSUME NEW q \in Slots, Step(q) PROVE q = r
    BY <1>1, <1>3, StepIs DEF Step
  <1>4. ~Shutdown
    BY DEF Shutdown, NoRequest
  <1>5. ~Dies /\ ~RemovedByHand /\ ~UNCHANGED vars
    BY <1>1 DEF Dies, RemovedByHand, vars
  <1> QED BY <1>2, <1>3, <1>4, <1>5 DEF Next, Step

\* The steps of a request whose kind is known.
LEMMA KindIs ==
    ASSUME IInv, NEW r \in Slots, Proceed(r)
    PROVE  /\ req[r].op \in Inst => Install(r) \/ Reinstall(r) \/ Clean(r)
           /\ req[r].op = "update" => Update(r)
           /\ req[r].op = "read" => ReadList(r) \/ ReadSync(r)
           /\ req[r].op = "check" => CheckOffer(r)
  BY DEF Proceed, Install, Mark, InstallCreate, InstallBoot, InstallRecord, Reinstall, ReinstallFind,
         ReinstallStop, ReinstallDrop, ReinstallUnset, Clean, CleanMark, CleanFind, CleanRemove,
         Update, UpdatePull, UpdateFind, UpdateStop, UpdateRename, UpdateCreate, UpdateBoot,
         UpdateHealth, UpdateTidy, UpdatePurge, UpdateRecord, UpdateDiscard, UpdateBack,
         UpdateRestore, UpdateRestart, AffectFind, AffectAct, ReadList, ReadSync, CheckOffer,
         At, Inst, IInv, StepOK

LEMMA InstalledIs ==
    ASSUME IInv, NEW r \in Slots, Install(r) \/ Reinstall(r) \/ Clean(r), req'[r].at = "done",
           req'[r].result = "installed"
    PROVE  InstallRecord(r)
  <1>1. \A step : Goes(r, step) => step = "done"
    BY GoesIs
  <1>2. \A result : Ends(r, result) => result = "installed"
    BY EndsIs
  <1>3. \A image, step : CreateMain(r, image, step) => step = "done"
    BY CreateIs
  <1>4. ~Mark(r)
    BY MarkIs
  <1>5. ~Reinstall(r)
    <2>1. ~ReinstallFind(r)
      BY <1>1, Typed DEF ReinstallFind, Reqs, Request
    <2>2. ~ReinstallUnset(r)
      BY Typed DEF ReinstallUnset, Reqs, Request
    <2> QED BY <1>1, <2>1, <2>2 DEF Reinstall, ReinstallStop, ReinstallDrop
  <1>6. ~Clean(r)
    <2>1. ~CleanMark(r)
      BY <1>1 DEF CleanMark
    <2>2. ~CleanFind(r) /\ ~CleanRemove(r)
      BY <1>2, Typed DEF CleanFind, CleanRemove, CleanEnds, Reqs, Request
    <2> QED BY <2>1, <2>2 DEF Clean
  <1> QED BY <1>1, <1>3, <1>4, <1>5, <1>6 DEF Install, InstallCreate, InstallBoot

LEMMA UpdateEndIs ==
    ASSUME IInv, NEW r \in Slots, Update(r), req'[r].at = "done"
    PROVE  /\ req'[r].result = "updated" => UpdateRecord(r)
           /\ req'[r].result = "rolled back" =>
                 \/ UpdateBack(r) /\ Named("old") = {}
                 \/ UpdateRestart(r) /\ CanStart(req[r].seen) /\ SetRunning(req[r].seen, TRUE)
  <1>1. \A step : Goes(r, step) => step = "done"
    BY GoesIs
  <1>2. \A result : Ends(r, result) => req'[r].result = result
    BY EndsIs
  <1>3. \A image, step : CreateMain(r, image, step) => step = "done"
    BY CreateIs
  <1>4. ~UpdateTidy(r)
    BY <1>1, Typed DEF UpdateTidy, Reqs, Request
  <1>5. UpdateFind(r) => req'[r].result = "failed"
    BY <1>2, Typed DEF UpdateFind, Abandons, Reqs, Request
  <1>6. UpdateBack(r) => req'[r].result \in {"failed", "rolled back"}
                         /\ (req'[r].result = "rolled back" => Named("old") = {})
    BY <1>2, Typed DEF UpdateBack, Works, Reqs, Request
  <1>7. UpdatePull(r) \/ UpdateStop(r) \/ UpdateRename(r) \/ UpdateCreate(r) \/ UpdateBoot(r) \/ UpdateHealth(r)
          \/ UpdatePurge(r) \/ UpdateDiscard(r) \/ UpdateRestore(r)
        => req'[r].result = "failed"
    BY <1>1, <1>2, <1>3 DEF UpdatePull, UpdateStop, UpdateRename, UpdateCreate, UpdateBoot, UpdateHealth,
          UpdatePurge, UpdateDiscard, UpdateRestore, Abandons
  <1>8. UpdateRecord(r) => req'[r].result = "updated"
    BY <1>2 DEF UpdateRecord
  <1>9. UpdateRestart(r) => \/ req'[r].result = "failed"
                            \/ /\ req'[r].result = "rolled back"
                               /\ CanStart(req[r].seen) /\ SetRunning(req[r].seen, TRUE)
    BY <1>2 DEF UpdateRestart, Abandons, Works
  <1> QED BY <1>4, <1>5, <1>6, <1>7, <1>8, <1>9 DEF Update

LEMMA RolledBackStep ==
    ASSUME IInv, OInv, [Next]_vars, NEW r \in Slots,
           Finishes(r, {"update"}, "rolled back", {"read", "check", "docker", "dies"})
    PROVE  Old' = {} /\ \E i \in Ids \ {req[r].made} : Main' = {i} /\ docker'[i].running
  <1>1. req[r].op = "update" /\ req'[r].at = "done" /\ req'[r].result = "rolled back" /\ UpdDocker(r)
        /\ met[r] \subseteq Calm
    BY DEF Finishes, OInv, Outcome, Calm
  <1>2. Update(r)
    BY <1>1, FinishIs, KindIs DEF Finishes
  <1>3. ~(UpdateBack(r) /\ Named("old") = {})
    BY <1>1 DEF UpdateBack, At, UpdDocker, Old
  <1>4. UpdateRestart(r) /\ CanStart(req[r].seen) /\ SetRunning(req[r].seen, TRUE)
    BY <1>1, <1>2, <1>3, UpdateEndIs
  <1>5. Main = {req[r].seen} /\ Old = {} /\ req[r].made # req[r].seen
    BY <1>1, <1>4 DEF UpdateRestart, At, UpdDocker
  <1>6. req[r].seen \in Ids
    BY <1>4 DEF CanStart, InDocker
  <1>7. Untouched /\ docker'[req[r].seen].running
    BY <1>4, <1>6, RunningTouches
  <1> QED BY <1>5, <1>6, <1>7, UntouchedNames

LEMMA UpdatedStep ==
    ASSUME IInv, OInv, [Next]_vars, NEW r \in Slots,
           Finishes(r, {"update"}, "updated", {"read", "check", "docker", "dies"})
    PROVE  /\ Main' = {req[r].made}
           /\ docker'[req[r].made].image = row'.image /\ row'.image = req[r].to
           /\ "docker" \notin met[r] => Old' = {}
  <1>1. req[r].op = "update" /\ req'[r].at = "done" /\ req'[r].result = "updated" /\ UpdDocker(r)
        /\ met[r] \subseteq Calm /\ "update" \notin met[r] /\ CopyOK(r) /\ Active(r)
    BY DEF Finishes, OInv, Outcome, Calm
  <1>2. UpdateRecord(r)
    BY <1>1, FinishIs, KindIs, UpdateEndIs
  <1>3. Created(r) /\ ("docker" \notin met[r] => Old = {})
    BY <1>1, <1>2 DEF UpdateRecord, At, UpdDocker
  <1>4. UNCHANGED docker
    BY <1>2 DEF UpdateRecord
  <1>5. row'.image = req[r].to
    <2> DEFINE new == [req[r].row EXCEPT !.image = req[r].to, !.avail = None]
    <2>1. new \in Row /\ new.image = req[r].to
      BY Typed DEF Row
    <2>2. Saves(r, new)
      BY <1>2 DEF UpdateRecord
    <2>3. row'.image = IF new.image # req[r].row.image THEN new.image ELSE row.image
      BY <2>1, <2>2, SavedIs
    <2> HIDE DEF new
    <2> QED BY <1>1, <2>1, <2>3 DEF CopyOK
  <1> QED BY <1>3, <1>4, <1>5 DEF Created, Main, Old, Named

LEMMA InstalledStep ==
    ASSUME IInv, OInv, [Next]_vars, NEW r \in Slots,
           Finishes(r, {"install", "reinstall"}, "installed", {"read", "check", "start", "restart", "docker"})
    PROVE  /\ row'.installed /\ row'.status = "idle"
           /\ Main' = {req[r].made} /\ docker'[req[r].made].running
           /\ docker'[req[r].made].image = row'.image
  <1>1. req[r].op \in Inst /\ req'[r].at = "done" /\ req'[r].result = "installed" /\ InstDocker(r) /\ InstCopy(r)
        /\ met[r] \subseteq Gentle /\ "update" \notin met[r] /\ CopyOK(r) /\ Active(r)
    BY DEF Finishes, OInv, Outcome, Gentle, Inst
  <1>2. InstallRecord(r)
    BY <1>1, FinishIs, KindIs, InstalledIs
  <1>3. req[r].at = "record" /\ UNCHANGED docker
    BY <1>2 DEF InstallRecord, At
  <1>4. Main = {req[r].made} /\ docker[req[r].made].image = req[r].row.image /\ docker[req[r].made].running
    BY <1>1, <1>3 DEF InstDocker
  <1>5. ~req[r].row.installed /\ req[r].row.status = "installing"
    BY <1>1, <1>3 DEF InstCopy, IInv, StepOK
  <1>6. row.image = req[r].row.image
    BY <1>1 DEF CopyOK
  <1>7. row'.installed /\ row'.status = "idle" /\ row'.image = row.image
    <2> DEFINE new == [req[r].row EXCEPT !.installed = TRUE, !.status = "idle"]
    <2>1. new \in Row /\ new.installed /\ new.status = "idle" /\ new.image = req[r].row.image
      BY Typed DEF Row
    <2>2. Saves(r, new)
      BY <1>2 DEF InstallRecord
    <2>3. row'.image = row.image
      BY <2>1, <2>2, SavedIs
    <2>4. row'.status = "idle"
      BY <1>5, <2>1, <2>2, SavedIs
    <2>5. row'.installed = IF new.installed # req[r].row.installed THEN new.installed ELSE row.installed
      BY <2>1, <2>2, SavedIs
    <2> HIDE DEF new
    <2>6. row'.installed
      BY <1>5, <2>1, <2>5
    <2> QED BY <2>3, <2>4, <2>6
  <1> QED BY <1>3, <1>4, <1>6, <1>7 DEF Main, Named

LEMMA SyncedStep ==
    ASSUME IInv, OInv, [Next]_vars, NEW r \in Slots,
           Finishes(r, {"read"}, "ok", {"check", "start", "stop", "restart", "dies"})
    PROVE  row'.installed <=> Main' # {}
  <1>1. req[r].op = "read" /\ req'[r].at = "done" /\ req'[r].result = "ok" /\ ReadOK(r)
        /\ met[r] \subseteq Still /\ (Inst \cup {"read"}) \cap met[r] = {} /\ CopyOK(r) /\ Active(r)
    BY DEF Finishes, OInv, Outcome, Still, Inst
  <1>2. ReadSync(r)
    <2>1. ReadList(r) \/ ReadSync(r)
      BY <1>1, FinishIs, KindIs
    <2>2. ~ReadList(r)
      BY <1>1, GoesIs, Typed DEF ReadList, Reqs, Request
    <2> QED BY <2>1, <2>2
  <1>3. UNCHANGED docker /\ req[r].at = "sync"
    BY <1>2 DEF ReadSync, At
  <1>4. req[r].seen # None <=> Main # {}
    BY <1>1, <1>3 DEF ReadOK
  <1>5. row.installed = req[r].row.installed
    BY <1>1 DEF CopyOK
  <1> DEFINE exists == req[r].seen # None
             new == Synced(req[r].row, exists)
  <1>6. new \in Row /\ new.installed = exists
    BY Typed DEF Synced, Row
  <1>7. Saves(r, new)
    BY <1>2 DEF ReadSync
  <1>8. row'.installed = IF new.installed # req[r].row.installed THEN new.installed ELSE row.installed
    BY <1>6, <1>7, SavedIs
  <1> HIDE DEF new, exists
  <1>9. row'.installed = exists
    BY <1>5, <1>6, <1>8
  <1> QED BY <1>3, <1>4, <1>9 DEF exists, Main, Named

LEMMA OInvHolds == Spec => []OInv
  <1>1. Spec => []IInv
    BY InitInv, StepInv, PTL DEF Spec
  <1>2. IInv /\ IInv' /\ OInv /\ [Next]_vars => OInv'
    BY NextOutcome
  <1> QED BY <1>1, <1>2, FirstOutcome, PTL DEF Spec

\* RolledBackIsBack: an update that reports its rollback, whatever Docker refused and whoever
\* read or checked the services meanwhile, has put the container it began with back, running.
THEOREM RollbackRestores == Spec => RolledBackIsBack
  <1>1. IInv /\ OInv /\ [Next]_vars =>
          [\A r \in Slots :
              Finishes(r, {"update"}, "rolled back", {"read", "check", "docker", "dies"}) =>
                 /\ Old' = {}
                 /\ \E i \in Ids \ {req[r].made} : Main' = {i} /\ docker'[i].running]_vars
    BY RolledBackStep
  <1>2. Spec => []IInv
    BY InitInv, StepInv, PTL DEF Spec
  <1> QED BY <1>1, <1>2, OInvHolds, PTL DEF Spec, RolledBackIsBack

\* UpdatedRuns: an update that reports success left the new container under the name of the
\* service and its tag in the row, and the old one only if a call of Docker failed.
THEOREM UpdateDelivers == Spec => UpdatedRuns
  <1>1. IInv /\ OInv /\ [Next]_vars =>
          [\A r \in Slots :
              Finishes(r, {"update"}, "updated", {"read", "check", "docker", "dies"}) =>
                 /\ Main' = {req[r].made}
                 /\ docker'[req[r].made].image = row'.image /\ row'.image = req[r].to
                 /\ "docker" \notin met[r] => Old' = {}]_vars
    BY UpdatedStep
  <1>2. Spec => []IInv
    BY InitInv, StepInv, PTL DEF Spec
  <1> QED BY <1>1, <1>2, OInvHolds, PTL DEF Spec, UpdatedRuns

\* InstallDelivers: an installation that completes has its container running under the name
\* and its row saying so, whatever the readings of the services wrote into the row meanwhile.
THEOREM InstallationDelivers == Spec => InstallDelivers
  <1>1. IInv /\ OInv /\ [Next]_vars =>
          [\A r \in Slots :
              Finishes(r, {"install", "reinstall"}, "installed",
                       {"read", "check", "start", "restart", "docker"}) =>
                 /\ row'.installed /\ row'.status = "idle"
                 /\ Main' = {req[r].made} /\ docker'[req[r].made].running
                 /\ docker'[req[r].made].image = row'.image]_vars
    BY InstalledStep
  <1>2. Spec => []IInv
    BY InitInv, StepInv, PTL DEF Spec
  <1> QED BY <1>1, <1>2, OInvHolds, PTL DEF Spec, InstallDelivers

\* SyncRepairs: whatever earlier requests left, a reading that meets nothing that installs,
\* updates or removes leaves a row that says "installed" exactly when there is a container.
THEOREM ReadingRepairs == Spec => SyncRepairs
  <1>1. IInv /\ OInv /\ [Next]_vars =>
          [\A r \in Slots :
              Finishes(r, {"read"}, "ok", {"check", "start", "stop", "restart", "dies"}) =>
                 (row'.installed <=> Main' # {})]_vars
    BY SyncedStep
  <1>2. Spec => []IInv
    BY InitInv, StepInv, PTL DEF Spec
  <1> QED BY <1>1, <1>2, OInvHolds, PTL DEF Spec, SyncRepairs

=============================================================================
