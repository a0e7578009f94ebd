-------------------------- MODULE MCAssistant_proofs --------------------------
(****************************************************************************)
(* Proofs about the assistant: its host and models, the chat, the tags in   *)
(* an answer, and the wizard. The parts share nothing, and one that is not  *)
(* chosen stays where it started, so that the invariant of every part holds *)
(* in every behaviour. Each part has its invariant, a lemma per handler     *)
(* that keeps it, and a lemma that it implies what is promised of the part; *)
(* the theorems at the end put them together.                               *)
(****************************************************************************)
EXTENDS MCAssistant, SequenceTheorems, FiniteSetTheorems, WellFoundedInduction, TLAPS

\* The bounds are numbers, and tags are texts.
LEMMA Bounds ==
    /\ MaxFaults \in Nat /\ Attempts \in Nat /\ MaxWork \in Nat /\ ModelsAsked \in Nat
    /\ ChatSessions \in Nat /\ ChatSends \in Nat /\ ChatMoves \in Nat /\ SetupClicks \in Nat
    /\ MaxStream \in Nat /\ MaxChunk \in Nat
    /\ Open \in Seq(Symbol) /\ Close \in Seq(Symbol) /\ Open # <<>> /\ Close # <<>>
BY MCAssistantAssumption

\* A set of numbers that is not empty has a least element,
LEMMA Least ==
    ASSUME NEW N \in SUBSET Nat, N # {}
    PROVE  \E n \in N : \A m \in N : n <= m
<1> DEFINE R == OpToRel(<, Nat)
<1>1. IsWellFoundedOn(R, Nat) BY NatLessThanWellFounded
<1>2. \A x, y \in Nat : <<y, x>> \in R <=> y < x BY DEF OpToRel
<1> HIDE DEF R
<1>3. PICK n \in N : \A y \in N : ~ (<<y, n>> \in R) BY <1>1, WFMin
<1>4. \A m \in N : ~(m < n) BY <1>2, <1>3
<1> QED BY <1>3, <1>4

\* so that what holds of 0 and goes on to the next number holds of all.
LEMMA Induction ==
    ASSUME NEW N, 0 \in N, \A n \in Nat : n \in N => n + 1 \in N
    PROVE  \A n \in Nat : n \in N
<1> SUFFICES ASSUME NEW x \in Nat, x \notin N PROVE FALSE OBVIOUS
<1> DEFINE X == {n \in Nat : n \notin N}
<1>1. PICK n \in X : \A m \in X : n <= m BY Least
<1>2. n # 0 /\ n \in Nat /\ n - 1 \in Nat BY <1>1
<1>3. n - 1 \notin X BY <1>1, <1>2
<1>4. n - 1 \in N BY <1>2, <1>3
<1>5. (n - 1) + 1 \in N BY <1>2, <1>4
<1> QED BY <1>1, <1>2, <1>5
----------------------------------------------------------------------------
(* The host of the assistant and its models *)

\* An assistant that is marked as installed has a host, of a request or of the environment, or
\* a container.
OReach == o_installed => o_remote # "none" \/ o_env.set \/ o_local # "none"

\* A request to configure a host, step by step: what it knows is so.
OStage(c) ==
    /\ c.at = "test" => c.url # "none" /\ (c.was <=> o_installed) /\ OReach
    /\ c.at = "key" => (c.was <=> o_installed)
    /\ c.at = "container" => c.url = "none" /\ (c.was <=> o_installed)
    /\ c.at = "row" => /\ (c.was <=> o_installed)
                       /\ IF c.url = "none" THEN c.has => o_local # "none" \/ o_env.set ELSE o_remote # "none"
    /\ c.at = "stop" => o_remote # "none"
    /\ c.at \in {"test", "key", "container"} => ~c.has

\* Requests that do not overlap and were not cut short keep it so.
OAlone ==
    ~o_excused =>
        /\ \A a, b \in Admins : o_conf[a].at # "none" /\ o_conf[b].at # "none" => a = b
        /\ \A a \in Admins : OStage(o_conf[a])
        /\ (\A a \in Admins : o_conf[a].at = "none") => OReach

OInv == O!TypeOK /\ OAlone

OConf == [at: {"none", "test", "key", "container", "row", "stop"}, url: {"none", "ollama", "other"},
          was: BOOLEAN, has: BOOLEAN]
OJob == [st: {"none", "waiting", "active", "completed", "failed"}, left: 0 .. Attempts]
OWork == [at: {"none", "ready", "check", "pull"}, host: O!Host \cup {"none"}, aborted: BOOLEAN]
OUsed == [asked: 0 .. ModelsAsked, faults: 0 .. MaxFaults]

\* The types, part by part,
OHostsTyped ==
    /\ o_env \in [set: BOOLEAN, offline: BOOLEAN]
    /\ o_store \in [O!Host -> SUBSET HostModels] /\ o_local \in {"none", "stopped", "running"}
    /\ o_remote \in {"none", "ollama", "other"} /\ o_installed \in BOOLEAN
    /\ o_conf \in [Admins -> OConf] /\ o_excused \in BOOLEAN
OJobsTyped ==
    /\ o_job \in [HostModels -> OJob] /\ o_work \in [HostModels -> OWork]
    /\ o_key \subseteq HostModels /\ o_cancel \in [HostModels -> {"none", "poll", "remove"}]
OShownTyped ==
    /\ o_row \in [HostModels -> {"none", "progress", "full", "error"}] /\ o_timer \subseteq HostModels
    /\ o_seen \subseteq HostModels

LEMMA OTypes == O!TypeOK <=> OHostsTyped /\ OJobsTyped /\ OShownTyped /\ o_used \in OUsed
BY DEF O!TypeOK, OHostsTyped, OJobsTyped, OShownTyped, OConf, OJob, OWork, OUsed

\* and after a step.
LEMMA OTypesNext == O!TypeOK' <=> OHostsTyped' /\ OJobsTyped' /\ OShownTyped' /\ o_used' \in OUsed
BY DEF O!TypeOK, OHostsTyped, OJobsTyped, OShownTyped, OConf, OJob, OWork, OUsed

LEMMA OIdle ==
    /\ O!NoJob \in OJob /\ O!Idle \in OWork /\ O!NoConf \in OConf /\ O!NoConf.at = "none"
    /\ \A s \in {"none", "waiting", "active", "completed", "failed"}, l \in 0 .. Attempts : [st |-> s, left |-> l] \in OJob
<1>1. 0 \in 0 .. Attempts BY Bounds
<1> QED BY <1>1 DEF O!NoJob, O!Idle, O!NoConf, OJob, OWork, OConf

\* Clicks and faults are counted up to their bounds.
LEMMA OUses ==
    ASSUME OInv, O!Asked \/ O!Fault \/ O!Normally
    PROVE  o_used' \in OUsed
<1>1. o_used \in OUsed /\ o_used.asked \in Nat /\ o_used.faults \in Nat BY OTypes, Bounds DEF OInv, OUsed
<1>2. CASE O!Asked
  <2>1. o_used.asked + 1 \in 0 .. ModelsAsked BY <1>1, <1>2, Bounds DEF O!Asked, OUsed
  <2> QED BY <1>1, <1>2, <2>1 DEF O!Asked, OUsed
<1>3. CASE O!Fault
  <2>1. o_used.faults + 1 \in 0 .. MaxFaults BY <1>1, <1>3, Bounds DEF O!Fault, OUsed
  <2> QED BY <1>1, <1>3, <2>1 DEF O!Fault, OUsed
<1>4. CASE O!Normally
  BY <1>1, <1>4 DEF O!Normally
<1> QED BY <1>2, <1>3, <1>4

LEMMA OStarts == O!Init => OInv
<1> SUFFICES ASSUME O!Init PROVE OInv OBVIOUS
<1>1. o_used \in OUsed BY Bounds DEF O!Init, OUsed
<1>2. OJobsTyped /\ OShownTyped BY OIdle DEF O!Init, OJobsTyped, OShownTyped
<1>3. OHostsTyped
  <2>1. o_store \in [O!Host -> SUBSET HostModels] /\ o_conf \in [Admins -> OConf] BY OIdle DEF O!Init
  <2>2. o_installed \in BOOLEAN /\ o_excused \in BOOLEAN /\ o_env \in [set: BOOLEAN, offline: BOOLEAN]
    BY DEF O!Init
  <2>3. o_local \in {"none", "stopped", "running"} /\ o_remote \in {"none", "ollama", "other"} BY DEF O!Init
  <2> QED BY <2>1, <2>2, <2>3 DEF OHostsTyped
<1>4. \A a \in Admins : o_conf[a].at = "none" BY OIdle DEF O!Init
<1>5. OReach BY DEF O!Init, OReach
<1>6. OAlone BY <1>4, <1>5 DEF OAlone, OStage
<1> QED BY <1>1, <1>2, <1>3, <1>6, OTypes DEF OInv
----------------------------------------------------------------------------
\* What does not touch the hosts keeps what is said of them, and so does what only stores a model.
LEMMA OHostsStay ==
    ASSUME OInv, UNCHANGED <<o_env, o_local, o_remote, o_installed, o_conf, o_excused>>,
           o_store' \in [O!Host -> SUBSET HostModels], OJobsTyped', OShownTyped', o_used' \in OUsed
    PROVE  OInv'
<1>1. OHostsTyped' BY OTypes DEF OInv, OHostsTyped
<1>2. OAlone' BY DEF OInv, OAlone, OStage, OReach
<1> QED BY <1>1, <1>2, OTypesNext DEF OInv

\* What one request does keeps it, if no other is under way.
LEMMA OOnly ==
    ASSUME OInv, NEW a \in Admins, o_conf' \in [Admins -> OConf],
           ~o_excused' => /\ ~o_excused
                          /\ \A b \in Admins : b # a => o_conf[b].at = "none" /\ o_conf'[b] = o_conf[b]
                          /\ OStage(o_conf[a])'
                          /\ o_conf'[a].at = "none" => OReach'
    PROVE  OAlone'
<1> SUFFICES ASSUME ~o_excused' PROVE OAlone' BY DEF OAlone
<1>1. \A b \in Admins : b # a => o_conf'[b].at = "none" OBVIOUS
<1>2. \A b \in Admins : OStage(o_conf[b])' BY <1>1 DEF OStage
<1>3. (\A b \in Admins : o_conf'[b].at = "none") => OReach' OBVIOUS
<1> QED BY <1>1, <1>2, <1>3 DEF OAlone

\* A request under way is alone, unless that is excused.
LEMMA OOthers ==
    ASSUME OInv, NEW a \in Admins, o_conf[a].at # "none", ~o_excused
    PROVE  /\ \A b \in Admins : b # a => o_conf[b].at = "none"
           /\ OStage(o_conf[a])
BY DEF OInv, OAlone

LEMMA OConfigures ==
    ASSUME OInv, NEW a \in Admins, NEW url \in {"none", "ollama", "other"}, O!Configure(a, url)
    PROVE  OInv'
<1> USE OTypes DEF OInv
<1>1. /\ UNCHANGED <<o_env, o_store, o_local, o_remote, o_installed>>
      /\ UNCHANGED <<o_job, o_work, o_key, o_cancel, o_row, o_timer, o_seen>>
  BY DEF O!Configure, O!jobs, O!shown
<1>2. o_used' \in OUsed BY OUses DEF O!Configure
<1>3. o_conf \in [Admins -> OConf] /\ o_installed \in BOOLEAN /\ o_excused \in BOOLEAN BY DEF OHostsTyped
<1> DEFINE c == [at |-> IF url = "none" THEN "key" ELSE "test", url |-> url, was |-> o_installed, has |-> FALSE]
<1>4. c \in OConf BY <1>3 DEF OConf
<1>5. o_conf' = [o_conf EXCEPT ![a] = c] /\ o_conf[a].at = "none" BY DEF O!Configure, O!Configurable
<1>6. c.at = (IF url = "none" THEN "key" ELSE "test") /\ c.url = url /\ c.was = o_installed /\ c.has = FALSE OBVIOUS
<1> HIDE DEF c
<1>7. o_conf' \in [Admins -> OConf] /\ o_conf'[a] = c /\ \A b \in Admins : b # a => o_conf'[b] = o_conf[b]
  BY <1>3, <1>4, <1>5
<1>8. o_excused' = (o_excused \/ O!Configuring \ {a} # {}) BY DEF O!Configure, O!Beside
<1>9. ~o_excused' => ~o_excused /\ \A b \in Admins : b # a => o_conf[b].at = "none"
  BY <1>8 DEF O!Configuring
<1>10. ~o_excused' => OReach BY <1>9, <1>5 DEF OAlone
<1>11. OReach' <=> OReach BY <1>1 DEF OReach
<1>12. ~o_excused' => OStage(o_conf[a])'
  BY <1>1, <1>6, <1>7, <1>10, <1>11 DEF OStage
<1>13. OAlone' BY <1>7, <1>9, <1>10, <1>11, <1>12, OOnly
<1>14. OHostsTyped'
  <2>1. o_excused' \in BOOLEAN BY <1>8
  <2> QED BY <1>1, <1>7, <2>1 DEF OHostsTyped
<1> QED BY <1>1, <1>2, <1>13, <1>14, OTypesNext DEF OJobsTyped, OShownTyped

\* A request that goes on changes its own step, and what it says of the hosts holds by then.
LEMMA OGoes ==
    ASSUME OInv, NEW a \in Admins, o_conf[a].at # "none", NEW c \in OConf,
           o_conf' = [o_conf EXCEPT ![a] = c],
           UNCHANGED <<o_env, o_store, o_excused, o_job, o_work, o_key, o_cancel, o_row, o_timer, o_seen>>,
           o_used' \in OUsed, o_local' \in {"none", "stopped", "running"},
           o_remote' \in {"none", "ollama", "other"}, o_installed' \in BOOLEAN,
           ~o_excused /\ OStage(o_conf[a]) => OStage(c)' /\ (c.at = "none" => OReach')
    PROVE  OInv'
<1>1. o_conf \in [Admins -> OConf] BY OTypes DEF OInv, OHostsTyped
<1>2. o_conf' \in [Admins -> OConf] /\ o_conf'[a] = c /\ \A b \in Admins : b # a => o_conf'[b] = o_conf[b]
  BY <1>1
<1>3. ~o_excused' => /\ ~o_excused
                     /\ \A b \in Admins : b # a => o_conf[b].at = "none" /\ o_conf'[b] = o_conf[b]
                     /\ OStage(o_conf[a])
  BY <1>2, OOthers
<1>4. ~o_excused' => OStage(c)' /\ (c.at = "none" => OReach') BY <1>3
<1>5. OStage(o_conf[a])' <=> OStage(c)' BY <1>2 DEF OStage
<1>6. OAlone' BY <1>2, <1>3, <1>4, <1>5, OOnly
<1>7. OHostsTyped' BY <1>2, OTypes DEF OInv, OHostsTyped
<1>8. OJobsTyped' /\ OShownTyped' BY OTypes DEF OInv, OJobsTyped, OShownTyped
<1> QED BY <1>6, <1>7, <1>8, OTypesNext DEF OInv

\* The steps of a request, one by one.
LEMMA OTests ==
    ASSUME OInv, NEW a \in Admins, O!Test(a)
    PROVE  OInv'
<1>1. /\ UNCHANGED <<o_env, o_store, o_excused, o_job, o_work, o_key, o_cancel, o_row, o_timer, o_seen>>
      /\ UNCHANGED <<o_local, o_remote, o_installed>>
  BY DEF O!Test, O!jobs, O!shown
<1>2. o_used' \in OUsed BY OUses DEF O!Test
<1>3. o_conf[a] \in OConf /\ o_conf[a].at = "test" /\ OHostsTyped /\ o_conf \in [Admins -> OConf]
  BY OTypes DEF O!Test, OInv, OHostsTyped
<1>4. PICK d \in OConf : d = [o_conf[a] EXCEPT !.at = "key"] BY <1>3 DEF OConf
<1>5. d.at = "key" /\ d.was = o_conf[a].was /\ d.has = o_conf[a].has BY <1>3, <1>4 DEF OConf
<1>6. CASE o_conf' = [o_conf EXCEPT ![a] = d]
  <2>1. OStage(o_conf[a]) => OStage(d)' /\ (d.at = "none" => OReach') BY <1>1, <1>3, <1>5 DEF OStage
  <2> QED BY <1>1, <1>2, <1>3, <1>4, <1>6, <2>1, OGoes DEF OHostsTyped
<1>7. CASE o_conf' = [o_conf EXCEPT ![a] = O!NoConf]
  <2>1. PICK n \in OConf : n = O!NoConf /\ n.at = "none" BY OIdle
  <2>2. OReach => OReach' BY <1>1 DEF OReach
  <2>3. OStage(o_conf[a]) => OReach BY <1>3 DEF OStage
  <2>4. OStage(n)' BY <2>1 DEF OStage
  <2> QED BY <1>1, <1>2, <1>3, <1>7, <2>1, <2>2, <2>3, <2>4, OGoes DEF OHostsTyped
<1> QED BY <1>3, <1>4, <1>6, <1>7 DEF O!Test

LEMMA OStoresUrl ==
    ASSUME OInv, NEW a \in Admins, O!StoreUrl(a)
    PROVE  OInv'
<1>1. /\ UNCHANGED <<o_env, o_store, o_excused, o_job, o_work, o_key, o_cancel, o_row, o_timer, o_seen>>
      /\ UNCHANGED <<o_local, o_installed>>
  BY DEF O!StoreUrl, O!jobs, O!shown
<1>2. o_used' \in OUsed BY OUses DEF O!StoreUrl
<1>3. o_conf[a] \in OConf /\ o_conf[a].at = "key" /\ OHostsTyped /\ o_conf \in [Admins -> OConf]
  BY OTypes DEF O!StoreUrl, OInv, OHostsTyped
<1>4. o_conf[a].url \in {"none", "ollama", "other"} /\ o_remote' = o_conf[a].url BY <1>3 DEF OConf, O!StoreUrl
<1>5. o_env.set \in BOOLEAN BY <1>3 DEF OHostsTyped
<1>6. PICK next \in {"container", "row"} :
        next = IF o_conf[a].url = "none" /\ ~o_env.set THEN "container" ELSE "row"
  OBVIOUS
<1>7. PICK d \in OConf : d = [o_conf[a] EXCEPT !.at = next, !.has = o_env.set]
  BY <1>3, <1>5 DEF OConf
<1>8. d.at = next /\ d.was = o_conf[a].was /\ d.url = o_conf[a].url /\ d.has = o_env.set
  BY <1>3, <1>7 DEF OConf
<1>9. o_conf' = [o_conf EXCEPT ![a] = d] BY <1>3, <1>6, <1>7 DEF O!StoreUrl
<1>10. OStage(o_conf[a]) => OStage(d)' /\ (d.at = "none" => OReach')
  BY <1>1, <1>3, <1>4, <1>5, <1>6, <1>8 DEF OStage
<1> QED BY <1>1, <1>2, <1>3, <1>4, <1>9, <1>10, OGoes DEF OHostsTyped

LEMMA OStartsLocal ==
    ASSUME OInv, NEW a \in Admins, O!StartLocal(a)
    PROVE  OInv'
<1>1. /\ UNCHANGED <<o_env, o_store, o_excused, o_job, o_work, o_key, o_cancel, o_row, o_timer, o_seen>>
      /\ UNCHANGED <<o_remote, o_installed>>
  BY DEF O!StartLocal, O!jobs, O!shown
<1>2. o_used' \in OUsed BY OUses DEF O!StartLocal
<1>3. o_conf[a] \in OConf /\ o_conf[a].at = "container" /\ OHostsTyped /\ o_conf \in [Admins -> OConf]
  BY OTypes DEF O!StartLocal, OInv, OHostsTyped
<1>4. o_local \in {"none", "stopped", "running"} /\ o_conf[a].has \in BOOLEAN BY <1>3 DEF OHostsTyped, OConf
<1>5. PICK h \in BOOLEAN :
         /\ o_conf' = [o_conf EXCEPT ![a] = [o_conf[a] EXCEPT !.at = "row", !.has = h]]
         /\ o_local' \in {"none", "stopped", "running"}
         /\ h /\ ~o_conf[a].has => o_local' # "none"
  <2>1. [o_conf[a] EXCEPT !.at = "row"] = [o_conf[a] EXCEPT !.at = "row", !.has = o_conf[a].has] BY <1>3 DEF OConf
  <2>2. CASE o_conf' = [o_conf EXCEPT ![a] = [o_conf[a] EXCEPT !.at = "row"]] /\ UNCHANGED o_local
    BY <1>4, <2>1, <2>2
  <2>3. CASE /\ o_local' = IF o_local = "none" THEN o_local ELSE "running"
             /\ o_conf' = [o_conf EXCEPT ![a] = [o_conf[a] EXCEPT !.at = "row", !.has = o_local # "none"]]
    <3>1. (o_local # "none") \in BOOLEAN /\ (o_local # "none" => o_local' # "none") BY <2>3
    <3>2. o_local' \in {"none", "stopped", "running"} BY <1>4, <2>3
    <3>3. PICK g \in BOOLEAN : g = (o_local # "none") BY <3>1
    <3> QED BY <2>3, <3>1, <3>2, <3>3
  <2>4. o_conf' = [o_conf EXCEPT ![a].at = "row", ![a].has = o_local # "none"]
        => o_conf' = [o_conf EXCEPT ![a] = [o_conf[a] EXCEPT !.at = "row", !.has = o_local # "none"]] BY <1>3
  <2> QED BY <1>3, <2>2, <2>3, <2>4 DEF O!StartLocal
<1>6. PICK d \in OConf : d = [o_conf[a] EXCEPT !.at = "row", !.has = h] BY <1>3 DEF OConf
<1>7. d.at = "row" /\ d.was = o_conf[a].was /\ d.url = o_conf[a].url /\ d.has = h BY <1>3, <1>6 DEF OConf
<1>8. OStage(o_conf[a]) => OStage(d)' /\ (d.at = "none" => OReach') BY <1>1, <1>3, <1>5, <1>7 DEF OStage
<1> QED BY <1>1, <1>2, <1>3, <1>5, <1>6, <1>8, OGoes DEF OHostsTyped

LEMMA OSavesRow ==
    ASSUME OInv, NEW a \in Admins, O!SaveRow(a)
    PROVE  OInv'
<1>1. /\ UNCHANGED <<o_env, o_store, o_excused, o_job, o_work, o_key, o_cancel, o_row, o_timer, o_seen>>
      /\ UNCHANGED <<o_local, o_remote>>
  BY DEF O!SaveRow, O!jobs, O!shown
<1>2. o_used' \in OUsed BY OUses DEF O!SaveRow
<1>3. o_conf[a] \in OConf /\ o_conf[a].at = "row" /\ OHostsTyped /\ o_conf \in [Admins -> OConf]
  BY OTypes DEF O!SaveRow, OInv, OHostsTyped
<1>4. o_conf[a].has \in BOOLEAN /\ o_conf[a].was \in BOOLEAN /\ o_installed \in BOOLEAN BY <1>3 DEF OHostsTyped, OConf
<1>5. o_installed' = IF (o_conf[a].url # "none" \/ o_conf[a].has) = o_conf[a].was THEN o_installed
                     ELSE (o_conf[a].url # "none" \/ o_conf[a].has)
  BY DEF O!SaveRow
<1>6. o_installed' \in BOOLEAN BY <1>4, <1>5
<1>7. (o_conf[a].was <=> o_installed) => (o_installed' <=> o_conf[a].url # "none" \/ o_conf[a].has)
  <2>1. CASE (o_conf[a].url # "none" \/ o_conf[a].has) = o_conf[a].was BY <1>5, <2>1
  <2>2. CASE (o_conf[a].url # "none" \/ o_conf[a].has) # o_conf[a].was BY <1>5, <2>2
  <2> QED BY <2>1, <2>2
<1>8. OStage(o_conf[a]) => OReach' BY <1>1, <1>3, <1>7 DEF OStage, OReach
<1>9. CASE o_conf[a].url = "none"
  <2>1. PICK n \in OConf : n = O!NoConf /\ n.at = "none" BY OIdle
  <2>2. OStage(n)' BY <2>1 DEF OStage
  <2>3. o_conf' = [o_conf EXCEPT ![a] = n] BY <1>9, <2>1 DEF O!SaveRow
  <2> QED BY <1>1, <1>2, <1>3, <1>6, <1>8, <2>1, <2>2, <2>3, OGoes DEF OHostsTyped
<1>10. CASE o_conf[a].url # "none"
  <2>1. PICK d \in OConf : d = [o_conf[a] EXCEPT !.at = "stop"] BY <1>3 DEF OConf
  <2>2. d.at = "stop" BY <1>3, <2>1 DEF OConf
  <2>3. o_conf' = [o_conf EXCEPT ![a] = d] BY <1>3, <1>10, <2>1 DEF O!SaveRow
  <2>4. OStage(o_conf[a]) => OStage(d)' /\ (d.at = "none" => OReach') BY <1>1, <1>3, <1>10, <2>2 DEF OStage
  <2> QED BY <1>1, <1>2, <1>3, <1>6, <2>1, <2>3, <2>4, OGoes DEF OHostsTyped
<1> QED BY <1>9, <1>10

LEMMA OStopsLocal ==
    ASSUME OInv, NEW a \in Admins, O!StopLocal(a)
    PROVE  OInv'
<1>1. /\ UNCHANGED <<o_env, o_store, o_excused, o_job, o_work, o_key, o_cancel, o_row, o_timer, o_seen>>
      /\ UNCHANGED <<o_installed, o_remote>>
  BY DEF O!StopLocal, O!jobs, O!shown
<1>2. o_used' \in OUsed BY OUses DEF O!StopLocal
<1>3. o_conf[a] \in OConf /\ o_conf[a].at = "stop" /\ OHostsTyped /\ o_conf \in [Admins -> OConf]
  BY OTypes DEF O!StopLocal, OInv, OHostsTyped
<1>4. o_local' \in {"none", "stopped", "running"} BY <1>3 DEF O!StopLocal, OHostsTyped
<1>5. PICK n \in OConf : n = O!NoConf /\ n.at = "none" BY OIdle
<1>6. OStage(n)' BY <1>5 DEF OStage
<1>7. o_conf' = [o_conf EXCEPT ![a] = n] BY <1>5 DEF O!StopLocal
<1>8. OStage(o_conf[a]) => OReach' BY <1>1, <1>3 DEF OStage, OReach
<1> QED BY <1>1, <1>2, <1>3, <1>4, <1>5, <1>6, <1>7, <1>8, OGoes DEF OHostsTyped

LEMMA OServerDies ==
    ASSUME OInv, O!ServerDies
    PROVE  OInv'
<1>1. /\ UNCHANGED <<o_env, o_store, o_local, o_remote, o_installed, o_job, o_work, o_key, o_row, o_timer, o_seen>>
  BY DEF O!ServerDies, O!shown
<1>2. o_used' \in OUsed BY OUses DEF O!ServerDies
<1>3. OHostsTyped /\ OJobsTyped /\ OShownTyped BY OTypes DEF OInv
<1>4. o_conf' = [a \in Admins |-> O!NoConf] /\ o_conf' \in [Admins -> OConf] BY OIdle DEF O!ServerDies
<1>5. o_excused' = (o_excused \/ O!Configuring # {}) /\ o_excused' \in BOOLEAN BY DEF O!ServerDies
<1>6. o_cancel' \in [HostModels -> {"none", "poll", "remove"}] BY DEF O!ServerDies
<1>7. ~o_excused' => ~o_excused /\ \A a \in Admins : o_conf[a].at = "none" BY <1>5 DEF O!Configuring
<1>8. ~o_excused' => OReach BY <1>7 DEF OInv, OAlone
<1>9. \A a \in Admins : o_conf'[a].at = "none" BY <1>4, OIdle
<1>10. OAlone' BY <1>1, <1>8, <1>9 DEF OAlone, OStage, OReach
<1>11. OHostsTyped' BY <1>1, <1>3, <1>4, <1>5 DEF OHostsTyped
<1>12. OJobsTyped' /\ OShownTyped' BY <1>1, <1>3, <1>6 DEF OJobsTyped, OShownTyped
<1> QED BY <1>2, <1>10, <1>11, <1>12, OTypesNext DEF OInv
----------------------------------------------------------------------------
\* What is done to the job of a model, and to what the worker does of it, keeps the types.
LEMMA OJobsKept ==
    ASSUME OInv, NEW m \in HostModels, O!Fails(m, TRUE) \/ O!Fails(m, FALSE) \/ O!Succeeds(m)
    PROVE  o_job' \in [HostModels -> OJob] /\ o_work' \in [HostModels -> OWork]
<1>1. o_job \in [HostModels -> OJob] /\ o_work \in [HostModels -> OWork] BY OTypes DEF OInv, OJobsTyped
<1>2. o_work' \in [HostModels -> OWork] BY <1>1, OIdle DEF O!Fails, O!Succeeds
<1>3. o_job[m] \in OJob BY <1>1
<1>4. o_job[m].left > 1 => [o_job[m] EXCEPT !.st = "waiting", !.left = @ - 1] \in OJob
  <2> SUFFICES ASSUME o_job[m].left > 1 PROVE [o_job[m] EXCEPT !.st = "waiting", !.left = @ - 1] \in OJob OBVIOUS
  <2>1. o_job[m].left \in 0 .. Attempts BY <1>3 DEF OJob
  <2>2. o_job[m].left - 1 \in 0 .. Attempts BY <2>1, Bounds
  <2> QED BY <1>3, <2>2 DEF OJob
<1>5. [o_job[m] EXCEPT !.st = "failed"] \in OJob /\ [o_job[m] EXCEPT !.st = "completed"] \in OJob BY <1>3 DEF OJob
<1>6. o_job[m].left > 1 => [st |-> "waiting", left |-> o_job[m].left - 1] \in OJob
  <2> SUFFICES ASSUME o_job[m].left > 1 PROVE [st |-> "waiting", left |-> o_job[m].left - 1] \in OJob OBVIOUS
  <2>1. o_job[m].left \in 0 .. Attempts BY <1>3 DEF OJob
  <2>2. o_job[m].left - 1 \in 0 .. Attempts BY <2>1, Bounds
  <2> QED BY <2>2 DEF OJob
<1>7. CASE O!Fails(m, TRUE) \/ O!Fails(m, FALSE)
  <2>1. \/ o_job' = o_job
        \/ o_job' = [o_job EXCEPT ![m] = [st |-> "waiting", left |-> o_job[m].left - 1]] /\ o_job[m].left > 1
        \/ o_job' = [o_job EXCEPT ![m] = [o_job[m] EXCEPT !.st = "failed"]]
    BY <1>1, <1>7 DEF O!Fails
  <2> QED BY <1>1, <1>2, <1>5, <1>6, <2>1
<1>8. CASE O!Succeeds(m)
  <2>1. o_job' = o_job \/ o_job' = [o_job EXCEPT ![m] = [o_job[m] EXCEPT !.st = "completed"]]
    BY <1>1, <1>8 DEF O!Succeeds
  <2> QED BY <1>1, <1>2, <1>5, <2>1
<1> QED BY <1>7, <1>8

\* So do the steps of the queue, the worker and the page.
LEMMA OJobSteps ==
    ASSUME OInv, NEW m \in HostModels, O!Install(m) \/ O!Works(m)
    PROVE  OInv'
<1>1. o_job \in [HostModels -> OJob] /\ o_work \in [HostModels -> OWork] /\ o_job[m] \in OJob /\ o_work[m] \in OWork
  BY OTypes DEF OInv, OJobsTyped
<1>2. OHostsTyped /\ OJobsTyped /\ OShownTyped BY OTypes DEF OInv
<1>3. Attempts \in 0 .. Attempts BY Bounds
<1>4. CASE O!Install(m)
  <2>1. o_used' \in OUsed BY <1>4, OUses DEF O!Install
  <2>2. [st |-> "waiting", left |-> Attempts] \in OJob BY <1>3, OIdle
  <2>3. o_job' \in [HostModels -> OJob] BY <1>1, <1>4, <2>2 DEF O!Install, O!Queued
  <2> QED BY <1>2, <1>4, <2>1, <2>3, OHostsStay DEF O!Install, O!hosts, O!shown, OHostsTyped, OJobsTyped, OShownTyped
<1>5. CASE O!Take(m)
  <2>1. o_used' \in OUsed BY <1>5, OUses DEF O!Take
  <2>2. [o_job[m] EXCEPT !.st = "active"] \in OJob BY <1>1 DEF OJob
  <2>3. O!BaseUrl \in O!Host \cup {"none"} BY <1>2 DEF O!BaseUrl, O!Heeded, O!Host, OHostsTyped
  <2>4. [at |-> "ready", host |-> O!BaseUrl, aborted |-> FALSE] \in OWork BY <2>3 DEF OWork
  <2>5. o_job' \in [HostModels -> OJob] BY <1>1, <1>5, <2>2 DEF O!Take
  <2>6. o_work' \in [HostModels -> OWork] BY <1>1, <1>5, <2>4 DEF O!Take
  <2> QED BY <1>2, <1>5, <2>1, <2>5, <2>6, OHostsStay DEF O!Take, O!hosts, O!shown, OHostsTyped, OJobsTyped, OShownTyped
<1>6. CASE O!Poll(m)
  <2>1. o_used' \in OUsed BY <1>6, OUses DEF O!Poll
  <2>2. [o_work[m] EXCEPT !.aborted = TRUE] \in OWork BY <1>1 DEF OWork
  <2>3. o_work' \in [HostModels -> OWork] BY <1>1, <1>6, <2>2 DEF O!Poll
  <2>4. o_key' \subseteq HostModels BY <1>2, <1>6 DEF O!Poll, OJobsTyped
  <2> QED BY <1>2, <1>6, <2>1, <2>3, <2>4, OHostsStay DEF O!Poll, O!hosts, O!shown, OHostsTyped, OJobsTyped, OShownTyped
<1>7. CASE O!Check(m)
  <2>1. o_used' \in OUsed BY <1>7, OUses DEF O!Check
  <2>2. [o_work[m] EXCEPT !.at = "pull"] \in OWork BY <1>1 DEF OWork
  <2>3. o_job' \in [HostModels -> OJob] /\ o_work' \in [HostModels -> OWork]
    <3>1. CASE O!Fails(m, TRUE) \/ O!Succeeds(m) BY <3>1, OJobsKept
    <3>2. CASE o_work' = [o_work EXCEPT ![m].at = "pull"] /\ UNCHANGED o_job BY <1>1, <2>2, <3>2
    <3> QED BY <1>7, <3>1, <3>2 DEF O!Check
  <2> QED BY <1>2, <1>7, <2>1, <2>3, OHostsStay DEF O!Check, O!hosts, O!shown, OHostsTyped, OJobsTyped, OShownTyped
<1>8. CASE O!Complete(m)
  <2>1. o_used' \in OUsed BY <1>8, OUses DEF O!Complete
  <2>2. o_job' \in [HostModels -> OJob] /\ o_work' \in [HostModels -> OWork] BY <1>8, OJobsKept DEF O!Complete
  <2>3. o_store' \in [O!Host -> SUBSET HostModels] BY <1>2, <1>8 DEF O!Complete, OHostsTyped
  <2>4. OShownTyped' BY <1>2, <1>8 DEF O!Complete, O!Shows, OShownTyped
  <2>5. OJobsTyped' BY <1>2, <1>8, <2>2 DEF O!Complete, OJobsTyped
  <2> QED BY <1>8, <2>1, <2>3, <2>4, <2>5, OHostsStay DEF O!Complete
<1>9. CASE O!Break(m)
  <2>1. o_used' \in OUsed BY <1>9, OUses DEF O!Break
  <2>2. o_job' \in [HostModels -> OJob] /\ o_work' \in [HostModels -> OWork] BY <1>9, OJobsKept DEF O!Break
  <2>3. OShownTyped' BY <1>2, <1>9 DEF O!Break, O!Shows, OShownTyped
  <2>4. OJobsTyped' BY <1>2, <1>9, <2>2 DEF O!Break, OJobsTyped
  <2> QED BY <1>2, <1>9, <2>1, <2>3, <2>4, OHostsStay DEF O!Break, O!hosts, OHostsTyped
<1>10. CASE O!Abort(m)
  <2>1. o_used' \in OUsed BY <1>10, OUses DEF O!Abort
  <2>2. o_job' \in [HostModels -> OJob] /\ o_work' \in [HostModels -> OWork] BY <1>10, OJobsKept DEF O!Abort
  <2> QED BY <1>2, <1>10, <2>1, <2>2, OHostsStay DEF O!Abort, O!hosts, O!shown, OHostsTyped, OJobsTyped, OShownTyped
<1>11. CASE O!Ready(m)
  <2>1. o_used' \in OUsed BY <1>11, OUses DEF O!Ready
  <2>2. [o_work[m] EXCEPT !.at = "check"] \in OWork BY <1>1 DEF OWork
  <2>3. o_job' \in [HostModels -> OJob] /\ o_work' \in [HostModels -> OWork]
    <3>1. CASE O!Fails(m, TRUE) BY <3>1, OJobsKept
    <3>2. CASE o_work' = [o_work EXCEPT ![m].at = "check"] /\ UNCHANGED o_job BY <1>1, <2>2, <3>2
    <3> QED BY <1>11, <3>1, <3>2 DEF O!Ready
  <2> QED BY <1>2, <1>11, <2>1, <2>3, OHostsStay DEF O!Ready, O!hosts, O!shown, OHostsTyped, OJobsTyped, OShownTyped
<1> QED BY <1>4, <1>5, <1>6, <1>7, <1>8, <1>9, <1>10, <1>11 DEF O!Works

LEMMA OPageSteps ==
    ASSUME OInv, NEW m \in HostModels,
           O!Progress(m) \/ O!Cancel(m) \/ O!RemoveJob(m) \/ O!KeyExpires(m) \/ O!TimeOut(m) \/ O!Delete(m)
    PROVE  OInv'
<1>1. o_used' \in OUsed BY OUses DEF O!Progress, O!Cancel, O!RemoveJob, O!KeyExpires, O!TimeOut, O!Delete
<1>2. OHostsTyped /\ OJobsTyped /\ OShownTyped BY OTypes DEF OInv
<1>3. CASE O!Progress(m)
  <2>1. OShownTyped' BY <1>2, <1>3 DEF O!Progress, O!Shows, OShownTyped
  <2> QED BY <1>1, <1>2, <1>3, <2>1, OHostsStay DEF O!Progress, O!hosts, O!jobs, OHostsTyped, OJobsTyped
<1>4. CASE O!Cancel(m)
  <2>1. OShownTyped' BY <1>2, <1>4 DEF O!Cancel, OShownTyped
  <2>2. OJobsTyped' BY <1>2, <1>4 DEF O!Cancel, OJobsTyped
  <2> QED BY <1>1, <1>2, <1>4, <2>1, <2>2, OHostsStay DEF O!Cancel, O!hosts, OHostsTyped
<1>5. CASE O!RemoveJob(m)
  <2>1. OShownTyped' BY <1>2, <1>5 DEF O!RemoveJob, OShownTyped
  <2>2. OJobsTyped' BY <1>2, <1>5, OIdle DEF O!RemoveJob, OJobsTyped
  <2> QED BY <1>1, <1>2, <1>5, <2>1, <2>2, OHostsStay DEF O!RemoveJob, O!hosts, OHostsTyped
<1>6. CASE O!KeyExpires(m)
  BY <1>1, <1>2, <1>6, OHostsStay DEF O!KeyExpires, O!hosts, O!shown, OHostsTyped, OJobsTyped, OShownTyped
<1>7. CASE O!TimeOut(m)
  <2>1. OShownTyped' BY <1>2, <1>7 DEF O!TimeOut, OShownTyped
  <2> QED BY <1>1, <1>2, <1>7, <2>1, OHostsStay DEF O!TimeOut, O!hosts, O!jobs, OHostsTyped, OJobsTyped
<1>8. CASE O!Delete(m)
  <2>1. o_store' \in [O!Host -> SUBSET HostModels]
    BY <1>2, <1>8 DEF O!Delete, O!Host, OHostsTyped
  <2>2. O!BaseUrl = "none" \/ O!BaseUrl \in O!Host BY <1>2 DEF O!BaseUrl, O!Heeded, O!Host, OHostsTyped
  <2>3. o_seen' \subseteq HostModels BY <1>8, <2>1, <2>2 DEF O!Delete
  <2> QED BY <1>1, <1>2, <1>8, <2>1, <2>3, OHostsStay DEF O!Delete, O!jobs, OJobsTyped, OShownTyped
<1> QED BY <1>3, <1>4, <1>5, <1>6, <1>7, <1>8

LEMMA OWorkerDies ==
    ASSUME OInv, O!WorkerDies
    PROVE  OInv'
<1>1. o_used' \in OUsed BY OUses DEF O!WorkerDies
<1>2. OHostsTyped /\ OJobsTyped /\ OShownTyped BY OTypes DEF OInv
<1>3. o_work' \in [HostModels -> OWork] BY OIdle DEF O!WorkerDies
<1>4. \A m \in HostModels : o_job[m] \in OJob /\ [o_job[m] EXCEPT !.st = "waiting"] \in OJob
  BY <1>2 DEF OJobsTyped, OJob
<1>5. o_job' \in [HostModels -> OJob] BY <1>4 DEF O!WorkerDies
<1> QED BY <1>1, <1>2, <1>3, <1>5, OHostsStay DEF O!WorkerDies, O!hosts, O!shown, OHostsTyped, OJobsTyped, OShownTyped

LEMMA OReloads ==
    ASSUME OInv, O!Reload
    PROVE  OInv'
<1>1. o_used' \in OUsed BY OUses DEF O!Reload
<1>2. OHostsTyped /\ OJobsTyped /\ OShownTyped BY OTypes DEF OInv
<1>3. O!BaseUrl = "none" \/ O!BaseUrl \in O!Host BY <1>2 DEF O!BaseUrl, O!Heeded, O!Host, OHostsTyped
<1>4. o_seen' \subseteq HostModels BY <1>2, <1>3 DEF O!Reload, O!GetModels, OHostsTyped
<1>5. o_row' \in [HostModels -> {"none", "progress", "full", "error"}] /\ o_timer' = {} BY DEF O!Reload
<1> QED BY <1>1, <1>2, <1>4, <1>5, OHostsStay DEF O!Reload, O!hosts, O!jobs, OHostsTyped, OJobsTyped, OShownTyped

LEMMA OStep ==
    ASSUME OInv, O!Next \/ UNCHANGED models
    PROVE  OInv'
<1>1. CASE O!Next
  BY <1>1, OConfigures, OTests, OStoresUrl, OStartsLocal, OSavesRow, OStopsLocal, OServerDies, OJobSteps,
     OPageSteps, OWorkerDies, OReloads DEF O!Next
<1>2. CASE UNCHANGED models
  <2>1. OHostsTyped /\ OJobsTyped /\ OShownTyped /\ o_used \in OUsed BY OTypes DEF OInv
  <2>2. /\ UNCHANGED <<o_env, o_store, o_local, o_remote, o_installed, o_conf, o_job, o_work>>
        /\ UNCHANGED <<o_key, o_cancel, o_row, o_timer, o_seen, o_used, o_excused>>
    BY <1>2 DEF models
  <2>3. OHostsTyped' /\ OJobsTyped' /\ OShownTyped' /\ o_used' \in OUsed
    BY <2>1, <2>2 DEF OHostsTyped, OJobsTyped, OShownTyped
  <2>4. OAlone' BY <2>2 DEF OInv, OAlone, OStage, OReach
  <2> QED BY <2>3, <2>4, OTypesNext DEF OInv
<1> QED BY <1>1, <1>2

\* An installed assistant has a host that is named, or a container.
LEMMA OPromises == OInv => O!TypeOK /\ O!InstalledIsReachable
BY DEF OInv, OAlone, OReach, O!InstalledIsReachable, O!Configuring

\* A cancelled download is not tried again, whatever step is taken.
LEMMA OCancels ==
    ASSUME OInv, O!Next \/ UNCHANGED models
    PROVE  \A m \in HostModels : o_work[m].aborted /\ o_job[m].st = "active" =>
              o_job'[m].st # "waiting" \/ O!WorkerDies
<1> SUFFICES ASSUME NEW m \in HostModels, o_work[m].aborted, o_job[m].st = "active", ~O!WorkerDies
             PROVE  o_job'[m].st # "waiting"
  OBVIOUS
<1>1. o_job \in [HostModels -> OJob] /\ o_job[m] \in OJob BY OTypes DEF OInv, OJobsTyped
<1>2. ASSUME NEW n \in HostModels, O!Fails(n, TRUE) \/ O!Fails(n, FALSE) \/ O!Succeeds(n)
      PROVE  o_job'[m].st # "waiting"
  <2>1. n # m => o_job'[m] = o_job[m] BY <1>1, <1>2 DEF O!Fails, O!Succeeds
  <2>2. CASE n = m
    <3>1. o_job' = [o_job EXCEPT ![m].st = "failed"] \/ o_job' = [o_job EXCEPT ![m].st = "completed"]
      BY <1>2, <2>2 DEF O!Fails, O!Succeeds
    <3> QED BY <1>1, <3>1 DEF OJob
  <2> QED BY <2>1, <2>2
<1>3. ASSUME NEW n \in HostModels, O!Install(n) \/ O!Take(n) \/ O!RemoveJob(n)
      PROVE  o_job'[m].st # "waiting"
  <2>1. CASE O!Install(n) BY <1>1, <2>1 DEF O!Install, O!Queued
  <2>2. CASE O!Take(n) BY <1>1, <2>2 DEF O!Take
  <2>3. CASE O!RemoveJob(n) BY <1>1, <2>3 DEF O!RemoveJob, O!NoJob
  <2> QED BY <1>3, <2>1, <2>2, <2>3
<1>4. \/ UNCHANGED o_job
      \/ \E n \in HostModels : O!Fails(n, TRUE) \/ O!Fails(n, FALSE) \/ O!Succeeds(n)
      \/ \E n \in HostModels : O!Install(n) \/ O!Take(n) \/ O!RemoveJob(n)
  <2>1. CASE \E n \in HostModels : O!Works(n)
    BY <2>1 DEF O!Works, O!Ready, O!Poll, O!Check, O!Complete, O!Break, O!Abort
  <2>2. CASE \E n \in HostModels : O!Progress(n) \/ O!Cancel(n) \/ O!KeyExpires(n) \/ O!TimeOut(n) \/ O!Delete(n)
    BY <2>2 DEF O!Progress, O!Cancel, O!KeyExpires, O!TimeOut, O!Delete, O!jobs
  <2>3. CASE \E a \in Admins : \/ \E url \in {"none", "ollama", "other"} : O!Configure(a, url)
                               \/ O!Test(a) \/ O!StoreUrl(a) \/ O!StartLocal(a) \/ O!SaveRow(a) \/ O!StopLocal(a)
    BY <2>3 DEF O!Configure, O!Test, O!StoreUrl, O!StartLocal, O!SaveRow, O!StopLocal, O!jobs
  <2>4. CASE O!ServerDies \/ O!Reload \/ UNCHANGED models
    BY <2>4 DEF O!ServerDies, O!Reload, O!jobs, models
  <2>5. CASE \E n \in HostModels : O!Install(n) \/ O!RemoveJob(n) BY <2>5
  <2> QED BY <2>1, <2>2, <2>3, <2>4, <2>5 DEF O!Next
<1> QED BY <1>1, <1>2, <1>3, <1>4
----------------------------------------------------------------------------
(* The chat *)

\* The kinds of messages, where a request can be, and the records.
CKind == {"user", "assistant", "error"}
CStage == {"none", "create", "ask", "save", "model", "stream", "close", "title", "over"}
CReq == [at: CStage, sid: 0 .. ChatSessions, ctx: SUBSET C!Sends, model: ChatModels]
CPage == [active: 0 .. ChatSessions, shown: Seq(C!Message), waits: BOOLEAN, blank: BOOLEAN,
          model: ChatModels, pending: SUBSET ChatModels]
CUsed == [moves: 0 .. ChatMoves, faults: 0 .. MaxFaults]

\* What is said in a list of messages.
CIn(ms) == {ms[i] : i \in DOMAIN ms}

\* What the proof looks at: of each request where it is, its session and its context,
CAt == [r \in C!Sends |-> c_req[r].at]
CSid == [r \in C!Sends |-> c_req[r].sid]
CCtx == [r \in C!Sends |-> c_req[r].ctx]
CUnder == {r \in C!Sends : CAt[r] \notin {"none", "title", "over"}}

\* the session of the page, what it shows, whether its messages did not come, and what is stored of each.
CActive == c_page.active
CShown == CIn(c_page.shown)
CBlank == c_page.blank
CStored == [s \in C!Sessions |-> CIn(c_stored[s])]

\* Sessions are made by requests, and what goes on has one.
CRows ==
    /\ \A r \in C!Sends : CAt[r] \in {"none", "create"} => CSid[r] = 0
    /\ \A r \in C!Sends : CAt[r] \notin {"none", "create", "over"} => CSid[r] # 0
    /\ \A r \in C!Sends : CSid[r] # 0 => c_session[CSid[r]] # "none"
    /\ \A s \in C!Sessions : c_session[s] # "none" => \E r \in C!Sends : CSid[r] = s
    /\ \A s \in C!Sessions : c_session[s] = "none" => CStored[s] = {}
    /\ CActive # 0 => c_session[CActive] # "none"
    /\ \A l \in c_loads : c_session[l[1]] # "none"

\* What is said is of a request that has a session, in its session, and errors are of those that failed.
CShownSaid ==
    \A k \in CKind, r \in C!Sends : <<k, r>> \in CShown =>
        CAt[r] \notin {"none", "create"} /\ (k = "error" => r \in c_failed)
CStoredSaid ==
    \A s \in C!Sessions, k \in CKind, r \in C!Sends : <<k, r>> \in CStored[s] =>
        CAt[r] \notin {"none", "create"} /\ CSid[r] = s /\ k # "error"
CSentSaid == \A r \in C!Sends : \A q \in CCtx[r] : CAt[q] \notin {"none", "create"}
CAskedStored ==
    \A r \in C!Sends : CAt[r] \in {"model", "stream", "close"} /\ c_session[CSid[r]] = "there" =>
        <<"user", r>> \in CStored[CSid[r]]
CSaid == CShownSaid /\ CStoredSaid /\ CSentSaid /\ CAskedStored

\* While nothing is mixed, what goes on is of the session that is shown, or makes the only one,
CCalm ==
    /\ \A r \in C!Sends : CAt[r] = "create" =>
          CActive = 0 /\ c_loads = {} /\ CCtx[r] = {} /\ \A q \in CUnder : q = r
    /\ \A r \in CUnder : CAt[r] # "create" => CSid[r] = CActive /\ c_loads = {}
    /\ \A l \in c_loads : l[1] = CActive /\ c_loads = {l}
    /\ CActive = 0 => CShown = {}

\* what is shown is stored or about to be, and the other way round unless its messages did not come,
CHas(k, q) ==
    \/ <<k, q>> \in CStored[CActive]
    \/ k = "user" /\ CAt[q] \in {"ask", "save"}
    \/ k = "assistant" /\ CAt[q] \in {"stream", "close"}
CFits ==
    CActive # 0 /\ c_loads = {} => \A k \in {"user", "assistant"}, q \in C!Sends \ c_failed :
        /\ <<k, q>> \in CShown => CHas(k, q)
        /\ ~CBlank /\ CHas(k, q) => <<k, q>> \in CShown

\* and so is what is sent with a question.
COwn ==
    /\ c_loads = {} => \A k \in CKind, r \in C!Sends : <<k, r>> \in CShown => CSid[r] = CActive
    /\ \A r \in C!Sends : CAt[r] \notin {"none", "create"} => \A q \in CCtx[r] : CSid[q] = CSid[r]

CInv ==
    /\ C!TypeOK /\ c_stored \in [C!Sessions -> Seq(C!Message)]
    /\ CRows /\ CSaid /\ C!AnswersFollowQuestions
    /\ ~c_mixed => CCalm /\ CFits /\ COwn

\* The types, part by part,
CTables ==
    /\ c_session \in [C!Sessions -> {"none", "there", "gone"}] /\ c_titled \subseteq C!Sessions
    /\ c_stored \in [C!Sessions -> Seq(C!Message)]
CMemory == c_loaded \subseteq ChatModels /\ c_leaving \subseteq c_loaded /\ c_hints \subseteq ChatModels
CHistory == c_failed \subseteq C!Sends /\ c_mixed \in BOOLEAN /\ c_used \in CUsed
CTypes ==
    /\ CTables /\ CMemory /\ CHistory
    /\ c_req \in [C!Sends -> CReq] /\ c_page \in CPage /\ c_loads \subseteq C!Sessions \X ChatModels

LEMMA CTypeOK == C!TypeOK /\ c_stored \in [C!Sessions -> Seq(C!Message)] <=> CTypes
BY DEF C!TypeOK, CTypes, CTables, CMemory, CHistory, CReq, CPage, CUsed, CStage

\* and after a step.
LEMMA CTypeOKNext == C!TypeOK' /\ c_stored' \in [C!Sessions -> Seq(C!Message)] <=> CTypes'
BY DEF C!TypeOK, CTypes, CTables, CMemory, CHistory, CReq, CPage, CUsed, CStage

\* Lists of messages.
LEMMA CInEmpty == CIn(<<>>) = {}
BY EmptySeq DEF CIn

LEMMA CInType ==
    ASSUME NEW M, NEW s \in Seq(M)
    PROVE  CIn(s) \subseteq M
BY ElementOfSeq, LenProperties DEF CIn

LEMMA CInAppend ==
    ASSUME NEW M, NEW s \in Seq(M), NEW m \in M
    PROVE  Append(s, m) \in Seq(M) /\ CIn(Append(s, m)) = CIn(s) \cup {m}
<1>1. /\ Append(s, m) \in Seq(M) /\ Len(Append(s, m)) = Len(s) + 1
      /\ \A i \in 1 .. Len(s) : Append(s, m)[i] = s[i]
      /\ Append(s, m)[Len(s) + 1] = m
  BY AppendProperties
<1>2. DOMAIN s = 1 .. Len(s) /\ Len(s) \in Nat /\ DOMAIN Append(s, m) = 1 .. Len(Append(s, m)) BY <1>1, LenProperties
<1>3. 1 .. (Len(s) + 1) = 1 .. Len(s) \cup {Len(s) + 1} BY <1>2
<1>4. ASSUME NEW x \in CIn(Append(s, m)) PROVE x \in CIn(s) \cup {m}
  <2>1. PICK i \in 1 .. (Len(s) + 1) : x = Append(s, m)[i] BY <1>1, <1>2, <1>4 DEF CIn
  <2> QED BY <1>1, <1>2, <1>3, <2>1 DEF CIn
<1>5. ASSUME NEW x \in CIn(s) \cup {m} PROVE x \in CIn(Append(s, m))
  <2>1. CASE x \in CIn(s)
    <3>1. PICK i \in 1 .. Len(s) : x = s[i] BY <1>2, <2>1 DEF CIn
    <3>2. i \in 1 .. (Len(s) + 1) /\ x = Append(s, m)[i] BY <1>1, <1>3, <3>1
    <3> QED BY <1>1, <1>2, <3>2 DEF CIn
  <2>2. CASE x = m
    <3>1. Len(s) + 1 \in 1 .. (Len(s) + 1) BY <1>2
    <3> QED BY <1>1, <1>2, <2>2, <3>1 DEF CIn
  <2> QED BY <2>1, <2>2
<1> QED BY <1>1, <1>4, <1>5

LEMMA CInConcat ==
    ASSUME NEW M, NEW s \in Seq(M), NEW t \in Seq(M)
    PROVE  s \o t \in Seq(M) /\ CIn(s \o t) = CIn(s) \cup CIn(t)
<1>1. /\ s \o t \in Seq(M) /\ Len(s \o t) = Len(s) + Len(t)
      /\ \A i \in 1 .. Len(s) : (s \o t)[i] = s[i]
      /\ \A i \in 1 .. Len(t) : (s \o t)[Len(s) + i] = t[i]
  BY ConcatProperties
<1>2. /\ DOMAIN s = 1 .. Len(s) /\ Len(s) \in Nat /\ DOMAIN t = 1 .. Len(t) /\ Len(t) \in Nat
      /\ DOMAIN (s \o t) = 1 .. Len(s \o t)
  BY <1>1, LenProperties
<1>3. \A i \in 1 .. (Len(s) + Len(t)) : i \in 1 .. Len(s) \/ (i - Len(s) \in 1 .. Len(t) /\ Len(s) + (i - Len(s)) = i)
  BY <1>2
<1>4. ASSUME NEW x \in CIn(s \o t) PROVE x \in CIn(s) \cup CIn(t)
  <2>1. PICK i \in 1 .. (Len(s) + Len(t)) : x = (s \o t)[i] BY <1>1, <1>2, <1>4 DEF CIn
  <2>2. CASE i \in 1 .. Len(s) BY <1>1, <1>2, <2>1, <2>2 DEF CIn
  <2>3. CASE i - Len(s) \in 1 .. Len(t) /\ Len(s) + (i - Len(s)) = i
    <3>1. x = t[i - Len(s)] BY <1>1, <2>1, <2>3
    <3> QED BY <1>2, <2>3, <3>1 DEF CIn
  <2> QED BY <1>3, <2>1, <2>2, <2>3
<1>5. ASSUME NEW x \in CIn(s) \cup CIn(t) PROVE x \in CIn(s \o t)
  <2>1. CASE x \in CIn(s)
    <3>1. PICK i \in 1 .. Len(s) : x = s[i] BY <1>2, <2>1 DEF CIn
    <3>2. i \in 1 .. (Len(s) + Len(t)) BY <1>2, <3>1
    <3> QED BY <1>1, <1>2, <3>1, <3>2 DEF CIn
  <2>2. CASE x \in CIn(t)
    <3>1. PICK i \in 1 .. Len(t) : x = t[i] BY <1>2, <2>2 DEF CIn
    <3>2. Len(s) + i \in 1 .. (Len(s) + Len(t)) BY <1>2, <3>1
    <3> QED BY <1>1, <1>2, <3>1, <3>2 DEF CIn
  <2> QED BY <2>1, <2>2
<1> QED BY <1>1, <1>4, <1>5

\* A finite set can be listed.
LEMMA CListed ==
    ASSUME NEW X, IsFiniteSet(X)
    PROVE  C!SetToSeq(X) \in Seq(X)
<1>1. Cardinality(X) \in Nat /\ ExistsBijection(1 .. Cardinality(X), X) BY FS_CardinalityType
<1>2. \E f \in [1 .. Cardinality(X) -> X] : \A a, b \in DOMAIN f : f[a] = f[b] => a = b
  BY <1>1, Zenon DEF ExistsBijection, Bijection, Injection, IsInjective
<1>4. C!Cardinality(X) = Cardinality(X) BY DEF Cardinality, C!Cardinality
<1>3. C!SetToSeq(X) \in [1 .. Cardinality(X) -> X]
  <2>1. \E f \in [1 .. C!Cardinality(X) -> X] : C!IsInjective(f) BY <1>2, <1>4, Zenon DEF C!IsInjective
  <2>2. C!SetToSeq(X) \in [1 .. C!Cardinality(X) -> X] BY <2>1, Zenon DEF C!SetToSeq
  <2> QED BY <1>4, <2>2
<1> HIDE DEF C!SetToSeq
<1> QED BY <1>1, <1>3, SeqDef
----------------------------------------------------------------------------
\* What the proof looks at, and what it says of it.
CViewed ==
    /\ CAt \in [C!Sends -> CStage] /\ CSid \in [C!Sends -> 0 .. ChatSessions]
    /\ CCtx \in [C!Sends -> SUBSET C!Sends] /\ CActive \in 0 .. ChatSessions
    /\ CShown \subseteq CKind \X C!Sends /\ CStored \in [C!Sessions -> SUBSET (CKind \X C!Sends)]
    /\ c_session \in [C!Sessions -> {"none", "there", "gone"}]
    /\ c_loads \subseteq C!Sessions \X ChatModels
    /\ c_failed \subseteq C!Sends /\ c_mixed \in BOOLEAN
CParts == CRows /\ CSaid /\ (~c_mixed => CCalm /\ CFits /\ COwn)

LEMMA CViews == CTypes => CViewed
<1> SUFFICES ASSUME CTypes PROVE CViewed OBVIOUS
<1>1. \A r \in C!Sends : c_req[r].at \in CStage /\ c_req[r].sid \in 0 .. ChatSessions /\ c_req[r].ctx \in SUBSET C!Sends
  BY DEF CTypes, CReq
<1>2. CAt \in [C!Sends -> CStage] /\ CSid \in [C!Sends -> 0 .. ChatSessions] /\ CCtx \in [C!Sends -> SUBSET C!Sends]
  BY <1>1 DEF CAt, CSid, CCtx
<1>3. C!Message = CKind \X C!Sends BY DEF C!Message, CKind
<1>4. c_page.shown \in Seq(C!Message) /\ c_page.active \in 0 .. ChatSessions BY DEF CTypes, CPage
<1>5. CShown \subseteq CKind \X C!Sends BY <1>3, <1>4, CInType DEF CShown
<1>6. \A s \in C!Sessions : CIn(c_stored[s]) \subseteq CKind \X C!Sends BY <1>3, CInType DEF CTypes, CTables
<1>7. CStored \in [C!Sessions -> SUBSET (CKind \X C!Sends)] BY <1>6 DEF CStored
<1> QED BY <1>2, <1>4, <1>5, <1>7 DEF CViewed, CTypes, CTables, CHistory, CActive

LEMMA CNumbers ==
    /\ \A s \in C!Sessions : s # 0 /\ s \in 0 .. ChatSessions
    /\ \A s \in 0 .. ChatSessions : s # 0 => s \in C!Sessions
BY Bounds DEF C!Sessions

\* A step that changes nothing of it,
LEMMA CStill ==
    ASSUME CParts, UNCHANGED <<CAt, CSid, CCtx, CActive, CShown, CBlank, CStored>>,
           UNCHANGED <<c_session, c_loads, c_failed, c_mixed>>
    PROVE  CParts'
BY DEF CParts, CRows, CSaid, CShownSaid, CStoredSaid, CSentSaid, CAskedStored, CCalm, CFits, COwn, CUnder, CHas

\* a request that goes on without more,
LEMMA CGoesOn ==
    ASSUME CViewed, CParts, NEW r \in C!Sends,
           UNCHANGED <<CSid, CCtx, CActive, CShown, CBlank, CStored>>,
           UNCHANGED <<c_session, c_loads, c_failed, c_mixed>>,
           \/ CAt[r] = "ask" /\ CAt' = [CAt EXCEPT ![r] = "save"]
           \/ CAt[r] = "stream" /\ CAt' = [CAt EXCEPT ![r] = "close"]
    PROVE  CParts'
<1>1. /\ CAt'[r] \in {"save", "close"} /\ (CAt'[r] = "close" => CAt[r] = "stream")
      /\ \A q \in C!Sends : q # r => CAt'[q] = CAt[q] BY DEF CViewed
<1>2. CUnder' = CUnder BY <1>1 DEF CUnder
<1>3. CRows' BY <1>1 DEF CParts, CRows
<1>4. CSaid'
  <2>1. \A q \in C!Sends : CAt'[q] \in {"none", "create"} => CAt[q] \in {"none", "create"} BY <1>1
  <2>2. \A q \in C!Sends : CAt'[q] \in {"model", "stream", "close"} => CAt[q] \in {"model", "stream", "close"} BY <1>1
  <2>4. CShownSaid' BY <2>1 DEF CParts, CSaid, CShownSaid
  <2>5. CStoredSaid' BY <2>1 DEF CParts, CSaid, CStoredSaid
  <2>6. CSentSaid' BY <2>1 DEF CParts, CSaid, CSentSaid, CViewed
  <2>7. CAskedStored' BY <2>2 DEF CParts, CSaid, CAskedStored
  <2> QED BY <2>4, <2>5, <2>6, <2>7 DEF CSaid
<1>5. CCalm => CCalm' BY <1>1, <1>2 DEF CCalm, CUnder
<1>6. CFits => CFits'
  <2>1. \A q \in C!Sends : /\ CAt'[q] \in {"ask", "save"} <=> CAt[q] \in {"ask", "save"}
                           /\ CAt'[q] \in {"stream", "close"} <=> CAt[q] \in {"stream", "close"}
    <3>1. \A q \in C!Sends : q = r \/ CAt'[q] = CAt[q] BY <1>1
    <3>2. CASE CAt[r] = "ask" /\ CAt' = [CAt EXCEPT ![r] = "save"]
      <4>1. CAt'[r] = "save" BY <3>2 DEF CViewed
      <4> QED BY <3>1, <3>2, <4>1
    <3>3. CASE CAt[r] = "stream" /\ CAt' = [CAt EXCEPT ![r] = "close"]
      <4>1. CAt'[r] = "close" BY <3>3 DEF CViewed
      <4> QED BY <3>1, <3>3, <4>1
    <3> QED BY <3>2, <3>3
  <2> QED BY <2>1 DEF CFits, CHas
<1>7. COwn => COwn' BY <1>1 DEF COwn
<1> QED BY <1>3, <1>4, <1>5, <1>6, <1>7 DEF CParts

\* and requests that end, with an error or a title.
LEMMA CEnds ==
    ASSUME CViewed, CParts, NEW F \in SUBSET C!Sends,
           \A q \in F : CAt[q] \notin {"none", "over"},
           CAt' = [q \in C!Sends |-> IF q \in F THEN "over" ELSE CAt[q]],
           c_failed' = c_failed \cup (F \cap CUnder), CShown \subseteq CShown',
           CShown' \subseteq CShown \cup {<<"error", q>> : q \in {p \in F : CAt[p] \notin {"create", "title"}}},
           UNCHANGED <<CSid, CCtx, CActive, CBlank, CStored>>,
           UNCHANGED <<c_session, c_loads, c_mixed>>
    PROVE  CParts'
<1>1. \A q \in C!Sends : CAt'[q] = IF q \in F THEN "over" ELSE CAt[q] OBVIOUS
<1>2. \A q \in C!Sends : q \in CUnder' <=> q \in CUnder /\ q \notin F BY <1>1 DEF CUnder
<1>3. \A k \in CKind, q \in C!Sends : <<k, q>> \in CShown' =>
         <<k, q>> \in CShown \/ (k = "error" /\ q \in F /\ CAt[q] \notin {"create", "title"})
  OBVIOUS
<1>4. CRows' BY <1>1 DEF CParts, CRows
<1>5. CSaid' 
  <2>1. \A k \in CKind, q \in C!Sends : <<k, q>> \in CShown' =>
           CAt'[q] \notin {"none", "create"} /\ (k = "error" => q \in c_failed')
    <3> SUFFICES ASSUME NEW k \in CKind, NEW q \in C!Sends, <<k, q>> \in CShown'
                 PROVE  CAt'[q] \notin {"none", "create"} /\ (k = "error" => q \in c_failed')
      OBVIOUS
    <3>1. CASE <<k, q>> \in CShown BY <1>1, <3>1 DEF CParts, CSaid, CShownSaid
    <3>2. CASE k = "error" /\ q \in F /\ CAt[q] \notin {"create", "title"}
      BY <1>1, <3>2 DEF CUnder
    <3> QED BY <1>3, <3>1, <3>2
  <2>2. \A q \in C!Sends : CAt'[q] \in {"none", "create"} => CAt[q] \in {"none", "create"} BY <1>1
  <2>3. \A q \in C!Sends : CAt'[q] \in {"model", "stream", "close"} => CAt[q] \in {"model", "stream", "close"} BY <1>1
  <2>4. CShownSaid' BY <2>1 DEF CShownSaid
  <2>5. CStoredSaid' BY <2>2 DEF CParts, CSaid, CStoredSaid
  <2>6. CSentSaid' BY <2>2 DEF CParts, CSaid, CSentSaid, CViewed
  <2>7. CAskedStored' BY <2>3 DEF CParts, CSaid, CAskedStored
  <2> QED BY <2>4, <2>5, <2>6, <2>7 DEF CSaid
<1>6. CCalm => CCalm' 
  <2> SUFFICES ASSUME CCalm PROVE CCalm' OBVIOUS
  <2>1. CActive = 0 => \A q \in F : CAt[q] \in {"create", "title"}
    BY DEF CCalm, CUnder, CParts, CRows
  <2>2. CActive = 0 => CShown' = {} BY <2>1 DEF CCalm
  <2>3. \A q \in C!Sends : CAt'[q] = "create" => CAt[q] = "create" BY <1>1
  <2>4. \A q \in CUnder' : q \in C!Sends /\ q \in CUnder /\ CAt'[q] = CAt[q] BY <1>1, <1>2 DEF CUnder
  <2> QED BY <2>2, <2>3, <2>4 DEF CCalm
<1>7. CFits => CFits'
  <2> SUFFICES ASSUME CFits, CActive # 0, c_loads = {}, NEW k \in {"user", "assistant"}, NEW q \in C!Sends \ c_failed'
               PROVE  /\ <<k, q>> \in CShown' => CHas(k, q)'
                      /\ ~CBlank /\ CHas(k, q)' => <<k, q>> \in CShown'
    BY DEF CFits
  <2>1. q \in C!Sends \ c_failed /\ (q \in F => CAt[q] = "title") BY DEF CUnder
  <2>2. CAt[q] \notin {"ask", "save", "stream", "close"} \/ CAt'[q] = CAt[q] BY <1>1, <2>1
  <2>3. CAt'[q] \in {"ask", "save", "stream", "close"} => CAt'[q] = CAt[q] BY <1>1
  <2>4. k \in CKind BY DEF CKind
  <2>5. <<k, q>> \in CShown' <=> <<k, q>> \in CShown BY <1>3, <2>1, <2>4
  <2>6. CHas(k, q)' <=> CHas(k, q) BY <2>2, <2>3 DEF CHas
  <2> QED BY <2>1, <2>5, <2>6 DEF CFits
<1>8. CCalm /\ COwn => COwn'
  <2> SUFFICES ASSUME CCalm, COwn PROVE COwn' OBVIOUS
  <2>1. \A q \in F : CAt[q] \notin {"create", "title"} => CSid[q] = CActive BY DEF CCalm, CUnder
  <2>2. \A q \in C!Sends : CAt'[q] \notin {"none", "create"} => CAt[q] \notin {"none", "create"} \/ CCtx[q] = {}
    BY <1>1 DEF CCalm
  <2>3. c_loads = {} => \A k \in CKind, q \in C!Sends : <<k, q>> \in CShown' => CSid[q] = CActive
    BY <1>3, <2>1 DEF COwn
  <2> QED BY <2>2, <2>3 DEF COwn
<1> QED BY <1>4, <1>5, <1>6, <1>7, <1>8 DEF CParts

\* A message is stored: a question by a request that goes on, or an answer by one that ends.
LEMMA CStores ==
    ASSUME CViewed, CParts, NEW r \in C!Sends, NEW k \in {"user", "assistant"}, NEW at \in CStage,
           \/ k = "user" /\ CAt[r] = "save" /\ at = "model"
           \/ k = "assistant" /\ CAt[r] = "close" /\ at \in {"title", "over"},
           CAt' = [CAt EXCEPT ![r] = at], c_session[CSid[r]] = "there",
           CStored' = [CStored EXCEPT ![CSid[r]] = @ \cup {<<k, r>>}],
           UNCHANGED <<CSid, CCtx, CActive, CShown, CBlank>>,
           UNCHANGED <<c_session, c_loads, c_failed, c_mixed>>
    PROVE  CParts'
<1>1. CAt'[r] = at /\ \A q \in C!Sends : q # r => CAt'[q] = CAt[q] BY DEF CViewed
<1>2. CSid[r] \in C!Sessions /\ CSid[r] # 0 BY CNumbers DEF CParts, CRows, CViewed
<1>3. /\ CStored'[CSid[r]] = CStored[CSid[r]] \cup {<<k, r>>}
      /\ \A s \in C!Sessions : s # CSid[r] => CStored'[s] = CStored[s]
  BY <1>2 DEF CViewed
<1>4. \A s \in C!Sessions, j \in CKind, q \in C!Sends :
         <<j, q>> \in CStored'[s] <=> <<j, q>> \in CStored[s] \/ (j = k /\ q = r /\ s = CSid[r])
  BY <1>3
<1>5. k \in CKind BY DEF CKind
<1>6. \A q \in C!Sends : CAt'[q] \in {"none", "create"} => CAt[q] \in {"none", "create"} BY <1>1
<1>7. CRows'
  <2>1. \A s \in C!Sessions : c_session[s] = "none" => CStored'[s] = {} BY <1>3 DEF CParts, CRows
  <2> QED BY <1>1, <2>1 DEF CParts, CRows
<1>8. CSaid'
  <2>1. CShownSaid' BY <1>6 DEF CParts, CSaid, CShownSaid
  <2>2. CStoredSaid' BY <1>1, <1>4, <1>6 DEF CParts, CSaid, CStoredSaid
  <2>3. CSentSaid' BY <1>6 DEF CParts, CSaid, CSentSaid, CViewed
  <2>4. CAskedStored'
    <3> SUFFICES ASSUME NEW q \in C!Sends, CAt'[q] \in {"model", "stream", "close"}, c_session[CSid[q]] = "there"
                 PROVE  <<"user", q>> \in CStored'[CSid[q]]
      BY DEF CAskedStored
    <3>1. CASE q = r BY <1>1, <1>3, <3>1
    <3>2. CASE q # r
      <4>1. <<"user", q>> \in CStored[CSid[q]] BY <1>1, <3>2 DEF CParts, CSaid, CAskedStored
      <4>2. CAt[q] = CAt'[q] BY <1>1, <3>2
      <4>3. CSid[q] \in C!Sessions BY <4>2, CNumbers DEF CParts, CRows, CViewed
      <4> QED BY <1>3, <4>1, <4>3
    <3> QED BY <3>1, <3>2
  <2> QED BY <2>1, <2>2, <2>3, <2>4 DEF CSaid
<1>9. CCalm => CCalm'
  <2>1. \A q \in C!Sends : CAt'[q] = "create" => CAt[q] = "create" BY <1>1
  <2>2. \A q \in CUnder' : q \in C!Sends /\ q \in CUnder BY <1>1 DEF CUnder
  <2>3. \A q \in CUnder' : CAt[q] = "create" <=> CAt'[q] = "create" BY <1>1
  <2> QED BY <2>1, <2>2, <2>3 DEF CCalm
<1>10. CCalm /\ CFits => CFits'
  <2> SUFFICES ASSUME CCalm, CFits, CActive # 0, c_loads = {}, NEW j \in {"user", "assistant"}, NEW q \in C!Sends \ c_failed
               PROVE  CHas(j, q)' <=> CHas(j, q)
    BY DEF CFits
  <2>1. j \in CKind /\ CActive \in C!Sessions BY CNumbers DEF CKind, CViewed
  <2>2. CSid[r] = CActive BY DEF CCalm, CUnder
  <2>3. <<j, q>> \in CStored'[CActive] <=> <<j, q>> \in CStored[CActive] \/ (j = k /\ q = r) BY <1>4, <2>1, <2>2
  <2>4. CASE q # r BY <1>1, <2>3, <2>4 DEF CHas
  <2>5. CASE q = r BY <1>1, <2>3, <2>5 DEF CHas
  <2> QED BY <2>4, <2>5
<1>11. COwn => COwn' BY <1>1 DEF COwn
<1> QED BY <1>7, <1>8, <1>9, <1>10, <1>11 DEF CParts

\* An answer begins.
LEMMA CBegins ==
    ASSUME CViewed, CParts, NEW r \in C!Sends, CAt[r] = "model",
           CAt' = [CAt EXCEPT ![r] = "stream"], CShown' = CShown \cup {<<"assistant", r>>},
           UNCHANGED <<CSid, CCtx, CActive, CBlank, CStored>>,
           UNCHANGED <<c_session, c_loads, c_failed, c_mixed>>
    PROVE  CParts'
<1>1. CAt'[r] = "stream" /\ \A q \in C!Sends : q # r => CAt'[q] = CAt[q] BY DEF CViewed
<1>2. \A k \in CKind, q \in C!Sends : <<k, q>> \in CShown' <=> <<k, q>> \in CShown \/ (k = "assistant" /\ q = r)
  OBVIOUS
<1>3. CUnder' = CUnder BY <1>1 DEF CUnder
<1>4. CRows' BY <1>1 DEF CParts, CRows
<1>5. CSaid'
  <2>1. \A q \in C!Sends : CAt'[q] \in {"none", "create"} => CAt[q] \in {"none", "create"} BY <1>1
  <2>2. CShownSaid' BY <1>1, <1>2, <2>1 DEF CParts, CSaid, CShownSaid
  <2>3. CStoredSaid' BY <2>1 DEF CParts, CSaid, CStoredSaid
  <2>4. CSentSaid' BY <2>1 DEF CParts, CSaid, CSentSaid, CViewed
  <2>5. \A q \in C!Sends : CAt'[q] \in {"model", "stream", "close"} => CAt[q] \in {"model", "stream", "close"} BY <1>1
  <2>6. CAskedStored' BY <2>5 DEF CParts, CSaid, CAskedStored
  <2> QED BY <2>2, <2>3, <2>4, <2>6 DEF CSaid
<1>6. CCalm => CCalm'
  <2>1. CCalm => CActive # 0 BY DEF CCalm, CUnder, CParts, CRows
  <2>2. \A q \in C!Sends : CAt'[q] = "create" <=> CAt[q] = "create" BY <1>1
  <2>3. \A q \in CUnder : q \in C!Sends BY DEF CUnder
  <2> QED BY <1>3, <2>1, <2>2, <2>3 DEF CCalm
<1>7. CFits => CFits'
  <2> SUFFICES ASSUME CFits, CActive # 0, c_loads = {}, NEW k \in {"user", "assistant"}, NEW q \in C!Sends \ c_failed
               PROVE  /\ <<k, q>> \in CShown' => CHas(k, q)'
                      /\ ~CBlank /\ CHas(k, q)' => <<k, q>> \in CShown'
    BY DEF CFits
  <2>1. k \in CKind BY DEF CKind
  <2>2. /\ <<k, q>> \in CShown => CHas(k, q)
        /\ ~CBlank /\ CHas(k, q) => <<k, q>> \in CShown
    BY DEF CFits
  <2>3. CASE q # r BY <1>1, <1>2, <2>1, <2>2, <2>3 DEF CHas
  <2>4. CASE q = r BY <1>1, <1>2, <2>1, <2>2, <2>4 DEF CHas
  <2> QED BY <2>3, <2>4
<1>8. CCalm /\ COwn => COwn'
  <2>1. CCalm => CSid[r] = CActive BY DEF CCalm, CUnder
  <2> QED BY <1>1, <1>2, <2>1 DEF COwn
<1> QED BY <1>4, <1>5, <1>6, <1>7, <1>8 DEF CParts

\* A question is sent, in the session that is shown or to make one.
LEMMA CSendsIn ==
    ASSUME CViewed, CParts, NEW r \in C!Sends, CAt[r] = "none", CActive # 0,
           CAt' = [CAt EXCEPT ![r] = "ask"], CSid' = [CSid EXCEPT ![r] = CActive],
           CCtx' = [CCtx EXCEPT ![r] = {q \in C!Sends : \E k \in CKind : <<k, q>> \in CShown}],
           CShown' = CShown \cup {<<"user", r>>},
           ~c_mixed' => ~c_mixed /\ c_loads = {} /\ \A q \in C!Sends : CAt[q] # "create",
           UNCHANGED <<CActive, CBlank, CStored>>, UNCHANGED <<c_session, c_loads, c_failed>>
    PROVE  CParts'
<1>1. CAt'[r] = "ask" /\ \A q \in C!Sends : q # r => CAt'[q] = CAt[q] BY DEF CViewed
<1>2. CSid'[r] = CActive /\ \A q \in C!Sends : q # r => CSid'[q] = CSid[q] BY DEF CViewed
<1>3. /\ \A q \in C!Sends : q \in CCtx'[r] => \E k \in CKind : <<k, q>> \in CShown
      /\ \A q \in CCtx'[r] : q \in C!Sends
      /\ \A p \in C!Sends : p # r => CCtx'[p] = CCtx[p]
  BY DEF CViewed
<1>4. \A k \in CKind, q \in C!Sends : <<k, q>> \in CShown' <=> <<k, q>> \in CShown \/ (k = "user" /\ q = r)
  OBVIOUS
<1>5. CSid[r] = 0 /\ CActive \in C!Sessions BY CNumbers DEF CParts, CRows, CViewed
<1>6. \A q \in C!Sends : CAt[q] \notin {"none", "create"} => q # r OBVIOUS
<1>7. CRows'
  <2>1. \A s \in C!Sessions : c_session[s] # "none" => \E q \in C!Sends : CSid'[q] = s
    <3> SUFFICES ASSUME NEW s \in C!Sessions, c_session[s] # "none" PROVE \E q \in C!Sends : CSid'[q] = s OBVIOUS
    <3>1. PICK q \in C!Sends : CSid[q] = s BY DEF CParts, CRows
    <3>2. q # r BY <1>5, <3>1, CNumbers
    <3> QED BY <1>2, <3>1, <3>2
  <2>2. \A q \in C!Sends : CAt'[q] \in {"none", "create"} => CSid'[q] = 0 BY <1>1, <1>2 DEF CParts, CRows
  <2>3. \A q \in C!Sends : CAt'[q] \notin {"none", "create", "over"} => CSid'[q] # 0 BY <1>1, <1>2 DEF CParts, CRows
  <2>4. \A q \in C!Sends : CSid'[q] # 0 => c_session[CSid'[q]] # "none" BY <1>1, <1>2 DEF CParts, CRows
  <2> QED BY <2>1, <2>2, <2>3, <2>4 DEF CParts, CRows
<1>8. CSaid'
  <2>1. CShownSaid' BY <1>1, <1>4 DEF CParts, CSaid, CShownSaid
  <2>2. CStoredSaid' BY <1>1, <1>2, <1>6 DEF CParts, CSaid, CStoredSaid
  <2>3. CSentSaid'
    <3>1. \A q \in CCtx'[r] : CAt[q] \notin {"none", "create"} BY <1>3 DEF CParts, CSaid, CShownSaid
    <3>2. \A p \in C!Sends : \A q \in CCtx'[p] : q \in C!Sends /\ CAt[q] \notin {"none", "create"}
      BY <1>3, <3>1 DEF CParts, CSaid, CSentSaid, CViewed
    <3> QED BY <1>1, <1>6, <3>2 DEF CSentSaid
  <2>4. CAskedStored' BY <1>1, <1>2 DEF CParts, CSaid, CAskedStored
  <2> QED BY <2>1, <2>2, <2>3, <2>4 DEF CSaid
<1>9. ~c_mixed' /\ CCalm => CCalm'
  <2>1. ~c_mixed' => \A q \in C!Sends : CAt'[q] # "create" BY <1>1
  <2>2. \A q \in CUnder' : q \in C!Sends /\ (q # r => q \in CUnder) BY <1>1 DEF CUnder
  <2> QED BY <1>1, <1>2, <2>1, <2>2 DEF CCalm
<1>10. CFits => CFits'
  <2> SUFFICES ASSUME CFits, c_loads = {}, NEW k \in {"user", "assistant"}, NEW q \in C!Sends \ c_failed
               PROVE  /\ <<k, q>> \in CShown' => CHas(k, q)'
                      /\ ~CBlank /\ CHas(k, q)' => <<k, q>> \in CShown'
    BY DEF CFits
  <2>1. k \in CKind BY DEF CKind
  <2>2. /\ <<k, q>> \in CShown => CHas(k, q)
        /\ ~CBlank /\ CHas(k, q) => <<k, q>> \in CShown
    BY DEF CFits
  <2>3. CASE q # r BY <1>1, <1>4, <2>1, <2>2, <2>3 DEF CHas
  <2>4. CASE q = r BY <1>1, <1>4, <2>1, <2>2, <2>4 DEF CHas
  <2> QED BY <2>3, <2>4
<1>11. ~c_mixed' /\ COwn => COwn'
  <2> SUFFICES ASSUME ~c_mixed', COwn PROVE COwn' OBVIOUS
  <2>1. \A k \in CKind, q \in C!Sends : <<k, q>> \in CShown => CSid[q] = CActive /\ q # r
    BY <1>6 DEF COwn, CParts, CSaid, CShownSaid
  <2>2. \A k \in CKind, q \in C!Sends : <<k, q>> \in CShown' => CSid'[q] = CActive BY <1>2, <1>4, <2>1
  <2>3. \A q \in CCtx'[r] : CSid'[q] = CSid'[r] BY <1>2, <1>3, <2>1
  <2>4. \A p \in C!Sends : p # r /\ CAt'[p] \notin {"none", "create"} => \A q \in CCtx'[p] : CSid'[q] = CSid'[p]
    <3> SUFFICES ASSUME NEW p \in C!Sends, p # r, CAt'[p] \notin {"none", "create"}, NEW q \in CCtx'[p]
                 PROVE  CSid'[q] = CSid'[p]
      OBVIOUS
    <3>1. q \in C!Sends /\ q # r BY <1>3, <1>6 DEF CParts, CSaid, CSentSaid, CViewed
    <3>2. CSid[q] = CSid[p] BY <1>1, <1>3 DEF COwn
    <3> QED BY <1>2, <3>1, <3>2
  <2> QED BY <2>2, <2>3, <2>4 DEF COwn
<1> QED BY <1>7, <1>8, <1>9, <1>10, <1>11 DEF CParts

LEMMA CSendsNew ==
    ASSUME CViewed, CParts, NEW r \in C!Sends, CAt[r] = "none", CActive = 0,
           CAt' = [CAt EXCEPT ![r] = "create"], CSid' = [CSid EXCEPT ![r] = 0],
           CCtx' = [CCtx EXCEPT ![r] = {q \in C!Sends : \E k \in CKind : <<k, q>> \in CShown}],
           ~c_mixed' => ~c_mixed /\ c_loads = {} /\ \A q \in C!Sends : CAt[q] # "create",
           UNCHANGED <<CActive, CShown, CStored>>, UNCHANGED <<c_session, c_loads, c_failed>>
    PROVE  CParts'
<1>1. CAt'[r] = "create" /\ \A q \in C!Sends : q # r => CAt'[q] = CAt[q] BY DEF CViewed
<1>2. CSid' = CSid /\ CSid[r] = 0 BY DEF CViewed, CParts, CRows
<1>3. /\ \A q \in C!Sends : q \in CCtx'[r] => \E k \in CKind : <<k, q>> \in CShown
      /\ \A q \in CCtx'[r] : q \in C!Sends
      /\ \A p \in C!Sends : p # r => CCtx'[p] = CCtx[p]
  BY DEF CViewed
<1>4. \A q \in C!Sends : CAt[q] \notin {"none", "create"} => q # r OBVIOUS
<1>5. CRows' BY <1>1, <1>2 DEF CParts, CRows
<1>6. CSaid'
  <2>1. CShownSaid' BY <1>1, <1>4 DEF CParts, CSaid, CShownSaid
  <2>2. CStoredSaid' BY <1>1, <1>2, <1>4 DEF CParts, CSaid, CStoredSaid
  <2>3. CSentSaid'
    <3>1. \A q \in CCtx'[r] : CAt[q] \notin {"none", "create"} BY <1>3 DEF CParts, CSaid, CShownSaid
    <3>2. \A p \in C!Sends : \A q \in CCtx'[p] : q \in C!Sends /\ CAt[q] \notin {"none", "create"}
      BY <1>3, <3>1 DEF CParts, CSaid, CSentSaid, CViewed
    <3> QED BY <1>1, <1>4, <3>2 DEF CSentSaid
  <2>4. CAskedStored' BY <1>1, <1>2 DEF CParts, CSaid, CAskedStored
  <2> QED BY <2>1, <2>2, <2>3, <2>4 DEF CSaid
<1>7. ~c_mixed' /\ CCalm => CCalm'
  <2> SUFFICES ASSUME ~c_mixed', CCalm PROVE CCalm' OBVIOUS
  <2>1. CUnder = {} BY CNumbers DEF CCalm, CUnder, CParts, CRows
  <2>2. \A q \in CUnder' : q = r BY <1>1, <2>1 DEF CUnder
  <2>3. CCtx'[r] = {} BY <1>3 DEF CCalm
  <2>4. \A q \in C!Sends : CAt'[q] = "create" => q = r BY <1>1
  <2>5. CActive = 0 /\ c_loads = {} /\ CShown = {} BY DEF CCalm
  <2> QED BY <1>1, <2>2, <2>3, <2>4, <2>5 DEF CCalm
<1>8. CFits' BY DEF CFits
<1>9. COwn => COwn' BY <1>1, <1>2, <1>3 DEF COwn
<1> QED BY <1>5, <1>6, <1>7, <1>8, <1>9 DEF CParts

\* The session is made.
LEMMA CMakes ==
    ASSUME CViewed, CParts, NEW r \in C!Sends, CAt[r] = "create",
           NEW s \in C!Sessions, c_session[s] = "none",
           c_session' = [c_session EXCEPT ![s] = "there"],
           CAt' = [CAt EXCEPT ![r] = "ask"], CSid' = [CSid EXCEPT ![r] = s],
           CActive' = s, CShown' = CShown \cup {<<"user", r>>},
           UNCHANGED <<CCtx, CStored>>, UNCHANGED <<c_loads, c_failed, c_mixed>>
    PROVE  CParts'
<1>1. CAt'[r] = "ask" /\ \A q \in C!Sends : q # r => CAt'[q] = CAt[q] BY DEF CViewed
<1>2. CSid'[r] = s /\ \A q \in C!Sends : q # r => CSid'[q] = CSid[q] BY DEF CViewed
<1>3. \A k \in CKind, q \in C!Sends : <<k, q>> \in CShown' <=> <<k, q>> \in CShown \/ (k = "user" /\ q = r)
  OBVIOUS
<1>4. c_session'[s] = "there" /\ \A t \in C!Sessions : t # s => c_session'[t] = c_session[t] BY DEF CViewed
<1>5. CSid[r] = 0 /\ s # 0 /\ CStored[s] = {} BY CNumbers DEF CParts, CRows
<1>6. \A q \in C!Sends : CAt[q] \notin {"none", "create"} => q # r OBVIOUS
<1>7. \A q \in C!Sends : CSid[q] # 0 => CSid[q] \in C!Sessions /\ CSid[q] # s BY CNumbers DEF CViewed, CParts, CRows
<1>8. CRows'
  <2>1. \A t \in C!Sessions : c_session'[t] # "none" => \E q \in C!Sends : CSid'[q] = t
    <3> SUFFICES ASSUME NEW t \in C!Sessions, c_session'[t] # "none" PROVE \E q \in C!Sends : CSid'[q] = t OBVIOUS
    <3>1. CASE t = s BY <1>2, <3>1
    <3>2. CASE t # s
      <4>1. PICK q \in C!Sends : CSid[q] = t BY <1>4, <3>2 DEF CParts, CRows
      <4>2. q # r BY <1>5, <4>1, CNumbers
      <4> QED BY <1>2, <4>1, <4>2
    <3> QED BY <3>1, <3>2
  <2>2. \A q \in C!Sends : CAt'[q] \in {"none", "create"} => CSid'[q] = 0 BY <1>1, <1>2 DEF CParts, CRows
  <2>3. \A q \in C!Sends : CAt'[q] \notin {"none", "create", "over"} => CSid'[q] # 0 BY <1>1, <1>2, <1>5 DEF CParts, CRows
  <2>4. \A q \in C!Sends : CSid'[q] # 0 => c_session'[CSid'[q]] # "none"
    <3> SUFFICES ASSUME NEW q \in C!Sends, CSid'[q] # 0 PROVE c_session'[CSid'[q]] # "none" OBVIOUS
    <3>1. CASE q = r BY <1>2, <1>4, <3>1
    <3>2. CASE q # r BY <1>2, <1>4, <1>7, <3>2 DEF CParts, CRows
    <3> QED BY <3>1, <3>2
  <2>5. \A t \in C!Sessions : c_session'[t] = "none" => CStored[t] = {} BY <1>4 DEF CParts, CRows
  <2>6. \A l \in c_loads : c_session'[l[1]] # "none" BY <1>4 DEF CParts, CRows, CViewed
  <2> QED BY <1>4, <2>1, <2>2, <2>3, <2>4, <2>5, <2>6 DEF CRows
<1>9. CSaid'
  <2>1. CShownSaid' BY <1>1, <1>3 DEF CParts, CSaid, CShownSaid
  <2>2. CStoredSaid' BY <1>1, <1>2, <1>6 DEF CParts, CSaid, CStoredSaid
  <2>3. CSentSaid'
    <3>1. \A p \in C!Sends : \A q \in CCtx[p] : q \in C!Sends /\ CAt[q] \notin {"none", "create"}
      BY DEF CParts, CSaid, CSentSaid, CViewed
    <3> QED BY <1>1, <1>6, <3>1 DEF CSentSaid
  <2>4. CAskedStored'
    <3> SUFFICES ASSUME NEW q \in C!Sends, CAt'[q] \in {"model", "stream", "close"}, c_session'[CSid'[q]] = "there"
                 PROVE  <<"user", q>> \in CStored[CSid'[q]]
      BY DEF CAskedStored
    <3>1. q # r /\ CAt[q] \in {"model", "stream", "close"} /\ CSid'[q] = CSid[q] BY <1>1, <1>2
    <3>2. CSid[q] # 0 BY <3>1 DEF CParts, CRows
    <3>3. c_session[CSid[q]] = "there" BY <1>4, <1>7, <3>1, <3>2
    <3> QED BY <3>1, <3>3 DEF CParts, CSaid, CAskedStored
  <2> QED BY <2>1, <2>2, <2>3, <2>4 DEF CSaid
<1>10. CCalm => CCalm'
  <2> SUFFICES ASSUME CCalm PROVE CCalm' OBVIOUS
  <2>1. c_loads = {} /\ \A q \in CUnder : q = r BY DEF CCalm
  <2>2. \A q \in CUnder' : q = r BY <1>1, <2>1 DEF CUnder
  <2>3. \A q \in C!Sends : CAt'[q] # "create"
    <3>1. \A q \in C!Sends : CAt[q] = "create" => q \in CUnder BY DEF CUnder
    <3> QED BY <1>1, <2>1, <3>1
  <2> QED BY <1>1, <1>2, <1>5, <2>1, <2>2, <2>3 DEF CCalm
<1>11. CCalm => CFits'
  <2> SUFFICES ASSUME CCalm, NEW k \in {"user", "assistant"}, NEW q \in C!Sends \ c_failed
               PROVE  <<k, q>> \in CShown' <=> CHas(k, q)'
    BY DEF CFits
  <2>1. k \in CKind BY DEF CKind
  <2>2. CShown = {} /\ CStored[s] = {} /\ \A p \in CUnder : p = r BY <1>5 DEF CCalm
  <2>3. CASE q # r
    <3>1. CAt'[q] \notin {"ask", "save", "stream", "close"} BY <1>1, <2>2, <2>3 DEF CUnder
    <3> QED BY <1>3, <2>1, <2>2, <2>3, <3>1 DEF CHas
  <2>4. CASE q = r BY <1>1, <1>3, <2>1, <2>2, <2>4 DEF CHas
  <2> QED BY <2>3, <2>4
<1>12. CCalm /\ COwn => COwn'
  <2> SUFFICES ASSUME CCalm, COwn PROVE COwn' OBVIOUS
  <2>1. CShown = {} /\ CCtx[r] = {} BY DEF CCalm
  <2>2. \A k \in CKind, q \in C!Sends : <<k, q>> \in CShown' => CSid'[q] = s BY <1>2, <1>3, <2>1
  <2>3. \A p \in C!Sends : p # r /\ CAt'[p] \notin {"none", "create"} => \A q \in CCtx[p] : CSid'[q] = CSid'[p]
    <3> SUFFICES ASSUME NEW p \in C!Sends, p # r, CAt'[p] \notin {"none", "create"}, NEW q \in CCtx[p]
                 PROVE  CSid'[q] = CSid'[p]
      OBVIOUS
    <3>1. q \in C!Sends /\ q # r BY <1>6 DEF CParts, CSaid, CSentSaid, CViewed
    <3>2. CSid[q] = CSid[p] BY <1>1 DEF COwn
    <3> QED BY <1>2, <3>1, <3>2
  <2> QED BY <2>1, <2>2, <2>3 DEF COwn
<1> QED BY <1>8, <1>9, <1>10, <1>11, <1>12 DEF CParts

\* The page leaves its session, which may be deleted with the others.
LEMMA CClears ==
    ASSUME CViewed, CParts, CActive' = 0, CShown' = {},
           c_mixed' = (c_mixed \/ CUnder # {} \/ c_loads # {}),
           \/ UNCHANGED <<CStored, c_session>>
           \/ /\ c_session' = [s \in C!Sessions |-> IF c_session[s] = "there" THEN "gone" ELSE c_session[s]]
              /\ CStored' = [s \in C!Sessions |-> {}],
           UNCHANGED <<CAt, CSid, CCtx>>, UNCHANGED <<c_loads, c_failed>>
    PROVE  CParts'
<1>1. \A s \in C!Sessions : /\ c_session'[s] = "none" <=> c_session[s] = "none"
                            /\ CStored'[s] = CStored[s] \/ (CStored'[s] = {} /\ c_session'[s] # "there")
                            /\ c_session'[s] = "there" => c_session[s] = "there"
                            /\ c_session'[s] = "there" => CStored'[s] = CStored[s]
  BY DEF CViewed
<1>2. CRows'
  <2>1. \A r \in C!Sends : CSid[r] # 0 => c_session'[CSid[r]] # "none" BY <1>1, CNumbers DEF CParts, CRows, CViewed
  <2>2. \A s \in C!Sessions : c_session'[s] # "none" => \E r \in C!Sends : CSid[r] = s BY <1>1 DEF CParts, CRows
  <2>3. \A s \in C!Sessions : c_session'[s] = "none" => CStored'[s] = {} BY <1>1 DEF CParts, CRows
  <2>4. \A l \in c_loads : c_session'[l[1]] # "none" BY <1>1 DEF CParts, CRows, CViewed
  <2> QED BY <2>1, <2>2, <2>3, <2>4 DEF CParts, CRows
<1>3. CSaid'
  <2>1. CShownSaid' BY DEF CShownSaid
  <2>2. CStoredSaid' 
    <3>1. \A s \in C!Sessions : CStored'[s] \subseteq CStored[s] BY <1>1
    <3> QED BY <3>1 DEF CParts, CSaid, CStoredSaid
  <2>3. CSentSaid' BY DEF CParts, CSaid, CSentSaid
  <2>4. CAskedStored'
    <3> SUFFICES ASSUME NEW q \in C!Sends, CAt[q] \in {"model", "stream", "close"}, c_session'[CSid[q]] = "there"
                 PROVE  <<"user", q>> \in CStored'[CSid[q]]
      BY DEF CAskedStored
    <3>1. CSid[q] \in C!Sessions BY CNumbers DEF CParts, CRows, CViewed
    <3> QED BY <1>1, <3>1 DEF CParts, CSaid, CAskedStored
  <2> QED BY <2>1, <2>2, <2>3, <2>4 DEF CSaid
<1>4. ~c_mixed' => ~c_mixed /\ CUnder = {} /\ c_loads = {} OBVIOUS
<1>5. ~c_mixed' => CCalm' BY <1>4 DEF CCalm, CUnder
<1>6. CFits' BY DEF CFits
<1>7. COwn => COwn' BY DEF COwn
<1> QED BY <1>2, <1>3, <1>4, <1>5, <1>6, <1>7 DEF CParts

\* It goes to another, whose messages it loads,
LEMMA CSelects ==
    ASSUME CViewed, CParts, NEW s \in C!Sessions, c_session[s] # "none", CActive' = s,
           NEW m \in ChatModels, c_loads' = c_loads \cup {<<s, m>>}, c_mixed' = (c_mixed \/ CUnder # {} \/ c_loads # {}),
           UNCHANGED <<CAt, CSid, CCtx, CShown, CStored>>, UNCHANGED <<c_session, c_failed>>
    PROVE  CParts'
<1>1. s # 0 BY CNumbers
<1>2. CRows' BY DEF CParts, CRows
<1>3. CSaid' BY DEF CParts, CSaid, CShownSaid, CStoredSaid, CSentSaid, CAskedStored
<1>4. ~c_mixed' => ~c_mixed /\ CUnder = {} /\ c_loads = {} OBVIOUS
<1>5. ~c_mixed' => CCalm' BY <1>1, <1>4 DEF CCalm, CUnder
<1>6. CFits' BY DEF CFits
<1>7. COwn => COwn' BY DEF COwn
<1> QED BY <1>2, <1>3, <1>4, <1>5, <1>6, <1>7 DEF CParts

\* and shows them when they come,
LEMMA CLoads ==
    ASSUME CViewed, CParts, NEW l \in c_loads, c_loads' = c_loads \ {l}, CShown' = CStored[l[1]],
           UNCHANGED <<CAt, CSid, CCtx, CActive, CStored>>, UNCHANGED <<c_session, c_failed, c_mixed>>
    PROVE  CParts'
<1> DEFINE s == l[1]
<1>1. s \in C!Sessions /\ s # 0 BY CNumbers DEF CViewed
<1> HIDE DEF s
<1>2. CRows' BY DEF CParts, CRows
<1>0. CShown' = CStored[s] BY DEF s
<1>3. CSaid'
  <2>1. CShownSaid' BY <1>0, <1>1 DEF CParts, CSaid, CShownSaid, CStoredSaid
  <2> QED BY <2>1 DEF CParts, CSaid, CStoredSaid, CSentSaid, CAskedStored
<1>4. CCalm => s = CActive /\ c_loads' = {} /\ CUnder = {} BY DEF CCalm, CUnder, s
<1>5. CCalm => CCalm' BY <1>1, <1>4 DEF CCalm, CUnder
<1>6. CCalm => CFits'
  <2>1. CCalm => \A q \in C!Sends : CAt[q] \notin {"ask", "save", "stream", "close"} BY <1>4 DEF CUnder
  <2> QED BY <1>0, <1>4, <2>1 DEF CFits, CHas
<1>7. CCalm /\ COwn => COwn' BY <1>0, <1>1, <1>4 DEF COwn, CParts, CSaid, CStoredSaid, CKind
<1> QED BY <1>2, <1>3, <1>5, <1>6, <1>7 DEF CParts

\* or nothing but errors when they do not, whether or not requests end with them.
LEMMA CMisses ==
    ASSUME CViewed, CParts, NEW F \in SUBSET C!Sends,
           \A q \in F : CAt[q] \notin {"none", "over"},
           CAt' = [q \in C!Sends |-> IF q \in F THEN "over" ELSE CAt[q]],
           c_failed' = c_failed \cup (F \cap CUnder), c_loads # {}, c_loads' \subseteq c_loads, CBlank',
           CShown' \subseteq {<<"error", q>> : q \in {p \in F : CAt[p] \notin {"create", "title"}}},
           UNCHANGED <<CSid, CCtx, CActive, CStored>>, UNCHANGED <<c_session, c_mixed>>
    PROVE  CParts'
<1>1. \A q \in C!Sends : CAt'[q] = IF q \in F THEN "over" ELSE CAt[q] OBVIOUS
<1>2. \A k \in CKind, q \in C!Sends : <<k, q>> \in CShown' => k = "error" /\ q \in F /\ CAt[q] \notin {"create", "title"}
  OBVIOUS
<1>3. CRows' BY <1>1 DEF CParts, CRows
<1>4. CSaid'
  <2>1. CShownSaid' BY <1>1, <1>2 DEF CShownSaid, CUnder
  <2>2. \A q \in C!Sends : CAt'[q] \in {"none", "create"} => CAt[q] \in {"none", "create"} BY <1>1
  <2>3. \A q \in C!Sends : CAt'[q] \in {"model", "stream", "close"} => CAt[q] \in {"model", "stream", "close"} BY <1>1
  <2>4. CStoredSaid' BY <2>2 DEF CParts, CSaid, CStoredSaid
  <2>5. CSentSaid' BY <2>2 DEF CParts, CSaid, CSentSaid, CViewed
  <2>6. CAskedStored' BY <2>3 DEF CParts, CSaid, CAskedStored
  <2> QED BY <2>1, <2>4, <2>5, <2>6 DEF CSaid
<1>5. CCalm => CUnder = {} /\ CShown' = {} /\ CUnder' = {}
  <2> SUFFICES ASSUME CCalm PROVE CUnder = {} /\ CShown' = {} /\ CUnder' = {} OBVIOUS
  <2>1. CUnder = {} BY DEF CCalm, CUnder
  <2>2. CShown' = {} BY <2>1 DEF CUnder
  <2>3. CUnder' = {} BY <1>1, <2>1 DEF CUnder
  <2> QED BY <2>1, <2>2, <2>3
<1>6. CCalm => CCalm'
  <2>1. CCalm => \A l \in c_loads' : l[1] = CActive /\ c_loads' = {l} BY DEF CCalm
  <2>2. CCalm => \A q \in C!Sends : CAt'[q] # "create" BY <1>5 DEF CUnder
  <2> QED BY <1>5, <2>1, <2>2 DEF CCalm
<1>7. CFits' BY <1>2 DEF CFits, CKind
<1>8. CCalm /\ COwn => COwn'
  <2>1. CCalm => \A q \in C!Sends : CAt[q] # "create" BY <1>5 DEF CUnder
  <2>2. CCalm => \A q \in C!Sends : CAt'[q] \notin {"none", "create"} => CAt[q] \notin {"none", "create"} BY <1>1, <2>1
  <2> QED BY <1>5, <2>2 DEF COwn
<1> QED BY <1>3, <1>4, <1>6, <1>7, <1>8 DEF CParts
----------------------------------------------------------------------------
\* What a step of the chat does to what the proof looks at.
LEMMA CInvs == CInv <=> CTypes /\ CParts /\ C!AnswersFollowQuestions
BY CTypeOK DEF CInv, CParts

LEMMA CInvsNext == CInv' <=> CTypes' /\ CParts' /\ C!AnswersFollowQuestions'
BY CTypeOKNext DEF CInv, CParts

LEMMA CUses ==
    ASSUME CTypes, C!Moves \/ C!Fault \/ C!Normally \/ UNCHANGED c_used
    PROVE  c_used' \in CUsed
<1>1. c_used \in CUsed /\ c_used.moves \in Nat /\ c_used.faults \in Nat BY Bounds DEF CTypes, CHistory, CUsed
<1>2. CASE C!Moves
  <2>1. c_used.moves + 1 \in 0 .. ChatMoves BY <1>1, <1>2, Bounds DEF C!Moves, CUsed
  <2> QED BY <1>1, <1>2, <2>1 DEF C!Moves, CUsed
<1>3. CASE C!Fault
  <2>1. c_used.faults + 1 \in 0 .. MaxFaults BY <1>1, <1>3, Bounds DEF C!Fault, CUsed
  <2> QED BY <1>1, <1>3, <2>1 DEF C!Fault, CUsed
<1> QED BY <1>1, <1>2, <1>3 DEF C!Normally

\* A request becomes another, or goes to another stage.
LEMMA CRequest ==
    ASSUME CTypes, NEW r \in C!Sends, NEW e \in CReq, c_req' = [c_req EXCEPT ![r] = e]
    PROVE  /\ c_req' \in [C!Sends -> CReq] /\ CAt' = [CAt EXCEPT ![r] = e.at]
           /\ CSid' = [CSid EXCEPT ![r] = e.sid] /\ CCtx' = [CCtx EXCEPT ![r] = e.ctx]
<1>1. c_req \in [C!Sends -> CReq] BY DEF CTypes
<1>2. c_req'[r] = e /\ \A q \in C!Sends : q # r => c_req'[q] = c_req[q] BY <1>1
<1>3. CAt' = [CAt EXCEPT ![r] = e.at]
  <2>1. \A q \in C!Sends : c_req'[q].at = IF q = r THEN e.at ELSE c_req[q].at BY <1>2
  <2>2. [q \in C!Sends |-> c_req'[q].at] = [[q \in C!Sends |-> c_req[q].at] EXCEPT ![r] = e.at] BY <2>1
  <2> QED BY <2>2 DEF CAt
<1>4. CSid' = [CSid EXCEPT ![r] = e.sid]
  <2>1. \A q \in C!Sends : c_req'[q].sid = IF q = r THEN e.sid ELSE c_req[q].sid BY <1>2
  <2>2. [q \in C!Sends |-> c_req'[q].sid] = [[q \in C!Sends |-> c_req[q].sid] EXCEPT ![r] = e.sid] BY <2>1
  <2> QED BY <2>2 DEF CSid
<1>5. CCtx' = [CCtx EXCEPT ![r] = e.ctx]
  <2>1. \A q \in C!Sends : c_req'[q].ctx = IF q = r THEN e.ctx ELSE c_req[q].ctx BY <1>2
  <2>2. [q \in C!Sends |-> c_req'[q].ctx] = [[q \in C!Sends |-> c_req[q].ctx] EXCEPT ![r] = e.ctx] BY <2>1
  <2> QED BY <2>2 DEF CCtx
<1> QED BY <1>1, <1>3, <1>4, <1>5

LEMMA CTo ==
    ASSUME CTypes, NEW r \in C!Sends, NEW at \in CStage, C!To(r, at)
    PROVE  /\ c_req' \in [C!Sends -> CReq] /\ CAt' = [CAt EXCEPT ![r] = at]
           /\ CSid' = CSid /\ CCtx' = CCtx
<1>1. c_req[r] \in CReq BY DEF CTypes
<1>2. PICK e \in CReq : e = [c_req[r] EXCEPT !.at = at] BY <1>1 DEF CReq
<1>3. e.at = at /\ e.sid = c_req[r].sid /\ e.ctx = c_req[r].ctx BY <1>1, <1>2 DEF CReq
<1>4. c_req' = [c_req EXCEPT ![r] = e] BY <1>2 DEF C!To
<1>5. CSid[r] = c_req[r].sid /\ CCtx[r] = c_req[r].ctx BY DEF CSid, CCtx
<1>6. /\ c_req' \in [C!Sends -> CReq] /\ CAt' = [CAt EXCEPT ![r] = at]
      /\ CSid' = [CSid EXCEPT ![r] = CSid[r]] /\ CCtx' = [CCtx EXCEPT ![r] = CCtx[r]]
  <2>1. /\ c_req' \in [C!Sends -> CReq] /\ CAt' = [CAt EXCEPT ![r] = e.at]
        /\ CSid' = [CSid EXCEPT ![r] = e.sid] /\ CCtx' = [CCtx EXCEPT ![r] = e.ctx]
    BY <1>4, CRequest
  <2> QED BY <1>3, <1>5, <2>1
<1>7. [CSid EXCEPT ![r] = CSid[r]] = CSid /\ [CCtx EXCEPT ![r] = CCtx[r]] = CCtx BY CViews DEF CViewed
<1> QED BY <1>6, <1>7

LEMMA CStages ==
    ASSUME NEW r \in C!Sends
    PROVE  CAt[r] = c_req[r].at /\ CSid[r] = c_req[r].sid /\ CCtx[r] = c_req[r].ctx
BY DEF CAt, CSid, CCtx

LEMMA CWays == C!UnderWay = CUnder
BY CStages DEF C!UnderWay, CUnder

\* The request stays, or the page does.
LEMMA CReqStays == UNCHANGED c_req => UNCHANGED <<CAt, CSid, CCtx>>
BY DEF CAt, CSid, CCtx

LEMMA CPageStays == UNCHANGED c_page => UNCHANGED <<CActive, CShown, CBlank>>
BY DEF CActive, CShown, CBlank

LEMMA CStoredStays == UNCHANGED c_stored => UNCHANGED CStored
BY DEF CStored

\* A message is added to what is shown,
LEMMA CAdds ==
    ASSUME CTypes, NEW k \in CKind, NEW r \in C!Sends
    PROVE  /\ Append(c_page.shown, <<k, r>>) \in Seq(C!Message)
           /\ CIn(Append(c_page.shown, <<k, r>>)) = CShown \cup {<<k, r>>}
<1>1. c_page.shown \in Seq(C!Message) BY DEF CTypes, CPage
<1>2. <<k, r>> \in C!Message BY DEF C!Message, CKind
<1> QED BY <1>1, <1>2, CInAppend DEF CShown

\* or to what is stored, where an answer has its question before it.
CAnswered(ms) ==
    \A i \in DOMAIN ms : ms[i][1] = "assistant" => \E j \in 1 .. i - 1 : ms[j] = <<"user", ms[i][2]>>

LEMMA COrder == C!AnswersFollowQuestions <=> \A s \in C!Sessions : CAnswered(c_stored[s])
BY DEF C!AnswersFollowQuestions, CAnswered

LEMMA COrderNext == C!AnswersFollowQuestions' <=> \A s \in C!Sessions : CAnswered(c_stored'[s])
BY DEF C!AnswersFollowQuestions, CAnswered

LEMMA CAnsweredAppend ==
    ASSUME NEW ms \in Seq(C!Message), CAnswered(ms), NEW k \in CKind, NEW r \in C!Sends,
           k = "assistant" => <<"user", r>> \in CIn(ms)
    PROVE  CAnswered(Append(ms, <<k, r>>))
<1>1. <<k, r>> \in C!Message BY DEF C!Message, CKind
<1>2. /\ Len(Append(ms, <<k, r>>)) = Len(ms) + 1
      /\ \A i \in 1 .. Len(ms) : Append(ms, <<k, r>>)[i] = ms[i]
      /\ Append(ms, <<k, r>>)[Len(ms) + 1] = <<k, r>>
      /\ Append(ms, <<k, r>>) \in Seq(C!Message)
  BY <1>1, AppendProperties
<1>3. /\ DOMAIN ms = 1 .. Len(ms) /\ Len(ms) \in Nat
      /\ DOMAIN Append(ms, <<k, r>>) = 1 .. (Len(ms) + 1)
  BY <1>2, LenProperties
<1> DEFINE n == Len(ms)
           a == Append(ms, <<k, r>>)
<1>4. /\ n \in Nat /\ DOMAIN ms = 1 .. n /\ DOMAIN a = 1 .. (n + 1) /\ a[n + 1] = <<k, r>>
      /\ \A i \in 1 .. n : a[i] = ms[i]
  BY <1>2, <1>3
<1> HIDE DEF n, a
<1> SUFFICES ASSUME NEW i \in 1 .. (n + 1), a[i][1] = "assistant"
             PROVE  \E j \in 1 .. i - 1 : a[j] = <<"user", a[i][2]>>
  BY <1>4 DEF CAnswered, a
<1>5. CASE i \in 1 .. n
  <2>1. PICK j \in 1 .. i - 1 : ms[j] = <<"user", ms[i][2]>> BY <1>4, <1>5 DEF CAnswered
  <2>2. j \in 1 .. n BY <1>4, <1>5
  <2> QED BY <1>4, <1>5, <2>1, <2>2
<1>6. CASE i = n + 1
  <2>1. a[i] = <<k, r>> BY <1>4, <1>6
  <2>2. k = "assistant" /\ a[i][2] = r BY <2>1
  <2>3. PICK j \in 1 .. n : ms[j] = <<"user", r>> BY <1>4, <2>2 DEF CIn
  <2>4. j \in 1 .. i - 1 BY <1>4, <1>6
  <2> QED BY <1>4, <2>2, <2>3, <2>4
<1> QED BY <1>4, <1>5, <1>6

LEMMA CKeeps ==
    ASSUME CInv, NEW k \in {"user", "assistant"}, NEW r \in C!Sends, CSid[r] \in C!Sessions, C!Stores(r, k),
           k = "assistant" => <<"user", r>> \in CStored[CSid[r]]
    PROVE  /\ c_stored' \in [C!Sessions -> Seq(C!Message)]
           /\ CStored' = [CStored EXCEPT ![CSid[r]] = @ \cup {<<k, r>>}]
           /\ C!AnswersFollowQuestions'
<1>1. c_stored \in [C!Sessions -> Seq(C!Message)] BY DEF CInv
<1>2. <<k, r>> \in C!Message /\ k \in CKind BY DEF C!Message, CKind
<1>3. PICK s \in C!Sessions : s = CSid[r] OBVIOUS
<1>4. c_req[r].sid = s BY <1>3, CStages
<1>5. PICK t \in Seq(C!Message) : t = c_stored[s] BY <1>1
<1>6. /\ c_stored'[s] = Append(t, <<k, r>>)
      /\ \A u \in C!Sessions : u # s => c_stored'[u] = c_stored[u]
      /\ c_stored' = [c_stored EXCEPT ![s] = Append(t, <<k, r>>)]
  BY <1>1, <1>4, <1>5 DEF C!Stores
<1>7. Append(t, <<k, r>>) \in Seq(C!Message) /\ CIn(Append(t, <<k, r>>)) = CIn(t) \cup {<<k, r>>} BY <1>2, CInAppend
<1>8. CStored[s] = CIn(t) BY <1>5 DEF CStored
<1>9. CStored' = [CStored EXCEPT ![s] = @ \cup {<<k, r>>}]
  <2>1. \A u \in C!Sessions : CIn(c_stored'[u]) = IF u = s THEN CStored[s] \cup {<<k, r>>} ELSE CStored[u]
    <3>1. \A u \in C!Sessions : CStored[u] = CIn(c_stored[u]) BY DEF CStored
    <3> QED BY <1>6, <1>7, <1>8, <3>1
  <2>2. CStored' = [u \in C!Sessions |-> CIn(c_stored'[u])] BY DEF CStored, CIn
  <2>3. CStored = [u \in C!Sessions |-> CStored[u]] BY DEF CStored
  <2> QED BY <2>1, <2>2, <2>3
<1>10. \A u \in C!Sessions : CAnswered(c_stored[u]) BY COrder DEF CInv
<1>11. CAnswered(Append(t, <<k, r>>)) BY <1>2, <1>3, <1>5, <1>8, <1>10, CAnsweredAppend
<1>12. \A u \in C!Sessions : CAnswered(c_stored'[u]) BY <1>6, <1>10, <1>11
<1> QED BY <1>1, <1>3, <1>6, <1>7, <1>9, <1>12, COrderNext
----------------------------------------------------------------------------
\* The steps of the chat, one by one. One that only changes models keeps what is seen.
LEMMA CQuiet ==
    ASSUME CInv, UNCHANGED <<c_session, c_stored, c_titled, c_req, c_loads, c_failed, c_mixed>>,
           c_page' \in CPage, c_page'.active = c_page.active, c_page'.shown = c_page.shown,
           c_page'.blank = c_page.blank, CMemory', c_used' \in CUsed
    PROVE  CInv'
<1>1. CTypes /\ CParts /\ C!AnswersFollowQuestions BY CInvs
<1>2. UNCHANGED <<CAt, CSid, CCtx, CActive, CShown, CBlank, CStored>>
  BY CReqStays, CStoredStays DEF CActive, CShown, CBlank
<1>3. CParts' BY <1>1, <1>2, CStill
<1>4. C!AnswersFollowQuestions' BY <1>1, COrder, COrderNext
<1>5. CTypes' BY <1>1 DEF CTypes, CTables, CHistory
<1> QED BY <1>3, <1>4, <1>5, CInvsNext

LEMMA CModels ==
    ASSUME CInv, NEW m \in ChatModels,
           C!PickModel(m) \/ C!Unload(m) \/ C!Evict(m) \/ C!Suggest \/ C!CancelSwitch
    PROVE  CInv'
<1>1. CTypes BY CInvs
<1>2. c_used' \in CUsed
  BY <1>1, CUses DEF C!PickModel, C!Unload, C!Evict, C!Suggest, C!CancelSwitch
<1>3. CMemory /\ c_page \in CPage /\ Largest \in ChatModels BY <1>1, MCAssistantAssumption DEF CTypes
<1>4. CMemory'
  BY <1>3 DEF CMemory, C!PickModel, C!Unload, C!Evict, C!Suggest, C!CancelSwitch, C!memory, C!Asks
<1>5. /\ c_page' \in CPage /\ c_page'.active = c_page.active
      /\ c_page'.shown = c_page.shown /\ c_page'.blank = c_page.blank
  BY <1>3 DEF CPage, C!PickModel, C!Unload, C!Evict, C!Suggest, C!CancelSwitch
<1>6. UNCHANGED <<c_session, c_stored, c_titled, c_req, c_loads, c_failed, c_mixed>>
  BY DEF C!PickModel, C!Unload, C!Evict, C!Suggest, C!CancelSwitch, C!tables
<1> QED BY <1>2, <1>4, <1>5, <1>6, CQuiet

\* The context of a question is what is shown.
LEMMA CContext ==
    ASSUME CTypes
    PROVE  {c_page.shown[i][2] : i \in DOMAIN c_page.shown} = {q \in C!Sends : \E k \in CKind : <<k, q>> \in CShown}
<1>1. CShown \subseteq CKind \X C!Sends BY CViews DEF CViewed
<1>2. \A i \in DOMAIN c_page.shown : c_page.shown[i] \in CShown BY DEF CShown, CIn
<1>3. ASSUME NEW i \in DOMAIN c_page.shown
      PROVE  c_page.shown[i][2] \in {q \in C!Sends : \E k \in CKind : <<k, q>> \in CShown}
  <2>1. PICK k \in CKind, q \in C!Sends : c_page.shown[i] = <<k, q>> BY <1>1, <1>2
  <2> QED BY <1>2, <2>1
<1>4. ASSUME NEW q \in C!Sends, NEW k \in CKind, <<k, q>> \in CShown
      PROVE  q \in {c_page.shown[i][2] : i \in DOMAIN c_page.shown}
  <2>1. PICK i \in DOMAIN c_page.shown : c_page.shown[i] = <<k, q>> BY <1>4 DEF CShown, CIn
  <2> QED BY <2>1
<1> QED BY <1>3, <1>4

LEMMA CSend ==
    ASSUME CInv, NEW r \in C!Sends, C!Send(r)
    PROVE  CInv'
<1>1. CTypes /\ CParts /\ C!AnswersFollowQuestions /\ CViewed BY CInvs, CViews
<1>2. c_page \in CPage /\ c_page.active \in 0 .. ChatSessions /\ c_page.model \in ChatModels BY <1>1 DEF CTypes, CPage
<1>3. PICK x \in SUBSET C!Sends : x = {q \in C!Sends : \E k \in CKind : <<k, q>> \in CShown} OBVIOUS
<1>4. x = {c_page.shown[i][2] : i \in DOMAIN c_page.shown} BY <1>1, <1>3, CContext
<1>5. CAt[r] = "none" BY CStages DEF C!Send
<1>6. ~c_mixed' => ~c_mixed /\ c_loads = {} /\ \A q \in C!Sends : CAt[q] # "create" BY CStages DEF C!Send
<1>7. UNCHANGED <<c_session, c_stored, c_titled, c_loads, c_loaded, c_leaving, c_hints, c_failed, c_used>>
  BY DEF C!Send, C!tables, C!memory
<1>8. c_mixed' \in BOOLEAN BY DEF C!Send
<1>9. CTables' /\ CMemory' /\ CHistory' /\ c_loads' \subseteq C!Sessions \X ChatModels
  BY <1>1, <1>7, <1>8 DEF CTypes, CTables, CMemory, CHistory
<1>10. C!AnswersFollowQuestions' BY <1>1, <1>7, COrder, COrderNext
<1>11. UNCHANGED CStored BY <1>7, CStoredStays
<1>12. CASE c_page.active # 0
  <2>1. PICK e \in CReq : e = [at |-> "ask", sid |-> c_page.active, ctx |-> x, model |-> c_page.model]
    BY <1>2 DEF CReq, CStage
  <2>2. e.at = "ask" /\ e.sid = CActive /\ e.ctx = x BY <2>1 DEF CActive
  <2>3. c_req' = [c_req EXCEPT ![r] = e]
    <3>1. e = [at |-> "ask", sid |-> c_page.active, model |-> c_page.model,
               ctx |-> {c_page.shown[i][2] : i \in DOMAIN c_page.shown}] BY <1>4, <2>1
    <3> QED BY <1>12, <3>1 DEF C!Send
  <2>4. c_page' = [c_page EXCEPT !.shown = Append(c_page.shown, <<"user", r>>), !.waits = TRUE] BY <1>12 DEF C!Send
  <2>5. /\ Append(c_page.shown, <<"user", r>>) \in Seq(C!Message)
        /\ CIn(Append(c_page.shown, <<"user", r>>)) = CShown \cup {<<"user", r>>}
    BY <1>1, CAdds DEF CKind
  <2>6. /\ c_page' \in CPage /\ c_page'.active = c_page.active /\ c_page'.blank = c_page.blank
        /\ c_page'.shown = Append(c_page.shown, <<"user", r>>)
    BY <1>2, <2>4, <2>5 DEF CPage
  <2>7. CActive' = CActive /\ CShown' = CShown \cup {<<"user", r>>} /\ CBlank' = CBlank
    BY <2>5, <2>6 DEF CActive, CShown, CBlank, CIn
  <2>8. /\ c_req' \in [C!Sends -> CReq] /\ CAt' = [CAt EXCEPT ![r] = "ask"]
        /\ CSid' = [CSid EXCEPT ![r] = CActive] /\ CCtx' = [CCtx EXCEPT ![r] = x]
    <3>1. /\ c_req' \in [C!Sends -> CReq] /\ CAt' = [CAt EXCEPT ![r] = e.at]
          /\ CSid' = [CSid EXCEPT ![r] = e.sid] /\ CCtx' = [CCtx EXCEPT ![r] = e.ctx]
      BY <1>1, <2>3, CRequest
    <3> QED BY <2>2, <3>1
  <2>9. CActive # 0 BY <1>12 DEF CActive
  <2>10. CParts' BY <1>1, <1>3, <1>5, <1>6, <1>7, <1>11, <2>7, <2>8, <2>9, CSendsIn
  <2>11. CTypes' BY <1>9, <2>6, <2>8 DEF CTypes
  <2> QED BY <1>10, <2>10, <2>11, CInvsNext
<1>13. CASE c_page.active = 0
  <2>1. PICK e \in CReq : e = [at |-> "create", sid |-> 0, ctx |-> x, model |-> c_page.model]
    BY <1>2, <1>13 DEF CReq, CStage
  <2>2. e.at = "create" /\ e.sid = 0 /\ e.ctx = x BY <2>1
  <2>3. c_req' = [c_req EXCEPT ![r] = e]
    <3>1. e = [[at |-> "ask", sid |-> c_page.active, model |-> c_page.model,
                ctx |-> {c_page.shown[i][2] : i \in DOMAIN c_page.shown}] EXCEPT !.at = "create"]
      <4>1. \A a, b, c : [[at |-> "ask", sid |-> a, model |-> b, ctx |-> c] EXCEPT !.at = "create"]
                         = [at |-> "create", sid |-> a, ctx |-> c, model |-> b]
        OBVIOUS
      <4> QED BY <1>4, <1>13, <2>1, <4>1
    <3> QED BY <1>13, <3>1 DEF C!Send
  <2>4. UNCHANGED c_page BY <1>13 DEF C!Send
  <2>5. UNCHANGED <<CActive, CShown, CBlank>> BY <2>4, CPageStays
  <2>6. /\ c_req' \in [C!Sends -> CReq] /\ CAt' = [CAt EXCEPT ![r] = "create"]
        /\ CSid' = [CSid EXCEPT ![r] = 0] /\ CCtx' = [CCtx EXCEPT ![r] = x]
    <3>1. /\ c_req' \in [C!Sends -> CReq] /\ CAt' = [CAt EXCEPT ![r] = e.at]
          /\ CSid' = [CSid EXCEPT ![r] = e.sid] /\ CCtx' = [CCtx EXCEPT ![r] = e.ctx]
      BY <1>1, <2>3, CRequest
    <3> QED BY <2>2, <3>1
  <2>7. CActive = 0 BY <1>13 DEF CActive
  <2>8. CParts' BY <1>1, <1>3, <1>5, <1>6, <1>7, <1>11, <2>5, <2>6, <2>7, CSendsNew
  <2>9. CTypes' BY <1>2, <1>9, <2>4, <2>6 DEF CTypes
  <2> QED BY <1>10, <2>8, <2>9, CInvsNext
<1> QED BY <1>12, <1>13

\* A new session is one that was not there, and the model of a session that of its first request.
LEMMA CNew ==
    ASSUME C!NewSession # 0
    PROVE  C!NewSession \in C!Sessions /\ c_session[C!NewSession] = "none"
<1> DEFINE N == {s \in C!Sessions : c_session[s] = "none"}
<1>1. N # {} BY DEF C!NewSession
<1>2. N \in SUBSET Nat BY Bounds DEF C!Sessions
<1>3. PICK s \in N : \A t \in N : s <= t BY <1>1, <1>2, Least
<1>4. \A t \in 1 .. s - 1 : t \in C!Sessions /\ ~(s <= t) BY <1>3, Bounds DEF C!Sessions
<1>5. \A t \in 1 .. s - 1 : c_session[t] # "none" BY <1>3, <1>4
<1>6. s \in C!Sessions /\ c_session[s] = "none" /\ \A t \in 1 .. s - 1 : c_session[t] # "none" BY <1>3, <1>5
<1>7. C!NewSession = CHOOSE u \in C!Sessions : c_session[u] = "none" /\ \A t \in 1 .. u - 1 : c_session[t] # "none"
  BY <1>6 DEF C!NewSession
<1> QED BY <1>6, <1>7

LEMMA CModelOf ==
    ASSUME CInv, NEW s \in C!Sessions, c_session[s] # "none"
    PROVE  C!ModelOf(s) \in ChatModels
<1> DEFINE N == {r \in C!Sends : c_req[r].sid = s}
<1>1. N # {}
  <2>1. PICK r \in C!Sends : CSid[r] = s BY DEF CInv, CRows
  <2> QED BY <2>1, CStages
<1>2. N \in SUBSET Nat BY Bounds DEF C!Sends
<1>3. PICK r \in N : \A q \in N : r <= q BY <1>1, <1>2, Least
<1>4. \A q \in 1 .. r - 1 : q \in C!Sends /\ ~(r <= q) BY <1>3, Bounds DEF C!Sends
<1>5. \A q \in 1 .. r - 1 : c_req[q].sid # s BY <1>3, <1>4
<1>6. r \in C!Sends /\ c_req[r].sid = s /\ \A q \in 1 .. r - 1 : c_req[q].sid # s BY <1>3, <1>5
<1>7. PICK p \in C!Sends : p = CHOOSE u \in C!Sends : c_req[u].sid = s /\ \A q \in 1 .. u - 1 : c_req[q].sid # s
  BY <1>6
<1>8. C!ModelOf(s) = c_req[p].model BY <1>7 DEF C!ModelOf
<1>9. c_req[p] \in CReq BY CInvs DEF CTypes
<1> QED BY <1>8, <1>9 DEF CReq

LEMMA CCreated ==
    ASSUME CInv, NEW r \in C!Sends, C!Created(r)
    PROVE  CInv'
<1>1. CTypes /\ CParts /\ C!AnswersFollowQuestions /\ CViewed BY CInvs, CViews
<1>2. UNCHANGED <<c_stored, c_titled, c_loads, c_loaded, c_leaving, c_hints, c_mixed>> BY DEF C!Created, C!memory
<1>3. c_used' \in CUsed BY <1>1, CUses DEF C!Created
<1>4. C!AnswersFollowQuestions' BY <1>1, <1>2, COrder, COrderNext
<1>5. UNCHANGED CStored BY <1>2, CStoredStays
<1>6. CMemory' /\ c_loads' \subseteq C!Sessions \X ChatModels BY <1>1, <1>2 DEF CTypes, CMemory
<1>7. CAt[r] = "create" BY CStages DEF C!Created
<1>8. c_page \in CPage /\ c_req[r] \in CReq /\ c_req[r].at = "create" BY <1>1 DEF CTypes, C!Created
<1>9. CASE /\ C!NewSession # 0 /\ c_session' = [c_session EXCEPT ![C!NewSession] = "there"]
           /\ c_req' = [c_req EXCEPT ![r].at = "ask", ![r].sid = C!NewSession]
           /\ c_page' = [c_page EXCEPT !.active = C!NewSession, !.waits = TRUE,
                                       !.shown = Append(@, <<"user", r>>)]
           /\ UNCHANGED c_failed
  <2>1. PICK s \in C!Sessions : s = C!NewSession /\ c_session[s] = "none" BY <1>9, CNew
  <2>2. s \in 0 .. ChatSessions BY CNumbers
  <2>3. PICK e \in CReq : e = [c_req[r] EXCEPT !.at = "ask", !.sid = s] BY <1>8, <2>2 DEF CReq, CStage
  <2>4. e.at = "ask" /\ e.sid = s /\ e.ctx = c_req[r].ctx BY <1>8, <2>3 DEF CReq
  <2>5. c_req' = [c_req EXCEPT ![r] = e]
    <3>1. c_req' = [c_req EXCEPT ![r] = [c_req[r] EXCEPT !.at = "ask", !.sid = s]] BY <1>9, <2>1
    <3> QED BY <2>3, <3>1
  <2>6. /\ c_req' \in [C!Sends -> CReq] /\ CAt' = [CAt EXCEPT ![r] = e.at]
        /\ CSid' = [CSid EXCEPT ![r] = e.sid] /\ CCtx' = [CCtx EXCEPT ![r] = e.ctx]
    BY <1>1, <2>5, CRequest
  <2>7. CCtx' = CCtx
    <3>1. CCtx[r] = c_req[r].ctx BY CStages
    <3>2. [CCtx EXCEPT ![r] = CCtx[r]] = CCtx BY <1>1 DEF CViewed
    <3> QED BY <2>4, <2>6, <3>1, <3>2
  <2>8. /\ Append(c_page.shown, <<"user", r>>) \in Seq(C!Message)
        /\ CIn(Append(c_page.shown, <<"user", r>>)) = CShown \cup {<<"user", r>>}
    BY <1>1, CAdds DEF CKind
  <2>9. c_page' = [c_page EXCEPT !.active = s, !.waits = TRUE, !.shown = Append(c_page.shown, <<"user", r>>)]
    BY <1>9, <2>1
  <2>10. c_page' \in CPage /\ c_page'.active = s /\ c_page'.shown = Append(c_page.shown, <<"user", r>>)
    BY <1>8, <2>2, <2>8, <2>9 DEF CPage
  <2>11. CActive' = s /\ CShown' = CShown \cup {<<"user", r>>} BY <2>8, <2>10 DEF CActive, CShown, CIn
  <2>12. CAt' = [CAt EXCEPT ![r] = "ask"] /\ CSid' = [CSid EXCEPT ![r] = s] BY <2>4, <2>6
  <2>13. c_session' = [c_session EXCEPT ![s] = "there"] BY <1>9, <2>1
  <2>14. CParts' BY <1>1, <1>2, <1>5, <1>7, <1>9, <2>1, <2>7, <2>11, <2>12, <2>13, CMakes
  <2>15. CTypes' BY <1>1, <1>2, <1>3, <1>6, <1>9, <2>6, <2>10, <2>13 DEF CTypes, CTables, CHistory
  <2> QED BY <1>4, <2>14, <2>15, CInvsNext
<1>10. CASE C!To(r, "over") /\ c_failed' = c_failed \cup {r} /\ UNCHANGED <<c_session, c_page>>
  <2>1. /\ c_req' \in [C!Sends -> CReq] /\ CAt' = [CAt EXCEPT ![r] = "over"]
        /\ CSid' = CSid /\ CCtx' = CCtx
    BY <1>1, <1>10, CTo DEF CStage
  <2>2. CAt' = [q \in C!Sends |-> IF q \in {r} THEN "over" ELSE CAt[q]] BY <1>1, <2>1 DEF CViewed
  <2>3. {r} \cap CUnder = {r} BY <1>7 DEF CUnder
  <2>4. UNCHANGED <<CActive, CShown, CBlank>> BY <1>10, CPageStays
  <2>5. CParts'
    <3>1. PICK F \in SUBSET C!Sends : F = {r} OBVIOUS
    <3> QED BY <1>1, <1>2, <1>5, <1>7, <1>10, <2>1, <2>2, <2>3, <2>4, <3>1, CEnds
  <2>6. CTypes' BY <1>1, <1>2, <1>3, <1>6, <1>8, <1>10, <2>1 DEF CTypes, CTables, CHistory
  <2> QED BY <1>4, <2>5, <2>6, CInvsNext
<1> QED BY <1>9, <1>10 DEF C!Created

\* An error ends a request that is under way, and leaves the tables as they are.
LEMMA CErrs ==
    ASSUME CInv, NEW r \in C!Sends, CAt[r] \in {"save", "model", "stream"}, C!Error(r),
           UNCHANGED <<c_session, c_stored, c_titled, c_loads, c_loaded, c_leaving, c_hints, c_mixed>>,
           c_used' \in CUsed
    PROVE  CInv'
<1>1. CTypes /\ CParts /\ C!AnswersFollowQuestions /\ CViewed BY CInvs, CViews
<1>2. /\ c_req' \in [C!Sends -> CReq] /\ CAt' = [CAt EXCEPT ![r] = "over"]
      /\ CSid' = CSid /\ CCtx' = CCtx
  BY <1>1, CTo DEF CStage, C!Error
<1>3. CAt' = [q \in C!Sends |-> IF q \in {r} THEN "over" ELSE CAt[q]] BY <1>1, <1>2 DEF CViewed
<1>4. {r} \cap CUnder = {r} BY DEF CUnder
<1>5. c_page \in CPage /\ c_page.shown \in Seq(C!Message) BY <1>1 DEF CTypes, CPage
<1>6. PICK ms \in Seq(C!Message) : /\ c_page' = [c_page EXCEPT !.waits = FALSE, !.shown = ms]
                                   /\ CShown \subseteq CIn(ms) /\ CIn(ms) \subseteq CShown \cup {<<"error", r>>}
  <2>1. /\ Append(c_page.shown, <<"error", r>>) \in Seq(C!Message)
        /\ CIn(Append(c_page.shown, <<"error", r>>)) = CShown \cup {<<"error", r>>}
    BY <1>1, CAdds DEF CKind
  <2>2. \/ c_page' = [c_page EXCEPT !.waits = FALSE, !.shown = c_page.shown]
        \/ c_page' = [c_page EXCEPT !.waits = FALSE, !.shown = Append(c_page.shown, <<"error", r>>)]
    BY DEF C!Error
  <2>3. CASE c_page' = [c_page EXCEPT !.waits = FALSE, !.shown = c_page.shown]
    BY <1>5, <2>3 DEF CShown
  <2>4. CASE c_page' = [c_page EXCEPT !.waits = FALSE, !.shown = Append(c_page.shown, <<"error", r>>)]
    BY <2>1, <2>4
  <2> QED BY <2>2, <2>3, <2>4
<1>7. c_page' \in CPage /\ c_page'.active = c_page.active /\ c_page'.shown = ms /\ c_page'.blank = c_page.blank
  BY <1>5, <1>6 DEF CPage
<1>8. /\ CActive' = CActive /\ CBlank' = CBlank
      /\ CShown \subseteq CShown' /\ CShown' \subseteq CShown \cup {<<"error", r>>}
  BY <1>6, <1>7 DEF CActive, CShown, CBlank
<1>9. UNCHANGED CStored BY CStoredStays
<1>10. CParts'
  <2>1. PICK F \in SUBSET C!Sends : F = {r} OBVIOUS
  <2>2. {q \in F : CAt[q] \notin {"create", "title"}} = {r} BY <2>1
  <2>3. CShown' \subseteq CShown \cup {<<"error", q>> : q \in {p \in F : CAt[p] \notin {"create", "title"}}}
    BY <1>8, <2>2
  <2>4. c_failed' = c_failed \cup (F \cap CUnder) BY <1>4, <2>1 DEF C!Error
  <2> QED BY <1>1, <1>2, <1>3, <1>8, <1>9, <2>1, <2>3, <2>4, CEnds
<1>11. C!AnswersFollowQuestions' BY <1>1, COrder, COrderNext
<1>12. c_failed' \subseteq C!Sends BY <1>1 DEF C!Error, CTypes, CHistory
<1>13. CTypes' BY <1>1, <1>2, <1>7, <1>12 DEF CTypes, CTables, CMemory, CHistory
<1> QED BY <1>10, <1>11, <1>13, CInvsNext

\* A request that goes on without the page and the tables.
LEMMA CSteps ==
    ASSUME CInv, NEW r \in C!Sends, NEW at \in CStage, C!To(r, at),
           <<CAt[r], at>> \in {<<"ask", "save">>, <<"stream", "close">>},
           UNCHANGED <<c_session, c_stored, c_titled, c_loads, c_failed, c_mixed>>,
           c_page' \in CPage, c_page'.active = c_page.active, c_page'.shown = c_page.shown,
           c_page'.blank = c_page.blank, CMemory', c_used' \in CUsed
    PROVE  CInv'
<1>1. CTypes /\ CParts /\ C!AnswersFollowQuestions /\ CViewed BY CInvs, CViews
<1>2. /\ c_req' \in [C!Sends -> CReq] /\ CAt' = [CAt EXCEPT ![r] = at]
      /\ CSid' = CSid /\ CCtx' = CCtx
  BY <1>1, CTo
<1>3. UNCHANGED <<CActive, CShown, CBlank, CStored>> BY CStoredStays DEF CActive, CShown, CBlank
<1>4. CParts' BY <1>1, <1>2, <1>3, CGoesOn
<1>5. C!AnswersFollowQuestions' BY <1>1, COrder, COrderNext
<1>6. CTypes' BY <1>1, <1>2 DEF CTypes, CTables, CHistory
<1> QED BY <1>4, <1>5, <1>6, CInvsNext

LEMMA CRewrite ==
    ASSUME CInv, NEW r \in C!Sends, C!Rewrite(r)
    PROVE  CInv'
<1>1. CTypes BY CInvs
<1>2. c_used' \in CUsed BY <1>1, CUses DEF C!Rewrite
<1>3. c_req[r].model \in ChatModels /\ CMemory /\ c_page \in CPage BY <1>1 DEF CTypes, CReq
<1>4. CMemory' BY <1>3 DEF CMemory, C!Rewrite, C!Rewrites, C!Asks, C!memory
<1>5. CAt[r] = "ask" /\ "save" \in CStage BY CStages DEF C!Rewrite, CStage
<1> QED BY <1>2, <1>3, <1>4, <1>5, CSteps DEF C!Rewrite, C!tables

LEMMA CEndStream ==
    ASSUME CInv, NEW r \in C!Sends, C!EndStream(r)
    PROVE  CInv'
<1>1. CTypes BY CInvs
<1>2. c_used' \in CUsed BY <1>1, CUses DEF C!EndStream
<1>3. CMemory /\ c_page \in CPage BY <1>1 DEF CTypes
<1>4. CMemory' BY <1>3 DEF CMemory, C!EndStream, C!memory
<1>5. CAt[r] = "stream" /\ "close" \in CStage BY CStages DEF C!EndStream, CStage
<1>6. /\ c_page' \in CPage /\ c_page'.active = c_page.active
      /\ c_page'.shown = c_page.shown /\ c_page'.blank = c_page.blank
  BY <1>3 DEF C!EndStream, CPage
<1> QED BY <1>2, <1>4, <1>5, <1>6, CSteps DEF C!EndStream, C!tables

LEMMA CModelFails ==
    ASSUME CInv, NEW r \in C!Sends, C!ModelFails(r)
    PROVE  CInv'
<1>1. CTypes BY CInvs
<1>2. c_used' \in CUsed BY <1>1, CUses DEF C!ModelFails
<1>3. CAt[r] \in {"save", "model", "stream"} BY CStages DEF C!ModelFails
<1> QED BY <1>2, <1>3, CErrs DEF C!ModelFails, C!tables, C!memory

\* A message is stored by a request.
LEMMA CSaves ==
    ASSUME CInv, NEW r \in C!Sends, NEW k \in {"user", "assistant"}, NEW at \in CStage,
           \/ k = "user" /\ CAt[r] = "save" /\ at = "model"
           \/ k = "assistant" /\ CAt[r] = "close" /\ at \in {"title", "over"},
           c_session[c_req[r].sid] = "there", C!To(r, at), C!Stores(r, k),
           UNCHANGED <<c_session, c_titled, c_page, c_loads, c_loaded, c_leaving, c_hints, c_failed, c_mixed>>,
           c_used' \in CUsed
    PROVE  CInv'
<1>1. CTypes /\ CParts /\ C!AnswersFollowQuestions /\ CViewed BY CInvs, CViews
<1>2. /\ c_req' \in [C!Sends -> CReq] /\ CAt' = [CAt EXCEPT ![r] = at]
      /\ CSid' = CSid /\ CCtx' = CCtx
  BY <1>1, CTo
<1>3. c_session[CSid[r]] = "there" BY CStages
<1>4. CSid[r] \in C!Sessions BY <1>1, CNumbers DEF CViewed, CParts, CRows
<1>5. k = "assistant" => <<"user", r>> \in CStored[CSid[r]] BY <1>1, <1>3 DEF CParts, CSaid, CAskedStored
<1>6. /\ c_stored' \in [C!Sessions -> Seq(C!Message)]
      /\ CStored' = [CStored EXCEPT ![CSid[r]] = @ \cup {<<k, r>>}]
      /\ C!AnswersFollowQuestions'
  BY <1>4, <1>5, CKeeps
<1>7. UNCHANGED <<CActive, CShown, CBlank>> BY CPageStays
<1>8. CParts' BY <1>1, <1>2, <1>3, <1>6, <1>7, CStores
<1>9. CTypes' BY <1>1, <1>2, <1>6 DEF CTypes, CTables, CMemory, CHistory
<1> QED BY <1>6, <1>8, <1>9, CInvsNext

LEMMA CSaveUser ==
    ASSUME CInv, NEW r \in C!Sends, C!SaveUser(r)
    PROVE  CInv'
<1>1. CTypes BY CInvs
<1>2. c_used' \in CUsed BY <1>1, CUses DEF C!SaveUser
<1>3. CAt[r] = "save" /\ "model" \in CStage BY CStages DEF C!SaveUser, CStage
<1>4. UNCHANGED <<c_session, c_titled, c_loads, c_loaded, c_leaving, c_hints, c_mixed>> BY DEF C!SaveUser, C!memory
<1>5. CASE c_session[c_req[r].sid] = "there"
  <2>1. C!To(r, "model") /\ C!Stores(r, "user") /\ UNCHANGED <<c_page, c_failed>> BY <1>5 DEF C!SaveUser
  <2> QED BY <1>2, <1>3, <1>4, <1>5, <2>1, CSaves
<1>6. CASE c_session[c_req[r].sid] # "there"
  <2>1. C!Error(r) /\ UNCHANGED c_stored BY <1>6 DEF C!SaveUser
  <2> QED BY <1>2, <1>3, <1>4, <2>1, CErrs
<1> QED BY <1>5, <1>6

LEMMA CFirstChunk ==
    ASSUME CInv, NEW r \in C!Sends, C!FirstChunk(r)
    PROVE  CInv'
<1>1. CTypes /\ CParts /\ C!AnswersFollowQuestions /\ CViewed BY CInvs, CViews
<1>2. c_used' \in CUsed BY <1>1, CUses DEF C!FirstChunk
<1>3. CAt[r] = "model" BY CStages DEF C!FirstChunk
<1>4. /\ c_req' \in [C!Sends -> CReq] /\ CAt' = [CAt EXCEPT ![r] = "stream"]
      /\ CSid' = CSid /\ CCtx' = CCtx
  BY <1>1, CTo DEF CStage, C!FirstChunk
<1>5. /\ Append(c_page.shown, <<"assistant", r>>) \in Seq(C!Message)
      /\ CIn(Append(c_page.shown, <<"assistant", r>>)) = CShown \cup {<<"assistant", r>>}
  BY <1>1, CAdds DEF CKind
<1>6. c_page \in CPage /\ c_req[r].model \in ChatModels /\ CMemory BY <1>1 DEF CTypes, CReq
<1>7. c_page' = [c_page EXCEPT !.shown = Append(c_page.shown, <<"assistant", r>>), !.waits = FALSE] BY DEF C!FirstChunk
<1>8. /\ c_page' \in CPage /\ c_page'.active = c_page.active /\ c_page'.blank = c_page.blank
      /\ c_page'.shown = Append(c_page.shown, <<"assistant", r>>)
  BY <1>5, <1>6, <1>7 DEF CPage
<1>9. CActive' = CActive /\ CShown' = CShown \cup {<<"assistant", r>>} /\ CBlank' = CBlank
  BY <1>5, <1>8 DEF CActive, CShown, CBlank, CIn
<1>10. CMemory' BY <1>6 DEF CMemory, C!FirstChunk, C!Asks
<1>11. UNCHANGED <<c_session, c_stored, c_titled, c_loads, c_failed, c_mixed>> BY DEF C!FirstChunk, C!tables
<1>12. UNCHANGED CStored BY <1>11, CStoredStays
<1>13. CParts' BY <1>1, <1>3, <1>4, <1>9, <1>11, <1>12, CBegins
<1>14. C!AnswersFollowQuestions' BY <1>1, <1>11, COrder, COrderNext
<1>15. CTypes' BY <1>1, <1>2, <1>4, <1>8, <1>10, <1>11 DEF CTypes, CTables, CHistory
<1> QED BY <1>13, <1>14, <1>15, CInvsNext

\* Requests that end without a word.
LEMMA COver ==
    ASSUME CInv, NEW r \in C!Sends, CAt[r] \in {"close", "title"}, C!To(r, "over"),
           c_failed' = c_failed \cup ({r} \cap CUnder), c_titled' \subseteq C!Sessions,
           UNCHANGED <<c_session, c_stored, c_page, c_loads, c_mixed>>, CMemory', c_used' \in CUsed
    PROVE  CInv'
<1>1. CTypes /\ CParts /\ C!AnswersFollowQuestions /\ CViewed BY CInvs, CViews
<1>2. /\ c_req' \in [C!Sends -> CReq] /\ CAt' = [CAt EXCEPT ![r] = "over"]
      /\ CSid' = CSid /\ CCtx' = CCtx
  BY <1>1, CTo DEF CStage
<1>3. CAt' = [q \in C!Sends |-> IF q \in {r} THEN "over" ELSE CAt[q]] BY <1>1, <1>2 DEF CViewed
<1>4. UNCHANGED <<CActive, CShown, CBlank, CStored>> BY CPageStays, CStoredStays
<1>5. CParts'
  <2>1. PICK F \in SUBSET C!Sends : F = {r} OBVIOUS
  <2> QED BY <1>1, <1>2, <1>3, <1>4, <2>1, CEnds
<1>6. C!AnswersFollowQuestions' BY <1>1, COrder, COrderNext
<1>7. CTypes' BY <1>1, <1>2 DEF CTypes, CTables, CHistory
<1> QED BY <1>5, <1>6, <1>7, CInvsNext

LEMMA CSaveAnswer ==
    ASSUME CInv, NEW r \in C!Sends, C!SaveAnswer(r)
    PROVE  CInv'
<1>1. CTypes BY CInvs
<1>2. c_used' \in CUsed BY <1>1, CUses DEF C!SaveAnswer
<1>3. CAt[r] = "close" /\ {r} \cap CUnder = {r} BY CStages DEF C!SaveAnswer, CUnder
<1>4. UNCHANGED <<c_session, c_titled, c_page, c_loads, c_loaded, c_leaving, c_hints, c_mixed>>
  BY DEF C!SaveAnswer, C!memory
<1>5. CMemory' /\ c_titled' \subseteq C!Sessions BY <1>1, <1>4 DEF CTypes, CMemory, CTables
<1>6. CASE C!To(r, "over") /\ c_failed' = c_failed \cup {r} /\ UNCHANGED c_stored
  BY <1>2, <1>3, <1>4, <1>5, <1>6, COver
<1>7. CASE /\ c_session[c_req[r].sid] = "there" /\ C!Stores(r, "assistant") /\ UNCHANGED c_failed
           /\ C!To(r, IF Len(c_stored[c_req[r].sid]) + 1 <= 2 THEN "title" ELSE "over")
  <2>1. PICK at \in {"title", "over"} : C!To(r, at)
    <3>1. CASE Len(c_stored[c_req[r].sid]) + 1 <= 2 BY <1>7, <3>1
    <3>2. CASE ~(Len(c_stored[c_req[r].sid]) + 1 <= 2) BY <1>7, <3>2
    <3> QED BY <3>1, <3>2
  <2>2. at \in CStage BY DEF CStage
  <2> QED BY <1>2, <1>3, <1>4, <1>7, <2>1, <2>2, CSaves
<1> QED BY <1>6, <1>7 DEF C!SaveAnswer

LEMMA CTitle ==
    ASSUME CInv, NEW r \in C!Sends, C!Title(r)
    PROVE  CInv'
<1>1. CTypes /\ CParts /\ CViewed BY CInvs, CViews
<1>2. c_used' \in CUsed BY <1>1, CUses DEF C!Title
<1>3. CAt[r] = "title" /\ {r} \cap CUnder = {} BY CStages DEF C!Title, CUnder
<1>4. CSid[r] \in C!Sessions /\ CSid[r] = c_req[r].sid BY <1>1, <1>3, CNumbers, CStages DEF CViewed, CParts, CRows
<1>5. c_titled' \subseteq C!Sessions BY <1>1, <1>4 DEF C!Title, CTypes, CTables
<1>6. c_req[r].model \in ChatModels /\ CMemory BY <1>1 DEF CTypes, CReq
<1>7. CMemory' BY <1>6 DEF CMemory, C!Title, C!Asks
<1> QED BY <1>2, <1>3, <1>5, <1>7, COver DEF C!Title

\* All requests end.
LEMMA CServerDies ==
    ASSUME CInv, C!ServerDies
    PROVE  CInv'
<1>1. CTypes /\ CParts /\ C!AnswersFollowQuestions /\ CViewed BY CInvs, CViews
<1>2. c_used' \in CUsed BY <1>1, CUses DEF C!ServerDies
<1>3. UNCHANGED <<c_session, c_stored, c_titled, c_loaded, c_leaving, c_mixed>> /\ c_loads' = {}
  BY DEF C!ServerDies, C!tables
<1>4. PICK F \in SUBSET C!Sends : F = {q \in C!Sends : CAt[q] \notin {"none", "over"}} OBVIOUS
<1>5. c_req \in [C!Sends -> CReq] /\ c_page \in CPage BY <1>1 DEF CTypes
<1>6. \A q \in C!Sends : [c_req[q] EXCEPT !.at = "over"] \in CReq BY <1>5 DEF CReq, CStage
<1>7. /\ c_req' = [q \in C!Sends |-> IF c_req[q].at \in {"none", "over"} THEN c_req[q] ELSE [c_req[q] EXCEPT !.at = "over"]]
      /\ c_req' \in [C!Sends -> CReq]
  BY <1>5, <1>6 DEF C!ServerDies
<1>8. \A q \in C!Sends : /\ c_req'[q].at = IF q \in F THEN "over" ELSE c_req[q].at
                         /\ c_req'[q].sid = c_req[q].sid /\ c_req'[q].ctx = c_req[q].ctx
  <2> SUFFICES ASSUME NEW q \in C!Sends
               PROVE  /\ c_req'[q].at = IF q \in F THEN "over" ELSE c_req[q].at
                      /\ c_req'[q].sid = c_req[q].sid /\ c_req'[q].ctx = c_req[q].ctx
    OBVIOUS
  <2>1. c_req[q] \in CReq /\ c_req[q].at = CAt[q] BY <1>5, CStages
  <2>2. CASE q \in F
    <3>1. c_req'[q] = [c_req[q] EXCEPT !.at = "over"] BY <1>4, <1>7, <2>1, <2>2
    <3> QED BY <2>1, <2>2, <3>1 DEF CReq
  <2>3. CASE q \notin F
    <3>1. c_req'[q] = c_req[q] BY <1>4, <1>7, <2>1, <2>3
    <3> QED BY <2>3, <3>1
  <2> QED BY <2>2, <2>3
<1>9. CAt' = [q \in C!Sends |-> IF q \in F THEN "over" ELSE CAt[q]]
  <2>1. \A q \in C!Sends : c_req'[q].at = IF q \in F THEN "over" ELSE CAt[q] BY <1>8, CStages
  <2>2. [q \in C!Sends |-> c_req'[q].at] = [q \in C!Sends |-> IF q \in F THEN "over" ELSE CAt[q]] BY <2>1
  <2>3. CAt' = [q \in C!Sends |-> c_req'[q].at] BY DEF CAt
  <2> QED BY <2>2, <2>3
<1>10. CSid' = CSid /\ CCtx' = CCtx BY <1>8 DEF CSid, CCtx
<1>11. F \cap CUnder = CUnder BY <1>4 DEF CUnder
<1>12. c_failed' = c_failed \cup (F \cap CUnder) BY <1>11, CWays DEF C!ServerDies
<1>13. PICK X : X = {<<"error", q>> : q \in {p \in CUnder : CAt[p] \in {"ask", "save", "model"}}} OBVIOUS
<1>14. X = {<<"error", q>> : q \in {p \in C!UnderWay : c_req[p].at \in {"ask", "save", "model"}}}
  <2>1. {p \in CUnder : CAt[p] \in {"ask", "save", "model"}} = {p \in C!UnderWay : c_req[p].at \in {"ask", "save", "model"}}
    BY CWays, CStages DEF CUnder
  <2> QED BY <1>13, <2>1
<1>15. X \subseteq C!Message /\ X \subseteq {<<"error", q>> : q \in {p \in F : CAt[p] \notin {"create", "title"}}}
  BY <1>4, <1>13 DEF C!Message, CUnder
<1>16. IsFiniteSet(X)
  <2>1. IsFiniteSet(C!Sends) BY Bounds, FS_Interval DEF C!Sends
  <2> DEFINE Y == {p \in CUnder : CAt[p] \in {"ask", "save", "model"}}
  <2>2. Y \subseteq C!Sends BY DEF CUnder
  <2>3. IsFiniteSet(Y) BY <2>1, <2>2, FS_Subset
  <2> DEFINE f == [q \in Y |-> <<"error", q>>]
  <2>4. X = {f[q] : q \in Y} BY <1>13
  <2> HIDE DEF f
  <2>5. f \in Surjection(Y, X)
    <3>1. f \in [Y -> X] BY <1>13 DEF f
    <3>2. \A x \in X : \E q \in Y : f[q] = x BY <2>4
    <3> QED BY <3>1, <3>2 DEF Surjection
  <2> QED BY <2>3, <2>5, FS_Surjection
<1>17. \A E \in SUBSET X : C!SetToSeq(E) \in Seq(C!Message) /\ CIn(C!SetToSeq(E)) \subseteq X
  <2> TAKE E \in SUBSET X
  <2>1. C!SetToSeq(E) \in Seq(E)
    <3>1. IsFiniteSet(E) BY <1>16, FS_Subset
    <3> QED BY <3>1, CListed
  <2>2. CIn(C!SetToSeq(E)) \subseteq E BY <2>1, CInType
  <2>3. E \subseteq C!Message BY <1>15
  <2>4. C!SetToSeq(E) \in Seq(C!Message) BY <2>1, <2>3, SeqMonotonic
  <2> QED BY <2>2, <2>4
<1>18. c_page.shown \in Seq(C!Message) BY <1>5 DEF CPage
<1>19. UNCHANGED CStored BY <1>3, CStoredStays
<1>20. C!AnswersFollowQuestions' BY <1>1, <1>3, COrder, COrderNext
<1>21. c_failed' \subseteq C!Sends BY <1>1, <1>12 DEF CTypes, CHistory
<1>22. CMemory' /\ c_loads' \subseteq C!Sessions \X ChatModels
  <2>1. \A l \in c_loads : l[2] \in ChatModels BY <1>1 DEF CTypes
  <2>2. c_hints' \subseteq ChatModels BY <1>1, <2>1 DEF C!ServerDies, CTypes, CMemory
  <2> QED BY <1>1, <1>3, <2>2 DEF CTypes, CMemory
<1>23. ASSUME c_page' \in CPage, CParts'
       PROVE  CInv'
  <2>1. CTypes' BY <1>1, <1>2, <1>3, <1>7, <1>21, <1>22, <1>23 DEF CTypes, CTables, CHistory
  <2> QED BY <1>20, <1>23, <2>1, CInvsNext
<1>24. \A q \in F : CAt[q] \notin {"none", "over"} BY <1>4
<1>25. CASE c_loads = {}
  <2>1. PICK t \in Seq(C!Message) : t = C!SetToSeq(X) /\ CIn(t) \subseteq X BY <1>17
  <2>2. PICK ms \in Seq(C!Message) : ms = c_page.shown \o t /\ CIn(ms) = CShown \cup CIn(t)
    <3>1. c_page.shown \o t \in Seq(C!Message) /\ CIn(c_page.shown \o t) = CIn(c_page.shown) \cup CIn(t)
      BY <1>18, CInConcat
    <3> QED BY <3>1 DEF CShown
  <2>3. c_page' = [c_page EXCEPT !.waits = FALSE, !.shown = ms] BY <1>14, <1>25, <2>1, <2>2 DEF C!ServerDies
  <2>4. c_page' \in CPage /\ c_page'.active = c_page.active /\ c_page'.shown = ms /\ c_page'.blank = c_page.blank
    BY <1>5, <2>3 DEF CPage
  <2>5. CActive' = CActive /\ CShown' = CIn(ms) /\ CBlank' = CBlank BY <2>4 DEF CActive, CShown, CBlank
  <2>6. CShown \subseteq CShown' BY <2>2, <2>5
  <2>7. CShown' \subseteq CShown \cup {<<"error", q>> : q \in {p \in F : CAt[p] \notin {"create", "title"}}}
    BY <1>15, <2>1, <2>2, <2>5
  <2>8. CParts' BY <1>1, <1>3, <1>9, <1>10, <1>12, <1>19, <1>24, <1>25, <2>5, <2>6, <2>7, CEnds
  <2> QED BY <1>23, <2>4, <2>8
<1>26. CASE c_loads # {}
  <2>1. PICK E \in SUBSET X : c_page' = [c_page EXCEPT !.waits = FALSE, !.shown = C!SetToSeq(E), !.blank = TRUE]
    BY <1>14, <1>26 DEF C!ServerDies
  <2>2. PICK t \in Seq(C!Message) : t = C!SetToSeq(E) /\ CIn(t) \subseteq X BY <1>17
  <2>3. c_page' \in CPage /\ c_page'.active = c_page.active /\ c_page'.shown = t /\ c_page'.blank = TRUE
    BY <1>5, <2>1, <2>2 DEF CPage
  <2>4. CActive' = CActive /\ CShown' = CIn(t) /\ CBlank' BY <2>3 DEF CActive, CShown, CBlank
  <2>5. CShown' \subseteq {<<"error", q>> : q \in {p \in F : CAt[p] \notin {"create", "title"}}}
    BY <1>15, <2>2, <2>4
  <2>6. CParts' BY <1>1, <1>3, <1>9, <1>10, <1>12, <1>19, <1>24, <1>26, <2>4, <2>5, CMisses
  <2> QED BY <1>23, <2>3, <2>6
<1> QED BY <1>25, <1>26

\* The page leaves its session.
LEMMA CLeaves ==
    ASSUME CInv, c_page' \in CPage, c_page'.active = 0, c_page'.shown = <<>>, C!Changes,
           \/ UNCHANGED <<c_stored, c_session>>
           \/ /\ c_session' = [s \in C!Sessions |-> IF c_session[s] = "there" THEN "gone" ELSE c_session[s]]
              /\ c_stored' = [s \in C!Sessions |-> <<>>],
           UNCHANGED <<c_titled, c_req, c_loads, c_failed>>, CMemory', c_used' \in CUsed
    PROVE  CInv'
<1>1. CTypes /\ CParts /\ C!AnswersFollowQuestions /\ CViewed BY CInvs, CViews
<1>2. UNCHANGED <<CAt, CSid, CCtx>> BY CReqStays
<1>3. CActive' = 0 /\ CShown' = {} BY CInEmpty DEF CActive, CShown
<1>4. c_mixed' = (c_mixed \/ CUnder # {} \/ c_loads # {}) BY CWays DEF C!Changes, C!Busy
<1>5. CASE UNCHANGED <<c_stored, c_session>>
  <2>1. UNCHANGED CStored BY <1>5, CStoredStays
  <2>2. CParts' BY <1>1, <1>2, <1>3, <1>4, <1>5, <2>1, CClears
  <2>3. C!AnswersFollowQuestions' BY <1>1, <1>5, COrder, COrderNext
  <2>4. c_mixed' \in BOOLEAN BY <1>4
  <2>5. CTypes' BY <1>1, <1>5, <2>4 DEF CTypes, CTables, CHistory
  <2> QED BY <2>2, <2>3, <2>5, CInvsNext
<1>6. CASE /\ c_session' = [s \in C!Sessions |-> IF c_session[s] = "there" THEN "gone" ELSE c_session[s]]
           /\ c_stored' = [s \in C!Sessions |-> <<>>]
  <2>1. CStored' = [s \in C!Sessions |-> {}]
    <3>1. \A s \in C!Sessions : CIn(c_stored'[s]) = {} BY <1>6, CInEmpty
    <3>2. CStored' = [s \in C!Sessions |-> CIn(c_stored'[s])] BY DEF CStored, CIn
    <3> QED BY <3>1, <3>2
  <2>2. CParts' BY <1>1, <1>2, <1>3, <1>4, <1>6, <2>1, CClears
  <2>3. CAnswered(<<>>) BY EmptySeq DEF CAnswered
  <2>4. C!AnswersFollowQuestions' BY <1>6, <2>3, COrderNext
  <2>5. c_mixed' \in BOOLEAN BY <1>4
  <2>6. c_session' \in [C!Sessions -> {"none", "there", "gone"}] BY <1>1, <1>6 DEF CTypes, CTables
  <2>7. c_stored' \in [C!Sessions -> Seq(C!Message)]
    <3>1. <<>> \in Seq(C!Message) BY EmptySeq
    <3> QED BY <1>6, <3>1
  <2>8. CTypes' BY <1>1, <2>5, <2>6, <2>7 DEF CTypes, CTables, CHistory
  <2> QED BY <2>2, <2>4, <2>8, CInvsNext
<1> QED BY <1>5, <1>6

LEMMA CCleared ==
    ASSUME CTypes
    PROVE  /\ C!Cleared \in CPage /\ C!Cleared.active = 0 /\ C!Cleared.shown = <<>>
           /\ \A m \in ChatModels : LET p == [C!Cleared EXCEPT !.model = m, !.pending = {}]
                                    IN p \in CPage /\ p.active = 0 /\ p.shown = <<>>
<1>1. c_page \in CPage BY DEF CTypes
<1>2. <<>> \in Seq(C!Message) /\ 0 \in 0 .. ChatSessions BY EmptySeq, Bounds
<1> QED BY <1>1, <1>2 DEF CPage, C!Cleared

LEMMA CLeave ==
    ASSUME CInv, C!NewChat \/ C!ConfirmSwitch \/ C!DeleteAll
    PROVE  CInv'
<1>1. CTypes BY CInvs
<1>2. c_used' \in CUsed BY <1>1, CUses DEF C!NewChat, C!ConfirmSwitch, C!DeleteAll
<1>3. CMemory /\ c_page \in CPage BY <1>1 DEF CTypes
<1>4. CASE C!NewChat
  <2>1. CMemory' BY <1>3, <1>4 DEF C!NewChat, C!memory, CMemory
  <2>2. c_page' \in CPage /\ c_page'.active = 0 /\ c_page'.shown = <<>> BY <1>1, <1>4, CCleared DEF C!NewChat
  <2> QED BY <1>2, <1>4, <2>1, <2>2, CLeaves DEF C!NewChat, C!tables
<1>5. CASE C!ConfirmSwitch
  <2>1. PICK m \in c_page.pending : /\ c_page' = [C!Cleared EXCEPT !.model = m, !.pending = {}]
                                    /\ c_hints' = c_hints \cup {m}
    BY <1>5 DEF C!ConfirmSwitch
  <2>2. m \in ChatModels BY <1>3, <2>1 DEF CPage
  <2>3. c_page' \in CPage /\ c_page'.active = 0 /\ c_page'.shown = <<>> BY <1>1, <2>1, <2>2, CCleared
  <2>4. CMemory' BY <1>3, <1>5, <2>1, <2>2 DEF C!ConfirmSwitch, CMemory
  <2> QED BY <1>2, <1>5, <2>3, <2>4, CLeaves DEF C!ConfirmSwitch, C!tables
<1>6. CASE C!DeleteAll
  <2>1. CMemory' BY <1>3, <1>6 DEF C!DeleteAll, C!memory, CMemory
  <2>2. c_page' \in CPage /\ c_page'.active = 0 /\ c_page'.shown = <<>> BY <1>1, <1>6, CCleared DEF C!DeleteAll
  <2> QED BY <1>2, <1>6, <2>1, <2>2, CLeaves DEF C!DeleteAll
<1> QED BY <1>4, <1>5, <1>6

LEMMA CSelect ==
    ASSUME CInv, NEW s \in C!Sessions, C!Select(s)
    PROVE  CInv'
<1>1. CTypes /\ CParts /\ C!AnswersFollowQuestions /\ CViewed BY CInvs, CViews
<1>2. c_used' \in CUsed BY <1>1, CUses DEF C!Select
<1>3. UNCHANGED <<c_session, c_stored, c_titled, c_req, c_loaded, c_leaving, c_hints, c_failed>>
  BY DEF C!Select, C!tables, C!memory
<1>4. c_page \in CPage /\ s \in 0 .. ChatSessions BY <1>1, CNumbers DEF CTypes
<1>5. c_page' = [c_page EXCEPT !.active = s] BY DEF C!Select
<1>6. c_page' \in CPage /\ c_page'.active = s /\ c_page'.shown = c_page.shown BY <1>4, <1>5 DEF CPage
<1>7. CActive' = s /\ CShown' = CShown BY <1>6 DEF CActive, CShown
<1>8. UNCHANGED <<CAt, CSid, CCtx, CStored>> BY <1>3, CReqStays, CStoredStays
<1>9. c_mixed' = (c_mixed \/ CUnder # {} \/ c_loads # {}) BY CWays DEF C!Select, C!Changes, C!Busy
<1>10. PICK m \in ChatModels : c_session[s] # "none" /\ c_loads' = c_loads \cup {<<s, m>>}
  BY <1>4 DEF C!Select, C!Selectable, CPage
<1>11. CParts' BY <1>1, <1>3, <1>7, <1>8, <1>9, <1>10, CSelects
<1>12. C!AnswersFollowQuestions' BY <1>1, <1>3, COrder, COrderNext
<1>13. c_mixed' \in BOOLEAN BY <1>9
<1>14. CTypes' BY <1>1, <1>2, <1>3, <1>6, <1>10, <1>13 DEF CTypes, CTables, CMemory, CHistory
<1> QED BY <1>11, <1>12, <1>14, CInvsNext

LEMMA CLoaded ==
    ASSUME CInv, NEW l \in c_loads, C!Loaded(l)
    PROVE  CInv'
<1>1. CTypes /\ CParts /\ C!AnswersFollowQuestions /\ CViewed BY CInvs, CViews
<1>2. c_used' \in CUsed BY <1>1, CUses DEF C!Loaded
<1>3. UNCHANGED <<c_session, c_stored, c_titled, c_req, c_loaded, c_leaving, c_failed, c_mixed>>
  BY DEF C!Loaded, C!tables
<1>4. c_page \in CPage /\ l[1] \in C!Sessions /\ l[2] \in ChatModels BY <1>1 DEF CTypes, CPage
<1>5. UNCHANGED <<CAt, CSid, CCtx, CStored>> BY <1>3, CReqStays, CStoredStays
<1>6. c_loads' = c_loads \ {l} BY DEF C!Loaded
<1>7. C!AnswersFollowQuestions' BY <1>1, <1>3, COrder, COrderNext
<1>8. ASSUME c_page' \in CPage, CParts', NEW m \in ChatModels, c_hints' = c_hints \cup {m}
      PROVE  CInv'
  <2>1. CMemory' BY <1>1, <1>3, <1>8 DEF CTypes, CMemory
  <2>2. CTypes' BY <1>1, <1>2, <1>3, <1>6, <1>8, <2>1 DEF CTypes, CTables, CHistory
  <2> QED BY <1>7, <1>8, <2>2, CInvsNext
<1>9. CASE /\ c_session[l[1]] = "there" /\ c_hints' = c_hints \cup {C!ModelOf(l[1])}
           /\ c_page' = [c_page EXCEPT !.shown = c_stored[l[1]], !.blank = FALSE, !.model = C!ModelOf(l[1])]
  <2>1. C!ModelOf(l[1]) \in ChatModels BY <1>4, <1>9, CModelOf
  <2>2. c_stored[l[1]] \in Seq(C!Message) BY <1>1, <1>4 DEF CTypes, CTables
  <2>3. c_page' \in CPage /\ c_page'.active = c_page.active /\ c_page'.shown = c_stored[l[1]]
    BY <1>4, <1>9, <2>1, <2>2 DEF CPage
  <2>4. CActive' = CActive /\ CShown' = CStored[l[1]] BY <1>4, <2>3 DEF CActive, CShown, CStored
  <2>5. CParts' BY <1>1, <1>3, <1>5, <1>6, <2>4, CLoads
  <2> QED BY <1>8, <1>9, <2>1, <2>3, <2>5
<1>10. CASE c_page' = [c_page EXCEPT !.shown = <<>>, !.blank = TRUE] /\ c_hints' = c_hints \cup {l[2]}
  <2>1. c_page' \in CPage /\ c_page'.active = c_page.active /\ c_page'.shown = <<>> /\ c_page'.blank = TRUE
    BY <1>4, <1>10, EmptySeq DEF CPage
  <2>2. CActive' = CActive /\ CShown' = {} /\ CBlank' BY <2>1, CInEmpty DEF CActive, CShown, CBlank
  <2>3. CParts'
    <3>1. PICK F \in SUBSET C!Sends : F = {} OBVIOUS
    <3>2. CAt' = [q \in C!Sends |-> IF q \in F THEN "over" ELSE CAt[q]] BY <1>1, <1>5, <3>1 DEF CViewed
    <3> QED BY <1>1, <1>3, <1>5, <1>6, <2>2, <3>1, <3>2, CMisses
  <2> QED BY <1>4, <1>8, <1>10, <2>1, <2>3
<1> QED BY <1>9, <1>10 DEF C!Loaded

LEMMA CStarts == C!Init => CInv
<1> SUFFICES ASSUME C!Init PROVE CInv OBVIOUS
<1>1. 0 \in 0 .. ChatSessions /\ 0 \in 0 .. ChatMoves /\ 0 \in 0 .. MaxFaults /\ Largest \in ChatModels
  BY Bounds, MCAssistantAssumption
<1>2. <<>> \in Seq(C!Message) BY EmptySeq
<1>3. C!NoReq \in CReq /\ C!NoReq.at = "none" /\ C!NoReq.sid = 0 /\ C!NoReq.ctx = {} BY <1>1 DEF C!NoReq, CReq, CStage
<1>4. c_req \in [C!Sends -> CReq] /\ \A r \in C!Sends : c_req[r] = C!NoReq BY <1>3 DEF C!Init
<1>5. PICK m \in ChatModels :
         /\ c_page = [active |-> 0, shown |-> <<>>, waits |-> FALSE, blank |-> FALSE, model |-> m, pending |-> {}]
         /\ c_hints = {m}
  BY DEF C!Init
<1>6. c_page \in CPage /\ c_page.active = 0 /\ c_page.shown = <<>> BY <1>1, <1>2, <1>5 DEF CPage
<1>7. c_stored = [s \in C!Sessions |-> <<>>] /\ c_stored \in [C!Sessions -> Seq(C!Message)] BY <1>2 DEF C!Init
<1>8. c_used \in CUsed BY <1>1 DEF C!Init, CUsed
<1>9. /\ c_session = [s \in C!Sessions |-> "none"] /\ c_titled = {} /\ c_loads = {}
      /\ c_loaded = {} /\ c_leaving = {} /\ c_failed = {} /\ c_mixed = FALSE
  BY DEF C!Init
<1>10. CTypes BY <1>4, <1>5, <1>6, <1>7, <1>8, <1>9 DEF CTypes, CTables, CMemory, CHistory
<1>11. CActive = 0 /\ CShown = {} /\ \A s \in C!Sessions : CStored[s] = {}
  BY <1>6, <1>7, CInEmpty DEF CActive, CShown, CStored
<1>12. \A r \in C!Sends : CAt[r] = "none" /\ CSid[r] = 0 /\ CCtx[r] = {} BY <1>3, <1>4, CStages
<1>13. CRows BY <1>9, <1>11, <1>12 DEF CRows
<1>14. CSaid BY <1>9, <1>11, <1>12 DEF CSaid, CShownSaid, CStoredSaid, CSentSaid, CAskedStored
<1>15. CCalm /\ CFits /\ COwn BY <1>9, <1>11, <1>12 DEF CCalm, CFits, COwn, CUnder
<1>16. \A s \in C!Sessions : CAnswered(c_stored[s]) BY <1>7, EmptySeq DEF CAnswered
<1> QED BY <1>10, <1>13, <1>14, <1>15, <1>16, COrder, CInvs DEF CParts

LEMMA CStep ==
    ASSUME CInv, C!Next \/ UNCHANGED chat
    PROVE  CInv'
<1>0. Largest \in ChatModels BY MCAssistantAssumption
<1>1. CASE C!Next
  <2>1. CASE \E r \in C!Sends : C!Send(r) \/ C!Answers(r)
    BY <2>1, CSend, CCreated, CRewrite, CSaveUser, CFirstChunk, CModelFails, CEndStream, CSaveAnswer, CTitle
       DEF C!Answers
  <2>2. CASE (\E s \in C!Sessions : C!Select(s)) \/ (\E l \in c_loads : C!Loaded(l)) BY <2>2, CSelect, CLoaded
  <2>3. CASE \/ \E m \in ChatModels : C!PickModel(m) \/ C!Unload(m) \/ C!Evict(m)
             \/ C!Suggest \/ C!CancelSwitch
    BY <1>0, <2>3, CModels
  <2>4. CASE C!NewChat \/ C!DeleteAll \/ C!ConfirmSwitch BY <2>4, CLeave
  <2>5. CASE C!ServerDies BY <2>5, CServerDies
  <2> QED BY <1>1, <2>1, <2>2, <2>3, <2>4, <2>5 DEF C!Next
<1>2. CASE UNCHANGED chat
  <2>1. /\ UNCHANGED <<c_session, c_stored, c_titled, c_req, c_loads, c_failed, c_mixed>>
        /\ UNCHANGED <<c_page, c_loaded, c_leaving, c_hints, c_used>>
    BY <1>2 DEF chat
  <2>2. CTypes BY CInvs
  <2>3. c_page' \in CPage /\ CMemory' /\ c_used' \in CUsed BY <2>1, <2>2 DEF CTypes, CMemory, CHistory
  <2> QED BY <2>1, <2>3, CQuiet
<1> QED BY <1>1, <1>2

\* The page shows what is stored.
LEMMA CShowsStored == CInv => C!ShownIsStored
<1> SUFFICES ASSUME CInv, ~C!Busy, ~c_mixed, c_page.active # 0
             PROVE  LET Shown == {m \in C!ToSet(c_page.shown) : m[2] \notin c_failed}
                        Stored == {m \in C!ToSet(c_stored[c_page.active]) : m[2] \notin c_failed}
                    IN  Shown \subseteq Stored /\ (~c_page.blank => Shown = Stored)
  BY DEF C!ShownIsStored
<1>1. CTypes /\ CParts /\ CViewed BY CInvs, CViews
<1>2. CUnder = {} /\ c_loads = {} BY CWays DEF C!Busy
<1>3. CActive # 0 /\ CActive = c_page.active BY DEF CActive
<1>4. CActive \in C!Sessions BY <1>1, <1>3, CNumbers DEF CViewed
<1>5. C!ToSet(c_page.shown) = CShown /\ C!ToSet(c_stored[c_page.active]) = CStored[CActive]
  BY <1>3, <1>4 DEF C!ToSet, CShown, CIn, CStored
<1>6. CFits BY <1>1 DEF CParts
<1>7. \A k \in {"user", "assistant"}, q \in C!Sends \ c_failed :
         /\ <<k, q>> \in CShown => <<k, q>> \in CStored[CActive]
         /\ ~CBlank /\ <<k, q>> \in CStored[CActive] => <<k, q>> \in CShown
  BY <1>2, <1>3, <1>6 DEF CFits, CUnder, CHas
<1>8. \A q \in C!Sends \ c_failed : <<"error", q>> \notin CShown /\ <<"error", q>> \notin CStored[CActive]
  BY <1>1, <1>4 DEF CParts, CSaid, CShownSaid, CStoredSaid, CKind
<1>9. \A k \in CKind, q \in C!Sends \ c_failed :
         /\ <<k, q>> \in CShown => <<k, q>> \in CStored[CActive]
         /\ ~CBlank /\ <<k, q>> \in CStored[CActive] => <<k, q>> \in CShown
  BY <1>7, <1>8 DEF CKind
<1>10. CShown \subseteq CKind \X C!Sends /\ CStored[CActive] \subseteq CKind \X C!Sends BY <1>1, <1>4 DEF CViewed
<1>11. {m \in CShown : m[2] \notin c_failed} \subseteq {m \in CStored[CActive] : m[2] \notin c_failed}
  BY <1>9, <1>10
<1>12. ~CBlank => {m \in CStored[CActive] : m[2] \notin c_failed} \subseteq {m \in CShown : m[2] \notin c_failed}
  BY <1>9, <1>10
<1> QED BY <1>5, <1>11, <1>12 DEF CBlank

LEMMA CPromises ==
    CInv => C!TypeOK /\ C!ShownIsStored /\ C!AnswersFollowQuestions /\ C!ContextIsOwn
<1> SUFFICES ASSUME CInv PROVE C!TypeOK /\ C!ShownIsStored /\ C!AnswersFollowQuestions /\ C!ContextIsOwn OBVIOUS
<1>1. C!TypeOK /\ C!AnswersFollowQuestions BY DEF CInv
<1>2. C!ContextIsOwn
  <2>1. CViewed BY CInvs, CViews
  <2>2. ~c_mixed => \A r \in C!Sends : CAt[r] \notin {"none", "create"} =>
                       \A q \in CCtx[r] : q \in C!Sends /\ CSid[q] = CSid[r]
    BY <2>1 DEF CInv, COwn, CViewed
  <2> QED BY <2>2, CStages DEF C!ContextIsOwn
<1> QED BY <1>1, <1>2, CShowsStored
----------------------------------------------------------------------------
(* The wizard *)

\* What is downloaded.
SDownloads == (IF s_maps THEN {"map"} ELSE {}) \cup ({s_tier} \ {S!NoTier}) \cup s_models
\* All has gone well so far.
SWell == s_used.faults = 0

\* While the wizard processes it is on its last step.
SLast == s_finish # "no" => s_currentStep = 5 /\ ~s_done

\* Models are chosen for an assistant.
SForAi == s_models # {} => S!IsAiInSetup

\* Each group is asked for once, in its turn.
SGroups ==
    /\ s_asked \subseteq S!ServicesToInstall \cup SDownloads \cup {"none", "full"}
    /\ s_finish \in {"policy", "remote", "install"} \/ (s_finish = "no" /\ ~s_done) => s_asked = {}
    /\ SWell /\ s_finish = "download" => s_asked = S!ServicesToInstall
    /\ SWell /\ s_finish = "wikipedia" => s_asked = S!ServicesToInstall \cup SDownloads
    /\ S!NothingForgotten

\* The policy is stored before.
SPolicy ==
    s_finish \in {"remote", "install", "download", "wikipedia"} \/ s_done =>
        (S!IsAiInSetup => s_kv.policy = s_policy \/ ~SWell)

SInv == S!TypeOK /\ S!StepIsListed /\ SLast /\ SForAi /\ SGroups /\ SPolicy

SUsed == [clicks: 0 .. SetupClicks, faults: 0 .. MaxFaults]

\* The types that a step has to do with.
LEMMA SFacts ==
    ASSUME SInv
    PROVE  /\ s_used \in SUsed /\ s_used.faults \in Nat
           /\ s_currentStep \in 1 .. 5 /\ s_installed \subseteq S!Services
           /\ s_remote \in [on: BOOLEAN, url: BOOLEAN] /\ s_remote.on \in BOOLEAN /\ s_remote.url \in BOOLEAN
           /\ s_kv \in [policy: {"unset", "Always", "Manual"}, remote: BOOLEAN]
<1>1. s_used \in SUsed BY DEF SInv, S!TypeOK, SUsed
<1>2. s_used.faults \in Nat BY <1>1, Bounds DEF SUsed
<1> QED BY <1>1, <1>2 DEF SInv, S!TypeOK

\* Clicks and faults are counted up to their bounds, and a fault is remembered.
LEMMA SUses ==
    ASSUME SInv, S!Clicked \/ S!Fault \/ S!Normally
    PROVE  s_used' \in SUsed /\ (SWell' => SWell) /\ (S!Fault => ~SWell')
<1>1. s_used \in SUsed /\ s_used.clicks \in Nat /\ s_used.faults \in Nat BY SFacts, Bounds DEF SUsed
<1>2. CASE S!Clicked
  <2>1. s_used.clicks + 1 \in 0 .. SetupClicks BY <1>1, <1>2, Bounds DEF S!Clicked, SUsed
  <2>2. s_used' \in SUsed /\ s_used'.faults = s_used.faults BY <1>1, <1>2, <2>1 DEF S!Clicked, SUsed
  <2>3. s_used'.clicks = s_used.clicks + 1 BY <1>1, <1>2 DEF S!Clicked, SUsed
  <2>4. ~S!Fault
    <3>1. S!Fault => s_used'.clicks = s_used.clicks BY <1>1 DEF S!Fault, SUsed
    <3>2. s_used.clicks + 1 # s_used.clicks BY <1>1
    <3> QED BY <2>3, <3>1, <3>2
  <2> QED BY <2>2, <2>4 DEF SWell
<1>3. CASE S!Fault
  <2>1. s_used.faults + 1 \in 0 .. MaxFaults BY <1>1, <1>3, Bounds DEF S!Fault, SUsed
  <2>2. s_used' \in SUsed /\ s_used'.faults = s_used.faults + 1 BY <1>1, <1>3, <2>1 DEF S!Fault, SUsed
  <2>3. s_used'.faults # 0 BY <1>1, <2>2
  <2> QED BY <2>2, <2>3 DEF SWell
<1>4. CASE S!Normally
  <2>1. s_used' = s_used BY <1>4 DEF S!Normally
  <2>2. ~S!Fault
    <3>1. S!Fault => s_used'.faults = s_used.faults + 1 BY <1>1 DEF S!Fault, SUsed
    <3>2. s_used.faults + 1 # s_used.faults BY <1>1
    <3> QED BY <2>1, <3>1, <3>2
  <2> QED BY <1>1, <2>1, <2>2 DEF SWell
<1> QED BY <1>2, <1>3, <1>4

LEMMA SStarts == S!Init => SInv
<1> SUFFICES ASSUME S!Init PROVE SInv OBVIOUS
<1>1. s_used \in SUsed BY Bounds DEF S!Init, SUsed
<1>2. s_remote \in [on: BOOLEAN, url: BOOLEAN] /\ s_remote.on \in BOOLEAN BY DEF S!Init
<1>3. s_kv \in [policy: {"unset", "Always", "Manual"}, remote: BOOLEAN] BY <1>2 DEF S!Init
<1>5. s_installed \subseteq S!Services /\ s_currentStep \in 1 .. 5 /\ s_services \subseteq S!Services \ s_installed
  BY DEF S!Init, S!Services
<1>8. s_online \in BOOLEAN /\ s_maps \in BOOLEAN BY DEF S!Init
<1>6. s_tier \in Tiers \cup {S!NoTier} /\ s_wiki \in {"nothing", "none", "full"} /\ s_models \subseteq SetupModels
      /\ s_policy \in {"Always", "Manual"} /\ s_current \in {"nothing", "full"}
  BY DEF S!Init
<1>7. s_finish \in {"no", "policy", "remote", "install", "download", "wikipedia"} /\ s_asked = {} /\ s_done \in BOOLEAN
  BY DEF S!Init
<1>4. S!TypeOK BY <1>1, <1>2, <1>3, <1>5, <1>6, <1>7, <1>8 DEF S!TypeOK, SUsed
<1> QED BY <1>4 DEF S!Init, SInv, S!StepIsListed, S!Steps, SLast, SForAi, SGroups, SPolicy, S!NothingForgotten

\* A click on a choice keeps what is asked for and stored, and comes before the wizard processes.
LEMMA SChoosing ==
    ASSUME SInv, NEW step \in 1 .. 4, S!Choosing(step), ~s_done
    PROVE  /\ s_finish = "no" /\ s_asked = {} /\ s_currentStep = step
           /\ UNCHANGED <<s_online, s_currentStep, s_installed, s_current, s_asked, s_kv, s_done, s_finish>>
           /\ s_used' \in SUsed
<1>1. S!Clicked /\ s_currentStep = step
      /\ UNCHANGED <<s_online, s_currentStep, s_installed, s_current, s_asked, s_kv, s_done, s_finish>>
  BY DEF S!Choosing, S!Elsewhere
<1>2. s_used' \in SUsed BY <1>1, SUses
<1>3. step # 5 OBVIOUS
<1>4. s_finish = "no" BY <1>1, <1>3 DEF SInv, SLast
<1> QED BY <1>1, <1>2, <1>4 DEF SInv, SGroups

\* After one the invariant holds, if the choices are of their types and the assistant's are for one.
LEMMA SChosen ==
    ASSUME SInv, NEW step \in 1 .. 4, S!Choosing(step), ~s_done,
           s_services' \subseteq S!Services \ s_installed, s_maps' \in BOOLEAN,
           s_tier' \in Tiers \cup {S!NoTier}, s_wiki' \in {"nothing", "none", "full"},
           s_models' \subseteq SetupModels, s_policy' \in {"Always", "Manual"},
           s_remote' \in [on: BOOLEAN, url: BOOLEAN],
           SForAi', S!StepIsListed'
    PROVE  SInv'
<1>1. /\ s_finish = "no" /\ s_asked = {} /\ s_currentStep = step
      /\ UNCHANGED <<s_online, s_currentStep, s_installed, s_current, s_asked, s_kv, s_done, s_finish>>
      /\ s_used' \in SUsed
  BY SChoosing
<1>2. S!TypeOK' BY <1>1 DEF SInv, S!TypeOK, SUsed
<1>3. SLast' /\ SPolicy' BY <1>1 DEF SLast, SPolicy
<1>4. SGroups' BY <1>1 DEF SGroups, S!NothingForgotten
<1> QED BY <1>2, <1>3, <1>4 DEF SInv

LEMMA SChoose == ASSUME SInv, ~s_done, S!Choose PROVE SInv'
<1>0. S!TypeOK /\ S!StepIsListed /\ SForAi BY DEF SInv
<1>1. CASE \E s \in S!Services : S!ToggleCapability(s)
  <2>1. PICK s \in S!Services : S!ToggleCapability(s) BY <1>1
  <2>2. S!Choosing(1) /\ s \notin s_installed BY <2>1 DEF S!ToggleCapability
  <2>3. s_currentStep = 1 /\ s_currentStep' = 1 /\ s_installed' = s_installed BY <2>2, SChoosing
  <2>4. s_services' \subseteq S!Services \ s_installed BY <1>0, <2>1, <2>2 DEF S!ToggleCapability, S!TypeOK
  <2>5. s_remote' \in [on: BOOLEAN, url: BOOLEAN]
    <3>1. s_remote' = s_remote \/ s_remote' = [on |-> FALSE, url |-> FALSE] BY <2>1 DEF S!ToggleCapability
    <3>2. [on |-> FALSE, url |-> FALSE] \in [on: BOOLEAN, url: BOOLEAN] OBVIOUS
    <3>3. s_remote \in [on: BOOLEAN, url: BOOLEAN] BY <1>0 DEF S!TypeOK
    <3> QED BY <3>1, <3>2, <3>3
  <2>6. s_models' \subseteq SetupModels /\ s_policy' \in {"Always", "Manual"} /\ UNCHANGED <<s_maps, s_tier, s_wiki>>
    BY <1>0, <2>1 DEF S!ToggleCapability, S!TypeOK
  <2>7. SForAi' BY <1>0, <2>1, <2>3 DEF S!ToggleCapability, SForAi, S!IsAiInSetup
  <2>8. S!StepIsListed' BY <2>3 DEF S!StepIsListed, S!Steps
  <2>9. s_maps' \in BOOLEAN /\ s_tier' \in Tiers \cup {S!NoTier} /\ s_wiki' \in {"nothing", "none", "full"}
    BY <1>0, <2>6 DEF S!TypeOK
  <2> QED BY <2>2, <2>4, <2>5, <2>6, <2>7, <2>8, <2>9, SChosen
<1>2. CASE S!ToggleRemote \/ S!TypeUrl
  <2>2. S!Choosing(1) BY <1>2 DEF S!ToggleRemote, S!TypeUrl
  <2>3. s_currentStep = 1 /\ s_currentStep' = 1 /\ s_installed' = s_installed BY <2>2, SChoosing
  <2>4. "ollama" \in s_services /\ UNCHANGED <<s_services, s_maps, s_tier, s_wiki, s_models, s_policy>>
    BY <1>2 DEF S!ToggleRemote, S!TypeUrl
  <2>5. s_remote' \in [on: BOOLEAN, url: BOOLEAN] BY <1>0, <1>2 DEF S!ToggleRemote, S!TypeUrl, S!TypeOK
  <2>7. SForAi' BY <2>4 DEF SForAi, S!IsAiInSetup
  <2>8. S!StepIsListed' BY <2>3 DEF S!StepIsListed, S!Steps
  <2>9. /\ s_services' \subseteq S!Services \ s_installed /\ s_models' \subseteq SetupModels
        /\ s_policy' \in {"Always", "Manual"} /\ s_maps' \in BOOLEAN
        /\ s_tier' \in Tiers \cup {S!NoTier} /\ s_wiki' \in {"nothing", "none", "full"}
    BY <1>0, <2>4 DEF S!TypeOK
  <2> QED BY <2>2, <2>5, <2>7, <2>8, <2>9, SChosen
<1>3. CASE S!ToggleMapCollection \/ (\E t \in Tiers : S!HandleTierSelect(t))
           \/ (\E o \in {"none", "full"} : S!SelectWikipedia(o))
  <2>1. PICK step \in {2, 3} : S!Choosing(step)
    BY <1>3 DEF S!ToggleMapCollection, S!HandleTierSelect, S!SelectWikipedia
  <2>2. s_currentStep' = s_currentStep /\ s_installed' = s_installed BY <2>1, SChoosing
  <2>3. UNCHANGED <<s_services, s_models, s_policy, s_remote>>
    BY <1>3 DEF S!ToggleMapCollection, S!HandleTierSelect, S!SelectWikipedia
  <2>4. s_maps' \in BOOLEAN /\ s_tier' \in Tiers \cup {S!NoTier} /\ s_wiki' \in {"nothing", "none", "full"}
    BY <1>0, <1>3 DEF S!ToggleMapCollection, S!HandleTierSelect, S!SelectWikipedia, S!TypeOK, S!NoTier
  <2>5. SForAi' /\ S!StepIsListed' BY <1>0, <2>2, <2>3 DEF SForAi, S!StepIsListed, S!Steps, S!IsAiInSetup
  <2>6. /\ s_services' \subseteq S!Services \ s_installed /\ s_models' \subseteq SetupModels
        /\ s_policy' \in {"Always", "Manual"} /\ s_remote' \in [on: BOOLEAN, url: BOOLEAN]
    BY <1>0, <2>3 DEF S!TypeOK
  <2> QED BY <2>1, <2>4, <2>5, <2>6, SChosen
<1>4. CASE (\E m \in SetupModels : S!ToggleAiModel(m)) \/ (\E p \in {"Always", "Manual"} : S!SetIngestPolicy(p))
  <2>1. S!Choosing(4) /\ S!IsAiInSetup BY <1>4 DEF S!ToggleAiModel, S!SetIngestPolicy
  <2>2. s_currentStep' = s_currentStep /\ s_installed' = s_installed BY <2>1, SChoosing
  <2>3. UNCHANGED <<s_services, s_maps, s_tier, s_wiki, s_remote>>
    BY <1>4 DEF S!ToggleAiModel, S!SetIngestPolicy
  <2>4. s_models' \subseteq SetupModels /\ s_policy' \in {"Always", "Manual"}
    BY <1>0, <1>4 DEF S!ToggleAiModel, S!SetIngestPolicy, S!TypeOK
  <2>5. SForAi' /\ S!StepIsListed' BY <1>0, <2>1, <2>2, <2>3 DEF SForAi, S!StepIsListed, S!Steps, S!IsAiInSetup
  <2>6. /\ s_services' \subseteq S!Services \ s_installed /\ s_maps' \in BOOLEAN
        /\ s_tier' \in Tiers \cup {S!NoTier} /\ s_wiki' \in {"nothing", "none", "full"}
        /\ s_remote' \in [on: BOOLEAN, url: BOOLEAN]
    BY <1>0, <2>3 DEF S!TypeOK
  <2> QED BY <2>1, <2>4, <2>5, <2>6, SChosen
<1> QED BY <1>1, <1>2, <1>3, <1>4 DEF S!Choose

\* The steps, and the connection.
LEMMA SMoves == ASSUME SInv, ~s_done, S!HandleNext \/ S!HandleBack \/ S!Connection PROVE SInv'
<1>0. S!TypeOK /\ S!StepIsListed /\ SForAi /\ SGroups /\ SPolicy /\ SLast BY DEF SInv
<1>1. /\ UNCHANGED <<s_services, s_maps, s_tier, s_wiki, s_models, s_policy, s_remote,
                     s_installed, s_current, s_asked, s_kv, s_done, s_finish>>
      /\ S!Fault \/ S!Normally
  BY DEF S!HandleNext, S!HandleBack, S!Connection, S!Elsewhere, S!choices
<1>2. s_used' \in SUsed /\ (SWell' => SWell) BY <1>1, SUses
<1>3. s_online' \in BOOLEAN BY <1>0 DEF S!HandleNext, S!HandleBack, S!Connection, S!TypeOK
<1>4. s_currentStep' \in 1 .. 5 /\ S!StepIsListed' /\ (s_finish # "no" => s_currentStep' = s_currentStep)
  <2>1. S!IsAiInSetup' = S!IsAiInSetup BY <1>1 DEF S!IsAiInSetup
  <2>2. s_currentStep \in 1 .. 5 /\ s_currentStep \in S!Steps BY <1>0 DEF S!TypeOK, S!StepIsListed
  <2>3. CASE S!HandleNext
    <3>1. s_currentStep < S!FinalStep /\ s_currentStep' = S!NextStep /\ s_finish = "no"
      BY <2>3 DEF S!HandleNext, S!NextOffered
    <3>2. CASE S!IsAiInSetup
      BY <2>1, <2>2, <3>1, <3>2 DEF S!FinalStep, S!NextStep, S!Steps, S!StepIsListed
    <3>3. CASE ~S!IsAiInSetup
      BY <2>1, <2>2, <3>1, <3>3 DEF S!FinalStep, S!NextStep, S!Steps, S!StepIsListed
    <3> QED BY <3>2, <3>3
  <2>4. CASE S!HandleBack
    <3>1. s_finish = "no" /\ s_currentStep > 1
          /\ s_currentStep' = IF s_currentStep = 5 /\ ~S!IsAiInSetup THEN 3 ELSE s_currentStep - 1
      BY <2>4 DEF S!HandleBack
    <3>2. CASE S!IsAiInSetup BY <2>1, <2>2, <3>1, <3>2 DEF S!Steps, S!StepIsListed
    <3>3. CASE ~S!IsAiInSetup BY <2>1, <2>2, <3>1, <3>3 DEF S!Steps, S!StepIsListed
    <3> QED BY <3>2, <3>3
  <2>5. CASE S!Connection
    <3>1. s_currentStep' = s_currentStep BY <2>5 DEF S!Connection
    <3> QED BY <2>1, <2>2, <3>1 DEF S!Steps, S!StepIsListed
  <2> QED BY <2>3, <2>4, <2>5
<1>5. S!TypeOK' BY <1>0, <1>1, <1>2, <1>3, <1>4 DEF S!TypeOK, SUsed
<1>6. SForAi' /\ SLast' BY <1>0, <1>1, <1>4 DEF SForAi, SLast, S!IsAiInSetup
<1>7. SPolicy' BY <1>0, <1>1, <1>2 DEF SPolicy, S!IsAiInSetup
<1>8. SGroups'
  <2>1. S!ServicesToInstall' = S!ServicesToInstall /\ SDownloads' = SDownloads /\ S!Reviewed' = S!Reviewed
    BY <1>1 DEF S!ServicesToInstall, SDownloads, S!Reviewed
  <2>2. s_used.faults > 0 => s_used'.faults > 0
    <3>1. s_used.faults \in Nat /\ s_used'.faults \in Nat BY <1>2, SFacts, Bounds DEF SUsed
    <3> QED BY <1>2, <3>1 DEF SWell
  <2>3. S!NothingForgotten' BY <1>0, <1>1, <2>1, <2>2 DEF SGroups, S!NothingForgotten
  <2> QED BY <1>0, <1>1, <1>2, <2>1, <2>3 DEF SGroups
<1> QED BY <1>4, <1>5, <1>6, <1>7, <1>8 DEF SInv

\* "Complete Setup".
LEMMA SHandles == ASSUME SInv, ~s_done, S!HandleFinish PROVE SInv'
<1>0. S!TypeOK /\ S!StepIsListed /\ SForAi /\ SGroups /\ SPolicy /\ SLast BY DEF SInv
<1>1. /\ s_finish = "no" /\ s_currentStep >= S!FinalStep
      /\ s_finish' = IF S!IsAiInSetup THEN "policy" ELSE "remote"
      /\ s_asked' = {} /\ S!Normally
      /\ UNCHANGED <<s_installed, s_online, s_currentStep, s_services, s_maps, s_tier, s_wiki, s_models, s_policy,
                     s_remote, s_current, s_kv, s_done>>
  BY DEF S!HandleFinish, S!choices
<1>2. s_used' \in SUsed /\ (SWell' => SWell) BY <1>1, SUses
<1>3. S!IsAiInSetup' = S!IsAiInSetup BY <1>1 DEF S!IsAiInSetup
<1>4. s_currentStep = 5
  <2>1. s_currentStep \in 1 .. 5 /\ s_currentStep \in S!Steps BY <1>0 DEF S!TypeOK, S!StepIsListed
  <2>2. CASE S!IsAiInSetup BY <1>1, <2>1, <2>2 DEF S!FinalStep
  <2>3. CASE ~S!IsAiInSetup BY <1>1, <2>1, <2>3 DEF S!FinalStep, S!Steps
  <2> QED BY <2>2, <2>3
<1>5. S!TypeOK'
  <2>1. s_finish' \in {"policy", "remote"} BY <1>1
  <2> QED BY <1>0, <1>1, <1>2, <2>1 DEF S!TypeOK, SUsed
<1>6. S!StepIsListed' /\ SForAi' BY <1>0, <1>1, <1>3 DEF S!StepIsListed, S!Steps, SForAi
<1>7. SLast' BY <1>1, <1>4 DEF SLast
<1>8. SPolicy' BY <1>1, <1>3 DEF SPolicy
<1>9. SGroups'
  <2>1. s_finish' \in {"policy", "remote"} /\ ~s_done' BY <1>1
  <2> QED BY <1>1, <2>1 DEF SGroups, S!NothingForgotten
<1> QED BY <1>5, <1>6, <1>7, <1>8, <1>9 DEF SInv

\* A step of handleFinish keeps the choices.
LEMMA SFinishing ==
    ASSUME SInv, S!Finish
    PROVE  /\ UNCHANGED <<s_installed, s_online, s_services, s_maps, s_tier, s_wiki, s_models, s_policy, s_remote>>
           /\ S!Normally \/ S!Fault
           /\ s_used' \in SUsed /\ (SWell' => SWell) /\ (s_used.faults > 0 => s_used'.faults > 0)
           /\ s_finish # "no" /\ s_currentStep = 5 /\ ~s_done
<1>1. /\ UNCHANGED <<s_installed, s_online, s_services, s_maps, s_tier, s_wiki, s_models, s_policy, s_remote>>
      /\ S!Normally \/ S!Fault
      /\ s_finish # "no"
  BY DEF S!Finish, S!StorePolicy, S!ConfigureRemote, S!InstallServices, S!Download, S!FinishWikipedia,
     S!Finishing, S!Sent, S!choices
<1>2. s_used' \in SUsed /\ (SWell' => SWell) BY <1>1, SUses
<1>3. s_used.faults \in Nat /\ s_used'.faults \in Nat BY <1>2, SFacts, Bounds DEF SUsed
<1>4. s_used.faults > 0 => s_used'.faults > 0 BY <1>2, <1>3 DEF SWell
<1> QED BY <1>1, <1>2, <1>4 DEF SInv, SLast

\* What is asked for with a group is all of it, but for one that has failed.
LEMMA SSent ==
    ASSUME NEW G, S!Sent(G), s_used \in SUsed
    PROVE  /\ s_asked' \subseteq s_asked \cup G
           /\ SInv /\ SWell' => s_asked' = s_asked \cup G
<1>1. CASE s_asked' = s_asked \cup G BY <1>1
<1>2. CASE S!Fault /\ \E x \in G : s_asked' = s_asked \cup (G \ {x})
  <2>1. SInv => ~SWell' BY <1>2, SUses
  <2> QED BY <1>2, <2>1
<1> QED BY <1>1, <1>2 DEF S!Sent

\* What a group may have in it.
LEMMA SThings ==
    ASSUME SInv
    PROVE  /\ S!ServicesToInstall \subseteq S!Services
           /\ SDownloads \subseteq Tiers \cup SetupModels \cup {"map"}
BY DEF SInv, S!TypeOK, S!ServicesToInstall, SDownloads

LEMMA SFinish == ASSUME SInv, S!Finish PROVE SInv'
<1>0. S!TypeOK /\ S!StepIsListed /\ SForAi /\ SGroups /\ SPolicy /\ SLast BY DEF SInv
<1>1. /\ UNCHANGED <<s_installed, s_online, s_services, s_maps, s_tier, s_wiki, s_models, s_policy, s_remote>>
      /\ s_used' \in SUsed /\ (SWell' => SWell) /\ (s_used.faults > 0 => s_used'.faults > 0)
      /\ s_finish # "no" /\ s_currentStep = 5 /\ ~s_done
  BY SFinishing
<1>2. S!IsAiInSetup' = S!IsAiInSetup /\ S!ServicesToInstall' = S!ServicesToInstall /\ SDownloads' = SDownloads
      /\ S!Steps' = S!Steps
  BY <1>1 DEF S!IsAiInSetup, S!ServicesToInstall, SDownloads, S!Steps
<1>3. SForAi' BY <1>0, <1>1, <1>2 DEF SForAi
<1>4. CASE S!StorePolicy
  <2>1. /\ s_finish = "policy" /\ s_finish' = "remote" /\ UNCHANGED <<s_currentStep, s_current, s_asked, s_done>>
        /\ \/ s_kv' = [s_kv EXCEPT !.policy = s_policy] /\ S!Normally
           \/ UNCHANGED s_kv /\ S!Fault
    BY <1>4 DEF S!StorePolicy, S!Finishing
  <2>2. s_kv \in [policy: {"unset", "Always", "Manual"}, remote: BOOLEAN] /\ s_policy \in {"Always", "Manual"}
    BY <1>0 DEF S!TypeOK
  <2>3. s_kv' \in [policy: {"unset", "Always", "Manual"}, remote: BOOLEAN] BY <2>1, <2>2
  <2>4. s_kv'.policy = s_policy \/ ~SWell'
    <3>1. S!Fault => ~SWell' BY SUses
    <3> QED BY <2>1, <2>2, <3>1
  <2>5. S!TypeOK' BY <1>0, <1>1, <2>1, <2>3 DEF S!TypeOK, SUsed
  <2>6. S!StepIsListed' /\ SLast' BY <1>0, <1>1, <1>2, <2>1 DEF S!StepIsListed, SLast
  <2>7. SPolicy' BY <1>1, <2>4 DEF SPolicy
  <2>8. SGroups' BY <1>0, <1>1, <1>2, <2>1 DEF SGroups, S!NothingForgotten
  <2> QED BY <1>3, <2>5, <2>6, <2>7, <2>8 DEF SInv
<1>5. CASE S!ConfigureRemote
  <2>1. /\ s_finish = "remote" /\ UNCHANGED <<s_current, s_asked, s_done>>
        /\ \/ s_finish' = "install" /\ s_currentStep' = s_currentStep
           \/ s_finish' = "no" /\ s_currentStep' = 1
        /\ s_kv' = [s_kv EXCEPT !.remote = TRUE] \/ UNCHANGED s_kv
    BY <1>5 DEF S!ConfigureRemote
  <2>2. s_kv \in [policy: {"unset", "Always", "Manual"}, remote: BOOLEAN] BY <1>0 DEF S!TypeOK
  <2>3. s_kv' \in [policy: {"unset", "Always", "Manual"}, remote: BOOLEAN] /\ s_kv'.policy = s_kv.policy
    BY <2>1, <2>2
  <2>4. s_asked = {} BY <1>0, <2>1 DEF SGroups
  <2>5. S!TypeOK'
    <3>1. s_currentStep' \in 1 .. 5 BY <1>1, <2>1
    <3> QED BY <1>0, <1>1, <2>1, <2>3, <3>1 DEF S!TypeOK, SUsed
  <2>6. S!StepIsListed' /\ SLast' BY <1>0, <1>1, <1>2, <2>1 DEF S!StepIsListed, SLast, S!Steps
  <2>7. SPolicy' BY <1>0, <1>1, <1>2, <2>1, <2>3 DEF SPolicy
  <2>8. SGroups' BY <1>1, <2>1, <2>4 DEF SGroups, S!NothingForgotten
  <2> QED BY <1>3, <2>5, <2>6, <2>7, <2>8 DEF SInv
<1>6. CASE S!InstallServices
  <2>1. /\ s_finish = "install" /\ s_finish' = "download" /\ UNCHANGED <<s_currentStep, s_current, s_kv, s_done>>
        /\ S!Sent(S!ServicesToInstall)
    BY <1>6 DEF S!InstallServices, S!Finishing
  <2>2. s_asked = {} BY <1>0, <2>1 DEF SGroups
  <2>3. s_asked' \subseteq S!ServicesToInstall /\ (SWell' => s_asked' = S!ServicesToInstall)
    BY <2>1, <2>2, SSent, SFacts
  <2>5. S!TypeOK' BY <1>0, <1>1, <2>1, <2>3, SThings DEF S!TypeOK, SUsed
  <2>6. S!StepIsListed' /\ SLast' BY <1>0, <1>1, <1>2, <2>1 DEF S!StepIsListed, SLast
  <2>7. SPolicy' BY <1>0, <1>1, <1>2, <2>1 DEF SPolicy
  <2>8. SGroups' BY <1>1, <1>2, <2>1, <2>3 DEF SGroups, S!NothingForgotten
  <2> QED BY <1>3, <2>5, <2>6, <2>7, <2>8 DEF SInv
<1>7. CASE S!Download
  <2>1. /\ s_finish = "download" /\ s_finish' = "wikipedia" /\ UNCHANGED <<s_currentStep, s_current, s_kv, s_done>>
        /\ S!Sent(SDownloads)
    BY <1>7 DEF S!Download, S!Finishing, SDownloads
  <2>3. s_asked' \subseteq s_asked \cup SDownloads /\ (SWell' => s_asked' = s_asked \cup SDownloads)
    BY <2>1, SSent, SFacts
  <2>5. S!TypeOK' BY <1>0, <1>1, <2>1, <2>3, SThings DEF S!TypeOK, SUsed
  <2>6. S!StepIsListed' /\ SLast' BY <1>0, <1>1, <1>2, <2>1 DEF S!StepIsListed, SLast
  <2>7. SPolicy' BY <1>0, <1>1, <1>2, <2>1 DEF SPolicy
  <2>8. SGroups' BY <1>0, <1>1, <1>2, <2>1, <2>3 DEF SGroups, S!NothingForgotten
  <2> QED BY <1>3, <2>5, <2>6, <2>7, <2>8 DEF SInv
<1>8. CASE S!FinishWikipedia
  <2> DEFINE W == IF s_wiki \notin {"nothing", s_current} THEN {s_wiki} ELSE {}
  <2>1. /\ s_finish = "wikipedia" /\ s_finish' = "no" /\ s_done' = TRUE
        /\ UNCHANGED <<s_currentStep, s_current, s_kv>> /\ S!Sent(W)
    BY <1>8 DEF S!FinishWikipedia, S!Finishing
  <2>2. s_wiki \in {"nothing", "none", "full"} /\ s_current \in {"nothing", "full"} BY <1>0 DEF S!TypeOK
  <2>4. W \subseteq {"none", "full"} BY <2>2
  <2>3. s_asked' \subseteq s_asked \cup W /\ (SWell' => s_asked' = s_asked \cup W)
    BY <2>1, SSent, SFacts
  <2>5. S!TypeOK' BY <1>0, <1>1, <2>1, <2>3, <2>4 DEF S!TypeOK, SUsed
  <2>6. S!StepIsListed' /\ SLast' BY <1>0, <1>1, <1>2, <2>1 DEF S!StepIsListed, SLast
  <2>7. SPolicy' BY <1>0, <1>1, <1>2, <2>1 DEF SPolicy
  <2>8. S!NothingForgotten'
    <3> DEFINE Away == IF s_remote.on THEN {"ollama"} ELSE {}
               R == {s_wiki} \ {"nothing", "none"}
    <3>1. s_used'.faults \in Nat BY <1>1, Bounds DEF SUsed
    <3>2. s_used'.faults > 0 \/ SWell' BY <3>1 DEF SWell
    <3>3. SWell' => s_asked' = S!ServicesToInstall \cup SDownloads \cup W BY <1>0, <1>1, <2>1, <2>3 DEF SGroups
    <3>4. s_services \cap {"none", "nothing", "full"} = {} BY <1>0 DEF S!TypeOK, S!Services
    <3>5. SDownloads \cap {"none", "nothing", "full", "ollama"} = {} BY SThings, MCAssistantAssumption
    <3>6. W \ {"none"} = R \ (Away \cup {s_current}) BY <2>2
    <3>7. S!ServicesToInstall = s_services \ Away BY DEF S!ServicesToInstall
    <3>8. S!Reviewed = s_services \cup SDownloads \cup R BY DEF S!Reviewed, SDownloads
    <3>9. S!Reviewed' = S!Reviewed BY <1>1 DEF S!Reviewed
    <3> HIDE DEF W, R
    <3>10. (S!ServicesToInstall \cup SDownloads \cup W) \ {"none"} = S!Reviewed \ (Away \cup {s_current})
      <4>1. s_current \in {"nothing", "full"} BY <2>2
      <4>2. (s_services \ Away) \ {"none"} = s_services \ (Away \cup {s_current}) BY <3>4, <4>1
      <4>3. SDownloads \ {"none"} = SDownloads \ (Away \cup {s_current}) BY <3>5, <4>1
      <4> QED BY <3>6, <3>7, <3>8, <4>2, <4>3
    <3>11. SWell' => s_asked' \ {"none"} = S!Reviewed' \ ((IF s_remote'.on THEN {"ollama"} ELSE {}) \cup {s_current'})
      BY <1>1, <2>1, <3>3, <3>9, <3>10
    <3> QED BY <3>2, <3>11 DEF S!NothingForgotten
  <2>9. SGroups' BY <1>0, <1>1, <1>2, <2>1, <2>3, <2>4, <2>8 DEF SGroups
  <2> QED BY <1>3, <2>5, <2>6, <2>7, <2>9 DEF SInv
<1> QED BY <1>4, <1>5, <1>6, <1>7, <1>8 DEF S!Finish

LEMMA SStep == ASSUME SInv, S!Next \/ UNCHANGED easySetup PROVE SInv'
<1>1. CASE UNCHANGED easySetup
  BY <1>1 DEF easySetup, SInv, S!TypeOK, S!StepIsListed, S!Steps, S!IsAiInSetup, SLast, SForAi, SGroups, SPolicy,
     S!ServicesToInstall, SDownloads, SWell, S!NothingForgotten, S!Reviewed
<1>2. S!Left => UNCHANGED easySetup BY DEF S!Left, S!vars, S!choices, easySetup
<1> QED BY <1>1, <1>2, SChoose, SMoves, SHandles, SFinish DEF S!Next

\* What the wizard promises.
LEMMA SPromises ==
    SInv => /\ S!TypeOK /\ S!StepIsListed /\ S!ModelsNeedAi /\ S!OneAssistant /\ S!PolicyFirst
            /\ S!NothingForgotten
<1> SUFFICES ASSUME SInv PROVE S!ModelsNeedAi /\ S!OneAssistant /\ S!PolicyFirst
  BY DEF SInv, SGroups
<1>1. s_asked \subseteq S!ServicesToInstall \cup SDownloads \cup {"none", "full"} BY DEF SInv, SGroups
<1>2. s_asked # {} => s_finish \in {"download", "wikipedia"} \/ s_done BY DEF SInv, SGroups, S!TypeOK
<1>3. S!ModelsNeedAi
  <2>1. S!ServicesToInstall \cap SetupModels = {} BY SThings, MCAssistantAssumption DEF S!Services
  <2>2. SDownloads \cap SetupModels \subseteq s_models
    <3>1. s_tier \in Tiers \cup {"none"} BY DEF SInv, S!TypeOK, S!NoTier
    <3> QED BY <3>1, MCAssistantAssumption DEF SDownloads
  <2>3. s_asked \cap SetupModels # {} => s_models # {} BY <1>1, <2>1, <2>2, MCAssistantAssumption
  <2> QED BY <2>3 DEF SInv, SForAi, S!ModelsNeedAi
<1>4. S!OneAssistant
  <2>1. "ollama" \notin SDownloads BY SThings, MCAssistantAssumption
  <2>2. "ollama" \in s_asked => "ollama" \in S!ServicesToInstall BY <1>1, <2>1
  <2> QED BY <2>2 DEF S!OneAssistant, S!ServicesToInstall
<1>5. S!PolicyFirst
  <2>1. s_used.faults > 0 \/ SWell BY SFacts DEF SWell
  <2> QED BY <1>2, <2>1 DEF SInv, SPolicy, S!PolicyFirst
<1> QED BY <1>3, <1>4, <1>5
----------------------------------------------------------------------------
(* The tags in an answer *)

\* The passes of the loop, one after the other, and what a text is read as, symbol by symbol.
TPasses(p, n) == CHOOSE f : f = [k \in 0 .. n |-> IF k = 0 THEN p ELSE T!Pass(f[k - 1])]
TStart == [think |-> FALSE, skip |-> 0, said |-> <<>>, thought |-> <<>>]
TRun(text) == CHOOSE f : f = [i \in 0 .. Len(text) |-> IF i = 0 THEN TStart ELSE T!Read(text, i, f[i - 1])]

\* Both recursions have a solution,
LEMMA TPassesDef ==
    ASSUME NEW p, NEW n \in Nat
    PROVE  TPasses(p, n) = [k \in 0 .. n |-> IF k = 0 THEN p ELSE T!Pass(TPasses(p, n)[k - 1])]
<1> DEFINE G(f, m) == f = [k \in 0 .. m |-> IF k = 0 THEN p ELSE T!Pass(f[k - 1])]
           N == {m \in Nat : \E f : G(f, m)}
<1>1. 0 \in N
  <2>1. G([k \in 0 .. 0 |-> p], 0) OBVIOUS
  <2> QED BY <2>1
<1>2. ASSUME NEW m \in Nat, m \in N PROVE m + 1 \in N
  <2>1. PICK f : G(f, m) BY <1>2
  <2> DEFINE g == [k \in 0 .. m + 1 |-> IF k = 0 THEN p ELSE T!Pass(f[k - 1])]
  <2>2. \A k \in 0 .. m : g[k] = f[k] BY <2>1
  <2>3. \A k \in 0 .. m + 1 : k # 0 => k - 1 \in 0 .. m OBVIOUS
  <2>4. \A k \in 0 .. m + 1 : g[k] = IF k = 0 THEN p ELSE T!Pass(g[k - 1]) BY <2>2, <2>3
  <2>5. G(g, m + 1) BY <2>4
  <2> HIDE DEF g
  <2>6. \E h : G(h, m + 1) BY <2>5
  <2> QED BY <2>6
<1>3. \A m \in Nat : m \in N => m + 1 \in N BY <1>2
<1> HIDE DEF N
<1>5. n \in N BY <1>1, <1>3, Induction
<1>4. PICK f : G(f, n) BY <1>5 DEF N
<1> QED BY <1>4 DEF TPasses

LEMMA TRunDef ==
    ASSUME NEW text \in Seq(Symbol)
    PROVE  TRun(text) = [i \in 0 .. Len(text) |-> IF i = 0 THEN TStart ELSE T!Read(text, i, TRun(text)[i - 1])]
<1> DEFINE G(f, m) == f = [i \in 0 .. m |-> IF i = 0 THEN TStart ELSE T!Read(text, i, f[i - 1])]
           N == {m \in Nat : \E f : G(f, m)}
<1>0. Len(text) \in Nat BY LenProperties
<1>1. 0 \in N
  <2>1. G([i \in 0 .. 0 |-> TStart], 0) OBVIOUS
  <2> QED BY <2>1
<1>2. ASSUME NEW m \in Nat, m \in N PROVE m + 1 \in N
  <2>1. PICK f : G(f, m) BY <1>2
  <2> DEFINE g == [i \in 0 .. m + 1 |-> IF i = 0 THEN TStart ELSE T!Read(text, i, f[i - 1])]
  <2>2. \A i \in 0 .. m : g[i] = f[i] BY <2>1
  <2>3. \A i \in 0 .. m + 1 : i # 0 => i - 1 \in 0 .. m OBVIOUS
  <2>4. \A i \in 0 .. m + 1 : g[i] = IF i = 0 THEN TStart ELSE T!Read(text, i, g[i - 1]) BY <2>2, <2>3
  <2>5. G(g, m + 1) BY <2>4
  <2> HIDE DEF g
  <2>6. \E h : G(h, m + 1) BY <2>5
  <2> QED BY <2>6
<1>3. \A m \in Nat : m \in N => m + 1 \in N BY <1>2
<1> HIDE DEF N
<1>5. Len(text) \in N BY <1>0, <1>1, <1>3, Induction
<1>4. PICK f : G(f, Len(text)) BY <1>5 DEF N
<1> QED BY <1>4 DEF TRun

\* and are what the parser and the reading take the last of.
LEMMA TParsed == \A p : T!Parse(p) = TPasses(p, Len(p.buffer) + 1)[Len(p.buffer) + 1]
BY DEF T!Parse, TPasses

LEMMA TRead == \A text : T!Reading(text) = TRun(text)[Len(text)]
BY DEF T!Reading, TRun, TStart

\* A tag is a text that is not empty.
LEMMA TTag ==
    ASSUME NEW b \in BOOLEAN
    PROVE  T!Tag(b) \in Seq(Symbol) /\ Len(T!Tag(b)) \in Nat \ {0} /\ DOMAIN T!Tag(b) = 1 .. Len(T!Tag(b))
<1>1. T!Tag(b) \in Seq(Symbol) /\ T!Tag(b) # <<>> BY Bounds DEF T!Tag
<1> QED BY <1>1, EmptySeq, LenProperties

\* A number below a bound is greatest in its set.
LEMMA Greatest ==
    ASSUME NEW b \in Nat, NEW N \in SUBSET (0 .. b), N # {}
    PROVE  \E n \in N : \A m \in N : n >= m
<1> DEFINE X == {b - n : n \in N}
<1>0. \A n \in N : n \in 0 .. b OBVIOUS
<1>8. \A n \in N : b - n \in Nat BY <1>0
<1>1. X \in SUBSET Nat /\ X # {} BY <1>8
<1>2. PICK x \in X : \A y \in X : x <= y BY <1>1, Least
<1>3. PICK n \in N : x = b - n OBVIOUS
<1>4. \A m \in N : b - m \in X OBVIOUS
<1>5. \A m \in N : b - n <= b - m BY <1>2, <1>3, <1>4
<1>6. \A m \in N : m \in 0 .. b OBVIOUS
<1>7. \A m \in N : n >= m BY <1>5, <1>6
<1> QED BY <1>7

\* IndexOf finds the first tag,
LEMMA TIndex ==
    ASSUME NEW b \in BOOLEAN, NEW text \in Seq(Symbol)
    PROVE  LET at == T!IndexOf(T!Tag(b), text) IN
           \/ at = 0 /\ \A i \in 1 .. Len(text) : ~T!Begins(T!Tag(b), text, i)
           \/ /\ at \in 1 .. Len(text) /\ T!Begins(T!Tag(b), text, at)
              /\ \A i \in 1 .. at - 1 : ~T!Begins(T!Tag(b), text, i)
<1> DEFINE F == {i \in 1 .. Len(text) : T!Begins(T!Tag(b), text, i)}
<1>0. DOMAIN text = 1 .. Len(text) /\ Len(text) \in Nat BY LenProperties
<1>1. T!IndexOf(T!Tag(b), text) = IF F = {} THEN 0 ELSE T!Min(F) BY <1>0 DEF T!IndexOf
<1>2. CASE F = {} BY <1>1, <1>2
<1>3. CASE F # {}
  <2>1. F \in SUBSET Nat OBVIOUS
  <2>2. \E n \in F : \A m \in F : n <= m BY <1>3, <2>1, Least
  <2> HIDE DEF F
  <2>3. T!Min(F) \in F /\ \A m \in F : T!Min(F) <= m BY <2>2 DEF T!Min
  <2>4. PICK at : at = T!Min(F) OBVIOUS
  <2>5. at \in 1 .. Len(text) /\ T!Begins(T!Tag(b), text, at) BY <2>3, <2>4 DEF F
  <2>6. ASSUME NEW i \in 1 .. at - 1 PROVE ~T!Begins(T!Tag(b), text, i)
    <3>1. i \in 1 .. Len(text) /\ ~(at <= i) BY <2>5, <1>0
    <3> QED BY <3>1, <2>3, <2>4 DEF F
  <2> QED BY <1>1, <1>3, <2>4, <2>5, <2>6
<1> QED BY <1>2, <1>3

\* and PartialTagSuffix the longest beginning of one.
LEMMA TPartial ==
    ASSUME NEW b \in BOOLEAN, NEW text \in Seq(Symbol)
    PROVE  LET n == T!PartialTagSuffix(T!Tag(b), text)
               F == {m \in 0 .. Len(T!Tag(b)) - 1 :
                        m <= Len(text) /\ T!Fits(T!Tag(b), text, Len(text) + 1 - m)}
           IN n \in F /\ \A m \in F : m <= n
<1> DEFINE F == {m \in 0 .. Len(T!Tag(b)) - 1 :
                    m <= Len(text) /\ T!Fits(T!Tag(b), text, Len(text) + 1 - m)}
<1>0. DOMAIN text = 1 .. Len(text) /\ Len(text) \in Nat BY LenProperties
<1>1. Len(T!Tag(b)) \in Nat \ {0} /\ DOMAIN T!Tag(b) = 1 .. Len(T!Tag(b)) BY TTag
<1>2. T!Fits(T!Tag(b), text, Len(text) + 1 - 0) BY <1>0, <1>1 DEF T!Fits
<1>3. 0 \in F BY <1>0, <1>1, <1>2
<1>4. Len(T!Tag(b)) - 1 \in Nat /\ F \in SUBSET (0 .. Len(T!Tag(b)) - 1) BY <1>1
<1>5. T!PartialTagSuffix(T!Tag(b), text) = T!Max(F) BY DEF T!PartialTagSuffix
<1> HIDE DEF F
<1>6. \E n \in F : \A m \in F : n >= m BY <1>3, <1>4, Greatest
<1>7. T!Max(F) \in F /\ \A m \in F : T!Max(F) >= m BY <1>6 DEF T!Max
<1>8. \A m \in F : m \in Int BY <1>4
<1>9. \A m \in F : m <= T!Max(F) BY <1>7, <1>8
<1> QED BY <1>5, <1>7, <1>9 DEF F

\* One more symbol,
LEMMA OneMore ==
    ASSUME NEW s \in Seq(Symbol), NEW text \in Seq(Symbol), NEW i \in Nat, NEW m \in Nat,
           i <= m, m < Len(text)
    PROVE  Append(s \o SubSeq(text, i + 1, m), text[m + 1]) = s \o SubSeq(text, i + 1, m + 1)
<1>0. Len(text) \in Nat /\ DOMAIN text = 1 .. Len(text) BY LenProperties
<1>1. SubSeq(text, i + 1, m) \in Seq(Symbol)
  <2>1. \A k \in i + 1 .. m : text[k] \in Symbol BY <1>0, ElementOfSeq
  <2> QED BY <2>1, SubSeqProperties
<1>2. SubSeq(text, i + 1, m + 1) = SubSeq(text, i + 1, m) \o <<text[m + 1]>>
  <2>1. i + 1 \in 1 .. Len(text) /\ m + 1 \in i + 1 .. Len(text) /\ (m + 1) - 1 = m BY <1>0
  <2>2. SubSeq(text, i + 1, m + 1) = SubSeq(text, i + 1, (m + 1) - 1) \o <<text[m + 1]>>
    BY <2>1, SubSeqRecursiveSecond
  <2> QED BY <2>1, <2>2
<1>3. text[m + 1] \in Symbol BY <1>0, ElementOfSeq
<1>4. s \o SubSeq(text, i + 1, m) \in Seq(Symbol) BY <1>1, ConcatProperties
<1>5. <<text[m + 1]>> \in Seq(Symbol) BY <1>3
<1>6. (s \o SubSeq(text, i + 1, m)) \o <<text[m + 1]>> = s \o (SubSeq(text, i + 1, m) \o <<text[m + 1]>>)
  <2> DEFINE u == SubSeq(text, i + 1, m)
             v == <<text[m + 1]>>
  <2>1. u \in Seq(Symbol) /\ v \in Seq(Symbol) BY <1>1, <1>5
  <2> HIDE DEF u, v
  <2>2. (s \o u) \o v = s \o (u \o v) BY <2>1, ConcatAssociative
  <2> QED BY <2>2 DEF u, v
<1>7. Append(s \o SubSeq(text, i + 1, m), text[m + 1]) = (s \o SubSeq(text, i + 1, m)) \o <<text[m + 1]>>
  BY <1>3, <1>4, AppendIsConcat
<1> QED BY <1>2, <1>6, <1>7

\* Where a text has been read up to a place: what is said and thought.
TAt(b, s, t) == [think |-> b, skip |-> 0, said |-> s, thought |-> t]
TPassed(b, s, t, u) == TAt(b, IF b THEN s ELSE s \o u, IF b THEN t \o u ELSE t)

\* One symbol of a text is read after the other.
LEMMA TRunNext ==
    ASSUME NEW text \in Seq(Symbol), NEW i \in 0 .. Len(text) - 1
    PROVE  TRun(text)[i + 1] = T!Read(text, i + 1, TRun(text)[i])
<1>1. Len(text) \in Nat BY LenProperties
<1>2. i + 1 \in 0 .. Len(text) /\ i + 1 # 0 /\ (i + 1) - 1 = i BY <1>1
<1>3. TRun(text)[i + 1] = IF i + 1 = 0 THEN TStart ELSE T!Read(text, i + 1, TRun(text)[(i + 1) - 1])
  BY <1>2, TRunDef
<1> QED BY <1>2, <1>3

\* As far as no tag begins, all that is read is passed on,
LEMMA TReadPlain ==
    ASSUME NEW text \in Seq(Symbol), NEW i \in Nat, NEW j \in Nat, i <= j, j <= Len(text),
           NEW b \in BOOLEAN, NEW s \in Seq(Symbol), NEW t \in Seq(Symbol),
           TRun(text)[i] = TAt(b, s, t),
           \A k \in i + 1 .. j : ~T!Begins(T!Tag(b), text, k)
    PROVE  TRun(text)[j] = TPassed(b, s, t, SubSeq(text, i + 1, j))
<1> DEFINE N == {d \in Nat : i + d <= j => TRun(text)[i + d] = TPassed(b, s, t, SubSeq(text, i + 1, i + d))}
<1>0. Len(text) \in Nat BY LenProperties
<1>1. 0 \in N
  <2>1. SubSeq(text, i + 1, i) = <<>> BY SubSeqEmpty
  <2>2. s \o <<>> = s /\ t \o <<>> = t BY ConcatEmptySeq
  <2>3. i + 0 = i OBVIOUS
  <2>4. TPassed(b, s, t, <<>>) = TAt(b, s, t) BY <2>2 DEF TPassed
  <2> QED BY <2>1, <2>3, <2>4
<1>2. ASSUME NEW d \in Nat, d \in N, i + (d + 1) <= j
      PROVE  TRun(text)[i + (d + 1)] = TPassed(b, s, t, SubSeq(text, i + 1, i + (d + 1)))
  <2> DEFINE m == i + d
             before == TPassed(b, s, t, SubSeq(text, i + 1, m))
  <2>1. m \in Nat /\ m + 1 = i + (d + 1) /\ m + 1 <= j /\ m <= j /\ m \in 0 .. Len(text) - 1 /\ i <= m /\ m < Len(text)
    BY <1>0, <1>2
  <2>2. TRun(text)[m] = before BY <1>2, <2>1
  <2>3. TRun(text)[m + 1] = T!Read(text, m + 1, before) BY <2>1, <2>2, TRunNext
  <2>4. ~T!Begins(T!Tag(b), text, m + 1) BY <2>1
  <2>5. Append(s \o SubSeq(text, i + 1, m), text[m + 1]) = s \o SubSeq(text, i + 1, m + 1)
    BY <2>1, OneMore
  <2>6. Append(t \o SubSeq(text, i + 1, m), text[m + 1]) = t \o SubSeq(text, i + 1, m + 1)
    BY <2>1, OneMore
  <2>7. before.skip = 0 /\ before.think = b BY DEF TPassed, TAt
  <2>8. T!Read(text, m + 1, before) = IF b THEN [before EXCEPT !.thought = Append(@, text[m + 1])]
                                      ELSE [before EXCEPT !.said = Append(@, text[m + 1])]
    BY <2>4, <2>7 DEF T!Read
  <2>9. T!Read(text, m + 1, before) = TPassed(b, s, t, SubSeq(text, i + 1, m + 1))
    BY <2>5, <2>6, <2>8 DEF TPassed, TAt
  <2> QED BY <2>1, <2>3, <2>9
<1>3. \A d \in Nat : d \in N => d + 1 \in N BY <1>2
<1>4. j - i \in Nat /\ i + (j - i) = j OBVIOUS
<1> HIDE DEF N
<1>5. j - i \in N BY <1>1, <1>3, <1>4, Induction
<1> QED BY <1>4, <1>5 DEF N

\* and a tag is skipped.
LEMMA TReadTag ==
    ASSUME NEW text \in Seq(Symbol), NEW i \in Nat, i < Len(text),
           NEW b \in BOOLEAN, NEW s, NEW t,
           TRun(text)[i] = TAt(b, s, t), T!Begins(T!Tag(b), text, i + 1)
    PROVE  TRun(text)[i + Len(T!Tag(b))] = TAt(~b, s, t)
<1> DEFINE l == Len(T!Tag(b))
           N == {d \in Nat : d + 1 <= l => TRun(text)[i + 1 + d] =
                    [think |-> ~b, skip |-> l - 1 - d, said |-> s, thought |-> t]}
<1>0. Len(text) \in Nat BY LenProperties
<1>1. l \in Nat \ {0} /\ i + l <= Len(text) BY <1>0, TTag DEF T!Begins
<1>2. 0 \in N
  <2>1. TRun(text)[i + 1] = T!Read(text, i + 1, TAt(b, s, t)) BY <1>0, TRunNext
  <2>2. TAt(b, s, t).skip = 0 /\ TAt(b, s, t).think = b BY DEF TAt
  <2>3. T!Read(text, i + 1, TAt(b, s, t)) = [TAt(b, s, t) EXCEPT !.think = ~@, !.skip = l - 1]
    BY <2>2 DEF T!Read
  <2>4. i + 1 + 0 = i + 1 /\ l - 1 - 0 = l - 1 BY <1>1
  <2>5. TRun(text)[i + 1] = [think |-> ~b, skip |-> l - 1, said |-> s, thought |-> t]
    BY <2>1, <2>3 DEF TAt
  <2> QED BY <2>4, <2>5
<1>3. ASSUME NEW d \in Nat, d \in N, (d + 1) + 1 <= l
      PROVE  TRun(text)[i + 1 + (d + 1)] = [think |-> ~b, skip |-> l - 1 - (d + 1), said |-> s, thought |-> t]
  <2> DEFINE m == i + 1 + d
             before == [think |-> ~b, skip |-> l - 1 - d, said |-> s, thought |-> t]
  <2>1. m + 1 = i + 1 + (d + 1) /\ m \in 0 .. Len(text) - 1 /\ l - 1 - d > 0 /\ d + 1 <= l
        /\ (l - 1 - d) - 1 = l - 1 - (d + 1)
    BY <1>0, <1>1, <1>3
  <2>2. TRun(text)[m] = before BY <1>3, <2>1
  <2>3. TRun(text)[m + 1] = T!Read(text, m + 1, before) BY <2>1, <2>2, TRunNext
  <2>4. T!Read(text, m + 1, before) = [before EXCEPT !.skip = @ - 1] BY <2>1 DEF T!Read
  <2> QED BY <2>1, <2>3, <2>4
<1>4. \A d \in Nat : d \in N => d + 1 \in N BY <1>3
<1>5. l - 1 \in Nat /\ (l - 1) + 1 <= l /\ i + 1 + (l - 1) = i + l /\ l - 1 - (l - 1) = 0 BY <1>1
<1>6. l - 1 \in N
  <2> HIDE DEF N, l
  <2> QED BY <1>2, <1>4, <1>5, Induction
<1>7. TRun(text)[i + 1 + (l - 1)] = [think |-> ~b, skip |-> l - 1 - (l - 1), said |-> s, thought |-> t]
  BY <1>5, <1>6
<1> QED BY <1>5, <1>7 DEF TAt

\* Between two passes the buffer is the rest of the text, what was passed on is what its beginning
\* is read as, whatever follows, and after the last one what is held is no whole tag.
TSure(text, i, p) ==
    \A more \in Seq(Symbol) : TRun(text \o more)[i] = TAt(p.think, p.said, p.thought)
TFrom(text, i, p) ==
    /\ i \in 0 .. Len(text) /\ p.buffer = SubSeq(text, i + 1, Len(text)) /\ TSure(text, i, p)
    /\ p.think \in BOOLEAN /\ p.more \in BOOLEAN /\ p.said \in Seq(Symbol) /\ p.thought \in Seq(Symbol)
    /\ ~p.more => Len(p.buffer) < Len(T!Tag(p.think)) /\ T!Fits(T!Tag(p.think), p.buffer, 1)

\* The rest of a text, and where tags are in it: those that end in the text, whatever follows,
\* and others of which a beginning is there.
LEMMA TRest ==
    ASSUME NEW text \in Seq(Symbol), NEW i \in 0 .. Len(text)
    PROVE  LET u == SubSeq(text, i + 1, Len(text)) IN
           /\ u \in Seq(Symbol) /\ Len(u) = Len(text) - i /\ Len(u) \in Nat /\ DOMAIN u = 1 .. Len(u)
           /\ \A k \in 1 .. Len(u) : u[k] = text[i + k]
<1>0. Len(text) \in Nat BY LenProperties
<1>1. \A k \in i + 1 .. Len(text) : text[k] \in Symbol BY <1>0, ElementOfSeq
<1> DEFINE u == SubSeq(text, i + 1, Len(text))
<1>2. /\ u \in Seq(Symbol)
      /\ Len(u) = IF i + 1 <= Len(text) THEN Len(text) - (i + 1) + 1 ELSE 0
      /\ \A k \in 1 .. Len(text) - (i + 1) + 1 : u[k] = text[(i + 1) + k - 1]
  BY <1>0, <1>1, SubSeqProperties
<1>3. Len(u) = Len(text) - i /\ Len(u) \in Nat BY <1>0, <1>2
<1>4. DOMAIN u = 1 .. Len(u) BY <1>2, LenProperties
<1>5. ASSUME NEW k \in 1 .. Len(u) PROVE u[k] = text[i + k]
  <2>1. k \in 1 .. Len(text) - (i + 1) + 1 /\ (i + 1) + k - 1 = i + k BY <1>0, <1>3
  <2> QED BY <1>2, <2>1
<1> QED BY <1>2, <1>3, <1>4, <1>5

LEMMA TPlaces ==
    ASSUME NEW text \in Seq(Symbol), NEW more \in Seq(Symbol), NEW i \in 0 .. Len(text),
           NEW b \in BOOLEAN, NEW k \in Nat \ {0}
    PROVE  LET u == SubSeq(text, i + 1, Len(text)) IN
           /\ T!Begins(T!Tag(b), u, k) => T!Begins(T!Tag(b), text \o more, i + k)
           /\ T!Begins(T!Tag(b), text \o more, i + k) => T!Fits(T!Tag(b), u, k)
<1> DEFINE u == SubSeq(text, i + 1, Len(text))
           w == text \o more
           tag == T!Tag(b)
<1>1. /\ u \in Seq(Symbol) /\ Len(u) = Len(text) - i /\ Len(u) \in Nat /\ DOMAIN u = 1 .. Len(u)
      /\ \A j \in 1 .. Len(u) : u[j] = text[i + j]
  BY TRest
<1>2. Len(text) \in Nat /\ Len(more) \in Nat BY LenProperties
<1>3. /\ w \in Seq(Symbol) /\ Len(w) = Len(text) + Len(more)
      /\ \A j \in 1 .. Len(text) + Len(more) : w[j] = IF j <= Len(text) THEN text[j] ELSE more[j - Len(text)]
  BY ConcatProperties
<1>4. DOMAIN w = 1 .. Len(w) BY <1>3, LenProperties
<1>5. ASSUME NEW j \in 1 .. Len(u) PROVE i + j \in DOMAIN w /\ w[i + j] = u[j]
  <2>1. i + j \in 1 .. Len(text) BY <1>1, <1>2
  <2>2. i + j \in 1 .. Len(text) + Len(more) /\ i + j <= Len(text) BY <1>2, <2>1
  <2>3. w[i + j] = text[i + j] BY <1>3, <2>2
  <2> QED BY <1>1, <1>3, <1>4, <2>2, <2>3
<1>6. Len(tag) \in Nat \ {0} /\ DOMAIN tag = 1 .. Len(tag) BY TTag
<1> HIDE DEF u, w, tag
<1>7. ASSUME T!Begins(tag, u, k) PROVE T!Begins(tag, w, i + k)
  <2>1. (i + k) + Len(tag) - 1 <= Len(w) BY <1>1, <1>2, <1>3, <1>6, <1>7 DEF T!Begins
  <2>2. ASSUME NEW n \in DOMAIN tag PROVE w[(i + k) + n - 1] = tag[n]
    <3>1. k + n - 1 \in 1 .. Len(u) /\ i + (k + n - 1) = (i + k) + n - 1
      BY <1>1, <1>6, <1>7, <2>2 DEF T!Begins
    <3>2. u[k + n - 1] = tag[n] BY <1>1, <1>7, <2>2, <3>1 DEF T!Begins, T!Fits
    <3>3. w[i + (k + n - 1)] = u[k + n - 1] BY <1>5, <3>1
    <3> QED BY <3>1, <3>2, <3>3
  <2> QED BY <2>1, <2>2 DEF T!Begins, T!Fits
<1>8. ASSUME T!Begins(tag, w, i + k) PROVE T!Fits(tag, u, k)
  <2> SUFFICES ASSUME NEW n \in DOMAIN tag, k + n - 1 \in DOMAIN u PROVE u[k + n - 1] = tag[n]
    BY DEF T!Fits
  <2>1. k + n - 1 \in 1 .. Len(u) /\ i + (k + n - 1) = (i + k) + n - 1 BY <1>1, <1>6
  <2>2. w[i + (k + n - 1)] = u[k + n - 1] /\ i + (k + n - 1) \in DOMAIN w BY <1>5, <2>1
  <2>3. w[(i + k) + n - 1] = tag[n] BY <1>8, <2>1, <2>2 DEF T!Begins, T!Fits
  <2> QED BY <2>1, <2>2, <2>3
<1> QED BY <1>7, <1>8 DEF u, w, tag

\* Parts of the rest are parts of the text, and of what continues it.
LEMMA TParts ==
    ASSUME NEW text \in Seq(Symbol), NEW i \in 0 .. Len(text), NEW n \in 0 .. Len(text) - i
    PROVE  LET u == SubSeq(text, i + 1, Len(text)) IN
           /\ SubSeq(u, 1, n) = SubSeq(text, i + 1, i + n)
           /\ SubSeq(u, n + 1, Len(u)) = SubSeq(text, i + n + 1, Len(text))
           /\ \A more \in Seq(Symbol) : SubSeq(text \o more, i + 1, i + n) = SubSeq(text, i + 1, i + n)
           /\ SubSeq(text, i + 1, i + n) \in Seq(Symbol)
<1> DEFINE u == SubSeq(text, i + 1, Len(text))
           v == SubSeq(text, i + 1, i + n)
           w == SubSeq(text, i + n + 1, Len(text))
<1>1. /\ u \in Seq(Symbol) /\ Len(u) = Len(text) - i /\ Len(u) \in Nat
      /\ \A k \in 1 .. Len(u) : u[k] = text[i + k]
  BY TRest
<1>2. Len(text) \in Nat /\ i \in Nat /\ n \in Nat /\ i + n \in 0 .. Len(text) /\ n <= Len(u) BY <1>1, LenProperties
<1>3. /\ w \in Seq(Symbol) /\ Len(w) = Len(text) - (i + n)
      /\ \A k \in 1 .. Len(w) : w[k] = text[i + n + k]
  BY <1>2, TRest
<1>4. /\ v \in Seq(Symbol) /\ Len(v) = n /\ \A k \in 1 .. n : v[k] = text[i + k]
  <2>1. \A k \in i + 1 .. i + n : text[k] \in Symbol
    <3>1. \A k \in i + 1 .. i + n : k \in 1 .. Len(text) BY <1>2
    <3> QED BY <3>1, ElementOfSeq
  <2>2. /\ v \in Seq(Symbol) /\ Len(v) = IF i + 1 <= i + n THEN (i + n) - (i + 1) + 1 ELSE 0
        /\ \A k \in 1 .. (i + n) - (i + 1) + 1 : v[k] = text[(i + 1) + k - 1]
    BY <2>1, <1>2, SubSeqProperties
  <2>3. Len(v) = n BY <2>2, <1>2
  <2>4. ASSUME NEW k \in 1 .. n PROVE v[k] = text[i + k]
    <3>1. k \in 1 .. (i + n) - (i + 1) + 1 /\ (i + 1) + k - 1 = i + k BY <1>2
    <3> QED BY <2>2, <3>1
  <2> QED BY <2>2, <2>3, <2>4
<1> HIDE DEF u, v, w
<1>5. SubSeq(u, 1, n) = v
  <2> DEFINE x == SubSeq(u, 1, n)
  <2>1. \A k \in 1 .. n : u[k] \in Symbol
    <3>1. \A k \in 1 .. n : k \in 1 .. Len(u) BY <1>2
    <3> QED BY <3>1, <1>1, ElementOfSeq
  <2>2. /\ x \in Seq(Symbol) /\ Len(x) = IF 1 <= n THEN n - 1 + 1 ELSE 0
        /\ \A k \in 1 .. n - 1 + 1 : x[k] = u[1 + k - 1]
    BY <2>1, <1>2, SubSeqProperties
  <2>3. Len(x) = n BY <2>2, <1>2
  <2>4. ASSUME NEW k \in 1 .. n PROVE x[k] = v[k]
    <3>1. k \in 1 .. n - 1 + 1 /\ 1 + k - 1 = k /\ k \in 1 .. Len(u) BY <1>2
    <3> QED BY <3>1, <2>2, <1>1, <1>4
  <2> HIDE DEF x
  <2>5. x = v BY <2>2, <2>3, <2>4, <1>4, SeqEqual
  <2> QED BY <2>5 DEF x
<1>6. SubSeq(u, n + 1, Len(u)) = w
  <2> DEFINE x == SubSeq(u, n + 1, Len(u))
  <2>1. n \in 0 .. Len(u) BY <1>2
  <2>2. x \in Seq(Symbol) /\ Len(x) = Len(u) - n /\ \A k \in 1 .. Len(x) : x[k] = u[n + k]
    BY <1>1, <2>1, TRest
  <2>3. Len(x) = Len(w) BY <1>1, <1>2, <1>3, <2>2
  <2>4. ASSUME NEW k \in 1 .. Len(x) PROVE x[k] = w[k]
    <3>2. \A l, j \in Nat : \A d \in 1 .. l - n :
             n <= l => n + d \in 1 .. l /\ j + (n + d) = j + n + d
      BY <1>2
    <3>1. n + k \in 1 .. Len(u) /\ i + (n + k) = i + n + k BY <1>1, <1>2, <2>2, <3>2
    <3> QED BY <3>1, <2>2, <2>3, <1>1, <1>3
  <2> HIDE DEF x
  <2>5. x = w BY <2>2, <2>3, <2>4, <1>3, SeqEqual
  <2> QED BY <2>5 DEF x
<1>7. ASSUME NEW more \in Seq(Symbol) PROVE SubSeq(text \o more, i + 1, i + n) = v
  <2> DEFINE y == text \o more
             x == SubSeq(y, i + 1, i + n)
  <2>1. /\ y \in Seq(Symbol) /\ Len(y) = Len(text) + Len(more)
        /\ \A k \in 1 .. Len(text) + Len(more) : y[k] = IF k <= Len(text) THEN text[k] ELSE more[k - Len(text)]
    BY ConcatProperties
  <2>2. Len(more) \in Nat BY LenProperties
  <2>3. \A k \in i + 1 .. i + n : k \in 1 .. Len(text) + Len(more) /\ k \in 1 .. Len(text) /\ k <= Len(text)
    BY <1>2, <2>2
  <2>4. \A k \in i + 1 .. i + n : y[k] = text[k] BY <2>1, <2>3
  <2>5. \A k \in i + 1 .. i + n : y[k] \in Symbol BY <2>3, <2>4, ElementOfSeq
  <2> HIDE DEF y
  <2>6. /\ x \in Seq(Symbol) /\ Len(x) = IF i + 1 <= i + n THEN (i + n) - (i + 1) + 1 ELSE 0
        /\ \A k \in 1 .. (i + n) - (i + 1) + 1 : x[k] = y[(i + 1) + k - 1]
    BY <2>5, <1>2, SubSeqProperties
  <2>10. Len(x) = IF i + 1 <= i + n THEN (i + n) - (i + 1) + 1 ELSE 0 BY <2>6
  <2>11. (IF i + 1 <= i + n THEN (i + n) - (i + 1) + 1 ELSE 0) = n BY <1>2
  <2>7. Len(x) = n BY <2>10, <2>11
  <2>8. ASSUME NEW k \in 1 .. n PROVE x[k] = v[k]
    <3>1. k \in 1 .. (i + n) - (i + 1) + 1 /\ (i + 1) + k - 1 = i + k /\ i + k \in i + 1 .. i + n BY <1>2
    <3> QED BY <2>4, <2>6, <3>1, <1>4
  <2> HIDE DEF x
  <2>9. x = v BY <2>6, <2>7, <2>8, <1>4, SeqEqual
  <2> QED BY <2>9 DEF x, y
<1> QED BY <1>4, <1>5, <1>6, <1>7 DEF u, v, w

\* A pass that finds a tag goes on behind it,
LEMMA TPassTag ==
    ASSUME NEW text \in Seq(Symbol), NEW i, NEW p, TFrom(text, i, p), p.more,
           T!IndexOf(T!Tag(p.think), p.buffer) # 0
    PROVE  LET q == T!Pass(p) IN (\E j : TFrom(text, j, q)) /\ Len(q.buffer) < Len(p.buffer)
<1> DEFINE u == p.buffer
           b == p.think
           tag == T!Tag(b)
           at == T!IndexOf(tag, u)
           j == i + (at - 1)
           v == SubSeq(text, i + 1, j)
           q == T!Pass(p)
<1>1. i \in 0 .. Len(text) /\ u = SubSeq(text, i + 1, Len(text)) /\ TSure(text, i, p)
      /\ b \in BOOLEAN /\ p.said \in Seq(Symbol) /\ p.thought \in Seq(Symbol)
  BY DEF TFrom
<1>2. /\ u \in Seq(Symbol) /\ Len(u) = Len(text) - i /\ Len(u) \in Nat /\ DOMAIN u = 1 .. Len(u)
  BY <1>1, TRest
<1>3. Len(text) \in Nat BY LenProperties
<1>4. Len(tag) \in Nat \ {0} BY <1>1, TTag
<1>5. at \in 1 .. Len(u) /\ T!Begins(tag, u, at) /\ \A k \in 1 .. at - 1 : ~T!Begins(tag, u, k)
  BY <1>1, <1>2, TIndex
<1>6. at + Len(tag) - 1 <= Len(u) BY <1>5 DEF T!Begins
<1>16. j = i + (at - 1) /\ v = SubSeq(text, i + 1, j) /\ tag = T!Tag(b) OBVIOUS
<1>17. /\ q = T!Pass(p) /\ u = p.buffer /\ b = p.think /\ p.more
       /\ at = T!IndexOf(T!Tag(p.think), p.buffer) /\ tag = T!Tag(p.think)
  OBVIOUS
<1> HIDE DEF u, b, tag, at, j, v, q
<1>7. at - 1 \in 0 .. Len(text) - i /\ at - 1 + Len(tag) \in 0 .. Len(text) - i /\ at + Len(tag) = (at - 1 + Len(tag)) + 1
  BY <1>2, <1>3, <1>4, <1>5, <1>6, <1>1
<1>8. /\ SubSeq(u, 1, at - 1) = v /\ v \in Seq(Symbol)
      /\ \A more \in Seq(Symbol) : SubSeq(text \o more, i + 1, j) = v
  BY <1>1, <1>7, <1>16, TParts
<1>9. SubSeq(u, at + Len(tag), Len(u)) = SubSeq(text, j + Len(tag) + 1, Len(text))
  <2>1. SubSeq(u, (at - 1 + Len(tag)) + 1, Len(u)) = SubSeq(text, i + (at - 1 + Len(tag)) + 1, Len(text))
    BY <1>1, <1>7, TParts
  <2>2. i + (at - 1 + Len(tag)) + 1 = j + Len(tag) + 1 BY <1>1, <1>2, <1>4, <1>5, <1>16
  <2> QED BY <2>1, <2>2, <1>7
<1>10. j \in Nat /\ i \in Nat /\ i <= j /\ j + Len(tag) \in 0 .. Len(text) /\ j + 1 = i + at /\ j < Len(text)
  BY <1>1, <1>2, <1>3, <1>4, <1>5, <1>7, <1>16
<1>11. q = [more |-> TRUE, think |-> ~b, buffer |-> SubSeq(u, at + Len(tag), Len(u)),
            said |-> IF b THEN p.said ELSE p.said \o v,
            thought |-> IF b THEN p.thought \o v ELSE p.thought]
  BY <1>5, <1>8, <1>17 DEF T!Pass
<1>12. q.said \in Seq(Symbol) /\ q.thought \in Seq(Symbol)
  <2>1. p.said \o v \in Seq(Symbol) /\ p.thought \o v \in Seq(Symbol) BY <1>1, <1>8, ConcatProperties
  <2> QED BY <1>1, <1>11, <2>1
<1>13. ASSUME NEW more \in Seq(Symbol)
       PROVE  TRun(text \o more)[j + Len(tag)] = TAt(q.think, q.said, q.thought)
  <2> DEFINE w == text \o more
  <2>1. w \in Seq(Symbol) /\ Len(w) = Len(text) + Len(more) /\ Len(more) \in Nat
    BY ConcatProperties, LenProperties
  <2>2. TRun(w)[i] = TAt(b, p.said, p.thought) BY <1>1, <1>17 DEF TSure
  <2>3. ASSUME NEW k \in i + 1 .. j, T!Begins(tag, w, k) PROVE FALSE
    <3> DEFINE n == k - i
    <3>1. n \in 1 .. at - 1 /\ n \in Nat \ {0} /\ k = i + n BY <1>10, <1>5, <1>2
    <3>2. T!Fits(tag, u, n) BY <1>1, <2>3, <3>1, <1>16, TPlaces
    <3>3. n + Len(tag) - 1 <= Len(u) BY <3>1, <1>6, <1>4, <1>5, <1>2
    <3> QED BY <1>5, <3>1, <3>2, <3>3 DEF T!Begins
  <2>4. T!Begins(tag, w, j + 1)
    <3>1. at \in Nat \ {0} BY <1>2, <1>5
    <3> QED BY <1>1, <1>5, <1>10, <3>1, <1>16, TPlaces
  <2>5. SubSeq(w, i + 1, j) = v BY <1>8
  <2> HIDE DEF w
  <2>6. j <= Len(w) /\ j < Len(w) BY <1>10, <2>1, <1>3
  <2>7. TRun(w)[j] = TPassed(b, p.said, p.thought, v)
    <3>1. \A k \in i + 1 .. j : ~T!Begins(T!Tag(b), w, k) BY <2>3, <1>16
    <3>2. TRun(w)[j] = TPassed(b, p.said, p.thought, SubSeq(w, i + 1, j))
      <4>1. w \in Seq(Symbol) /\ i \in Nat /\ j \in Nat /\ i <= j /\ j <= Len(w) BY <1>10, <2>1, <2>6
      <4>2. b \in BOOLEAN /\ p.said \in Seq(Symbol) /\ p.thought \in Seq(Symbol) BY <1>1
      <4>3. \A s, t \in Seq(Symbol) : TRun(w)[i] = TAt(b, s, t) => TRun(w)[j] = TPassed(b, s, t, SubSeq(w, i + 1, j))
        BY <4>1, <4>2, <3>1, TReadPlain
      <4> QED BY <4>2, <4>3, <2>2
    <3> QED BY <2>5, <3>2
  <2>8. TRun(w)[j] = TAt(b, q.said, q.thought) BY <1>11, <2>7 DEF TPassed
  <2>9. TRun(w)[j + Len(T!Tag(b))] = TAt(~b, q.said, q.thought)
    <3>1. w \in Seq(Symbol) /\ j \in Nat /\ j < Len(w) /\ b \in BOOLEAN BY <1>1, <1>10, <2>1, <2>6
    <3>2. T!Begins(T!Tag(b), w, j + 1) BY <2>4, <1>16
    <3>3. \A s, t : TRun(w)[j] = TAt(b, s, t) => TRun(w)[j + Len(T!Tag(b))] = TAt(~b, s, t)
      BY <3>1, <3>2, TReadTag
    <3> QED BY <3>3, <2>8
  <2>10. q.think = ~b BY <1>11
  <2> QED BY <2>9, <2>10, <1>16 DEF w
<1>14. TFrom(text, j + Len(tag), q)
  <2>1. TSure(text, j + Len(tag), q) BY <1>13 DEF TSure
  <2>2. q.buffer = SubSeq(text, (j + Len(tag)) + 1, Len(text)) BY <1>9, <1>11
  <2>3. q.think \in BOOLEAN /\ q.more \in BOOLEAN /\ q.more BY <1>11, <1>1
  <2> QED BY <1>10, <1>12, <2>1, <2>2, <2>3 DEF TFrom
<1>15. Len(q.buffer) < Len(u)
  <2>1. Len(q.buffer) = Len(text) - (j + Len(tag)) BY <1>10, <1>14, TRest DEF TFrom
  <2> QED BY <2>1, <1>2, <1>3, <1>4, <1>10, <1>1
<1> QED BY <1>14, <1>15, <1>17

\* and one that finds none passes on all but what may be the beginning of one.
LEMMA TPassLast ==
    ASSUME NEW text \in Seq(Symbol), NEW i, NEW p, TFrom(text, i, p), p.more,
           T!IndexOf(T!Tag(p.think), p.buffer) = 0
    PROVE  LET q == T!Pass(p) IN (\E j : TFrom(text, j, q)) /\ ~q.more
<1> DEFINE u == p.buffer
           b == p.think
           tag == T!Tag(b)
           held == T!PartialTagSuffix(tag, u)
           n == Len(u) - held
           v == SubSeq(text, i + 1, i + n)
           q == T!Pass(p)
<1>1. i \in 0 .. Len(text) /\ u = SubSeq(text, i + 1, Len(text)) /\ TSure(text, i, p)
      /\ b \in BOOLEAN /\ p.said \in Seq(Symbol) /\ p.thought \in Seq(Symbol)
  BY DEF TFrom
<1>2. /\ u \in Seq(Symbol) /\ Len(u) = Len(text) - i /\ Len(u) \in Nat /\ DOMAIN u = 1 .. Len(u)
  BY <1>1, TRest
<1>3. Len(text) \in Nat BY LenProperties
<1>4. Len(tag) \in Nat \ {0} /\ DOMAIN tag = 1 .. Len(tag) BY <1>1, TTag
<1>6. /\ held \in 0 .. Len(tag) - 1 /\ held <= Len(u) /\ T!Fits(tag, u, Len(u) + 1 - held)
      /\ \A m \in 0 .. Len(tag) - 1 : m <= Len(u) /\ T!Fits(tag, u, Len(u) + 1 - m) => m <= held
  BY <1>1, <1>2, TPartial
<1>7. q = T!Pass(p) /\ u = p.buffer /\ b = p.think /\ p.more /\ T!IndexOf(tag, u) = 0 /\ tag = T!Tag(b)
      /\ held = T!PartialTagSuffix(tag, u) /\ n = Len(u) - held /\ v = SubSeq(text, i + 1, i + n)
  OBVIOUS
<1> HIDE DEF u, b, tag, held, n, v, q
<1>5. \A k \in 1 .. Len(u) : ~T!Begins(tag, u, k)
  <2>1. \/ T!IndexOf(tag, u) = 0 /\ \A k \in 1 .. Len(u) : ~T!Begins(tag, u, k)
        \/ T!IndexOf(tag, u) \in 1 .. Len(u)
    BY <1>1, <1>2, <1>7, TIndex
  <2>2. 0 \notin 1 .. Len(u) OBVIOUS
  <2> QED BY <1>7, <2>1, <2>2
<1>18. held \in Nat /\ held <= Len(u) /\ held < Len(tag) BY <1>4, <1>6
<1>19. n \in Nat /\ n <= Len(u) /\ n + held = Len(u) BY <1>2, <1>7, <1>18
<1>20. i \in Nat /\ i + Len(u) = Len(text) BY <1>1, <1>2, <1>3
<1>8. n \in 0 .. Len(text) - i /\ n \in 0 .. Len(u) /\ i + n \in 0 .. Len(text) /\ i \in Nat /\ i + n \in Nat
      /\ i <= i + n /\ i + n <= Len(text) /\ Len(text) - (i + n) = held
  BY <1>2, <1>3, <1>18, <1>19, <1>20
<1>9. /\ SubSeq(u, 1, n) = v /\ v \in Seq(Symbol)
      /\ SubSeq(u, n + 1, Len(u)) = SubSeq(text, i + n + 1, Len(text))
      /\ \A more \in Seq(Symbol) : SubSeq(text \o more, i + 1, i + n) = v
  <2>1. n \in 0 .. Len(text) - i /\ i \in 0 .. Len(text) BY <1>1, <1>8
  <2> DEFINE x == SubSeq(text, i + 1, Len(text))
  <2>2. /\ SubSeq(x, 1, n) = SubSeq(text, i + 1, i + n) /\ SubSeq(text, i + 1, i + n) \in Seq(Symbol)
        /\ SubSeq(x, n + 1, Len(x)) = SubSeq(text, i + n + 1, Len(text))
        /\ \A more \in Seq(Symbol) : SubSeq(text \o more, i + 1, i + n) = SubSeq(text, i + 1, i + n)
    BY <2>1, TParts
  <2>3. u = x BY <1>1
  <2> HIDE DEF x
  <2> QED BY <1>7, <2>2, <2>3
<1>10. q = [more |-> FALSE, think |-> b, buffer |-> SubSeq(u, n + 1, Len(u)),
            said |-> IF b THEN p.said ELSE p.said \o v,
            thought |-> IF b THEN p.thought \o v ELSE p.thought]
  BY <1>7, <1>9 DEF T!Pass
<1>11. q.said \in Seq(Symbol) /\ q.thought \in Seq(Symbol)
  <2>1. p.said \o v \in Seq(Symbol) /\ p.thought \o v \in Seq(Symbol) BY <1>1, <1>9, ConcatProperties
  <2> QED BY <1>1, <1>10, <2>1
<1>12. ASSUME NEW more \in Seq(Symbol)
       PROVE  TRun(text \o more)[i + n] = TAt(q.think, q.said, q.thought)
  <2> DEFINE w == text \o more
  <2>1. w \in Seq(Symbol) /\ Len(w) = Len(text) + Len(more) /\ Len(more) \in Nat
    BY ConcatProperties, LenProperties
  <2>2. TRun(w)[i] = TAt(b, p.said, p.thought) BY <1>1, <1>7 DEF TSure
  <2>3. ASSUME NEW k \in i + 1 .. i + n, T!Begins(tag, w, k) PROVE FALSE
    <3> DEFINE m == k - i
    <3>1. m \in 1 .. n /\ m \in Nat \ {0} /\ k = i + m /\ m \in 1 .. Len(u) BY <1>8
    <3>2. T!Fits(tag, u, m) BY <1>1, <2>3, <3>1, <1>7, TPlaces
    <3>3. ~(m + Len(tag) - 1 <= Len(u)) BY <1>5, <3>1, <3>2 DEF T!Begins
    <3> DEFINE d == Len(u) + 1 - m
    <3>5. /\ \A l, m1, h, n1 \in Nat : l - m1 \in Int /\ (n1 + h = l /\ m1 <= n1 => ~(l + 1 - m1 <= h))
          /\ \A l, m1, t \in Nat : m1 <= l /\ m1 # 0 /\ ~(m1 + t - 1 <= l) =>
                l + 1 - m1 \in 0 .. t - 1 /\ l + 1 - m1 <= l /\ l + 1 - (l + 1 - m1) = m1
      OBVIOUS
    <3>6. m \in Nat /\ m # 0 /\ m <= n /\ m <= Len(u) BY <1>2, <1>19, <3>1
    <3>7. Len(u) \in Nat /\ Len(tag) \in Nat /\ held \in Nat /\ n \in Nat BY <1>2, <1>4, <1>18, <1>19
    <3> HIDE DEF m
    <3>8. ~(d <= held) BY <1>19, <3>5, <3>6, <3>7
    <3>4. d \in 0 .. Len(tag) - 1 /\ d <= Len(u) /\ Len(u) + 1 - d = m /\ ~(d <= held)
      BY <3>3, <3>5, <3>6, <3>7, <3>8
    <3> HIDE DEF d
    <3> QED BY <1>6, <3>2, <3>4
  <2>4. SubSeq(w, i + 1, i + n) = v BY <1>9
  <2> HIDE DEF w
  <2>5. w \in Seq(Symbol) /\ i \in Nat /\ i + n \in Nat /\ i <= i + n /\ i + n <= Len(w) BY <1>8, <2>1, <1>3
  <2>6. b \in BOOLEAN /\ p.said \in Seq(Symbol) /\ p.thought \in Seq(Symbol) BY <1>1
  <2>7. \A k \in i + 1 .. i + n : ~T!Begins(T!Tag(b), w, k) BY <2>3, <1>7
  <2>8. \A s, t \in Seq(Symbol) : TRun(w)[i] = TAt(b, s, t) =>
                                  TRun(w)[i + n] = TPassed(b, s, t, SubSeq(w, i + 1, i + n))
    <3> DEFINE j == i + n
    <3>1. \A k \in i + 1 .. j : ~T!Begins(T!Tag(b), w, k) BY <2>7
    <3>2. w \in Seq(Symbol) /\ i \in Nat /\ j \in Nat /\ i <= j /\ j <= Len(w) BY <2>5
    <3> HIDE DEF j
    <3>3. \A s, t \in Seq(Symbol) : TRun(w)[i] = TAt(b, s, t) => TRun(w)[j] = TPassed(b, s, t, SubSeq(w, i + 1, j))
      BY <2>6, <3>1, <3>2, TReadPlain
    <3> QED BY <3>3 DEF j
  <2>9. TRun(w)[i + n] = TPassed(b, p.said, p.thought, v) BY <2>8, <2>2, <2>4, <2>6
  <2> QED BY <1>10, <2>9 DEF TPassed, w
<1>13. TSure(text, i + n, q) BY <1>12 DEF TSure
<1>14. Len(q.buffer) < Len(T!Tag(q.think))
  <2>1. Len(q.buffer) = Len(u) - n
    <3>1. q.buffer = SubSeq(u, n + 1, Len(u)) BY <1>10
    <3> QED BY <1>2, <1>8, <3>1, TRest
  <2>2. Len(q.buffer) = held BY <1>2, <1>18, <1>19, <2>1
  <2>3. q.think = b BY <1>10
  <2> QED BY <1>7, <1>18, <2>2, <2>3
<1>15. T!Fits(T!Tag(q.think), q.buffer, 1)
  <2>1. q.buffer = SubSeq(u, n + 1, Len(u)) /\ T!Tag(q.think) = tag BY <1>7, <1>10
  <2>2. /\ Len(q.buffer) \in Nat /\ Len(q.buffer) = Len(u) - n /\ DOMAIN q.buffer = 1 .. Len(q.buffer)
        /\ \A k \in 1 .. Len(q.buffer) : q.buffer[k] = u[n + k]
    <3>1. n \in 0 .. Len(u) BY <1>8
    <3>2. /\ Len(SubSeq(u, n + 1, Len(u))) \in Nat /\ Len(SubSeq(u, n + 1, Len(u))) = Len(u) - n
          /\ DOMAIN SubSeq(u, n + 1, Len(u)) = 1 .. Len(SubSeq(u, n + 1, Len(u)))
          /\ \A k \in 1 .. Len(SubSeq(u, n + 1, Len(u))) : SubSeq(u, n + 1, Len(u))[k] = u[n + k]
      BY <1>2, <3>1, TRest
    <3> QED BY <2>1, <3>2
  <2> SUFFICES ASSUME NEW k \in DOMAIN tag, 1 + k - 1 \in DOMAIN q.buffer PROVE q.buffer[1 + k - 1] = tag[k]
    BY <2>1 DEF T!Fits
  <2>3. k \in 1 .. Len(q.buffer) /\ 1 + k - 1 = k /\ n + k \in DOMAIN u /\ (Len(u) + 1 - held) + k - 1 = n + k
    BY <1>2, <1>4, <1>18, <1>19, <2>2
  <2>4. u[n + k] = tag[k] BY <1>6, <2>3 DEF T!Fits
  <2> QED BY <2>2, <2>3, <2>4
<1>16. TFrom(text, i + n, q)
  <2>1. q.think \in BOOLEAN /\ q.more = FALSE BY <1>10, <1>1
  <2> QED BY <1>8, <1>9, <1>10, <1>11, <1>13, <1>14, <1>15, <2>1 DEF TFrom
<1>17. ~q.more BY <1>10
<1> QED BY <1>7, <1>16, <1>17

\* The loop ends with what it may hold.
LEMMA TParse ==
    ASSUME NEW text \in Seq(Symbol), NEW i, NEW p, TFrom(text, i, p), p.more
    PROVE  LET q == T!Parse(p) IN (\E j : TFrom(text, j, q)) /\ ~q.more
<1> DEFINE n == Len(p.buffer) + 1
           f == TPasses(p, n)
           N == {k \in Nat : k <= n => /\ \E j : TFrom(text, j, f[k])
                                       /\ f[k].more => Len(f[k].buffer) + k <= Len(p.buffer)}
<1>1. Len(p.buffer) \in Nat BY TRest DEF TFrom
<1>3. n \in Nat /\ 0 \in 0 .. n /\ n = Len(p.buffer) + 1 BY <1>1
<1> HIDE DEF n
<1>2. f = [k \in 0 .. n |-> IF k = 0 THEN p ELSE T!Pass(f[k - 1])] BY <1>3, TPassesDef
<1> HIDE DEF f
<1>4. f[0] = p BY <1>2, <1>3
<1>5. 0 \in N BY <1>1, <1>4
<1>6. ASSUME NEW k \in Nat, k \in N, k + 1 <= n
      PROVE  /\ \E j : TFrom(text, j, f[k + 1])
             /\ f[k + 1].more => Len(f[k + 1].buffer) + (k + 1) <= Len(p.buffer)
  <2> DEFINE x == f[k]
             q == T!Pass(x)
  <2>1. k + 1 \in 0 .. n /\ k + 1 # 0 /\ (k + 1) - 1 = k /\ k <= n BY <1>3, <1>6
  <2>2. f[k + 1] = q BY <1>2, <2>1
  <2> HIDE DEF q
  <2>9. q = T!Pass(x) BY DEF q
  <2>3. (\E j : TFrom(text, j, x)) /\ (x.more => Len(x.buffer) + k <= Len(p.buffer)) BY <1>6, <2>1
  <2> HIDE DEF x
  <2>4. PICK j : TFrom(text, j, x) BY <2>3
  <2>5. Len(x.buffer) \in Nat BY <2>4, TRest DEF TFrom
  <2>6. CASE ~x.more
    <3>1. q = x BY <2>6, <2>9 DEF T!Pass
    <3> QED BY <2>2, <2>4, <2>6, <3>1
  <2>7. CASE x.more /\ T!IndexOf(T!Tag(x.think), x.buffer) = 0
    <3>1. (\E m : TFrom(text, m, q)) /\ ~q.more BY <2>4, <2>7, <2>9, TPassLast
    <3> QED BY <2>2, <3>1
  <2>8. CASE x.more /\ T!IndexOf(T!Tag(x.think), x.buffer) # 0
    <3>1. (\E m : TFrom(text, m, q)) /\ Len(q.buffer) < Len(x.buffer) BY <2>4, <2>8, <2>9, TPassTag
    <3>2. Len(q.buffer) \in Nat BY <3>1, TRest DEF TFrom
    <3>4. Len(x.buffer) + k <= Len(p.buffer) BY <2>3, <2>8
    <3>5. Len(q.buffer) < Len(x.buffer) BY <3>1
    <3>6. \A u, v, w \in Nat : u + k <= w /\ v < u => v + (k + 1) <= w OBVIOUS
    <3>3. Len(q.buffer) + (k + 1) <= Len(p.buffer) BY <1>1, <2>5, <3>2, <3>4, <3>5, <3>6, Zenon
    <3> QED BY <2>2, <3>1, <3>3
  <2> QED BY <2>6, <2>7, <2>8
<1>7. ASSUME NEW k \in Nat, k \in N PROVE k + 1 \in N
  <2>1. k + 1 \in Nat OBVIOUS
  <2>2. k + 1 <= n => /\ \E j : TFrom(text, j, f[k + 1])
                      /\ f[k + 1].more => Len(f[k + 1].buffer) + (k + 1) <= Len(p.buffer)
    BY <1>6, <1>7
  <2> QED BY <2>1, <2>2
<1>13. \A k \in Nat : k \in N => k + 1 \in N BY <1>7
<1> HIDE DEF N
<1>8. n \in N BY <1>3, <1>5, <1>13, Induction
<1>9. (\E j : TFrom(text, j, f[n])) /\ (f[n].more => Len(f[n].buffer) + n <= Len(p.buffer))
  <2>1. n <= n BY <1>3
  <2> QED BY <1>8, <2>1 DEF N
<1>10. Len(f[n].buffer) \in Nat BY <1>9, TRest DEF TFrom
<1>11. ~f[n].more
  <2>2. \A u, v \in Nat : ~(u + (v + 1) <= v) OBVIOUS
  <2>1. ~(Len(f[n].buffer) + n <= Len(p.buffer)) BY <1>1, <1>3, <1>10, <2>2, Zenon
  <2> QED BY <1>9, <2>1
<1>12. T!Parse(p) = f[n] BY TParsed DEF f, n
<1> QED BY <1>9, <1>11, <1>12
----------------------------------------------------------------------------
\* Between two chunks the parser is where a loop ends.
THeld == [buffer |-> t_tagBuffer, think |-> t_inThink, said |-> t_content, thought |-> t_thinking, more |-> FALSE]
TInv == t_stream \in Seq(Symbol) /\ Len(t_stream) <= MaxStream /\ \E i : TFrom(t_stream, i, THeld)

\* A text that goes on is read as before, as far as it was read.
LEMMA TGoesOn ==
    ASSUME NEW text \in Seq(Symbol), NEW c \in Seq(Symbol), NEW i, NEW p, TFrom(text, i, p)
    PROVE  TFrom(text \o c, i, [buffer |-> p.buffer \o c, think |-> p.think, said |-> p.said,
                                thought |-> p.thought, more |-> TRUE])
<1> DEFINE w == text \o c
           u == p.buffer
           v == SubSeq(w, i + 1, Len(w))
           q == [buffer |-> u \o c, think |-> p.think, said |-> p.said, thought |-> p.thought, more |-> TRUE]
<1>1. i \in 0 .. Len(text) /\ u = SubSeq(text, i + 1, Len(text)) /\ TSure(text, i, p)
      /\ p.think \in BOOLEAN /\ p.said \in Seq(Symbol) /\ p.thought \in Seq(Symbol)
  BY DEF TFrom
<1>2. /\ u \in Seq(Symbol) /\ Len(u) = Len(text) - i /\ Len(u) \in Nat
      /\ \A k \in 1 .. Len(u) : u[k] = text[i + k]
  BY <1>1, TRest
<1>3. /\ w \in Seq(Symbol) /\ Len(w) = Len(text) + Len(c)
      /\ \A k \in 1 .. Len(text) + Len(c) : w[k] = IF k <= Len(text) THEN text[k] ELSE c[k - Len(text)]
  BY ConcatProperties
<1>4. Len(text) \in Nat /\ Len(c) \in Nat BY LenProperties
<1>5. i \in 0 .. Len(w) BY <1>1, <1>3, <1>4
<1>6. /\ v \in Seq(Symbol) /\ Len(v) = Len(w) - i /\ \A k \in 1 .. Len(v) : v[k] = w[i + k]
  BY <1>3, <1>5, TRest
<1>7. /\ u \o c \in Seq(Symbol) /\ Len(u \o c) = Len(u) + Len(c)
      /\ \A k \in 1 .. Len(u) + Len(c) : (u \o c)[k] = IF k <= Len(u) THEN u[k] ELSE c[k - Len(u)]
  BY <1>2, ConcatProperties
<1>8. p.buffer = u /\ w = text \o c OBVIOUS
<1> HIDE DEF u, v, w
<1>9. u \o c = v
  <2> DEFINE x == u \o c
  <2>1. Len(x) = Len(v) BY <1>1, <1>2, <1>3, <1>4, <1>6, <1>7
  <2>2. ASSUME NEW k \in 1 .. Len(x) PROVE x[k] = v[k]
    <3>1. k \in 1 .. Len(u) + Len(c) /\ k \in 1 .. Len(v) BY <2>1, <1>7
    <3> DEFINE m == i + k
    <3>9. \A l, lc, lu, j \in Nat : \A n \in 1 .. lu + lc : lu = l - j => j + n \in 1 .. l + lc
      OBVIOUS
    <3>10. i \in Nat /\ Len(u) \in Nat /\ Len(u) = Len(text) - i BY <1>1, <1>2, <1>4
    <3>2. m \in 1 .. Len(text) + Len(c) BY <1>4, <3>1, <3>9, <3>10
    <3>7. v[k] = w[m] BY <1>6, <3>1
    <3>8. m = i + k /\ i \in Nat /\ k \in Nat /\ Len(u) = Len(text) - i BY <1>1, <1>2, <1>4, <3>1
    <3> HIDE DEF m
    <3>3. v[k] = IF m <= Len(text) THEN text[m] ELSE c[m - Len(text)] BY <1>3, <3>2, <3>7
    <3>4. x[k] = IF k <= Len(u) THEN u[k] ELSE c[k - Len(u)] BY <1>7, <3>1
    <3>5. CASE k <= Len(u)
      <4>1. k \in 1 .. Len(u) /\ m <= Len(text) BY <1>2, <1>4, <3>1, <3>5, <3>8
      <4> QED BY <1>2, <3>3, <3>4, <3>5, <3>8, <4>1
    <3>6. CASE ~(k <= Len(u))
      <4>1. ~(m <= Len(text)) /\ m - Len(text) = k - Len(u) BY <1>4, <3>6, <3>8
      <4> QED BY <3>3, <3>4, <3>6, <4>1
    <3> QED BY <3>5, <3>6
  <2>3. x \in Seq(Symbol) BY <1>7
  <2> HIDE DEF x
  <2>4. x = v BY <2>1, <2>2, <2>3, <1>6, SeqEqual
  <2> QED BY <2>4 DEF x
<1>10. TSure(w, i, q)
  <2> SUFFICES ASSUME NEW more \in Seq(Symbol) PROVE TRun(w \o more)[i] = TAt(q.think, q.said, q.thought)
    BY DEF TSure
  <2>1. c \o more \in Seq(Symbol) BY ConcatProperties
  <2>2. (text \o c) \o more = text \o (c \o more) BY ConcatAssociative
  <2>3. TRun(text \o (c \o more))[i] = TAt(p.think, p.said, p.thought) BY <1>1, <2>1 DEF TSure
  <2>4. q.think = p.think /\ q.said = p.said /\ q.thought = p.thought OBVIOUS
  <2> QED BY <1>8, <2>2, <2>3, <2>4
<1>11. q.buffer = SubSeq(w, i + 1, Len(w)) BY <1>9 DEF v
<1>12. q.think = p.think /\ q.said = p.said /\ q.thought = p.thought /\ q.more = TRUE OBVIOUS
<1> HIDE DEF q
<1>13. TFrom(w, i, q) BY <1>1, <1>5, <1>10, <1>11, <1>12 DEF TFrom
<1> QED BY <1>8, <1>13 DEF q

\* The parser starts well,
LEMMA TStarts == T!Init => TInv
<1> SUFFICES ASSUME T!Init PROVE TInv OBVIOUS
<1>1. /\ t_stream = <<>> /\ THeld = [buffer |-> <<>>, think |-> FALSE, said |-> <<>>, thought |-> <<>>, more |-> FALSE]
  BY DEF T!Init, THeld
<1>2. <<>> \in Seq(Symbol) /\ Len(<<>>) = 0 BY EmptySeq
<1>3. TSure(<<>>, 0, THeld)
  <2> SUFFICES ASSUME NEW more \in Seq(Symbol) PROVE TRun(<<>> \o more)[0] = TAt(FALSE, <<>>, <<>>)
    BY <1>1 DEF TSure
  <2>1. <<>> \o more = more BY ConcatEmptySeq
  <2>2. Len(more) \in Nat BY LenProperties
  <2>3. 0 \in 0 .. Len(more) BY <2>2
  <2>4. TRun(more)[0] = TStart BY <2>3, TRunDef
  <2> QED BY <2>1, <2>4 DEF TStart, TAt
<1>5. Len(T!Tag(FALSE)) \in Nat \ {0} /\ T!Fits(T!Tag(FALSE), <<>>, 1)
  <2>1. Len(T!Tag(FALSE)) \in Nat \ {0} BY TTag
  <2>2. DOMAIN <<>> = {} BY <1>2, LenProperties
  <2> QED BY <2>1, <2>2 DEF T!Fits
<1>8. /\ THeld.buffer = <<>> /\ THeld.think = FALSE /\ THeld.said = <<>> /\ THeld.thought = <<>>
      /\ THeld.more = FALSE
  BY <1>1
<1>9. 0 \in 0 .. Len(<<>>) /\ Len(<<>>) < Len(T!Tag(FALSE)) /\ SubSeq(<<>>, 0 + 1, Len(<<>>)) = <<>>
  <2>1. Len(<<>>) = 0 BY <1>2
  <2>3. 0 \in 0 .. Len(<<>>) BY <2>1
  <2>2. \A n \in Nat \ {0} : 0 < n OBVIOUS
  <2>4. Len(<<>>) < Len(T!Tag(FALSE)) BY <1>5, <2>1, <2>2, Zenon
  <2>5. SubSeq(<<>>, 0 + 1, Len(<<>>)) = <<>>
    <3>1. SubSeq(<<>>, 1, 0) = <<>> BY SubSeqEmpty
    <3> QED BY <2>1, <3>1
  <2> QED BY <2>3, <2>4, <2>5
<1>6. TFrom(<<>>, 0, THeld) BY <1>2, <1>3, <1>5, <1>8, <1>9 DEF TFrom
<1>7. 0 <= MaxStream BY Bounds
<1> QED BY <1>1, <1>2, <1>6, <1>7 DEF TInv

\* and stays so, whatever a chunk brings.
LEMMA TChunk == ASSUME TInv, NEW c \in Seq(Symbol), T!Chunk(c) PROVE TInv'
<1> DEFINE w == t_stream \o c
           p == [buffer |-> t_tagBuffer \o c, think |-> t_inThink, said |-> t_content,
                 thought |-> t_thinking, more |-> TRUE]
           q == T!Parse(p)
<1>1. t_stream \in Seq(Symbol) /\ \E i : TFrom(t_stream, i, THeld) BY DEF TInv
<1>2. PICK i : TFrom(t_stream, i, THeld) BY <1>1
<1>3. w \in Seq(Symbol) /\ Len(w) = Len(t_stream) + Len(c) BY <1>1, ConcatProperties
<1>4. TFrom(w, i, p)
  <2>1. THeld.buffer = t_tagBuffer /\ THeld.think = t_inThink /\ THeld.said = t_content /\ THeld.thought = t_thinking
    BY DEF THeld
  <2> QED BY <1>1, <1>2, <2>1, TGoesOn
<1>5. p.more OBVIOUS
<1>6. /\ Len(t_stream) + Len(c) <= MaxStream /\ t_stream' = w
      /\ t_tagBuffer' = q.buffer /\ t_inThink' = q.think /\ t_content' = q.said /\ t_thinking' = q.thought
  BY DEF T!Chunk
<1> HIDE DEF p, w
<1>7. (\E j : TFrom(w, j, q)) /\ ~q.more BY <1>3, <1>4, <1>5, TParse
<1> HIDE DEF q
<1>8. PICK j : TFrom(w, j, q) BY <1>7
<1>9. TFrom(w, j, THeld')
  <2>1. THeld'.buffer = q.buffer /\ THeld'.think = q.think /\ THeld'.said = q.said /\ THeld'.thought = q.thought
        /\ THeld'.more = FALSE
    BY <1>6 DEF THeld
  <2>2. TSure(w, j, THeld') BY <1>8, <2>1 DEF TFrom, TSure
  <2> QED BY <1>7, <1>8, <2>1, <2>2 DEF TFrom
<1>10. Len(w) <= MaxStream BY <1>3, <1>6
<1> QED BY <1>3, <1>6, <1>9, <1>10 DEF TInv

LEMMA TStep == ASSUME TInv, T!Next \/ UNCHANGED thinkTags PROVE TInv'
<1>1. CASE T!Next
  <2>4. PICK n \in 1 .. MaxChunk : \E c \in [1 .. n -> Symbol] : T!Chunk(c) BY <1>1 DEF T!Next
  <2>1. PICK c \in [1 .. n -> Symbol] : T!Chunk(c) BY <2>4
  <2>2. n \in Nat BY Bounds
  <2>3. c \in Seq(Symbol) BY <2>2, SeqDef
  <2> QED BY <2>1, <2>3, TChunk
<1>2. CASE UNCHANGED thinkTags
  BY <1>2 DEF thinkTags, TInv, TFrom, TSure, THeld
<1> QED BY <1>1, <1>2

\* What the parser holds and has passed on is of its types,
LEMMA TTypes == TInv => T!TypeOK
<1> SUFFICES ASSUME TInv PROVE T!TypeOK OBVIOUS
<1>1. PICK i : TFrom(t_stream, i, THeld) BY DEF TInv
<1>2. THeld.buffer = t_tagBuffer /\ THeld.think = t_inThink /\ THeld.said = t_content /\ THeld.thought = t_thinking
      /\ THeld.more = FALSE
  BY DEF THeld
<1>3. i \in 0 .. Len(t_stream) /\ t_tagBuffer = SubSeq(t_stream, i + 1, Len(t_stream)) BY <1>1, <1>2 DEF TFrom
<1>4. t_tagBuffer \in Seq(Symbol) BY <1>3, TRest DEF TInv
<1> QED BY <1>1, <1>2, <1>4 DEF TFrom, TInv, T!TypeOK

\* and is what the whole text is read as.
LEMMA TCuts == TInv => T!ChunksDoNotMatter
<1> SUFFICES ASSUME TInv PROVE T!ChunksDoNotMatter OBVIOUS
<1> DEFINE n == Len(t_stream)
           b == t_inThink
<1>1. PICK i : TFrom(t_stream, i, THeld) BY DEF TInv
<1>2. THeld.buffer = t_tagBuffer /\ THeld.think = b /\ THeld.said = t_content /\ THeld.thought = t_thinking
      /\ THeld.more = FALSE
  BY DEF THeld
<1>3. /\ i \in 0 .. n /\ t_tagBuffer = SubSeq(t_stream, i + 1, n) /\ TSure(t_stream, i, THeld)
      /\ b \in BOOLEAN /\ t_content \in Seq(Symbol) /\ t_thinking \in Seq(Symbol)
      /\ Len(t_tagBuffer) < Len(T!Tag(b)) /\ T!Fits(T!Tag(b), t_tagBuffer, 1)
  BY <1>1, <1>2 DEF TFrom
<1>4. t_stream \in Seq(Symbol) /\ n \in Nat BY LenProperties DEF TInv
<1>5. t_tagBuffer \in Seq(Symbol) /\ Len(t_tagBuffer) = n - i BY <1>3, <1>4, TRest
<1>6. TRun(t_stream)[i] = TAt(b, t_content, t_thinking)
  <2>1. <<>> \in Seq(Symbol) /\ t_stream \o <<>> = t_stream BY <1>4, ConcatEmptySeq, EmptySeq
  <2> QED BY <1>2, <1>3, <2>1 DEF TSure
<1>7. Len(T!Tag(b)) \in Nat BY <1>3, TTag
<1>8. ASSUME NEW k \in i + 1 .. n, T!Begins(T!Tag(b), t_stream, k) PROVE FALSE
  BY <1>3, <1>4, <1>5, <1>7, <1>8 DEF T!Begins
<1>9. TRun(t_stream)[n] = TPassed(b, t_content, t_thinking, t_tagBuffer)
  <2>1. \A k \in i + 1 .. n : ~T!Begins(T!Tag(b), t_stream, k) BY <1>8
  <2>2. i \in Nat /\ i <= n /\ n <= Len(t_stream) BY <1>3, <1>4
  <2>3. \A s, t \in Seq(Symbol) : TRun(t_stream)[i] = TAt(b, s, t) =>
                                  TRun(t_stream)[n] = TPassed(b, s, t, SubSeq(t_stream, i + 1, n))
    BY <1>3, <1>4, <2>1, <2>2, TReadPlain
  <2> QED BY <1>3, <1>6, <2>3
<1>10. T!Reading(t_stream) = TPassed(b, t_content, t_thinking, t_tagBuffer) BY <1>9, TRead
<1>11. t_content \o <<>> = t_content /\ t_thinking \o <<>> = t_thinking BY <1>3, ConcatEmptySeq
<1>12. CASE b
  <2>1. T!Reading(t_stream).said = t_content /\ T!Reading(t_stream).thought = t_thinking \o t_tagBuffer
    BY <1>10, <1>12 DEF TPassed, TAt
  <2> QED BY <1>3, <1>11, <1>12, <2>1 DEF T!ChunksDoNotMatter
<1>13. CASE ~b
  <2>1. T!Reading(t_stream).said = t_content \o t_tagBuffer /\ T!Reading(t_stream).thought = t_thinking
    BY <1>10, <1>13 DEF TPassed, TAt
  <2> QED BY <1>3, <1>11, <1>13, <2>1 DEF T!ChunksDoNotMatter
<1> QED BY <1>12, <1>13
----------------------------------------------------------------------------
(* All parts *)

\* No part ever leaves its invariant, whichever was chosen.
AllInv == OInv /\ CInv /\ SInv /\ TInv

\* The parts start well, and a step of one leaves the others where they are.
LEMMA AllAlways == Init /\ [][Next]_vars => []AllInv
<1>1. Init => AllInv BY OStarts, CStarts, SStarts, TStarts DEF Init, AllInv
<1>2. AllInv /\ [Next]_vars => AllInv'
  <2> SUFFICES ASSUME AllInv, [Next]_vars PROVE AllInv' OBVIOUS
  <2>1. O!Next \/ UNCHANGED models BY DEF Next, Only, vars
  <2>2. C!Next \/ UNCHANGED chat BY DEF Next, Only, vars
  <2>3. S!Next \/ UNCHANGED easySetup BY DEF Next, Only, vars
  <2>4. T!Next \/ UNCHANGED thinkTags BY DEF Next, Only, vars
  <2> QED BY <2>1, <2>2, <2>3, <2>4, OStep, CStep, SStep, TStep DEF AllInv
<1> QED BY <1>1, <1>2, PTL

\* The host, the jobs, the tables of the chat, the page, the choices of the wizard and the
\* buffers of an answer stay of the types that the code gives them.
THEOREM AssistantTypeCorrect == FairSpec => []TypesOK
<1>1. AllInv => TypesOK BY OPromises, CPromises, SPromises, TTypes DEF AllInv, TypesOK
<1> QED BY <1>1, AllAlways, PTL DEF FairSpec, Spec

\* What is shown or asked for fits what there is, for any number of models, sessions, messages,
\* clicks and failures, and for any tags and chunks: an installed assistant has a host that
\* is configured or named by the environment, or a container; when all is quiet the page shows
\* nothing that is not stored, and all of its session if its messages came; answers follow their
\* questions and go with the context of their own session; the answer that is parsed does not
\* depend on where its chunks are cut; and the wizard asks for all that it showed, once.
THEOREM AssistantShowsTruth == FairSpec => []ShownIsSo
<1>1. AllInv => ShownIsSo BY OPromises, CPromises, SPromises, TCuts DEF AllInv, ShownIsSo
<1> QED BY <1>1, AllAlways, PTL DEF FairSpec, Spec

\* A download of a model that its user has cancelled is not tried again, whatever step comes next.
THEOREM CancelledStaysCancelled == FairSpec => O!CancelledIsNotRetried
<1> DEFINE Ends == \A m \in HostModels : o_work[m].aborted /\ o_job[m].st = "active" =>
                      o_job'[m].st # "waiting" \/ O!WorkerDies
<1>1. AllInv /\ [Next]_vars => [Ends]_O!vars
  <2> SUFFICES ASSUME AllInv, [Next]_vars PROVE Ends OBVIOUS
  <2>1. O!Next \/ UNCHANGED models BY DEF Next, Only, vars
  <2> QED BY <2>1, OCancels DEF AllInv
<1> QED BY <1>1, AllAlways, PTL DEF FairSpec, Spec, O!CancelledIsNotRetried
=============================================================================
