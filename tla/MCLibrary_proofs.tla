---------------------------- MODULE MCLibrary_proofs ----------------------------
(****************************************************************************)
(* Proofs about maps, the Wikipedia package, the list of remote packages,   *)
(* local life and the benchmarks. The parts share nothing, and a part that  *)
(* is not chosen stays at an initial state, so that the invariant of every  *)
(* part holds in every behaviour. Each part has its invariant, a lemma per  *)
(* handler that keeps it, and a lemma that it implies what the tables and   *)
(* lists of this part promise; the theorems at the end put them together.   *)
(****************************************************************************)
EXTENDS MCLibrary, Sequences, SequenceTheorems, TLAPS

\* The bounds are numbers.
LEMMA Bounds ==
    /\ MaxFaults \in Nat /\ Attempts \in Nat /\ MapsAsked \in Nat /\ Slots \subseteq Nat
    /\ WikiAsked \in Nat /\ MaxMoves \in Nat /\ ListAsked \in Nat /\ LifeCalls \in Nat
    /\ LifeClicks \in Nat /\ MaxShares \in Nat /\ Total \in Nat /\ PageSize \in Nat
    /\ Count \in Nat /\ Screen \in Nat
BY MCLibraryAssumption
----------------------------------------------------------------------------
(* Maps *)

\* The sets that the state of the maps is in.
MDisk == [M!File -> {"absent", "partial", "whole"}]
MRow == [M!Resource -> {0} \cup Versions]
MJob == [st: {"none", "waiting", "active", "failed"}, left: 0 .. Attempts, stalled: BOOLEAN]
MOne == [file: M!File \cup {M!NoFile}, job: {"own", "gone", "over"}, old: {0} \cup Versions,
         at: {"none", "head", "fetch", "extract", "stat", "look", "record", "old", "prune", "note", "end"}]
MReq == [Requests -> [at: {"none", "look", "unpack", "world", "cut", "serve"}, ready: BOOLEAN]]
MUsed == [asked: 0 .. MapsAsked, faults: 0 .. MaxFaults]
MScan == [at: {"none", "list", "adopt"}, listed: SUBSET (Curated \X Versions)]
MCancel == [M!File -> {"none", "poll", "delete", "temp"}]

\* Which execution is at which kind of file.
MShaped(e) ==
    /\ e.at = "none" => e.file = M!NoFile
    /\ e.at # "none" => e.file \in M!File
    /\ e.at \in {"extract", "stat", "prune"} => e.file[1] \in Regions
    /\ e.at \in {"fetch", "note"} => e.file[1] \in M!Fetched
    /\ e.at \in {"stat", "look", "record", "old", "prune", "note"} => e.file[1] \notin Global
MShape == \A s \in Slots : MShaped(m_run[s])

\* A completion that is under way, and one that has made its entry; whose it is.
MBusy(s) == m_run[s].at \in {"stat", "look", "record", "old", "prune", "note"}
MLate(s) == m_run[s].at \in {"old", "prune", "note"}
MOf(s) == m_run[s].file[1]

\* Of a resource that is not excused there is one completion at a time, and none beside a
\* reconciliation that has its list;
MAlone ==
    /\ \A s, t \in Slots : MBusy(s) /\ MBusy(t) /\ MOf(s) = MOf(t) => s = t \/ MOf(s) \in m_excused
    /\ \A s \in Slots : MBusy(s) /\ m_scan.at = "adopt" /\ MOf(s) \in Curated => MOf(s) \in m_excused
\* the file that a completion is about to name is there, and nobody else has named another one
\* since it named its own;
MThere ==
    \A s \in Slots : MBusy(s) /\ m_run[s].at # "stat" =>
        m_disk[m_run[s].file] # "absent" \/ MOf(s) \in m_excused
MNamed ==
    \A s \in Slots : MLate(s) => m_row[MOf(s)] \in {0, m_run[s].file[2]} \/ MOf(s) \in m_excused
\* and the files on the list are there. The global map has no row.
MListed ==
    m_scan.at = "adopt" => \A f \in m_scan.listed : m_disk[f] # "absent" \/ f[1] \in m_excused
MGlobal == \A g \in Global : m_row[g] = 0
MRows == MShape /\ MAlone /\ MThere /\ MNamed /\ MListed /\ MGlobal /\ M!RowHasFile

\* Part of a map of the world is there exactly while one request makes it.
MWorld ==
    "world" \notin m_excused =>
        /\ \A q \in Requests : m_req[q].at = "cut" => m_world = "partial"
        /\ \A p, q \in Requests : m_req[p].at = "cut" /\ m_req[q].at = "cut" => p = q
        /\ m_world = "partial" => \E q \in Requests : m_req[q].at = "cut"

\* What is always so of the maps.
MInv == M!TypeOK /\ MRows /\ MWorld /\ M!WorldIsWhole

\* Names: the world is no resource, a region is not downloaded, the global map is in no collection.
LEMMA MNames ==
    /\ M!Newest \in Versions /\ 0 \notin Versions
    /\ M!File = M!Resource \X Versions /\ M!Resource = Curated \cup Global \cup Regions
    /\ M!Fetched = Curated \cup Global /\ M!NoFile = <<>>
    /\ "world" \notin M!Resource
    /\ \A r \in Regions : r \notin Curated \cup Global
    /\ \A g \in Global : g \notin Curated
<1>1. \E v \in Versions : \A w \in Versions : v >= w BY MCLibraryAssumption
<1>2. M!Newest \in Versions BY <1>1 DEF M!Newest
<1> QED BY <1>2, MCLibraryAssumption DEF M!File, M!Resource, M!Fetched, M!NoFile

\* A file has a resource and a version.
LEMMA MPair ==
    ASSUME NEW f \in M!File
    PROVE  f[1] \in M!Resource /\ f[2] \in Versions /\ f = <<f[1], f[2]>> /\ f # M!NoFile
BY DEF M!File, M!NoFile

\* The types, in sets that a step names one of,
LEMMA MTypes ==
    M!TypeOK <=>
        /\ m_disk \in MDisk /\ m_temp \subseteq M!Fetched \X Versions /\ m_row \in MRow
        /\ m_queue \in [M!File -> MJob] /\ m_run \in [Slots -> MOne] /\ m_key \subseteq M!File
        /\ m_cancel \in MCancel /\ m_drop \subseteq Curated \X Versions /\ m_scan \in MScan
        /\ m_base \in {"absent", "half", "whole"} /\ m_world \in {"absent", "partial", "whole"}
        /\ m_req \in MReq /\ m_used \in MUsed /\ m_excused \subseteq M!Resource \cup {"world"}
<1>1. {"none", "head", "fetch", "extract", "stat", "end"} \cup M!Recording
        = {"none", "head", "fetch", "extract", "stat", "look", "record", "old", "prune", "note", "end"}
  BY DEF M!Recording
<1>2. M!Run = MOne BY <1>1 DEF M!Run, MOne
<1> QED BY <1>2 DEF M!TypeOK, MDisk, MRow, MJob, MReq, MUsed, MScan, MCancel

\* and the same after a step.
LEMMA MTypesNext ==
    M!TypeOK' <=>
        /\ m_disk' \in MDisk /\ m_temp' \subseteq M!Fetched \X Versions /\ m_row' \in MRow
        /\ m_queue' \in [M!File -> MJob] /\ m_run' \in [Slots -> MOne] /\ m_key' \subseteq M!File
        /\ m_cancel' \in MCancel /\ m_drop' \subseteq Curated \X Versions /\ m_scan' \in MScan
        /\ m_base' \in {"absent", "half", "whole"} /\ m_world' \in {"absent", "partial", "whole"}
        /\ m_req' \in MReq /\ m_used' \in MUsed /\ m_excused' \subseteq M!Resource \cup {"world"}
<1>1. {"none", "head", "fetch", "extract", "stat", "end"} \cup M!Recording
        = {"none", "head", "fetch", "extract", "stat", "look", "record", "old", "prune", "note", "end"}
  BY DEF M!Recording
<1>2. M!Run = MOne BY <1>1 DEF M!Run, MOne
<1> QED BY <1>2 DEF M!TypeOK, MDisk, MRow, MJob, MReq, MUsed, MScan, MCancel

\* No job, a new one, and an execution that is free.
LEMMA MIdle ==
    /\ M!NoJob \in MJob /\ M!Requeue \in MJob
    /\ M!Idle \in MOne /\ M!Idle.at = "none" /\ MShaped(M!Idle)
<1>1. 0 \in 0 .. Attempts /\ Attempts \in 0 .. Attempts BY Bounds
<1>2. M!NoJob \in MJob BY <1>1 DEF M!NoJob, MJob
<1>3. M!Requeue \in MJob BY <1>1, <1>2 DEF M!Requeue, MJob
<1>4. M!Idle \in MOne /\ M!Idle.at = "none" /\ M!Idle.file = M!NoFile BY DEF M!Idle, MOne
<1> QED BY <1>2, <1>3, <1>4 DEF MShaped

\* Requests and faults are counted up to their bounds.
LEMMA MUses ==
    ASSUME MInv, M!Asked \/ M!Fault \/ M!Normally
    PROVE  m_used' \in MUsed
<1>1. m_used \in MUsed BY MTypes DEF MInv
<1>2. CASE M!Asked
  <2>1. m_used.asked + 1 \in 0 .. MapsAsked BY <1>1, <1>2, Bounds DEF M!Asked, MUsed
  <2> QED BY <1>1, <1>2, <2>1 DEF M!Asked, MUsed
<1>3. CASE M!Fault
  <2>1. m_used.faults + 1 \in 0 .. MaxFaults BY <1>1, <1>3, Bounds DEF M!Fault, MUsed
  <2> QED BY <1>1, <1>3, <2>1 DEF M!Fault, MUsed
<1>4. CASE M!Normally BY <1>1, <1>4 DEF M!Normally
<1> QED BY <1>2, <1>3, <1>4

\* It is so at first.
LEMMA MInit == M!Init => MInv
<1> SUFFICES ASSUME M!Init PROVE MInv OBVIOUS
<1> USE DEF M!Init
<1>1. M!TypeOK
  <2>1. [asked |-> 0, faults |-> 0] \in MUsed BY Bounds DEF MUsed
  <2>2. m_row \in MRow BY DEF MRow
  <2>3. m_disk \in MDisk BY DEF MDisk
  <2>4. m_scan \in MScan BY DEF MScan, M!NoScan
  <2> QED BY <2>1, <2>2, <2>3, <2>4, MTypes, MIdle DEF MReq, MCancel
<1>2. \A s \in Slots : m_run[s] = M!Idle OBVIOUS
<1>3. MShape BY <1>2, MIdle DEF MShape
<1>4. MAlone /\ MThere /\ MNamed BY <1>2, MIdle DEF MAlone, MThere, MNamed, MBusy, MLate
<1>5. MListed /\ MGlobal BY DEF MListed, MGlobal, M!NoScan
<1>6. M!RowHasFile
  <2> SUFFICES ASSUME NEW r \in M!Resource, m_row[r] # 0 PROVE m_disk[<<r, m_row[r]>>] # "absent"
    BY DEF M!RowHasFile
  <2>1. m_row[r] \in Versions /\ <<r, m_row[r]>> \in M!File BY DEF M!File
  <2> QED BY <2>1
<1>7. MWorld /\ M!WorldIsWhole BY DEF MWorld, M!WorldIsWhole
<1> QED BY <1>1, <1>3, <1>4, <1>5, <1>6, <1>7 DEF MInv, MRows
----------------------------------------------------------------------------
\* What happens to the maps leaves the map of the world alone, and the other way round.
LEMMA MApart ==
    ASSUME MInv, UNCHANGED <<m_world, m_req>>, \A x : x = "world" => (x \in m_excused' <=> x \in m_excused)
    PROVE  MWorld' /\ M!WorldIsWhole'
BY DEF MInv, MWorld, M!WorldIsWhole

\* One execution changes.
LEMMA MGoesOn ==
    ASSUME MInv, NEW s \in Slots, NEW e \in MOne, MShaped(e), m_run' = [m_run EXCEPT ![s] = e]
    PROVE  /\ m_run' \in [Slots -> MOne] /\ MShape'
           /\ \A t \in Slots : m_run'[t] = IF t = s THEN e ELSE m_run[t]
<1>1. m_run \in [Slots -> MOne] BY MTypes DEF MInv
<1>2. m_run' \in [Slots -> MOne] /\ \A t \in Slots : m_run'[t] = IF t = s THEN e ELSE m_run[t]
  BY <1>1
<1>3. \A t \in Slots : MShaped(m_run[t]) BY DEF MInv, MRows, MShape
<1>4. \A t \in Slots : MShaped(m_run'[t])
  <2> SUFFICES ASSUME NEW t \in Slots PROVE MShaped(m_run'[t]) OBVIOUS
  <2>1. m_run'[t] = e \/ m_run'[t] = m_run[t] BY <1>2
  <2> QED BY <2>1, <1>3
<1> QED BY <1>2, <1>4 DEF MShape

\* No completion begins, none gets to its entry, the table and the list stay: nothing is lost if
\* no file goes that the table names or that a completion or the list is about to name.
LEMMA MQuiet ==
    ASSUME MInv, UNCHANGED <<m_row, m_scan, m_base, m_world, m_req>>,
           m_disk' \in MDisk, m_temp' \subseteq M!Fetched \X Versions, m_queue' \in [M!File -> MJob],
           m_run' \in [Slots -> MOne], m_key' \subseteq M!File, m_cancel' \in MCancel,
           m_drop \subseteq m_drop', m_drop' \subseteq Curated \X Versions, m_used' \in MUsed, MShape',
           m_excused \subseteq m_excused', m_excused' \subseteq m_excused \cup M!Resource,
           \A t \in Slots : MBusy(t)' =>
               /\ MBusy(t) /\ m_run'[t].file = m_run[t].file /\ (MLate(t)' => MLate(t))
               /\ m_run'[t].at # "stat" => m_run[t].at # "stat" \/ m_disk'[m_run[t].file] # "absent",
           \A f \in M!File : m_disk'[f] = "absent" =>
               \/ m_disk[f] = "absent" \/ f[1] \in m_excused'
               \/ /\ \A t \in Slots : MBusy(t)' => m_run[t].file # f
                  /\ ~(m_scan.at = "adopt" /\ f \in m_scan.listed)
                  /\ m_row[f[1]] # f[2] \/ \E d \in m_drop' : d[1] = f[1]
    PROVE  MInv'
<1>t. m_row \in MRow /\ m_scan \in MScan /\ m_excused \subseteq M!Resource \cup {"world"} BY MTypes DEF MInv
<1>f. \A t \in Slots : MBusy(t) => m_run[t].file \in M!File
  <2>1. \A t \in Slots : MBusy(t) => m_run[t].at # "none" BY DEF MBusy
  <2>2. \A t \in Slots : MShaped(m_run[t]) BY DEF MInv, MRows, MShape
  <2> QED BY <2>1, <2>2 DEF MShaped
<1>o. \A t \in Slots : MBusy(t)' => MOf(t)' = MOf(t) BY DEF MOf
<1>1. M!TypeOK'
  <2>1. m_excused' \subseteq M!Resource \cup {"world"} BY <1>t
  <2> QED BY <2>1, MTypes, MTypesNext DEF MInv
<1>2. MAlone'
  <2>1. \A t \in Slots : MBusy(t)' => MBusy(t) OBVIOUS
  <2>2. /\ \A s, t \in Slots : MBusy(s) /\ MBusy(t) /\ MOf(s) = MOf(t) => s = t \/ MOf(s) \in m_excused
        /\ \A s \in Slots : MBusy(s) /\ m_scan.at = "adopt" /\ MOf(s) \in Curated => MOf(s) \in m_excused
    BY DEF MInv, MRows, MAlone
  <2>3. ASSUME NEW s \in Slots, NEW t \in Slots, MBusy(s)', MBusy(t)', MOf(s)' = MOf(t)', s # t
        PROVE  MOf(s)' \in m_excused'
    BY <2>1, <2>2, <2>3, <1>o
  <2>4. ASSUME NEW s \in Slots, MBusy(s)', m_scan'.at = "adopt", MOf(s)' \in Curated
        PROVE  MOf(s)' \in m_excused'
    BY <2>1, <2>2, <2>4, <1>o
  <2> QED BY <2>3, <2>4 DEF MAlone
<1>3. MThere'
  <2> SUFFICES ASSUME NEW s \in Slots, MBusy(s)', m_run'[s].at # "stat", MOf(s)' \notin m_excused'
               PROVE  m_disk'[m_run'[s].file] # "absent"
    BY DEF MThere
  <2> DEFINE f == m_run[s].file
  <2>1. MBusy(s) /\ m_run'[s].file = f /\ f \in M!File /\ f[1] \notin m_excused'
    BY <1>f, <1>o DEF MOf
  <2>2. CASE m_run[s].at # "stat"
    <3>1. m_disk[f] # "absent"
      <4>1. MOf(s) \notin m_excused BY <2>1 DEF MOf
      <4> QED BY <4>1, <2>1, <2>2 DEF MInv, MRows, MThere
    <3> QED BY <3>1, <2>1
  <2>3. CASE m_run[s].at = "stat" BY <2>1, <2>3
  <2> QED BY <2>2, <2>3
<1>4. MNamed'
  <2>1. \A s \in Slots : MLate(s)' => MBusy(s)' BY DEF MLate, MBusy
  <2>2. \A s \in Slots : MLate(s)' => MLate(s) /\ m_run'[s].file = m_run[s].file BY <2>1
  <2>3. \A s \in Slots : MLate(s) => m_row[m_run[s].file[1]] \in {0, m_run[s].file[2]} \/ m_run[s].file[1] \in m_excused
    BY DEF MInv, MRows, MNamed, MOf
  <2> QED BY <2>2, <2>3 DEF MNamed, MOf
<1>5. MListed'
  <2>1. m_scan.at = "adopt" => \A f \in m_scan.listed : m_disk[f] # "absent" \/ f[1] \in m_excused
    BY DEF MInv, MRows, MListed
  <2>2. \A f \in m_scan.listed : f \in M!File
    <3>1. m_scan.listed \subseteq Curated \X Versions BY <1>t DEF MScan
    <3> QED BY <3>1, MNames
  <2> QED BY <2>1, <2>2 DEF MListed
<1>6. MGlobal' BY DEF MInv, MRows, MGlobal
<1>7. M!RowHasFile'
  <2> SUFFICES ASSUME NEW r \in M!Resource, m_row[r] # 0, r \notin m_excused', m_scan.at = "none",
                      ~\E d \in m_drop' : d[1] = r
               PROVE  m_disk'[<<r, m_row[r]>>] # "absent"
    BY DEF M!RowHasFile
  <2> DEFINE g == <<r, m_row[r]>>
  <2>1. g \in M!File /\ g[1] = r /\ g[2] = m_row[r] BY <1>t, MNames DEF MRow
  <2>2. m_disk[g] # "absent"
    <3>1. r \notin m_excused /\ ~\E d \in m_drop : d[1] = r OBVIOUS
    <3> QED BY <3>1 DEF MInv, MRows, M!RowHasFile
  <2> HIDE DEF g
  <2>3. m_disk'[g] # "absent" BY <2>1, <2>2
  <2> QED BY <2>3 DEF g
<1>8. MWorld' /\ M!WorldIsWhole'
  <2>1. \A x : x = "world" => (x \in m_excused' <=> x \in m_excused) BY MNames
  <2> QED BY <2>1, MApart
<1> QED BY <1>1, <1>2, <1>3, <1>4, <1>5, <1>6, <1>7, <1>8 DEF MInv, MRows

\* An execution ends: its job waits again, has failed, or is not touched.
LEMMA MEnds ==
    ASSUME MInv, NEW s \in Slots, NEW again \in BOOLEAN, m_run[s].at # "none", M!Fails(s, again)
    PROVE  m_queue' \in [M!File -> MJob] /\ m_run' = [m_run EXCEPT ![s] = M!Idle]
<1> DEFINE f == m_run[s].file
<1>t. m_queue \in [M!File -> MJob] BY MTypes DEF MInv
<1>1. f \in M!File BY DEF MInv, MRows, MShape, MShaped
<1>2. m_queue[f] \in MJob BY <1>1, <1>t
<1>3. m_queue' = m_queue \/ \E j \in MJob : m_queue' = [m_queue EXCEPT ![f] = j]
  <2> DEFINE a == [m_queue[f] EXCEPT !.st = "waiting", !.left = m_queue[f].left - 1]
             b == [m_queue[f] EXCEPT !.st = "failed"]
  <2>1. CASE m_run[s].job # "own" BY <2>1 DEF M!Fails
  <2>2. CASE m_run[s].job = "own" /\ again /\ m_queue[f].left > 1
    <3>1. m_queue' = [m_queue EXCEPT ![f] = a] BY <2>2, <1>1, <1>t DEF M!Fails
    <3>2. m_queue[f].left - 1 \in 0 .. Attempts BY <2>2, <1>2, Bounds DEF MJob
    <3>3. a \in MJob BY <3>2, <1>2 DEF MJob
    <3> QED BY <3>1, <3>3
  <2>3. CASE m_run[s].job = "own" /\ ~(again /\ m_queue[f].left > 1)
    <3>1. m_queue' = [m_queue EXCEPT ![f] = b] BY <2>3, <1>1, <1>t DEF M!Fails
    <3>2. b \in MJob BY <1>2 DEF MJob
    <3> QED BY <3>1, <3>2
  <2> QED BY <2>1, <2>2, <2>3
<1>4. m_run' = [m_run EXCEPT ![s] = M!Idle] BY DEF M!Fails
<1> QED BY <1>1, <1>3, <1>4, <1>t

\* What the queue, the cancels and deletions do where no execution is involved.
LEMMA MRequests ==
    ASSUME MInv,
           \/ M!DownloadCollection
           \/ \E g \in Global : M!DownloadGlobal(g)
           \/ \E f \in M!File :
                 \/ M!Dispatch(f) \/ M!Dismiss(f) \/ M!Signal(f) \/ M!DeleteOutput(f)
                 \/ M!DeleteTemp(f) \/ M!KeyExpires(f) \/ M!Delete(f)
    PROVE  MInv'
<1>t. /\ m_disk \in MDisk /\ m_temp \subseteq M!Fetched \X Versions /\ m_row \in MRow
      /\ m_queue \in [M!File -> MJob] /\ m_run \in [Slots -> MOne] /\ m_key \subseteq M!File
      /\ m_cancel \in MCancel /\ m_drop \subseteq Curated \X Versions
  BY MTypes DEF MInv
<1> DEFINE Kept(f) ==
       \/ m_disk[f] = "absent" \/ f[1] \in m_excused'
       \/ /\ \A t \in Slots : MBusy(t)' => m_run[t].file # f
          /\ ~(m_scan.at = "adopt" /\ f \in m_scan.listed)
          /\ m_row[f[1]] # f[2] \/ \E d \in m_drop' : d[1] = f[1]
\* A deletion of a file that somebody is about to name excuses its resource.
<1>a. ASSUME NEW f \in M!File, NEW named \in BOOLEAN, M!Loses(f, named), m_run' = m_run
      PROVE  /\ m_excused \subseteq m_excused' /\ m_excused' \subseteq m_excused \cup M!Resource
             /\ \/ f[1] \in m_excused'
                \/ /\ \A t \in Slots : MBusy(t)' => m_run[t].file # f
                   /\ ~(m_scan.at = "adopt" /\ f \in m_scan.listed) /\ ~named
  <2>1. f[1] \in M!Resource BY MPair
  <2>2. CASE named \/ M!Awaited(f)
    <3>1. m_excused' = m_excused \cup {f[1]} BY <2>2, <1>a DEF M!Loses
    <3> QED BY <3>1, <2>1
  <2>3. CASE ~(named \/ M!Awaited(f))
    <3>1. m_excused' = m_excused BY <2>3, <1>a DEF M!Loses
    <3>2. ASSUME NEW t \in Slots, MBusy(t)', m_run[t].file = f PROVE FALSE
      <4>1. t \in M!AtWork(f[1]) BY <3>2, <1>a, MPair DEF M!AtWork, MBusy, M!Recording
      <4> QED BY <4>1, <3>2, <2>3 DEF M!Awaited
    <3>3. ~(m_scan.at = "adopt" /\ f \in m_scan.listed) BY <2>3 DEF M!Awaited
    <3> QED BY <3>1, <3>2, <3>3, <2>3
  <2> QED BY <2>2, <2>3
<1> DEFINE Safe ==
       /\ UNCHANGED <<m_row, m_scan, m_base, m_world, m_req, m_run>>
       /\ m_disk' \in MDisk /\ m_temp' \subseteq M!Fetched \X Versions /\ m_queue' \in [M!File -> MJob]
       /\ m_key' \subseteq M!File /\ m_cancel' \in MCancel
       /\ m_drop \subseteq m_drop' /\ m_drop' \subseteq Curated \X Versions /\ m_used' \in MUsed
       /\ m_excused \subseteq m_excused' /\ m_excused' \subseteq m_excused \cup M!Resource
       /\ \A f \in M!File : m_disk'[f] = "absent" => Kept(f)
<1>q. ASSUME Safe PROVE MInv'
  <2>1. MShape' BY <1>q DEF MInv, MRows, MShape
  <2>2. \A t \in Slots : MBusy(t)' => /\ MBusy(t) /\ m_run'[t].file = m_run[t].file /\ (MLate(t)' => MLate(t))
                                      /\ m_run'[t].at # "stat" => m_run[t].at # "stat"
    BY <1>q DEF MBusy, MLate
  <2> QED BY <1>q, <1>t, <2>1, <2>2, MQuiet
<1>j. ASSUME NEW j \in MJob, NEW f \in M!File, m_queue' = [m_queue EXCEPT ![f] = j]
      PROVE  m_queue' \in [M!File -> MJob]
  BY <1>j, <1>t
\* Only the queue, or the cancel keys and requests, change.
<1>u. ASSUME UNCHANGED <<m_disk, m_temp, m_row, m_run, m_drop, m_scan, m_base, m_world, m_req, m_excused>>,
             m_queue' \in [M!File -> MJob], m_key' \subseteq M!File, m_cancel' \in MCancel, m_used' \in MUsed
      PROVE  MInv'
  <2>1. Safe BY <1>u, <1>t
  <2> HIDE DEF Safe
  <2> QED BY <2>1, <1>q
<1>1. CASE M!DownloadCollection
  <2>1. m_queue' \in [M!File -> MJob] BY <1>1, <1>t, MIdle DEF M!DownloadCollection
  <2>2. m_used' \in MUsed BY <1>1, MUses DEF M!DownloadCollection
  <2> QED BY <1>1, <1>t, <1>u, <2>1, <2>2 DEF M!DownloadCollection, M!files, M!others, M!maps
<1>2. ASSUME NEW g \in Global, M!DownloadGlobal(g) PROVE MInv'
  <2>1. <<g, M!Newest>> \in M!File BY MNames
  <2>2. m_queue' \in [M!File -> MJob] BY <1>2, <2>1, <1>j, MIdle DEF M!DownloadGlobal, M!GlobalInfo
  <2>3. m_used' \in MUsed BY <1>2, MUses DEF M!DownloadGlobal
  <2> QED BY <1>2, <1>t, <1>u, <2>2, <2>3 DEF M!DownloadGlobal, M!files, M!others, M!maps
<1>3. ASSUME NEW f \in M!File, M!Dispatch(f) \/ M!Dismiss(f) PROVE MInv'
  <2>1. m_queue' \in [M!File -> MJob] BY <1>3, <1>j, MIdle DEF M!Dispatch, M!Dismiss
  <2>2. m_used' \in MUsed BY <1>3, MUses DEF M!Dispatch, M!Dismiss
  <2> QED BY <1>3, <1>t, <1>u, <2>1, <2>2 DEF M!Dispatch, M!Dismiss, M!files, M!others, M!maps
<1>4. ASSUME NEW f \in M!File, M!Signal(f) \/ M!KeyExpires(f) PROVE MInv'
  <2>1. m_key' \subseteq M!File /\ m_cancel' \in MCancel BY <1>4, <1>t DEF M!Signal, M!KeyExpires, MCancel
  <2>2. m_used' \in MUsed BY <1>4, MUses DEF M!Signal, M!KeyExpires
  <2> QED BY <1>4, <1>t, <1>u, <2>1, <2>2 DEF M!Signal, M!KeyExpires, M!files, M!others, M!maps
<1>5. ASSUME NEW f \in M!File, M!DeleteTemp(f) PROVE MInv'
  <2>1. m_temp' \subseteq M!Fetched \X Versions /\ m_cancel' \in MCancel BY <1>5, <1>t DEF M!DeleteTemp, MCancel
  <2>2. m_used' \in MUsed BY <1>5, MUses DEF M!DeleteTemp
  <2>3. Safe BY <1>5, <1>t, <2>1, <2>2 DEF M!DeleteTemp, M!others, M!maps
  <2> HIDE DEF Safe
  <2> QED BY <2>3, <1>q
<1>6. ASSUME NEW f \in M!File, M!DeleteOutput(f) PROVE MInv'
  <2>0. m_disk' = [m_disk EXCEPT ![f] = "absent"] /\ M!Loses(f, M!OnRecord(f)) /\ m_run' = m_run
        /\ UNCHANGED <<m_temp, m_row, m_queue, m_key, m_drop, m_scan, m_base, m_world, m_req>>
    BY <1>6 DEF M!DeleteOutput, M!others, M!maps
  <2>1. m_disk' \in MDisk /\ \A g \in M!File : m_disk'[g] = "absent" => g = f \/ m_disk[g] = "absent"
    BY <2>0, <1>t DEF MDisk
  <2>2. m_cancel' \in MCancel BY <1>6, <1>t DEF M!DeleteOutput, MCancel
  <2>3. m_used' \in MUsed BY <1>6, MUses DEF M!DeleteOutput
  <2>4. M!OnRecord(f) \in BOOLEAN BY DEF M!OnRecord
  <2>5. /\ m_excused \subseteq m_excused' /\ m_excused' \subseteq m_excused \cup M!Resource
        /\ \/ f[1] \in m_excused'
           \/ /\ \A t \in Slots : MBusy(t)' => m_run[t].file # f
              /\ ~(m_scan.at = "adopt" /\ f \in m_scan.listed) /\ ~M!OnRecord(f)
    BY <2>0, <2>4, <1>a
  <2>6. Kept(f) BY <2>5 DEF M!OnRecord
  <2> HIDE DEF Kept
  <2>7. \A g \in M!File : m_disk'[g] = "absent" => Kept(g)
    <3>1. \A g \in M!File : m_disk[g] = "absent" => Kept(g) BY DEF Kept
    <3> QED BY <2>1, <2>6, <3>1
  <2>8. Safe BY <2>0, <2>1, <2>2, <2>3, <2>5, <2>7, <1>t
  <2> HIDE DEF Safe
  <2> QED BY <2>8, <1>q
<1>7. ASSUME NEW f \in M!File, M!Delete(f) PROVE MInv'
  <2> DEFINE named == f[1] \in Regions /\ M!OnRecord(f)
  <2>0. /\ m_disk' = [m_disk EXCEPT ![f] = "absent"] /\ M!Loses(f, named) /\ m_run' = m_run
        /\ m_drop' = IF f[1] \in Curated THEN m_drop \cup {f} ELSE m_drop
        /\ UNCHANGED <<m_temp, m_row, m_queue, m_key, m_cancel, m_scan, m_base, m_world, m_req>>
    BY <1>7 DEF M!Delete, M!jobs, M!maps
  <2>1. m_disk' \in MDisk /\ \A g \in M!File : m_disk'[g] = "absent" => g = f \/ m_disk[g] = "absent"
    BY <2>0, <1>t DEF MDisk
  <2>2. m_drop \subseteq m_drop' /\ m_drop' \subseteq Curated \X Versions BY <2>0, <1>t, MPair
  <2>3. m_used' \in MUsed BY <1>7, MUses DEF M!Delete
  <2>4. named \in BOOLEAN BY DEF M!OnRecord
  <2>5. /\ m_excused \subseteq m_excused' /\ m_excused' \subseteq m_excused \cup M!Resource
        /\ \/ f[1] \in m_excused'
           \/ /\ \A t \in Slots : MBusy(t)' => m_run[t].file # f
              /\ ~(m_scan.at = "adopt" /\ f \in m_scan.listed) /\ ~named
    <3> HIDE DEF named
    <3> QED BY <2>0, <2>4, <1>a
  <2>6. Kept(f)
    <3>1. CASE f[1] \in Curated BY <3>1, <2>0, <2>5
    <3>2. CASE f[1] \in Regions BY <3>2, <2>5 DEF M!OnRecord
    <3>3. CASE f[1] \in Global
      <4>1. m_row[f[1]] = 0 /\ f[2] # 0 BY <3>3, MNames, MPair DEF MInv, MRows, MGlobal
      <4> QED BY <4>1, <2>5
    <3> QED BY <3>1, <3>2, <3>3, MNames, MPair
  <2> HIDE DEF Kept, named
  <2>7. \A g \in M!File : m_disk'[g] = "absent" => Kept(g)
    <3>1. \A g \in M!File : m_disk[g] = "absent" => Kept(g) BY DEF Kept
    <3> QED BY <2>1, <2>6, <3>1
  <2>8. Safe BY <2>0, <2>1, <2>2, <2>3, <2>5, <2>7, <1>t
  <2> HIDE DEF Safe
  <2> QED BY <2>8, <1>q
<1> QED BY <1>1, <1>2, <1>3, <1>4, <1>5, <1>6, <1>7

\* One execution goes on to what is no completion, or on with one.
LEMMA MTurns ==
    ASSUME MInv, NEW s \in Slots, NEW e \in MOne, MShaped(e), m_run' = [m_run EXCEPT ![s] = e],
           UNCHANGED <<m_row, m_scan, m_drop, m_base, m_world, m_req>>,
           m_disk' \in MDisk, m_temp' \subseteq M!Fetched \X Versions, m_queue' \in [M!File -> MJob],
           m_key' \subseteq M!File, m_cancel' \in MCancel, m_used' \in MUsed,
           m_excused \subseteq m_excused', m_excused' \subseteq m_excused \cup M!Resource,
           \/ e.at \in {"none", "head", "fetch", "extract", "end"}
           \/ /\ MBusy(s) /\ e.file = m_run[s].file
              /\ e.at \in {"old", "prune", "note"} => MLate(s)
              /\ e.at # "stat" => m_run[s].at # "stat" \/ m_disk'[e.file] # "absent",
           \A f \in M!File : m_disk'[f] = "absent" =>
               \/ m_disk[f] = "absent" \/ f[1] \in m_excused'
               \/ /\ \A t \in Slots : MBusy(t)' => m_run[t].file # f
                  /\ ~(m_scan.at = "adopt" /\ f \in m_scan.listed) /\ m_row[f[1]] # f[2]
    PROVE  MInv'
<1>1. m_run' \in [Slots -> MOne] /\ MShape' /\ \A t \in Slots : m_run'[t] = IF t = s THEN e ELSE m_run[t]
  BY MGoesOn
<1>2. ASSUME NEW t \in Slots, MBusy(t)'
      PROVE  /\ MBusy(t) /\ m_run'[t].file = m_run[t].file /\ (MLate(t)' => MLate(t))
             /\ m_run'[t].at # "stat" => m_run[t].at # "stat" \/ m_disk'[m_run[t].file] # "absent"
  <2>1. CASE t = s
    <3>1. m_run'[s] = e BY <1>1
    <3>2. e.at \in {"stat", "look", "record", "old", "prune", "note"} BY <1>2, <2>1, <3>1 DEF MBusy
    <3> QED BY <2>1, <3>1, <3>2 DEF MLate
  <2>2. CASE t # s
    <3>1. m_run'[t] = m_run[t] BY <1>1, <2>2
    <3> QED BY <1>2, <3>1 DEF MBusy, MLate
  <2> QED BY <2>1, <2>2
<1>3. m_drop \subseteq m_drop' /\ m_drop' \subseteq Curated \X Versions BY MTypes DEF MInv
<1> QED BY <1>1, <1>2, <1>3, MQuiet

\* An execution takes a job, begins, is cancelled, gives up, or is at an end; of a completion, it
\* looks at the table, deletes what was there before, or leaves that out.
LEMMA MExecutes ==
    ASSUME MInv, NEW s \in Slots,
           \/ \E f \in M!File : M!Take(s, f)
           \/ M!Begin(s) \/ M!Miss(s) \/ M!Poll(s) \/ M!Break(s) \/ M!Stat(s) \/ M!Look(s)
           \/ M!DropOld(s) \/ M!Prune(s) \/ M!CallbackFails(s) \/ M!End(s)
    PROVE  MInv'
<1> DEFINE f == m_run[s].file
<1>t. /\ m_disk \in MDisk /\ m_temp \subseteq M!Fetched \X Versions /\ m_row \in MRow
      /\ m_queue \in [M!File -> MJob] /\ m_run \in [Slots -> MOne] /\ m_key \subseteq M!File
      /\ m_cancel \in MCancel /\ m_run[s] \in MOne
  BY MTypes DEF MInv
<1>f. /\ m_run[s].at # "none" => f \in M!File /\ f[1] \in M!Resource /\ f[2] \in Versions /\ f = <<f[1], f[2]>>
      /\ MShaped(m_run[s])
  <2>1. MShaped(m_run[s]) BY DEF MInv, MRows, MShape
  <2> QED BY <2>1, MPair DEF MShaped
<1>i. M!Idle \in MOne /\ M!Idle.at = "none" /\ MShaped(M!Idle) BY MIdle
<1>m. UNCHANGED <<m_row, m_scan, m_drop, m_base, m_world, m_req, m_cancel>>
  BY DEF M!Take, M!Begin, M!Miss, M!Poll, M!Break, M!Stat, M!Look, M!DropOld, M!Prune, M!CallbackFails,
         M!End, M!files, M!others, M!maps
<1>u. m_used' \in MUsed
  BY MUses DEF M!Take, M!Begin, M!Miss, M!Poll, M!Break, M!Stat, M!Look, M!DropOld, M!Prune,
               M!CallbackFails, M!End
<1>k. m_key' \subseteq M!File
  BY <1>t DEF M!Take, M!Begin, M!Miss, M!Poll, M!Break, M!Stat, M!Look, M!DropOld, M!Prune,
              M!CallbackFails, M!End
<1> DEFINE Kept(g) ==
       \/ m_disk[g] = "absent" \/ g[1] \in m_excused'
       \/ /\ \A t \in Slots : MBusy(t)' => m_run[t].file # g
          /\ ~(m_scan.at = "adopt" /\ g \in m_scan.listed) /\ m_row[g[1]] # g[2]
           Files == m_disk' \in MDisk /\ m_temp' \subseteq M!Fetched \X Versions
                    /\ \A g \in M!File : m_disk'[g] = "absent" => Kept(g)
           Same == UNCHANGED <<m_disk, m_temp, m_excused>>
           On(e) == \/ e.at \in {"none", "head", "fetch", "extract", "end"}
                    \/ /\ MBusy(s) /\ e.file = f
                       /\ e.at \in {"old", "prune", "note"} => MLate(s)
                       /\ e.at # "stat" => m_run[s].at # "stat" \/ m_disk'[e.file] # "absent"
<1>q. ASSUME NEW e \in MOne, MShaped(e), m_run' = [m_run EXCEPT ![s] = e], On(e), Files,
             m_queue' \in [M!File -> MJob],
             m_excused \subseteq m_excused', m_excused' \subseteq m_excused \cup M!Resource
      PROVE  MInv'
  BY <1>q, <1>m, <1>u, <1>k, <1>t, MTurns
<1>s. ASSUME Same PROVE Files /\ m_excused \subseteq m_excused' /\ m_excused' \subseteq m_excused \cup M!Resource
  BY <1>s, <1>t
<1>j. ASSUME NEW j \in MJob, NEW g \in M!File, m_queue' = [m_queue EXCEPT ![g] = j]
      PROVE  m_queue' \in [M!File -> MJob]
  BY <1>j, <1>t
\* The execution goes to another place, with the same file.
<1>g. ASSUME NEW at \in {"head", "fetch", "extract", "look", "prune", "note", "end"}, m_run[s].at # "none",
             at \in {"extract", "prune"} => f[1] \in Regions,
             at \in {"fetch", "note"} => f[1] \in M!Fetched,
             at \in {"look", "prune", "note"} => f[1] \notin Global
      PROVE  /\ [m_run[s] EXCEPT !.at = at] \in MOne /\ MShaped([m_run[s] EXCEPT !.at = at])
             /\ [m_run[s] EXCEPT !.at = at].at = at /\ [m_run[s] EXCEPT !.at = at].file = f
  BY <1>g, <1>t, <1>f DEF MOne, MShaped
<1> HIDE DEF Files, Same, Kept, On
<1>1. ASSUME NEW g \in M!File, M!Take(s, g) PROVE MInv'
  <2> DEFINE e == [M!Idle EXCEPT !.file = g, !.at = "head", !.job = "own"]
  <2>1. m_run' = [m_run EXCEPT ![s] = e] /\ m_queue' = [m_queue EXCEPT ![g] = [m_queue[g] EXCEPT !.st = "active"]]
        /\ Same
    BY <1>1 DEF M!Take, M!files, Same
  <2>2. e \in MOne /\ e.at = "head" /\ e.file = g BY <1>i DEF MOne
  <2> HIDE DEF e
  <2>3. MShaped(e) /\ On(e) BY <2>2 DEF MShaped, On
  <2>4. [m_queue[g] EXCEPT !.st = "active"] \in MJob BY <1>t DEF MJob
  <2>5. m_queue' \in [M!File -> MJob] BY <2>1, <2>4, <1>j
  <2> QED BY <2>1, <2>2, <2>3, <2>5, <1>s, <1>q
<1>2. CASE M!Begin(s)
  <2>0. m_run[s].at = "head" /\ m_queue' = m_queue /\ m_excused' = m_excused
    BY <1>2 DEF M!Begin, M!Goes
  <2>f. f \in M!File BY <2>0, <1>f
  <2>1. CASE f[1] \in Regions
    <3> DEFINE e == [m_run[s] EXCEPT !.at = "extract"]
    <3>1. m_run' = [m_run EXCEPT ![s] = e] /\ m_disk' = [m_disk EXCEPT ![f] = "partial"] /\ m_temp' = m_temp
      BY <1>2, <2>1 DEF M!Begin, M!Goes
    <3>2. e \in MOne /\ MShaped(e) /\ e.at = "extract" BY <2>0, <2>1, <1>g
    <3>3. Files BY <3>1, <1>t DEF MDisk, Files, Kept
    <3> HIDE DEF e
    <3>4. On(e) BY <3>2 DEF On
    <3> QED BY <3>1, <3>2, <3>3, <3>4, <2>0, <1>t, <1>q
  <2>2. CASE f[1] \notin Regions
    <3> DEFINE e == [m_run[s] EXCEPT !.at = "fetch"]
    <3>0. f[1] \in M!Fetched BY <2>2, <2>f, MNames, MPair
    <3>1. m_run' = [m_run EXCEPT ![s] = e] /\ m_disk' = m_disk /\ m_temp' = m_temp \cup {f}
      BY <1>2, <2>2 DEF M!Begin, M!Goes
    <3>2. e \in MOne /\ MShaped(e) /\ e.at = "fetch" BY <2>0, <3>0, <1>g
    <3>3. Files
      <4>1. f \in M!Fetched \X Versions BY <3>0, <2>f, MNames
      <4> QED BY <3>1, <4>1, <1>t DEF Files, Kept
    <3> HIDE DEF e
    <3>4. On(e) BY <3>2 DEF On
    <3> QED BY <3>1, <3>2, <3>3, <3>4, <2>0, <1>t, <1>q
  <2> QED BY <2>1, <2>2
<1>n. On(M!Idle) BY <1>i DEF On
<1>3. CASE M!Miss(s)
  <2>1. m_run[s].at # "none" /\ M!Fails(s, TRUE) /\ Same BY <1>3 DEF M!Miss, M!files, Same
  <2>2. m_queue' \in [M!File -> MJob] /\ m_run' = [m_run EXCEPT ![s] = M!Idle] BY <2>1, MEnds
  <2> QED BY <2>1, <2>2, <1>i, <1>n, <1>s, <1>q
<1>4. CASE M!Poll(s)
  <2>0. m_run[s].at # "none" /\ Same BY <1>4 DEF M!Poll, M!files, Same
  <2>1. CASE m_run[s].at \in {"head", "fetch"}
    <3>1. M!Fails(s, FALSE) BY <1>4, <2>1 DEF M!Poll
    <3>2. m_queue' \in [M!File -> MJob] /\ m_run' = [m_run EXCEPT ![s] = M!Idle] BY <2>0, <3>1, MEnds
    <3> QED BY <2>0, <3>2, <1>i, <1>n, <1>s, <1>q
  <2>2. CASE m_run[s].at \notin {"head", "fetch"}
    <3> DEFINE e == [m_run[s] EXCEPT !.job = "over"]
    <3>1. m_run' = [m_run EXCEPT ![s] = e]
          /\ m_queue' = IF m_run[s].job = "own" THEN [m_queue EXCEPT ![f].st = "failed"] ELSE m_queue
      BY <1>4, <2>2 DEF M!Poll
    <3>2. e \in MOne /\ e.at = m_run[s].at /\ e.file = f BY <1>t DEF MOne
    <3> HIDE DEF e
    <3>3. MShaped(e) BY <3>2, <1>f DEF MShaped
    <3>4. On(e)
      <4>1. m_run[s].at \in {"none", "extract", "end"} \/ MBusy(s) BY <2>2, <1>t DEF MOne, MBusy
      <4> QED BY <3>2, <4>1 DEF On, MLate
    <3>5. m_queue' \in [M!File -> MJob]
      <4>1. f \in M!File BY <2>0, <1>f
      <4>2. [m_queue[f] EXCEPT !.st = "failed"] \in MJob BY <4>1, <1>t DEF MJob
      <4>3. m_queue' = m_queue \/ m_queue' = [m_queue EXCEPT ![f] = [m_queue[f] EXCEPT !.st = "failed"]] BY <3>1
      <4> QED BY <4>1, <4>2, <4>3, <1>t, <1>j
    <3> QED BY <2>0, <3>1, <3>2, <3>3, <3>4, <3>5, <1>s, <1>q
  <2> QED BY <2>1, <2>2
<1>5. CASE M!Break(s)
  <2>0. /\ m_run[s].at = "extract" /\ (M!Fails(s, TRUE) \/ M!Fails(s, FALSE)) /\ m_temp' = m_temp
        /\ m_disk' = [m_disk EXCEPT ![f] = "absent"] /\ M!Loses(f, M!OnRecord(f))
    BY <1>5 DEF M!Break
  <2>f. f \in M!File /\ f[1] \in M!Resource BY <2>0, <1>f
  <2>1. m_queue' \in [M!File -> MJob] /\ m_run' = [m_run EXCEPT ![s] = M!Idle] BY <2>0, MEnds
  <2>2. m_excused \subseteq m_excused' /\ m_excused' \subseteq m_excused \cup M!Resource
    BY <2>0, <2>f DEF M!Loses
  <2>3. Kept(f)
    <3> SUFFICES ASSUME f[1] \notin m_excused' PROVE Kept(f) BY DEF Kept
    <3>1. ~M!OnRecord(f) /\ ~M!Awaited(f) BY <2>0 DEF M!Loses
    <3>2. ASSUME NEW t \in Slots, MBusy(t)', m_run[t].file = f PROVE FALSE
      <4>1. m_run'[t] = IF t = s THEN M!Idle ELSE m_run[t] BY <2>1, <1>t
      <4>2. t # s BY <3>2, <4>1, <1>i DEF MBusy
      <4>3. MBusy(t) BY <3>2, <4>1, <4>2 DEF MBusy
      <4>4. t \in M!AtWork(f[1]) BY <3>2, <4>3, <2>f, MPair DEF M!AtWork, MBusy, M!Recording
      <4> QED BY <4>4, <3>1, <3>2 DEF M!Awaited
    <3> QED BY <3>1, <3>2 DEF Kept, M!Awaited, M!OnRecord
  <2>4. Files
    <3>1. m_disk' \in MDisk /\ \A g \in M!File : m_disk'[g] = "absent" => g = f \/ m_disk[g] = "absent"
      BY <2>0, <1>t DEF MDisk
    <3>2. \A g \in M!File : m_disk[g] = "absent" => Kept(g) BY DEF Kept
    <3> QED BY <2>0, <2>3, <3>1, <3>2, <1>t DEF Files
  <2> QED BY <2>1, <2>2, <2>4, <1>i, <1>n, <1>q
<1>6. CASE M!Stat(s)
  <2>0. m_run[s].at = "stat" /\ Same BY <1>6 DEF M!Stat, M!files, Same
  <2>1. CASE m_disk[f] = "absent"
    <3>1. M!Fails(s, TRUE) \/ M!Fails(s, FALSE) BY <1>6, <2>1 DEF M!Stat
    <3>2. m_queue' \in [M!File -> MJob] /\ m_run' = [m_run EXCEPT ![s] = M!Idle] BY <2>0, <3>1, MEnds
    <3> QED BY <2>0, <3>2, <1>i, <1>n, <1>s, <1>q
  <2>2. CASE m_disk[f] # "absent"
    <3> DEFINE e == [m_run[s] EXCEPT !.at = "look"]
    <3>1. m_run' = [m_run EXCEPT ![s] = e] /\ m_queue' = m_queue BY <1>6, <2>2 DEF M!Stat, M!Goes
    <3>2. e \in MOne /\ MShaped(e) /\ e.at = "look" /\ e.file = f
      <4>1. f[1] \notin Global BY <2>0, <1>f DEF MShaped
      <4> QED BY <2>0, <4>1, <1>g
    <3> HIDE DEF e
    <3>3. On(e) BY <3>2, <2>0, <2>2 DEF On, MBusy, Same
    <3> QED BY <2>0, <3>1, <3>2, <3>3, <1>s, <1>t, <1>q
  <2> QED BY <2>1, <2>2
<1>7. CASE M!Look(s)
  <2> DEFINE e == [m_run[s] EXCEPT !.at = "record", !.old = m_row[f[1]]]
  <2>1. m_run[s].at = "look" /\ Same /\ m_run' = [m_run EXCEPT ![s] = e] /\ m_queue' = m_queue
    BY <1>7 DEF M!Look, M!files, Same
  <2>2. m_row[f[1]] \in {0} \cup Versions BY <2>1, <1>f, <1>t DEF MRow
  <2>3. e \in MOne /\ e.at = "record" /\ e.file = f BY <2>2, <1>t DEF MOne
  <2> HIDE DEF e
  <2>4. MShaped(e) BY <2>1, <2>3, <1>f DEF MShaped
  <2>5. On(e) BY <2>1, <2>3 DEF On, MBusy
  <2> QED BY <2>1, <2>3, <2>4, <2>5, <1>s, <1>t, <1>q
\* After the entry: of a resource that is not excused nobody else is at work, and the table names
\* nothing but the file of this execution.
<1>l. ASSUME MLate(s), m_excused' = m_excused, NEW g \in M!File, g[1] = f[1], g[2] # f[2] PROVE Kept(g)
  <2> SUFFICES ASSUME f[1] \notin m_excused PROVE Kept(g) BY <1>l DEF Kept
  <2>1. m_run[s].at # "none" /\ MBusy(s) BY <1>l DEF MLate, MBusy
  <2>2. m_row[f[1]] \in {0, f[2]} BY <1>l DEF MInv, MRows, MNamed, MOf
  <2>3. m_row[g[1]] # g[2] BY <2>2, <1>l, MNames, MPair
  <2>4. \A t \in Slots : MBusy(t) => m_run[t].file # g
    <3> SUFFICES ASSUME NEW t \in Slots, MBusy(t), m_run[t].file = g PROVE FALSE OBVIOUS
    <3>1. MOf(t) = MOf(s) /\ MOf(s) \notin m_excused BY <1>l DEF MOf
    <3>2. t = s BY <2>1, <3>1 DEF MInv, MRows, MAlone
    <3> QED BY <3>2, <1>l
  <2>5. ~(m_scan.at = "adopt" /\ g \in m_scan.listed)
    <3> SUFFICES ASSUME m_scan.at = "adopt", g \in m_scan.listed PROVE FALSE OBVIOUS
    <3>1. m_scan.listed \subseteq Curated \X Versions BY MTypes DEF MInv, MScan
    <3>2. MOf(s) \in Curated BY <3>1, <1>l DEF MOf
    <3> QED BY <2>1, <3>2 DEF MInv, MRows, MAlone, MOf
  <2>6. \A t \in Slots : MBusy(t)' => MBusy(t)
    <3> SUFFICES ASSUME NEW t \in Slots, MBusy(t)', ~MBusy(t) PROVE FALSE OBVIOUS
    <3>1. t # s BY <2>1
    <3>2. m_run'[t] = m_run[t]
      BY <3>1, <2>1, <1>t, MEnds, <1>i
         DEF M!Take, M!Begin, M!Miss, M!Poll, M!Break, M!Stat, M!Look, M!DropOld, M!Prune, M!CallbackFails,
             M!End, M!Goes, M!Fails
    <3> QED BY <3>2 DEF MBusy
  <2> QED BY <2>3, <2>4, <2>5, <2>6 DEF Kept
<1>a. ASSUME m_run[s].at = "old"
      PROVE  LET at == M!AfterOld(s) IN
             /\ [m_run[s] EXCEPT !.at = at] \in MOne /\ MShaped([m_run[s] EXCEPT !.at = at])
             /\ On([m_run[s] EXCEPT !.at = at])
  <2>1. m_run[s].at # "none" /\ f[1] \notin Global /\ MBusy(s) /\ MLate(s)
    BY <1>a, <1>f DEF MShaped, MBusy, MLate
  <2>2. M!AfterOld(s) = IF f[1] \in Regions THEN "prune" ELSE "note" BY DEF M!AfterOld
  <2>3. f[1] \in Regions \/ f[1] \in M!Fetched BY <2>1, <1>f, MNames
  <2> DEFINE e == [m_run[s] EXCEPT !.at = M!AfterOld(s)]
  <2>4. e \in MOne /\ MShaped(e) /\ e.at = M!AfterOld(s) /\ e.file = f BY <2>1, <2>2, <2>3, <1>g
  <2> HIDE DEF e
  <2>5. On(e) BY <2>1, <2>4, <1>a DEF On
  <2> QED BY <2>4, <2>5 DEF e
<1>e. ASSUME m_run[s].at # "none"
      PROVE  /\ [m_run[s] EXCEPT !.at = "end"] \in MOne /\ MShaped([m_run[s] EXCEPT !.at = "end"])
             /\ On([m_run[s] EXCEPT !.at = "end"])
  BY <1>e, <1>g DEF On
<1>8. CASE M!DropOld(s)
  <2> DEFINE e == [m_run[s] EXCEPT !.at = M!AfterOld(s)]
             o == m_run[s].old
             g == <<f[1], o>>
  <2>0. m_run[s].at = "old" /\ m_run' = [m_run EXCEPT ![s] = e] /\ m_queue' = m_queue
        /\ m_temp' = m_temp /\ m_excused' = m_excused
        /\ m_disk' = IF o \in {0, f[2]} THEN m_disk ELSE [m_disk EXCEPT ![g] = "absent"]
    BY <1>8 DEF M!DropOld, M!Goes
  <2>1. e \in MOne /\ MShaped(e) /\ On(e) BY <2>0, <1>a
  <2>2. Files
    <3>1. CASE o \in {0, f[2]} BY <3>1, <2>0, <1>t DEF Files, Kept
    <3>2. CASE o \notin {0, f[2]}
      <4>1. g \in M!File /\ g[1] = f[1] /\ g[2] = o BY <3>2, <2>0, <1>t, <1>f, MNames DEF MOne
      <4>2. Kept(g) BY <2>0, <3>2, <4>1, <1>l DEF MLate
      <4>3. m_disk' \in MDisk /\ \A h \in M!File : m_disk'[h] = "absent" => h = g \/ m_disk[h] = "absent"
        BY <2>0, <3>2, <1>t DEF MDisk
      <4>4. \A h \in M!File : m_disk[h] = "absent" => Kept(h) BY DEF Kept
      <4> QED BY <2>0, <4>2, <4>3, <4>4, <1>t DEF Files
    <3> QED BY <3>1, <3>2
  <2> QED BY <2>0, <2>1, <2>2, <1>t, <1>q
<1>9. CASE M!Prune(s)
  <2> DEFINE e == [m_run[s] EXCEPT !.at = "end"]
  <2>0. m_run[s].at = "prune" /\ m_run' = [m_run EXCEPT ![s] = e] /\ m_queue' = m_queue
        /\ m_temp' = m_temp /\ m_excused' = m_excused
        /\ m_disk' = [g \in M!File |-> IF g[1] = f[1] /\ g[2] \notin {f[2], m_run[s].old}
                                       THEN "absent" ELSE m_disk[g]]
    BY <1>9 DEF M!Prune, M!Goes
  <2>1. e \in MOne /\ MShaped(e) /\ On(e) BY <2>0, <1>e
  <2>2. Files
    <3>1. m_disk' \in MDisk BY <2>0, <1>t DEF MDisk
    <3>2. ASSUME NEW g \in M!File, m_disk'[g] = "absent" PROVE Kept(g)
      <4>1. CASE g[1] = f[1] /\ g[2] # f[2] BY <2>0, <4>1, <1>l DEF MLate
      <4>2. CASE ~(g[1] = f[1] /\ g[2] # f[2])
        <5>1. m_disk[g] = "absent" BY <2>0, <3>2, <4>2
        <5> QED BY <5>1 DEF Kept
      <4> QED BY <4>1, <4>2
    <3> QED BY <2>0, <3>1, <3>2, <1>t DEF Files
  <2> QED BY <2>0, <2>1, <2>2, <1>t, <1>q
<1>10. CASE M!CallbackFails(s)
  <2>0. Same /\ m_run[s].at # "none" BY <1>10 DEF M!CallbackFails, M!files, Same
  <2>1. CASE m_run[s].at = "old" /\ M!Goes(s, M!AfterOld(s))
    BY <2>0, <2>1, <1>a, <1>s, <1>t, <1>q DEF M!Goes
  <2>2. CASE M!Goes(s, "end")
    BY <2>0, <2>2, <1>e, <1>s, <1>t, <1>q DEF M!Goes
  <2>3. CASE M!Fails(s, TRUE)
    <3>1. m_queue' \in [M!File -> MJob] /\ m_run' = [m_run EXCEPT ![s] = M!Idle] BY <2>0, <2>3, MEnds
    <3> QED BY <2>0, <3>1, <1>i, <1>n, <1>s, <1>q
  <2> QED BY <1>10, <2>1, <2>2, <2>3 DEF M!CallbackFails
<1>11. CASE M!End(s)
  <2>0. m_run[s].at = "end" /\ Same /\ m_run' = [m_run EXCEPT ![s] = M!Idle]
        /\ m_queue' = IF m_run[s].job = "own" THEN [m_queue EXCEPT ![f] = M!NoJob] ELSE m_queue
    BY <1>11 DEF M!End, M!files, Same
  <2>1. m_queue' \in [M!File -> MJob] BY <2>0, <1>f, <1>t, <1>j, MIdle
  <2> QED BY <2>0, <2>1, <1>i, <1>n, <1>s, <1>q
<1> QED BY <1>1, <1>2, <1>3, <1>4, <1>5, <1>6, <1>7, <1>8, <1>9, <1>10, <1>11

\* A cancelled job is removed under its execution; the worker dies with all of them.
LEMMA MRemoves ==
    ASSUME MInv, M!WorkerDies \/ \E f \in M!File : M!RemoveJob(f)
    PROVE  MInv'
<1>t. /\ m_disk \in MDisk /\ m_temp \subseteq M!Fetched \X Versions /\ m_queue \in [M!File -> MJob]
      /\ m_run \in [Slots -> MOne] /\ m_key \subseteq M!File /\ m_cancel \in MCancel
      /\ m_drop \subseteq Curated \X Versions
  BY MTypes DEF MInv
<1>q. ASSUME m_run' \in [Slots -> MOne], m_queue' \in [M!File -> MJob], m_cancel' \in MCancel, m_used' \in MUsed,
             UNCHANGED <<m_disk, m_temp, m_row, m_key, m_drop, m_scan, m_base, m_world, m_req, m_excused>>,
             \A t \in Slots : \/ m_run'[t] = M!Idle
                              \/ m_run'[t].at = m_run[t].at /\ m_run'[t].file = m_run[t].file
      PROVE  MInv'
  <2>1. MShape'
    <3>1. \A t \in Slots : MShaped(m_run[t]) BY DEF MInv, MRows, MShape
    <3>2. \A t \in Slots : MShaped(m_run'[t])
      <4> SUFFICES ASSUME NEW t \in Slots PROVE MShaped(m_run'[t]) OBVIOUS
      <4>1. CASE m_run'[t] = M!Idle BY <4>1, MIdle
      <4>2. CASE m_run'[t].at = m_run[t].at /\ m_run'[t].file = m_run[t].file BY <3>1, <4>2 DEF MShaped
      <4> QED BY <1>q, <4>1, <4>2
    <3> QED BY <3>2 DEF MShape
  <2>2. ASSUME NEW t \in Slots, MBusy(t)'
        PROVE  m_run'[t].at = m_run[t].at /\ m_run'[t].file = m_run[t].file
    <3>1. m_run'[t] # M!Idle BY <2>2, MIdle DEF MBusy
    <3> QED BY <3>1, <1>q
  <2>3. ASSUME NEW t \in Slots, MBusy(t)'
        PROVE  /\ MBusy(t) /\ m_run'[t].file = m_run[t].file /\ (MLate(t)' => MLate(t))
               /\ m_run'[t].at # "stat" => m_run[t].at # "stat"
    BY <2>2, <2>3 DEF MBusy, MLate
  <2> QED BY <1>q, <1>t, <2>1, <2>3, MQuiet
<1>1. CASE M!WorkerDies
  <2> DEFINE j(f) == IF m_queue[f].st # "active" THEN m_queue[f]
                     ELSE [m_queue[f] EXCEPT !.st = IF m_queue[f].stalled THEN "failed" ELSE "waiting", !.stalled = TRUE]
  <2>1. m_run' = [t \in Slots |-> M!Idle] /\ m_queue' = [f \in M!File |-> j(f)] BY <1>1 DEF M!WorkerDies
  <2>2. \A f \in M!File : j(f) \in MJob BY <1>t DEF MJob
  <2> HIDE DEF j
  <2>3. m_queue' \in [M!File -> MJob] /\ m_run' \in [Slots -> MOne] BY <2>1, <2>2, MIdle
  <2>4. m_used' \in MUsed BY <1>1, MUses DEF M!WorkerDies
  <2> QED BY <1>1, <2>1, <2>3, <2>4, <1>t, <1>q DEF M!WorkerDies, M!files, M!others, M!maps
<1>2. ASSUME NEW f \in M!File, M!RemoveJob(f) PROVE MInv'
  <2> DEFINE e(t) == IF m_run[t].file = f /\ m_run[t].job = "own" THEN [m_run[t] EXCEPT !.job = "gone"] ELSE m_run[t]
  <2>1. m_run' = [t \in Slots |-> e(t)] /\ m_queue' = [m_queue EXCEPT ![f] = M!NoJob]
    BY <1>2 DEF M!RemoveJob
  <2>2. \A t \in Slots : e(t) \in MOne /\ e(t).at = m_run[t].at /\ e(t).file = m_run[t].file
    BY <1>t DEF MOne
  <2> HIDE DEF e
  <2>3. m_queue' \in [M!File -> MJob] /\ m_run' \in [Slots -> MOne] BY <2>1, <2>2, <1>t, MIdle
  <2>4. m_used' \in MUsed /\ m_cancel' \in MCancel BY <1>2, <1>t, MUses DEF M!RemoveJob, MCancel
  <2> QED BY <1>2, <2>1, <2>2, <2>3, <2>4, <1>q DEF M!RemoveJob, M!files, M!others, M!maps
<1> QED BY <1>1, <1>2

\* A completion begins; where another one, or the list of a reconciliation, is there already the
\* resource is excused.
LEMMA MEnters ==
    ASSUME MInv, NEW s \in Slots, M!Arrive(s) \/ M!Finish(s)
    PROVE  MInv'
<1> DEFINE f == m_run[s].file
           r == f[1]
<1>t. /\ m_disk \in MDisk /\ m_temp \subseteq M!Fetched \X Versions /\ m_queue \in [M!File -> MJob]
      /\ m_run \in [Slots -> MOne] /\ m_run[s] \in MOne /\ m_drop \subseteq Curated \X Versions
      /\ m_row \in MRow /\ m_scan \in MScan /\ m_excused \subseteq M!Resource \cup {"world"}
      /\ m_key \subseteq M!File /\ m_cancel \in MCancel
  BY MTypes DEF MInv
<1>1. /\ m_run[s].at \in {"fetch", "extract"}
      /\ UNCHANGED <<m_row, m_key, m_cancel, m_drop, m_scan, m_base, m_world, m_req>>
  BY DEF M!Arrive, M!Finish, M!others, M!maps
<1>f. f \in M!File /\ r \in M!Resource /\ f[2] \in Versions /\ f = <<r, f[2]>> /\ MShaped(m_run[s])
  <2>1. MShaped(m_run[s]) BY DEF MInv, MRows, MShape
  <2> QED BY <1>1, <2>1, MPair DEF MShaped
<1>u. m_used' \in MUsed BY MUses DEF M!Arrive, M!Finish
<1>x. CASE M!Arrive(s) /\ M!Fails(s, TRUE) /\ UNCHANGED <<m_disk, m_temp, m_excused>>
  <2>1. m_queue' \in [M!File -> MJob] /\ m_run' = [m_run EXCEPT ![s] = M!Idle] BY <1>x, <1>1, MEnds
  <2> QED BY <1>1, <1>u, <1>t, <1>x, <2>1, MIdle, MTurns
<1> DEFINE end == M!Arrive(s) /\ r \in Global
           at == IF end THEN "end" ELSE IF M!Finish(s) THEN "stat" ELSE "look"
           e == [m_run[s] EXCEPT !.at = at]
\* Otherwise the file is there as much as before.
<1>y. CASE ~(M!Arrive(s) /\ M!Fails(s, TRUE) /\ UNCHANGED <<m_disk, m_temp, m_excused>>)
  <2>1. /\ m_run' = [m_run EXCEPT ![s] = e] /\ m_queue' = m_queue
        /\ m_disk' \in MDisk /\ m_temp' \subseteq m_temp
        /\ \A g \in M!File : m_disk'[g] = "absent" => m_disk[g] = "absent"
        /\ IF end THEN m_excused' = m_excused ELSE M!Joins(s)
        /\ at = "look" => m_disk'[f] # "absent"
        /\ at = "stat" => m_run[s].at = "extract"
        /\ at # "stat" => m_run[s].at = "fetch"
    <3>1. CASE M!Finish(s)
      <4>1. at = "stat" /\ ~end BY <3>1 DEF M!Finish, M!Arrive
      <4>2. m_disk' = [m_disk EXCEPT ![f] = IF m_disk[f] = "absent" THEN "absent" ELSE "whole"]
        BY <3>1, <1>t, <1>f DEF M!Finish, MDisk
      <4>3. m_disk' \in MDisk /\ \A g \in M!File : m_disk'[g] = "absent" => m_disk[g] = "absent"
        BY <4>2, <1>t, <1>f DEF MDisk
      <4> QED BY <3>1, <4>1, <4>3 DEF M!Finish, M!Goes
    <3>2. CASE M!Arrive(s)
      <4>1. ~M!Finish(s) BY <3>2 DEF M!Finish, M!Arrive
      <4>2. f \in m_temp \/ m_disk[f] # "absent" BY <1>y, <3>2 DEF M!Arrive
      <4>3. m_disk' = [m_disk EXCEPT ![f] = "whole"] BY <3>2, <4>2 DEF M!Arrive
      <4>4. m_disk' \in MDisk /\ \A g \in M!File : m_disk'[g] = "absent" => m_disk[g] = "absent" /\ g # f
        BY <4>3, <1>t, <1>f DEF MDisk
      <4>5. m_disk'[f] # "absent" BY <4>4, <1>f
      <4>6. m_temp' \subseteq m_temp /\ m_queue' = m_queue /\ m_run' = [m_run EXCEPT ![s] = e]
            /\ (IF end THEN m_excused' = m_excused ELSE M!Joins(s)) /\ m_run[s].at = "fetch"
        BY <3>2, <4>1, <4>2 DEF M!Arrive, M!Goes
      <4> QED BY <4>1, <4>4, <4>5, <4>6
    <3> QED BY <3>1, <3>2
  <2>2. e \in MOne /\ e.at = at /\ e.file = f BY <1>t DEF MOne
  <2>3. MShaped(e)
    <3>1. m_run[s].at = "extract" => r \in Regions BY <1>f DEF MShaped
    <3>2. m_run[s].at = "fetch" => r \in M!Fetched BY <1>f DEF MShaped
    <3>3. at = "look" => r \notin Global BY <2>1
    <3>4. at = "stat" => r \in Regions /\ r \notin Global BY <2>1, <3>1, MNames
    <3> HIDE DEF e, at
    <3>5. at \in {"end", "stat", "look"} BY DEF at
    <3> QED BY <2>2, <3>3, <3>4, <3>5, <1>f DEF MShaped
  <2>4. m_temp' \subseteq M!Fetched \X Versions BY <2>1, <1>t
  <2>5. CASE end
    <3>1. at = "end" BY <2>5
    <3> HIDE DEF e, at, end
    <3> QED BY <2>1, <2>2, <2>3, <2>4, <2>5, <3>1, <1>1, <1>t, <1>u, MTurns
  <2>6. CASE ~end
    <3>1. m_excused' = m_excused \/ m_excused' = m_excused \cup {r} BY <2>1, <2>6 DEF M!Joins
    <3>2. r \notin m_excused' => \A t \in Slots \ {s} : MBusy(t) => MOf(t) # r
      <4> SUFFICES ASSUME r \notin m_excused', NEW t \in Slots \ {s}, MBusy(t), MOf(t) = r PROVE FALSE
        OBVIOUS
      <4>1. M!Alone(s) BY <2>1, <2>6 DEF M!Joins
      <4>2. m_run[t].file \in M!File BY DEF MInv, MRows, MShape, MShaped, MBusy
      <4>3. t \in M!AtWork(r) BY <4>2, MPair DEF M!AtWork, MBusy, MOf, M!Recording
      <4> QED BY <4>1, <4>3 DEF M!Alone
    <3>3. r \notin m_excused' => ~(m_scan.at = "adopt" /\ r \in Curated)
      BY <2>1, <2>6 DEF M!Joins, M!Alone
    <3> HIDE DEF e, end
    <3>4. m_run' \in [Slots -> MOne] /\ MShape' /\ \A t \in Slots : m_run'[t] = IF t = s THEN e ELSE m_run[t]
      BY <2>1, <2>2, <2>3, MGoesOn
    <3>5. \A t \in Slots : t # s => m_run'[t] = m_run[t] /\ (MBusy(t)' <=> MBusy(t)) /\ MOf(t)' = MOf(t)
                                    /\ (MLate(t)' <=> MLate(t))
      BY <3>4 DEF MBusy, MLate, MOf
    <3>6. MOf(s)' = r /\ ~MLate(s)' /\ m_run'[s] = e BY <2>2, <3>4 DEF MOf, MLate
    <3>7. m_excused \subseteq m_excused' /\ m_excused' \subseteq M!Resource \cup {"world"} BY <3>1, <1>t, <1>f
    <3>8. M!TypeOK' BY <3>4, <3>7, <2>1, <2>4, <1>1, <1>t, <1>u, MTypes, MTypesNext DEF MInv
    <3>9. MAlone'
      <4>1. ASSUME NEW t \in Slots, NEW v \in Slots, MBusy(t)', MBusy(v)', MOf(t)' = MOf(v)', t # v
            PROVE  MOf(t)' \in m_excused'
        <5>1. CASE t # s /\ v # s BY <4>1, <5>1, <3>5, <3>7 DEF MInv, MRows, MAlone
        <5>2. CASE t = s BY <4>1, <5>2, <3>2, <3>5, <3>6
        <5>3. CASE v = s BY <4>1, <5>3, <3>2, <3>5, <3>6
        <5> QED BY <5>1, <5>2, <5>3
      <4>2. ASSUME NEW t \in Slots, MBusy(t)', m_scan.at = "adopt", MOf(t)' \in Curated
            PROVE  MOf(t)' \in m_excused'
        <5>1. CASE t # s BY <4>2, <5>1, <3>5, <3>7 DEF MInv, MRows, MAlone
        <5>2. CASE t = s BY <4>2, <5>2, <3>3, <3>6
        <5> QED BY <5>1, <5>2
      <4> QED BY <4>1, <4>2, <1>1 DEF MAlone
    <3>10. MThere'
      <4> SUFFICES ASSUME NEW t \in Slots, MBusy(t)', m_run'[t].at # "stat", MOf(t)' \notin m_excused'
                   PROVE  m_disk'[m_run'[t].file] # "absent"
        BY DEF MThere
      <4>1. CASE t = s
        <5>1. at # "stat" BY <4>1, <3>6, <2>2
        <5>2. at = "look" BY <5>1, <2>6, <2>1 DEF at
        <5> QED BY <5>2, <4>1, <2>1, <2>2, <3>6
      <4>2. CASE t # s
        <5>1. MBusy(t) /\ m_run[t] = m_run'[t] /\ MOf(t) \notin m_excused BY <4>2, <3>5, <3>7
        <5>2. m_disk[m_run[t].file] # "absent" BY <5>1 DEF MInv, MRows, MThere
        <5>3. m_run[t].file \in M!File BY <5>1 DEF MInv, MRows, MShape, MShaped, MBusy
        <5> QED BY <5>1, <5>2, <5>3, <2>1
      <4> QED BY <4>1, <4>2
    <3>11. MNamed'
      <4> SUFFICES ASSUME NEW t \in Slots, MLate(t)', MOf(t)' \notin m_excused'
                   PROVE  m_row'[MOf(t)'] \in {0, m_run'[t].file[2]}
        BY DEF MNamed
      <4>1. t # s BY <3>6
      <4>2. MLate(t) /\ MOf(t)' = MOf(t) /\ m_run'[t] = m_run[t] /\ MOf(t) \notin m_excused
        BY <4>1, <3>5, <3>7
      <4>3. m_row[MOf(t)] \in {0, m_run[t].file[2]} BY <4>2 DEF MInv, MRows, MNamed
      <4> QED BY <4>2, <4>3, <1>1
    <3>12. MListed'
      <4>1. \A g \in m_scan.listed : g \in M!File
        <5>1. m_scan.listed \subseteq Curated \X Versions BY <1>t DEF MScan
        <5> QED BY <5>1, MNames
      <4> QED BY <4>1, <1>1, <2>1, <3>7 DEF MInv, MRows, MListed
    <3>13. MGlobal' BY <1>1 DEF MInv, MRows, MGlobal
    <3>14. M!RowHasFile'
      <4> SUFFICES ASSUME NEW q \in M!Resource, m_row[q] # 0, q \notin m_excused', m_scan.at = "none",
                          ~\E d \in m_drop : d[1] = q
                   PROVE  m_disk'[<<q, m_row[q]>>] # "absent"
        BY <1>1 DEF M!RowHasFile
      <4>1. <<q, m_row[q]>> \in M!File BY <1>t, MNames DEF MRow
      <4>2. m_disk[<<q, m_row[q]>>] # "absent" BY <3>7 DEF MInv, MRows, M!RowHasFile
      <4> QED BY <4>1, <4>2, <2>1
    <3>15. MWorld' /\ M!WorldIsWhole'
      <4>1. \A x : x = "world" => (x \in m_excused' <=> x \in m_excused) BY <3>1, <1>f, MNames
      <4> QED BY <4>1, <1>1, MApart
    <3> QED BY <3>4, <3>8, <3>9, <3>10, <3>11, <3>12, <3>13, <3>14, <3>15 DEF MInv, MRows
  <2> QED BY <2>5, <2>6
<1> QED BY <1>x, <1>y

\* A completion makes its entry, and a download once more: of a file that is there, unless the
\* resource is excused. The first entry that is made alone, with the file there, ends the excuse.
LEMMA MRecords ==
    ASSUME MInv, NEW s \in Slots, M!Record(s) \/ M!Note(s)
    PROVE  MInv'
<1> DEFINE f == m_run[s].file
           r == f[1]
           at == IF m_run[s].at = "record" THEN "old" ELSE "end"
           e == [m_run[s] EXCEPT !.at = at]
<1>t. /\ m_disk \in MDisk /\ m_run \in [Slots -> MOne] /\ m_run[s] \in MOne
      /\ m_row \in MRow /\ m_scan \in MScan /\ m_excused \subseteq M!Resource \cup {"world"}
  BY MTypes DEF MInv
<1>1. /\ m_run[s].at \in {"record", "note"} /\ m_run' = [m_run EXCEPT ![s] = e]
      /\ m_row' = [m_row EXCEPT ![r] = f[2]]
      /\ m_excused' = m_excused \/ (m_excused' = m_excused \ {r} /\ M!Alone(s) /\ m_disk[f] # "absent")
      /\ UNCHANGED <<m_disk, m_temp, m_queue, m_key, m_cancel, m_drop, m_scan, m_base, m_world, m_req>>
  <2>1. CASE M!Record(s) BY <2>1 DEF M!Record, M!Goes, M!others, M!maps
  <2>2. CASE M!Note(s) BY <2>2 DEF M!Note, M!Goes, M!others, M!maps
  <2> QED BY <2>1, <2>2
<1>f. /\ f \in M!File /\ r \in M!Resource /\ f[2] \in Versions /\ f = <<r, f[2]>> /\ MShaped(m_run[s])
      /\ r \notin Global /\ r # "world"
  <2>1. MShaped(m_run[s]) BY DEF MInv, MRows, MShape
  <2>2. f \in M!File /\ r \notin Global BY <1>1, <2>1 DEF MShaped
  <2> QED BY <2>1, <2>2, MPair, MNames
<1>u. m_used' \in MUsed BY MUses DEF M!Record, M!Note
<1>2. e \in MOne /\ e.at = at /\ e.file = f /\ MShaped(e)
  <2>1. e \in MOne /\ e.at = at /\ e.file = f BY <1>t DEF MOne
  <2> HIDE DEF e
  <2> QED BY <2>1, <1>f DEF MShaped
<1>3. MBusy(s) /\ m_run[s].at # "stat" BY <1>1 DEF MBusy
<1>4. r \notin m_excused' => /\ m_disk[f] # "absent"
                             /\ \A t \in Slots \ {s} : MBusy(t) => MOf(t) # r
                             /\ ~(m_scan.at = "adopt" /\ r \in Curated)
  <2> SUFFICES ASSUME r \notin m_excused'
               PROVE  /\ m_disk[f] # "absent" /\ \A t \in Slots \ {s} : MBusy(t) => MOf(t) # r
                      /\ ~(m_scan.at = "adopt" /\ r \in Curated)
    OBVIOUS
  <2>1. CASE r \notin m_excused
    <3>1. m_disk[f] # "absent" BY <2>1, <1>3 DEF MInv, MRows, MThere, MOf
    <3>2. \A t \in Slots \ {s} : MBusy(t) => MOf(t) # r
      <4>1. MOf(s) = r BY DEF MOf
      <4> QED BY <4>1, <2>1, <1>3 DEF MInv, MRows, MAlone
    <3>3. ~(m_scan.at = "adopt" /\ r \in Curated) BY <2>1, <1>3 DEF MInv, MRows, MAlone, MOf
    <3> QED BY <3>1, <3>2, <3>3
  <2>2. CASE r \in m_excused
    <3>1. M!Alone(s) /\ m_disk[f] # "absent" BY <1>1, <2>2
    <3>2. ASSUME NEW t \in Slots \ {s}, MBusy(t), MOf(t) = r PROVE FALSE
      <4>1. m_run[t].file \in M!File BY <3>2 DEF MInv, MRows, MShape, MShaped, MBusy
      <4>2. t \in M!AtWork(r) BY <4>1, <3>2, MPair DEF M!AtWork, MBusy, MOf, M!Recording
      <4> QED BY <3>1, <4>2 DEF M!Alone
    <3> QED BY <3>1, <3>2 DEF M!Alone
  <2> QED BY <2>1, <2>2
<1>5. \A x : x # r => (x \in m_excused' <=> x \in m_excused) BY <1>1
<1> HIDE DEF e
<1>6. m_run' \in [Slots -> MOne] /\ MShape' /\ \A t \in Slots : m_run'[t] = IF t = s THEN e ELSE m_run[t]
  BY <1>1, <1>2, MGoesOn
<1>7. \A t \in Slots : MOf(t)' = MOf(t) /\ m_run'[t].file = m_run[t].file BY <1>2, <1>6 DEF MOf
<1>8. \A t \in Slots : t # s => m_run'[t] = m_run[t] /\ (MBusy(t)' <=> MBusy(t)) /\ (MLate(t)' <=> MLate(t))
  BY <1>6 DEF MBusy, MLate
<1>9. m_row' \in MRow /\ \A q \in M!Resource : m_row'[q] = IF q = r THEN f[2] ELSE m_row[q]
  BY <1>1, <1>f, <1>t DEF MRow
<1>b. \A t \in Slots : MBusy(t) => m_run[t].file \in M!File /\ MOf(t) \in M!Resource
  <2> SUFFICES ASSUME NEW t \in Slots, MBusy(t) PROVE m_run[t].file \in M!File /\ MOf(t) \in M!Resource
    OBVIOUS
  <2>1. m_run[t].file \in M!File BY DEF MInv, MRows, MShape, MShaped, MBusy
  <2> QED BY <2>1, MPair DEF MOf
<1>10. M!TypeOK'
  <2>1. m_excused' \subseteq M!Resource \cup {"world"} BY <1>1, <1>t
  <2> QED BY <2>1, <1>1, <1>6, <1>9, <1>u, MTypes, MTypesNext DEF MInv
<1>o. MOf(s) = r BY DEF MOf
<1>11. MAlone'
  <2>1. ASSUME NEW t \in Slots, NEW v \in Slots, MBusy(t)', MBusy(v)', MOf(t)' = MOf(v)', t # v
        PROVE  MOf(t)' \in m_excused'
    <3>1. CASE MOf(t) = r
      <4>1. t # s \/ v # s BY <2>1
      <4> QED BY <4>1, <3>1, <2>1, <1>4, <1>7, <1>8
    <3>2. CASE MOf(t) # r
      <4>1. t # s /\ v # s BY <3>2, <2>1, <1>7, <1>o
      <4>2. MBusy(t) /\ MBusy(v) /\ MOf(t) = MOf(v) BY <4>1, <2>1, <1>7, <1>8
      <4>3. MOf(t) \in m_excused BY <4>2, <2>1 DEF MInv, MRows, MAlone
      <4> QED BY <4>3, <3>2, <1>5, <1>7
    <3> QED BY <3>1, <3>2
  <2>2. ASSUME NEW t \in Slots, MBusy(t)', m_scan.at = "adopt", MOf(t)' \in Curated
        PROVE  MOf(t)' \in m_excused'
    <3>1. CASE MOf(t) = r BY <3>1, <2>2, <1>4, <1>7
    <3>2. CASE MOf(t) # r
      <4>1. t # s BY <3>2, <1>o
      <4>2. MBusy(t) BY <4>1, <2>2, <1>8
      <4>3. MOf(t) \in m_excused BY <4>2, <2>2, <1>7 DEF MInv, MRows, MAlone
      <4> QED BY <4>3, <3>2, <1>5, <1>7
    <3> QED BY <3>1, <3>2
  <2> QED BY <2>1, <2>2, <1>1 DEF MAlone
<1>12. MThere'
  <2> SUFFICES ASSUME NEW t \in Slots, MBusy(t)', m_run'[t].at # "stat", MOf(t)' \notin m_excused'
               PROVE  m_disk'[m_run'[t].file] # "absent"
    BY DEF MThere
  <2>1. CASE t = s BY <2>1, <1>1, <1>4, <1>7, <1>o
  <2>2. CASE t # s
    <3>1. MBusy(t) /\ m_run'[t] = m_run[t] /\ MOf(t)' = MOf(t) BY <2>2, <1>7, <1>8
    <3>2. MOf(t) # r BY <2>2, <3>1, <1>4
    <3>3. MOf(t) \notin m_excused BY <3>1, <3>2, <1>5
    <3> QED BY <3>1, <3>3, <1>1 DEF MInv, MRows, MThere
  <2> QED BY <2>1, <2>2
<1>13. MNamed'
  <2> SUFFICES ASSUME NEW t \in Slots, MLate(t)', MOf(t)' \notin m_excused'
               PROVE  m_row'[MOf(t)'] \in {0, m_run'[t].file[2]}
    BY DEF MNamed
  <2>1. CASE t = s BY <2>1, <1>7, <1>9, <1>f, <1>o
  <2>2. CASE t # s
    <3>1. MLate(t) /\ MBusy(t) /\ m_run'[t] = m_run[t] /\ MOf(t)' = MOf(t)
      BY <2>2, <1>7, <1>8 DEF MLate, MBusy
    <3>2. MOf(t) # r BY <2>2, <3>1, <1>4
    <3>3. MOf(t) \notin m_excused BY <3>1, <3>2, <1>5
    <3>4. m_row[MOf(t)] \in {0, m_run[t].file[2]} BY <3>1, <3>3 DEF MInv, MRows, MNamed
    <3> QED BY <3>1, <3>2, <3>4, <1>9, <1>b
  <2> QED BY <2>1, <2>2
<1>14. MListed'
  <2> SUFFICES ASSUME m_scan.at = "adopt", NEW g \in m_scan.listed, g[1] \notin m_excused'
               PROVE  m_disk[g] # "absent"
    BY <1>1 DEF MListed
  <2>1. g[1] \in Curated
    <3>1. m_scan.listed \subseteq Curated \X Versions BY <1>t DEF MScan
    <3> QED BY <3>1
  <2>2. g[1] # r BY <2>1, <1>4
  <2> QED BY <2>2, <1>5 DEF MInv, MRows, MListed
<1>15. MGlobal' BY <1>9, <1>f, MNames DEF MInv, MRows, MGlobal
<1>16. M!RowHasFile'
  <2> SUFFICES ASSUME NEW q \in M!Resource, m_row'[q] # 0, q \notin m_excused', m_scan.at = "none",
                      ~\E d \in m_drop : d[1] = q
               PROVE  m_disk[<<q, m_row'[q]>>] # "absent"
    BY <1>1 DEF M!RowHasFile
  <2>1. CASE q = r BY <2>1, <1>4, <1>9, <1>f
  <2>2. CASE q # r
    <3>1. m_row'[q] = m_row[q] /\ q \notin m_excused BY <2>2, <1>5, <1>9
    <3> QED BY <3>1 DEF MInv, MRows, M!RowHasFile
  <2> QED BY <2>1, <2>2
<1>17. MWorld' /\ M!WorldIsWhole'
  <2>1. \A x : x = "world" => (x \in m_excused' <=> x \in m_excused) BY <1>5, <1>f
  <2> QED BY <2>1, <1>1, MApart
<1> QED BY <1>6, <1>10, <1>11, <1>12, <1>13, <1>14, <1>15, <1>16, <1>17 DEF MInv, MRows

\* A row goes after its file; the server dies and lists the files; the table is made to agree with
\* the list.
LEMMA MTables ==
    ASSUME MInv, M!ServerDies \/ M!ListFiles \/ M!Adopt \/ \E f \in m_drop : M!DropRow(f)
    PROVE  MInv'
<1>t. /\ m_disk \in MDisk /\ m_row \in MRow /\ m_scan \in MScan /\ m_drop \subseteq Curated \X Versions
      /\ m_excused \subseteq M!Resource \cup {"world"} /\ m_cancel \in MCancel /\ m_req \in MReq
  BY MTypes DEF MInv
<1>1. UNCHANGED <<m_disk, m_temp, m_queue, m_run, m_key, m_base, m_world>>
  BY DEF M!ServerDies, M!ListFiles, M!Adopt, M!DropRow, M!files, M!jobs, M!maps
<1>2. m_used' \in MUsed BY MUses DEF M!ServerDies, M!ListFiles, M!Adopt, M!DropRow
<1>3. MShape' /\ \A s \in Slots : (MBusy(s)' <=> MBusy(s)) /\ (MLate(s)' <=> MLate(s)) /\ MOf(s)' = MOf(s)
  BY <1>1 DEF MInv, MRows, MShape, MBusy, MLate, MOf
<1>b. \A t \in Slots : MBusy(t) => /\ m_run[t].file \in M!File /\ MOf(t) \in M!Resource
                                   /\ t \in M!AtWork(MOf(t))
  <2> SUFFICES ASSUME NEW t \in Slots, MBusy(t)
               PROVE  m_run[t].file \in M!File /\ MOf(t) \in M!Resource /\ t \in M!AtWork(MOf(t))
    OBVIOUS
  <2>1. m_run[t].file \in M!File BY DEF MInv, MRows, MShape, MShaped, MBusy
  <2> QED BY <2>1, MPair DEF MOf, M!AtWork, MBusy, M!Recording
<1>c. \A s \in Slots : MLate(s) => MBusy(s) BY DEF MLate, MBusy
<1>4. CASE M!ServerDies
  <2>1. /\ m_req' = [q \in Requests |-> [at |-> "none", ready |-> FALSE]]
        /\ m_cancel' = [f \in M!File |-> "none"] /\ m_drop' = {}
        /\ m_scan' = [M!NoScan EXCEPT !.at = "list"] /\ m_row' = m_row
        /\ m_excused' = IF \E q \in Requests : m_req[q].at = "cut" THEN m_excused \cup {"world"} ELSE m_excused
    BY <1>4 DEF M!ServerDies, M!files
  <2>2. m_scan' \in MScan /\ m_scan'.at = "list" BY <2>1 DEF MScan, M!NoScan
  <2>3. m_req' \in MReq /\ m_cancel' \in MCancel /\ m_excused' \subseteq M!Resource \cup {"world"}
    BY <2>1, <1>t DEF MReq, MCancel
  <2>4. M!TypeOK' BY <1>1, <1>2, <2>1, <2>2, <2>3, MTypes, MTypesNext DEF MInv
  <2>5. m_excused \subseteq m_excused' BY <2>1
  <2>6. MAlone' BY <1>3, <2>2, <2>5 DEF MInv, MRows, MAlone
  <2>7. MThere' BY <1>1, <1>3, <2>5 DEF MInv, MRows, MThere
  <2>8. MNamed' BY <1>1, <1>3, <2>1, <2>5 DEF MInv, MRows, MNamed
  <2>9. MListed' /\ MGlobal' /\ M!RowHasFile'
    BY <2>1, <2>2 DEF MListed, MInv, MRows, MGlobal, M!RowHasFile
  <2>10. MWorld' BY <1>1, <2>1 DEF MInv, MWorld
  <2>11. M!WorldIsWhole' BY <2>1 DEF M!WorldIsWhole
  <2> QED BY <1>3, <2>4, <2>6, <2>7, <2>8, <2>9, <2>10, <2>11 DEF MInv, MRows
<1>5. CASE M!ListFiles
  <2> DEFINE Present == {f \in Curated \X Versions : m_disk[f] # "absent"}
  <2>1. /\ m_scan' = [at |-> "adopt", listed |-> Present]
        /\ m_excused' = {r \in m_excused : r \notin Curated} \cup {r \in Curated : M!AtWork(r) # {}}
        /\ UNCHANGED <<m_row, m_cancel, m_drop, m_req>> /\ m_scan.at = "list"
    BY <1>5 DEF M!ListFiles, M!files, M!jobs, M!maps
  <2>2. m_scan' \in MScan /\ m_scan'.at = "adopt" BY <2>1 DEF MScan
  <2>3. m_excused' \subseteq M!Resource \cup {"world"} BY <2>1, <1>t, MNames
  <2>4. M!TypeOK' BY <1>1, <1>2, <2>1, <2>2, <2>3, MTypes, MTypesNext DEF MInv
  <2>5. \A s \in Slots : MBusy(s) => MOf(s) \in m_excused' \/ (MOf(s) \notin m_excused /\ MOf(s) \notin Curated)
    BY <2>1, <1>b
  <2>6. MAlone' BY <1>3, <2>5 DEF MInv, MRows, MAlone
  <2>7. MThere' BY <1>1, <1>3, <2>5 DEF MInv, MRows, MThere
  <2>8. MNamed' BY <1>1, <1>3, <1>c, <2>1, <2>5 DEF MInv, MRows, MNamed
  <2>9. MListed' BY <1>1, <2>1 DEF MListed
  <2>10. MGlobal' /\ M!RowHasFile' BY <2>1, <2>2 DEF MInv, MRows, MGlobal, M!RowHasFile
  <2>11. MWorld' /\ M!WorldIsWhole'
    <3>1. \A x : x = "world" => (x \in m_excused' <=> x \in m_excused) BY <2>1, MNames
    <3> QED BY <3>1, <1>1, <2>1, MApart
  <2> QED BY <1>3, <2>4, <2>6, <2>7, <2>8, <2>9, <2>10, <2>11 DEF MInv, MRows
<1>6. CASE M!Adopt
  <2> DEFINE there(r) == {v \in Versions : <<r, v>> \in m_scan.listed}
  <2>1. /\ m_scan.at = "adopt" /\ m_scan' = M!NoScan
        /\ m_row' \in [M!Resource -> {0} \cup Versions]
        /\ \A r \in M!Resource : m_row'[r] \in IF there(r) = {} THEN {0} ELSE there(r)
        /\ UNCHANGED <<m_cancel, m_drop, m_req, m_excused>>
    BY <1>6 DEF M!Adopt, M!jobs, M!maps
  <2>2. m_scan' \in MScan /\ m_scan'.at = "none" BY <2>1 DEF MScan, M!NoScan
  <2>3. M!TypeOK' BY <1>1, <1>2, <2>1, <2>2, MTypes, MTypesNext DEF MInv, MRow
  <2>4. \A r \in M!Resource : r \notin Curated => m_row'[r] = 0
    <3>1. m_scan.listed \subseteq Curated \X Versions BY <1>t DEF MScan
    <3> QED BY <3>1, <2>1
  <2>5. MAlone' BY <1>3, <2>1, <2>2 DEF MInv, MRows, MAlone
  <2>6. MThere' BY <1>1, <1>3, <2>1 DEF MInv, MRows, MThere
  <2>7. MNamed'
    <3> SUFFICES ASSUME NEW s \in Slots, MLate(s), MOf(s) \notin m_excused PROVE m_row'[MOf(s)] = 0
      BY <1>1, <1>3, <2>1 DEF MNamed
    <3>1. MOf(s) \notin Curated BY <2>1, <1>c DEF MInv, MRows, MAlone
    <3> QED BY <3>1, <1>b, <1>c, <2>4
  <2>8. MListed' BY <2>2 DEF MListed
  <2>9. MGlobal' BY <2>4, MNames DEF MGlobal
  <2>10. M!RowHasFile'
    <3> SUFFICES ASSUME NEW r \in M!Resource, m_row'[r] # 0, r \notin m_excused
                 PROVE  m_disk[<<r, m_row'[r]>>] # "absent"
      BY <1>1, <2>1 DEF M!RowHasFile
    <3>1. <<r, m_row'[r]>> \in m_scan.listed BY <2>1
    <3> DEFINE g == <<r, m_row'[r]>>
    <3>2. g[1] = r OBVIOUS
    <3> HIDE DEF g
    <3>3. m_disk[g] # "absent" BY <3>1, <3>2, <2>1 DEF MInv, MRows, MListed, g
    <3> QED BY <3>3 DEF g
  <2>11. MWorld' /\ M!WorldIsWhole' BY <1>1, <2>1, MApart
  <2> QED BY <1>3, <2>3, <2>5, <2>6, <2>7, <2>8, <2>9, <2>10, <2>11 DEF MInv, MRows
<1>7. ASSUME NEW f \in m_drop, M!DropRow(f) PROVE MInv'
  <2>1. /\ m_drop' = m_drop \ {f} /\ m_row' = [m_row EXCEPT ![f[1]] = 0]
        /\ UNCHANGED <<m_cancel, m_scan, m_req, m_excused>>
    BY <1>7 DEF M!DropRow, M!jobs, M!maps
  <2>2. f[1] \in M!Resource BY <1>t, MNames
  <2>3. m_row' \in MRow /\ \A r \in M!Resource : m_row'[r] = IF r = f[1] THEN 0 ELSE m_row[r]
    BY <2>1, <2>2, <1>t DEF MRow
  <2>4. M!TypeOK'
    <3>1. m_drop' \subseteq Curated \X Versions BY <2>1, <1>t
    <3> QED BY <3>1, <1>1, <1>2, <2>1, <2>3, MTypes, MTypesNext DEF MInv
  <2>5. MAlone' BY <1>3, <2>1 DEF MInv, MRows, MAlone
  <2>6. MThere' BY <1>1, <1>3, <2>1 DEF MInv, MRows, MThere
  <2>7. MNamed'
    <3> SUFFICES ASSUME NEW s \in Slots, MLate(s), MOf(s) \notin m_excused
                 PROVE  m_row'[MOf(s)] \in {0, m_run[s].file[2]}
      BY <1>1, <1>3, <2>1 DEF MNamed
    <3>1. m_row[MOf(s)] \in {0, m_run[s].file[2]} BY DEF MInv, MRows, MNamed
    <3> QED BY <3>1, <2>3, <1>b, <1>c
  <2>8. MListed' BY <1>1, <2>1 DEF MInv, MRows, MListed
  <2>9. MGlobal' BY <2>3, MNames DEF MInv, MRows, MGlobal
  <2>10. M!RowHasFile'
    <3> SUFFICES ASSUME NEW r \in M!Resource, m_row'[r] # 0, r \notin m_excused, m_scan.at = "none",
                        ~\E d \in m_drop' : d[1] = r
                 PROVE  m_disk[<<r, m_row'[r]>>] # "absent"
      BY <1>1, <2>1 DEF M!RowHasFile
    <3>1. r # f[1] /\ m_row'[r] = m_row[r] BY <2>3
    <3>2. ~\E d \in m_drop : d[1] = r BY <3>1, <2>1
    <3> QED BY <3>1, <3>2 DEF MInv, MRows, M!RowHasFile
  <2>11. MWorld' /\ M!WorldIsWhole' BY <1>1, <2>1, MApart
  <2> QED BY <1>3, <2>4, <2>5, <2>6, <2>7, <2>8, <2>9, <2>10, <2>11 DEF MInv, MRows
<1> QED BY <1>4, <1>5, <1>6, <1>7

\* A request for a map makes the map of the world, or finds it.
LEMMA MShows ==
    ASSUME MInv, NEW q \in Requests,
           \/ M!Open(q) \/ M!LookBase(q) \/ M!Unpack(q) \/ M!LookWorld(q) \/ M!Cut(q) \/ M!Serve(q)
    PROVE  MInv'
<1> DEFINE R == [at: {"none", "look", "unpack", "world", "cut", "serve"}, ready: BOOLEAN]
           to(at) == [m_req[q] EXCEPT !.at = at]
<1>t. m_req \in [Requests -> R] /\ m_req[q] \in R /\ m_world \in {"absent", "partial", "whole"}
      /\ m_base \in {"absent", "half", "whole"} /\ m_excused \subseteq M!Resource \cup {"world"}
  BY MTypes DEF MInv, MReq
<1>1. UNCHANGED <<m_disk, m_temp, m_row, m_queue, m_run, m_key, m_cancel, m_drop, m_scan>>
  BY DEF M!Open, M!LookBase, M!Unpack, M!LookWorld, M!Cut, M!Serve, M!files, M!jobs, M!others
<1>2. m_used' \in MUsed BY MUses DEF M!Open, M!LookBase, M!Unpack, M!LookWorld, M!Cut, M!Serve
<1>3. m_base' \in {"absent", "half", "whole"}
  BY <1>t DEF M!Open, M!LookBase, M!Unpack, M!LookWorld, M!Cut, M!Serve
<1>4. /\ m_excused' = m_excused \/ m_excused' = m_excused \cup {"world"}
      /\ m_excused' \subseteq M!Resource \cup {"world"}
  BY <1>t DEF M!Open, M!LookBase, M!Unpack, M!LookWorld, M!Cut, M!Serve
<1>r. \A at \in {"none", "look", "unpack", "world", "cut", "serve"} :
          to(at) \in R /\ to(at).at = at /\ to(at).ready = m_req[q].ready
  BY <1>t
\* What the request becomes, with the map of the world.
<1>5. \E e \in R :
        /\ m_req' = [m_req EXCEPT ![q] = e]
        /\ \/ m_world' = m_world /\ e.at # "cut" /\ m_req[q].at # "cut" /\ (e.ready => m_req[q].ready)
           \/ /\ m_world = "absent" /\ m_world' = "partial" /\ e.at = "cut" /\ m_req[q].at = "world"
              /\ e.ready = m_req[q].ready
              /\ (M!Cutting(q) # {} => "world" \in m_excused')
           \/ m_world # "absent" /\ m_world' = m_world /\ e.at = "serve" /\ m_req[q].at = "world"
              /\ (M!Cutting(q) # {} => "world" \in m_excused')
           \/ m_req[q].at = "cut" /\ e.at = "serve" /\ (m_world' = "whole" \/ (m_world' = "absent" /\ e.ready = m_req[q].ready))
  <2> DEFINE a == [at |-> "look", ready |-> FALSE]
             b == [at |-> "serve", ready |-> TRUE]
  <2>r. a \in R /\ a.at = "look" /\ ~a.ready /\ b \in R /\ b.at = "serve" OBVIOUS
  <2> HIDE DEF a, b, R, to
  <2>1. CASE M!Open(q)
    <3>1. m_req' = [m_req EXCEPT ![q] = a] /\ m_req[q].at = "none" /\ m_world' = m_world
      BY <2>1 DEF M!Open, a
    <3> QED BY <3>1, <2>r
  <2>2. CASE M!LookBase(q)
    <3>1. PICK at \in {"unpack", "world"} : m_req' = [m_req EXCEPT ![q] = to(at)]
      BY <2>2 DEF M!LookBase, M!To, to
    <3> QED BY <3>1, <2>2, <1>r DEF M!LookBase
  <2>3. CASE M!Unpack(q)
    <3>1. PICK at \in {"none", "world"} : m_req' = [m_req EXCEPT ![q] = to(at)]
      BY <2>3 DEF M!Unpack, M!To, to
    <3> QED BY <3>1, <2>3, <1>r DEF M!Unpack
  <2>4. CASE M!LookWorld(q)
    <3>0. m_req[q].at = "world" /\ (M!Cutting(q) # {} => "world" \in m_excused') BY <2>4 DEF M!LookWorld
    <3>1. CASE m_world = "absent"
      <4>1. m_req' = [m_req EXCEPT ![q] = to("cut")] /\ m_world' = "partial"
        BY <2>4, <3>1 DEF M!LookWorld, M!To, to
      <4> QED BY <4>1, <3>0, <3>1, <1>r
    <3>2. CASE m_world # "absent"
      <4>1. m_req' = [m_req EXCEPT ![q] = b] /\ m_world' = m_world
        BY <2>4, <3>2 DEF M!LookWorld, b
      <4> QED BY <4>1, <3>0, <3>2, <2>r
    <3> QED BY <3>1, <3>2
  <2>5. CASE M!Cut(q)
    <3>0. m_req[q].at = "cut" BY <2>5 DEF M!Cut
    <3>1. \/ m_req' = [m_req EXCEPT ![q] = b] /\ m_world' = "whole"
          \/ m_req' = [m_req EXCEPT ![q] = to("serve")] /\ m_world' = "absent"
      BY <2>5 DEF M!Cut, M!To, to, b
    <3> QED BY <3>0, <3>1, <2>r, <1>r
  <2>6. CASE M!Serve(q)
    <3>1. m_req' = [m_req EXCEPT ![q] = to("none")] /\ m_req[q].at = "serve" /\ m_world' = m_world
      BY <2>6 DEF M!Serve, M!To, to
    <3> QED BY <3>1, <1>r
  <2> QED BY <2>1, <2>2, <2>3, <2>4, <2>5, <2>6
<1>6. PICK e \in R :
        /\ m_req' = [m_req EXCEPT ![q] = e]
        /\ \/ m_world' = m_world /\ e.at # "cut" /\ m_req[q].at # "cut" /\ (e.ready => m_req[q].ready)
           \/ /\ m_world = "absent" /\ m_world' = "partial" /\ e.at = "cut" /\ m_req[q].at = "world"
              /\ e.ready = m_req[q].ready
              /\ (M!Cutting(q) # {} => "world" \in m_excused')
           \/ m_world # "absent" /\ m_world' = m_world /\ e.at = "serve" /\ m_req[q].at = "world"
              /\ (M!Cutting(q) # {} => "world" \in m_excused')
           \/ m_req[q].at = "cut" /\ e.at = "serve" /\ (m_world' = "whole" \/ (m_world' = "absent" /\ e.ready = m_req[q].ready))
  BY <1>5
<1> HIDE DEF R, to
<1>7. m_req' \in [Requests -> R] /\ \A p \in Requests : m_req'[p] = IF p = q THEN e ELSE m_req[p]
  BY <1>6, <1>t
<1>8. m_world' \in {"absent", "partial", "whole"} BY <1>6, <1>t
<1>9. M!TypeOK' BY <1>1, <1>2, <1>3, <1>4, <1>7, <1>8, MTypes, MTypesNext DEF MInv, MReq, R
<1>10. MRows'
  <2>1. m_excused \subseteq m_excused' BY <1>4
  <2>2. MShape' /\ MAlone' /\ MThere' /\ MNamed'
    BY <1>1, <2>1 DEF MInv, MRows, MShape, MAlone, MThere, MNamed, MBusy, MLate, MOf
  <2>3. MListed' /\ MGlobal' /\ M!RowHasFile'
    BY <1>1, <2>1 DEF MInv, MRows, MListed, MGlobal, M!RowHasFile
  <2> QED BY <2>2, <2>3 DEF MRows
<1>11. CASE "world" \in m_excused' BY <1>11, <1>9, <1>10 DEF MInv, MWorld, M!WorldIsWhole
<1>12. CASE "world" \notin m_excused'
  <2>1. /\ \A p \in Requests : m_req[p].at = "cut" => m_world = "partial"
        /\ \A p, o \in Requests : m_req[p].at = "cut" /\ m_req[o].at = "cut" => p = o
        /\ m_world = "partial" => \E p \in Requests : m_req[p].at = "cut"
        /\ \A p \in Requests : m_req[p].ready => m_world = "whole"
    BY <1>12, <1>4 DEF MInv, MWorld, M!WorldIsWhole
  <2>2. M!Cutting(q) = {} => \A p \in Requests : p # q => m_req[p].at # "cut" BY DEF M!Cutting
  <2>3. CASE m_world' = m_world /\ e.at # "cut" /\ m_req[q].at # "cut" /\ (e.ready => m_req[q].ready)
    <3>1. MWorld' BY <2>1, <2>3, <1>7 DEF MWorld
    <3>2. M!WorldIsWhole' BY <2>1, <2>3, <1>7 DEF M!WorldIsWhole
    <3> QED BY <3>1, <3>2, <1>9, <1>10 DEF MInv
  <2>4. CASE m_world = "absent" /\ m_world' = "partial" /\ e.at = "cut" /\ e.ready = m_req[q].ready
             /\ (M!Cutting(q) # {} => "world" \in m_excused')
    <3>1. MWorld' BY <2>1, <2>2, <2>4, <1>12, <1>7 DEF MWorld
    <3>2. M!WorldIsWhole' BY <2>1, <2>4, <1>7 DEF M!WorldIsWhole
    <3> QED BY <3>1, <3>2, <1>9, <1>10 DEF MInv
  <2>5. CASE m_world # "absent" /\ m_world' = m_world /\ e.at = "serve" /\ m_req[q].at = "world"
             /\ (M!Cutting(q) # {} => "world" \in m_excused')
    <3>0. m_world = "whole" BY <2>1, <2>2, <2>5, <1>12, <1>t
    <3>1. MWorld' BY <2>1, <2>5, <1>7 DEF MWorld
    <3>2. M!WorldIsWhole' BY <3>0, <2>5 DEF M!WorldIsWhole
    <3> QED BY <3>1, <3>2, <1>9, <1>10 DEF MInv
  <2>6. CASE m_req[q].at = "cut" /\ e.at = "serve"
             /\ (m_world' = "whole" \/ (m_world' = "absent" /\ e.ready = m_req[q].ready))
    <3>0. \A p \in Requests : m_req'[p].at # "cut" BY <2>1, <2>6, <1>7
    <3>1. MWorld' BY <3>0, <2>6 DEF MWorld
    <3>2. M!WorldIsWhole'
      <4>1. CASE m_world' = "whole" BY <4>1 DEF M!WorldIsWhole
      <4>2. CASE m_world' = "absent" /\ e.ready = m_req[q].ready
        <5>1. \A p \in Requests : ~m_req[p].ready BY <2>1, <2>6
        <5> QED BY <5>1, <4>2, <1>7 DEF M!WorldIsWhole
      <4> QED BY <4>1, <4>2, <2>6
    <3> QED BY <3>1, <3>2, <1>9, <1>10 DEF MInv
  <2> QED BY <1>6, <2>3, <2>4, <2>5, <2>6
<1> QED BY <1>11, <1>12

\* Every step keeps the invariant.
LEMMA MStep == MInv /\ (M!Next \/ UNCHANGED maps) => MInv'
<1> SUFFICES ASSUME MInv, M!Next \/ UNCHANGED maps PROVE MInv' OBVIOUS
<1>1. CASE \/ M!DownloadCollection
           \/ \E g \in Global : M!DownloadGlobal(g)
           \/ \E f \in M!File :
                 \/ M!Dispatch(f) \/ M!Dismiss(f) \/ M!Signal(f) \/ M!DeleteOutput(f)
                 \/ M!DeleteTemp(f) \/ M!KeyExpires(f) \/ M!Delete(f)
  BY <1>1, MRequests
<1>2. ASSUME NEW s \in Slots,
             M!Work(s) \/ M!Miss(s) \/ M!Poll(s) \/ M!CallbackFails(s) \/ \E f \in M!File : M!Take(s, f)
      PROVE  MInv'
  BY <1>2, MExecutes, MEnters, MRecords DEF M!Work
<1>3. CASE M!WorkerDies \/ \E f \in M!File : M!RemoveJob(f) BY <1>3, MRemoves
<1>4. CASE M!ServerDies \/ M!ListFiles \/ M!Adopt \/ \E f \in m_drop : M!DropRow(f) BY <1>4, MTables
<1>5. ASSUME NEW q \in Requests,
             M!Open(q) \/ M!LookBase(q) \/ M!Unpack(q) \/ M!LookWorld(q) \/ M!Cut(q) \/ M!Serve(q)
      PROVE  MInv'
  BY <1>5, MShows
<1>6. CASE UNCHANGED maps
  BY <1>6 DEF maps, MInv, M!TypeOK, MRows, MShape, MAlone, MThere, MNamed, MListed, MGlobal, MBusy,
     MLate, MOf, MWorld, M!RowHasFile, M!WorldIsWhole
<1> QED BY <1>1, <1>2, <1>3, <1>4, <1>5, <1>6 DEF M!Next
----------------------------------------------------------------------------
(* The Wikipedia package *)

\* The sets that the state of the package is in.
WJob == [st: {"none", "waiting", "active", "delayed", "failed"}, left: 0 .. Attempts]
WAsk == [at: {"none", "look", "delete", "save", "add"}, opt: Options \cup {"none"},
         file: W!File \cup {W!NoFile}, snap: W!Row]
WPage == [shown: W!Row, picked: Options \cup {"none", "nothing"}]
WUsed == [asked: 0 .. WikiAsked, moves: 0 .. MaxMoves, faults: 0 .. MaxFaults]
WStates == {"none", "wait", "delete", "temp", "tell"}

\* A new version has a file of its own; a job under way has an attempt left.
WTyped ==
    /\ w_listed \in [Options -> 1 .. MaxMoves + 1] /\ w_row \in W!Row /\ w_disk \subseteq W!File
    /\ w_temp \subseteq W!File /\ w_key \subseteq W!File /\ w_run \in [Slots -> W!Run]
    /\ w_job \in [W!File -> WJob] /\ w_events \subseteq W!File /\ w_tellers \subseteq W!Tellers
    /\ w_ask \in [WikiPages -> WAsk] /\ w_cancel \in [W!File -> WStates]
    /\ w_page \in [WikiPages -> WPage] /\ w_used \in WUsed /\ w_excused \in BOOLEAN
    /\ \A o \in Options : w_listed[o] <= w_used.moves + 1
    /\ \A f \in W!File : W!UnderWay(f) => w_job[f].left >= 1

\* The job of a download that has not been taken from it is active, and in no other hands.
WOwns(s) == w_run[s].at # "none" /\ w_run[s].job = "own"
WOwned ==
    /\ \A s \in Slots : w_run[s].at # "none" => w_run[s].file \in W!File
    /\ \A s \in Slots : WOwns(s) => w_job[w_run[s].file].st = "active"
    /\ \A s, t \in Slots : WOwns(s) /\ WOwns(t) /\ w_run[s].file = w_run[t].file => s = t

\* While nobody is excused, one at most has the row in hand,
WSaving(s) == w_run[s].at = "saving"
WAlone ==
    /\ \A s, t \in w_tellers : s = t
    /\ \A s, t \in Slots : WSaving(s) /\ WSaving(t) => s = t
    /\ \A p, q \in WikiPages : w_ask[p].at # "none" /\ w_ask[q].at # "none" => p = q
    /\ (\E s \in Slots : WSaving(s)) => w_tellers = {}
    /\ w_tellers # {} \/ (\E s \in Slots : WSaving(s)) => \A p \in WikiPages : w_ask[p].at = "none"

\* and what it has read is what the row says.
WReads ==
    /\ \A t \in w_tellers : t.snap = w_row
    /\ \A s \in Slots : WSaving(s) => w_run[s].snap = w_row
    /\ \A p \in WikiPages : w_ask[p].at \in {"delete", "look", "save"} => w_ask[p].snap = w_row

\* A request that goes on to download has no job for it yet.
WAsks ==
    \A p \in WikiPages :
        /\ w_ask[p].at = "delete" => w_ask[p].opt = "none"
        /\ w_ask[p].at \in {"look", "add"} => w_ask[p].opt # "none"
        /\ w_ask[p].at # "none" /\ w_ask[p].opt # "none" => w_ask[p].file \in W!File
        /\ w_ask[p].at \in {"save", "add"} /\ w_ask[p].opt # "none" => w_job[w_ask[p].file].st = "none"
        /\ w_ask[p].at = "add" => w_row.file = w_ask[p].file

\* A row that downloads or is installed has a file, and what is told to it is there.
WRow ==
    /\ w_row.st \in {"downloading", "installed"} => w_row.has /\ w_row.file \in W!File
    /\ \A f \in W!File : W!Told(f) => f \in w_disk

\* The row does not wait for a job that has told it already.
WEnded ==
    \A s \in Slots : WOwns(s) /\ w_run[s].at = "end" =>
        ~(w_row.st = "downloading" /\ w_row.file = w_run[s].file)

\* Somebody is about to change the row.
WChanging ==
    \/ \E p \in WikiPages : w_ask[p].at = "save"
    \/ \E t \in w_tellers : t.file = w_row.file
    \/ \E s \in Slots : WSaving(s)

\* A row that downloads has a download, or somebody who will say how it ended; a row that has its
\* package installed has the file, or somebody who will say that it is gone.
WDownloading ==
    w_row.st = "downloading" =>
        \/ WChanging \/ \E p \in WikiPages : w_ask[p].at = "add"
        \/ W!UnderWay(w_row.file) \/ w_row.file \in w_events \/ w_cancel[w_row.file] # "none"
WInstalled ==
    w_row.st = "installed" =>
        w_row.file \in w_disk \/ WChanging \/ w_cancel[w_row.file] \in {"temp", "tell"}

WTrue == WAlone /\ WReads /\ WAsks /\ WRow /\ WEnded /\ WDownloading /\ WInstalled
WInv == WTyped /\ WOwned /\ (~w_excused => WTrue)

\* The invariant has the types in it,
LEMMA WTypes == WInv => W!TypeOK
BY DEF WInv, WTyped, W!TypeOK, WJob, WAsk, WPage, WUsed, WStates

\* and a quiet row tells the truth, for nobody is left to change it.
LEMMA WTells == WInv => W!RowTellsTruth
<1> SUFFICES ASSUME WInv, W!Quiet, ~w_excused
             PROVE  w_row.st # "downloading" /\ (w_row.st = "installed" => w_row.file \in w_disk)
  BY DEF W!RowTellsTruth
<1>1. WTrue /\ WTyped BY DEF WInv
<1>2. /\ \A p \in WikiPages : w_ask[p].at = "none"
      /\ w_tellers = {} /\ w_events = {} /\ \A s \in Slots : w_run[s].at = "none"
      /\ \A f \in W!File : w_job[f].st \in {"none", "failed"} /\ w_cancel[f] = "none"
  BY DEF W!Quiet, W!InHand
<1>3. ~WChanging BY <1>2 DEF WChanging, WSaving
<1>4. w_row.st \in {"downloading", "installed"} => w_row.file \in W!File BY <1>1 DEF WTrue, WRow
<1>5. w_row.st # "downloading" BY <1>1, <1>2, <1>3, <1>4 DEF WTrue, WDownloading, W!UnderWay
<1>6. w_row.st = "installed" => w_row.file \in w_disk BY <1>1, <1>2, <1>3, <1>4 DEF WTrue, WInstalled
<1> QED BY <1>5, <1>6

\* No row, no job, no request and nobody at work have their types.
LEMMA WRecords ==
    /\ W!NoRow \in W!Row /\ W!NoRow.st = "none" /\ W!NoRow.has = FALSE
    /\ W!NoJob \in WJob /\ W!NoJob.st = "none"
    /\ W!NoAsk \in WAsk /\ W!NoAsk.at = "none"
    /\ W!Idle \in W!Run /\ W!Idle.at = "none" /\ W!Idle.job = "gone" /\ W!Idle.snap \in W!Row
<1>1. W!NoRow = [has |-> FALSE, opt |-> "none", file |-> W!NoFile, st |-> "none"] BY DEF W!NoRow
<1>2. W!NoRow \in W!Row BY <1>1 DEF W!Row
<1>3. W!NoJob = [st |-> "none", left |-> 0] /\ 0 \in 0 .. Attempts BY Bounds DEF W!NoJob
<1>4. W!NoAsk = [at |-> "none", opt |-> "none", file |-> W!NoFile, snap |-> W!NoRow] BY DEF W!NoAsk
<1>5. W!NoAsk \in WAsk BY <1>2, <1>4 DEF WAsk
<1>6. W!Idle = [file |-> W!NoFile, at |-> "none", job |-> "gone", snap |-> W!NoRow, opt |-> "none"]
  BY DEF W!Idle
<1>7. W!Idle \in W!Run BY <1>2, <1>6 DEF W!Run
<1>8. W!Idle.at = "none" /\ W!Idle.job = "gone" /\ W!Idle.snap \in W!Row BY <1>2, <1>6
<1> QED BY <1>1, <1>2, <1>3, <1>4, <1>5, <1>7, <1>8 DEF WJob

\* It is so at first.
LEMMA WInit == W!Init => WInv
<1> SUFFICES ASSUME W!Init PROVE WInv OBVIOUS
<1> USE DEF W!Init
<1>0. \A s \in Slots : w_run[s].at = "none" BY WRecords
<1>1. WTyped
  <2>1. [asked |-> 0, moves |-> 0, faults |-> 0] \in WUsed BY Bounds DEF WUsed
  <2>2. 1 \in 1 .. MaxMoves + 1 /\ \A o \in Options : w_listed[o] <= w_used.moves + 1 BY Bounds
  <2>3. \A f \in W!File : ~W!UnderWay(f) BY WRecords DEF W!UnderWay
  <2>4. [shown |-> W!NoRow, picked |-> "nothing"] \in WPage BY WRecords DEF WPage
  <2> QED BY <2>1, <2>2, <2>3, <2>4, WRecords DEF WTyped, WStates
<1>2. WOwned BY <1>0 DEF WOwned, WOwns
<1>3. WTrue
  BY <1>0, WRecords
  DEF WTrue, WAlone, WReads, WAsks, WRow, WEnded, WDownloading, WInstalled, W!Told, WSaving, WOwns
<1> QED BY <1>1, <1>2, <1>3 DEF WInv

\* Clicks, failures and new versions are counted.
LEMMA WUses ==
    ASSUME WTyped, W!Asked \/ W!Fault \/ W!Normally
    PROVE  w_used' \in WUsed /\ w_used'.moves = w_used.moves
<1>1. w_used \in WUsed BY DEF WTyped
<1>2. CASE W!Asked
  <2>1. w_used.asked + 1 \in 0 .. WikiAsked BY <1>1, <1>2, Bounds DEF W!Asked, WUsed
  <2> QED BY <1>1, <1>2, <2>1 DEF W!Asked, WUsed
<1>3. CASE W!Fault
  <2>1. w_used.faults + 1 \in 0 .. MaxFaults BY <1>1, <1>3, Bounds DEF W!Fault, WUsed
  <2> QED BY <1>1, <1>3, <2>1 DEF W!Fault, WUsed
<1>4. CASE W!Normally BY <1>1, <1>4 DEF W!Normally
<1> QED BY <1>2, <1>3, <1>4

\* A file has the version that the catalogue has now, or had before.
LEMMA WUrls == ASSUME WTyped, NEW o \in Options PROVE W!Url(o) \in W!File
BY DEF WTyped, W!Url, W!File

\* Whoever read the row as it is writes what he has.
LEMMA WSaves ==
    ASSUME NEW snap \in W!Row, NEW new \in W!Row, w_row \in W!Row
    PROVE  /\ W!Saved(snap, new) \in W!Row
           /\ snap = w_row /\ new.has => W!Saved(snap, new) = new
<1>1. W!Saved(snap, new) \in W!Row BY DEF W!Saved, W!Row
<1>2. ASSUME snap = w_row, new.has PROVE W!Saved(snap, new) = new
  <2>1. CASE ~snap.has BY <1>2, <2>1 DEF W!Saved
  <2>2. CASE snap.has
    <3>1. W!Saved(snap, new) = [has |-> TRUE, opt |-> new.opt, file |-> new.file, st |-> new.st]
      BY <1>2, <2>2 DEF W!Saved
    <3>2. new = [has |-> TRUE, opt |-> new.opt, file |-> new.file, st |-> new.st] BY <1>2 DEF W!Row
    <3> QED BY <3>1, <3>2
  <2> QED BY <2>1, <2>2
<1> QED BY <1>1, <1>2
----------------------------------------------------------------------------
\* The requests of the pages.
WRequested(p) == W!Load(p) \/ W!Submit(p) \/ W!Request(p) \/ \E o \in Options \cup {"none"} : W!Pick(p, o)

\* Types: the requests of a page.
LEMMA WRequestTypes == ASSUME WTyped, WOwned, NEW p \in WikiPages, WRequested(p) PROVE WTyped' /\ WOwned'
<1> USE DEF WRequested, W!Request
<1>t. /\ w_row \in W!Row /\ w_ask[p] \in WAsk /\ w_page[p] \in WPage /\ w_ask \in [WikiPages -> WAsk]
      /\ w_page \in [WikiPages -> WPage] /\ w_job \in [W!File -> WJob]
  BY DEF WTyped
<1>1. UNCHANGED <<w_listed, w_temp, w_run, w_key, w_events, w_tellers, w_cancel>>
  BY DEF W!Load, W!Submit, W!DeleteOld, W!SaveNone, W!LookAtJob, W!SaveChoice, W!AddJob, W!Pick, W!queue
<1>2. w_used' \in WUsed /\ w_used'.moves = w_used.moves
  BY WUses DEF W!Load, W!Submit, W!DeleteOld, W!SaveNone, W!LookAtJob, W!SaveChoice, W!AddJob, W!Pick
<1>3. w_disk' \subseteq W!File /\ w_excused' \in BOOLEAN
  BY DEF WTyped, W!Load, W!Submit, W!DeleteOld, W!SaveNone, W!LookAtJob, W!SaveChoice, W!AddJob, W!Pick
<1>4. w_job' = w_job \/ \E f : /\ w_job[f].st # "active"
                               /\ \/ w_job' = [w_job EXCEPT ![f] = W!NoJob]
                                  \/ w_job' = [w_job EXCEPT ![f] = [st |-> "waiting", left |-> Attempts]]
  BY DEF W!Load, W!Submit, W!DeleteOld, W!SaveNone, W!LookAtJob, W!SaveChoice, W!AddJob, W!Pick, W!queue,
         W!UnderWay
<1>5. w_job' \in [W!File -> WJob] /\ \A f \in W!File : W!UnderWay(f)' => w_job'[f].left >= 1
  <2> DEFINE j == [st |-> "waiting", left |-> Attempts]
  <2>1. j \in WJob /\ j.left >= 1 /\ Attempts > 0 BY Bounds, MCLibraryAssumption DEF WJob
  <2>2. \A f \in W!File : W!UnderWay(f) => w_job[f].left >= 1 BY DEF WTyped
  <2> HIDE DEF j
  <2>3. CASE w_job' = w_job BY <2>2, <2>3, <1>t DEF W!UnderWay
  <2>4. ASSUME NEW f, w_job' = [w_job EXCEPT ![f] = W!NoJob]
        PROVE w_job' \in [W!File -> WJob] /\ \A g \in W!File : W!UnderWay(g)' => w_job'[g].left >= 1
    <3>1. w_job' \in [W!File -> WJob] BY <2>4, <1>t, WRecords
    <3>2. \A g \in W!File : w_job'[g] = IF g = f THEN W!NoJob ELSE w_job[g] BY <2>4, <1>t
    <3> QED BY <3>1, <3>2, <2>2, WRecords DEF W!UnderWay
  <2>5. ASSUME NEW f, w_job' = [w_job EXCEPT ![f] = j]
        PROVE w_job' \in [W!File -> WJob] /\ \A g \in W!File : W!UnderWay(g)' => w_job'[g].left >= 1
    <3>1. w_job' \in [W!File -> WJob] BY <2>5, <1>t, <2>1
    <3>2. \A g \in W!File : w_job'[g] = IF g = f THEN j ELSE w_job[g] BY <2>5, <1>t
    <3> QED BY <3>1, <3>2, <2>1, <2>2 DEF W!UnderWay
  <2> QED BY <1>4, <2>3, <2>4, <2>5 DEF j
<1>6. w_row' \in W!Row
  <2>1. w_ask[p].snap \in W!Row /\ w_ask[p].file \in W!File \cup {W!NoFile} /\ w_ask[p].opt \in Options \cup {"none"}
    BY <1>t DEF WAsk
  <2>2. CASE W!SaveNone(p)
    <3> DEFINE new == [has |-> TRUE, opt |-> "none", file |-> W!NoFile, st |-> "none"]
    <3>1. new \in W!Row /\ w_row' = W!Saved(w_ask[p].snap, new) BY <2>2 DEF W!Row, W!SaveNone
    <3> HIDE DEF new
    <3> QED BY <3>1, <2>1, <1>t, WSaves
  <2>3. CASE W!SaveChoice(p)
    <3> DEFINE new == [has |-> TRUE, opt |-> w_ask[p].opt, file |-> w_ask[p].file, st |-> "downloading"]
    <3>1. new \in W!Row /\ w_row' = W!Saved(w_ask[p].snap, new) BY <2>1, <2>3 DEF W!Row, W!SaveChoice
    <3> HIDE DEF new
    <3> QED BY <3>1, <2>1, <1>t, WSaves
  <2>4. CASE ~W!SaveNone(p) /\ ~W!SaveChoice(p)
    BY <2>4, <1>t DEF W!Load, W!Submit, W!DeleteOld, W!LookAtJob, W!AddJob, W!Pick
  <2> QED BY <2>2, <2>3, <2>4
<1>7. w_ask' \in [WikiPages -> WAsk]
  <2> DEFINE o == w_page[p].picked
             e == [at |-> IF o = "none" THEN "delete" ELSE "look", opt |-> o,
                   file |-> IF o = "none" THEN W!NoFile ELSE W!Url(o), snap |-> w_row]
  <2>1. CASE W!Submit(p) /\ w_ask' # w_ask
    <3>1. w_ask' = [w_ask EXCEPT ![p] = e] /\ o # "nothing" BY <2>1 DEF W!Submit, W!CanSubmit
    <3>2. o \in Options \cup {"none"} BY <3>1, <1>t DEF WPage
    <3>3. o # "none" => W!Url(o) \in W!File BY <3>2, WUrls
    <3>4. e \in WAsk BY <3>2, <3>3, <1>t DEF WAsk
    <3> QED BY <3>1, <3>4, <1>t
  <2>2. CASE ~W!Submit(p)
    <3>1. \A at \in {"save", "add"} : [w_ask[p] EXCEPT !.at = at] \in WAsk BY <1>t DEF WAsk
    <3>2. \/ w_ask' = w_ask \/ w_ask' = [w_ask EXCEPT ![p] = W!NoAsk]
          \/ \E at \in {"save", "add"} : w_ask' = [w_ask EXCEPT ![p] = [w_ask[p] EXCEPT !.at = at]]
      BY <2>2 DEF W!Load, W!DeleteOld, W!SaveNone, W!LookAtJob, W!SaveChoice, W!AddJob, W!Pick
    <3> QED BY <3>1, <3>2, <1>t, WRecords
  <2> QED BY <2>1, <2>2, <1>t
<1>8. w_page' \in [WikiPages -> WPage]
  <2> DEFINE a == [w_page[p] EXCEPT !.shown = w_row]
             b(o) == [w_page[p] EXCEPT !.picked = o]
             c == [shown |-> w_row', picked |-> "nothing"]
  <2>1. a \in WPage /\ (\A o \in Options \cup {"none"} : b(o) \in WPage) /\ c \in WPage
    BY <1>t, <1>6 DEF WPage
  <2>2. \/ w_page' = w_page \/ w_page' = [w_page EXCEPT ![p] = a] \/ w_page' = [w_page EXCEPT ![p] = c]
        \/ \E o \in Options \cup {"none"} : w_page' = [w_page EXCEPT ![p] = b(o)]
    BY DEF W!Load, W!Submit, W!DeleteOld, W!SaveNone, W!LookAtJob, W!SaveChoice, W!AddJob, W!Pick, W!Answered
  <2> HIDE DEF a, b, c
  <2> QED BY <2>1, <2>2, <1>t
<1>9. WTyped' BY <1>1, <1>2, <1>3, <1>5, <1>6, <1>7, <1>8 DEF WTyped
<1>10. WOwned'
  <2>1. \A f \in W!File : w_job[f].st = "active" => w_job'[f] = w_job[f] BY <1>4, <1>t
  <2> QED BY <1>1, <2>1 DEF WOwned, WOwns
<1> QED BY <1>9, <1>10
\* What the worker does for a download, and what is asked of it.
WRan(s) == W!Working(s) \/ W!Fail(s) \/ W!Poll(s)
WAsked(f) == W!ReadFailed(f) \/ W!Cancel(f) \/ W!KeyExpires(f) \/ W!Cancelling(f) \/ W!DeletePackage(f)

\* An attempt that is over leaves the job with fewer attempts, or as failed.
LEMMA WFails ==
    ASSUME WTyped, WOwned, NEW s \in Slots, w_run[s].at # "none",
           NEW left \in {0, w_job[w_run[s].file].left - 1}, W!Failed(s, left)
    PROVE  /\ w_job' \in [W!File -> WJob] /\ w_events' \subseteq W!File
           /\ \A f \in W!File : W!UnderWay(f)' => w_job'[f].left >= 1
           /\ IF WOwns(s)
              THEN /\ w_events' = w_events \cup {w_run[s].file} /\ w_job[w_run[s].file].st = "active"
                   /\ w_job'[w_run[s].file].st \in {"delayed", "failed"}
                   /\ \A f \in W!File : f # w_run[s].file => w_job'[f] = w_job[f]
              ELSE UNCHANGED <<w_job, w_events>>
<1> DEFINE f == w_run[s].file
           j == [st |-> IF left > 0 THEN "delayed" ELSE "failed", left |-> left]
<1>t. /\ f \in W!File /\ w_job \in [W!File -> WJob] /\ w_events \subseteq W!File /\ w_job[f] \in WJob
      /\ \A g \in W!File : W!UnderWay(g) => w_job[g].left >= 1
  BY DEF WTyped, WOwned
<1>1. CASE ~WOwns(s)
  <2>1. UNCHANGED <<w_job, w_events>> BY <1>1 DEF W!Failed, WOwns
  <2> QED BY <1>1, <1>t, <2>1 DEF W!UnderWay
<1>2. CASE WOwns(s)
  <2>1. w_job[f].st = "active" /\ w_job[f].left >= 1 /\ w_job[f].left \in 0 .. Attempts
    BY <1>2, <1>t DEF WOwned, W!UnderWay, WJob
  <2>2. left \in 0 .. Attempts BY <2>1, Bounds
  <2>3. j \in WJob /\ j.st \in {"delayed", "failed"} /\ (j.st = "delayed" => j.left >= 1) BY <2>2 DEF WJob
  <2>4. w_job' = [w_job EXCEPT ![f] = j] /\ w_events' = w_events \cup {f}
    BY <1>2 DEF W!Failed, WOwns
  <2> HIDE DEF j
  <2>5. w_job' \in [W!File -> WJob] /\ \A g \in W!File : w_job'[g] = IF g = f THEN j ELSE w_job[g]
    BY <2>3, <2>4, <1>t
  <2>6. \A g \in W!File : W!UnderWay(g)' => w_job'[g].left >= 1
    BY <2>3, <2>5, <1>t DEF W!UnderWay
  <2> HIDE DEF f
  <2>7. w_job'[f].st \in {"delayed", "failed"} BY <2>3, <2>5, <1>t
  <2> QED BY <1>2, <1>t, <2>1, <2>4, <2>5, <2>6, <2>7 DEF f
<1> QED BY <1>1, <1>2

\* A step of the worker: whoever keeps a job keeps it active, and no job is given to anybody.
LEMMA WHolds ==
    ASSUME WTyped, WOwned, NEW s \in Slots, w_run[s].at # "none",
           NEW r, w_run' = [w_run EXCEPT ![s] = r], r.at # "none" => r.file = w_run[s].file,
           r.at # "none" /\ r.job = "own" => WOwns(s) /\ UNCHANGED w_job,
           \A f \in W!File : w_job'[f] = w_job[f] \/ (WOwns(s) /\ f = w_run[s].file)
    PROVE  WOwned'
<1>1. \A t \in Slots : w_run'[t] = IF t = s THEN r ELSE w_run[t] BY DEF WTyped
<1>2. \A t \in Slots : WOwns(t)' => WOwns(t) /\ w_run'[t].file = w_run[t].file BY <1>1 DEF WOwns
<1>3. \A t \in Slots : w_run'[t].at # "none" => w_run'[t].file \in W!File BY <1>1 DEF WOwned
<1>4. ASSUME NEW t \in Slots, WOwns(t)' PROVE w_job'[w_run'[t].file].st = "active"
  <2>1. WOwns(t) /\ w_run'[t].file = w_run[t].file /\ w_run[t].file \in W!File BY <1>2, <1>4 DEF WOwned, WOwns
  <2>2. w_job[w_run[t].file].st = "active" BY <2>1 DEF WOwned
  <2>3. CASE t = s
    <3>1. UNCHANGED w_job BY <2>3, <1>1, <1>4 DEF WOwns
    <3> QED BY <2>1, <2>2, <3>1
  <2>4. CASE t # s
    <3>1. ~(WOwns(s) /\ w_run[t].file = w_run[s].file) BY <2>1, <2>4 DEF WOwned
    <3> QED BY <2>1, <2>2, <3>1
  <2> QED BY <2>3, <2>4
<1>5. \A t, u \in Slots : WOwns(t)' /\ WOwns(u)' /\ w_run'[t].file = w_run'[u].file => t = u
  BY <1>2 DEF WOwned
<1> QED BY <1>3, <1>4, <1>5 DEF WOwned

\* Types: the worker.
LEMMA WRunTypes == ASSUME WTyped, WOwned, NEW s \in Slots, WRan(s) PROVE WTyped' /\ WOwned'
<1> DEFINE f == w_run[s].file
           all == <<w_listed, w_row, w_disk, w_temp, w_job, w_key, w_events, w_tellers, w_ask, w_cancel, w_page>>
<1>t. /\ w_run \in [Slots -> W!Run] /\ w_run[s] \in W!Run /\ w_job \in [W!File -> WJob] /\ w_row \in W!Row
      /\ w_disk \subseteq W!File /\ w_temp \subseteq W!File /\ w_key \subseteq W!File
      /\ w_events \subseteq W!File /\ w_excused \in BOOLEAN
      /\ \A g \in W!File : W!UnderWay(g) => w_job[g].left >= 1
  BY DEF WTyped
<1>a. w_run[s].at # "none" /\ f \in W!File
  BY DEF WOwned, WRan, W!Working, W!Begin, W!Place, W!ReadDone, W!SaveDone, W!End, W!Fail, W!Poll
<1>u. UNCHANGED <<w_listed, w_tellers, w_ask, w_cancel, w_page>> /\ w_excused' \in BOOLEAN
  BY <1>t DEF WRan, W!Working, W!Begin, W!Place, W!ReadDone, W!SaveDone, W!End, W!Fail, W!Poll
<1>c. w_used' \in WUsed /\ w_used'.moves = w_used.moves
  <2>1. W!Asked \/ W!Fault \/ W!Normally
    BY DEF WRan, W!Working, W!Begin, W!Place, W!ReadDone, W!SaveDone, W!End, W!Fail, W!Poll
  <2> QED BY <2>1, WUses
<1>d. w_disk' \subseteq W!File /\ w_temp' \subseteq W!File /\ w_key' \subseteq W!File
  BY <1>t, <1>a DEF WRan, W!Working, W!Begin, W!Place, W!ReadDone, W!SaveDone, W!End, W!Fail, W!Poll
<1>g. ASSUME w_run' \in [Slots -> W!Run], w_row' \in W!Row, w_job' \in [W!File -> WJob],
             w_events' \subseteq W!File, \A g \in W!File : W!UnderWay(g)' => w_job'[g].left >= 1
      PROVE  WTyped'
  BY <1>u, <1>c, <1>d, <1>g DEF WTyped
\* It goes on, with the job or without it.
<1>1. ASSUME NEW at \in {"fetch", "placed", "saving", "end"}, NEW snap \in W!Row, NEW opt \in Options \cup {"none"},
             w_run' = [w_run EXCEPT ![s] = [w_run[s] EXCEPT !.at = at, !.snap = snap, !.opt = opt]],
             UNCHANGED <<w_job, w_events>>, w_row' \in W!Row
      PROVE  WTyped' /\ WOwned'
  <2> DEFINE r == [w_run[s] EXCEPT !.at = at, !.snap = snap, !.opt = opt]
  <2>1. r \in W!Run /\ r.file = w_run[s].file /\ r.job = w_run[s].job BY <1>t DEF W!Run
  <2>2. w_run' = [w_run EXCEPT ![s] = r] BY <1>1
  <2> HIDE DEF r
  <2>3. WOwned' BY <2>1, <2>2, <1>1, <1>a, WHolds DEF WOwns
  <2>4. w_run' \in [Slots -> W!Run] BY <2>1, <2>2, <1>t
  <2> QED BY <2>3, <2>4, <1>1, <1>g, <1>t DEF W!UnderWay
\* It stops, or goes on without the job, which has failed.
<1>2. ASSUME NEW left \in {0, w_job[f].left - 1}, W!Failed(s, left), UNCHANGED w_row,
             W!Stops(s) \/ w_run' = [w_run EXCEPT ![s] = [w_run[s] EXCEPT !.job = "over"]]
      PROVE  WTyped' /\ WOwned'
  <2>1. /\ w_job' \in [W!File -> WJob] /\ w_events' \subseteq W!File
        /\ \A g \in W!File : W!UnderWay(g)' => w_job'[g].left >= 1
        /\ \A g \in W!File : w_job'[g] = w_job[g] \/ (WOwns(s) /\ g = w_run[s].file)
    BY <1>2, <1>a, WFails
  <2> DEFINE over == [w_run[s] EXCEPT !.job = "over"]
  <2>2. over \in W!Run /\ over.file = w_run[s].file /\ over.job = "over" BY <1>t DEF W!Run
  <2>3. PICK r \in {W!Idle, over} : w_run' = [w_run EXCEPT ![s] = r] BY <1>2 DEF W!Stops
  <2> HIDE DEF over
  <2>4. r \in W!Run /\ (r.at # "none" => r.file = w_run[s].file) /\ r.job # "own" BY <2>2, <2>3, WRecords
  <2>5. WOwned' BY <2>1, <2>3, <2>4, <1>a, WHolds
  <2>6. w_run' \in [Slots -> W!Run] BY <2>3, <2>4, <1>t
  <2> QED BY <2>1, <2>5, <2>6, <1>2, <1>g, <1>t
<1>3. CASE W!Begin(s)
  <2>1. w_run' = [w_run EXCEPT ![s] = [w_run[s] EXCEPT !.at = "fetch", !.snap = w_run[s].snap, !.opt = w_run[s].opt]]
    BY <1>3, <1>t DEF W!Begin, W!Run
  <2> QED BY <2>1, <1>1, <1>3, <1>t DEF W!Begin, W!Run
<1>4. CASE W!Place(s)
  <2>1. CASE f \in w_temp \cup w_disk
    <3>1. w_run' = [w_run EXCEPT ![s] = [w_run[s] EXCEPT !.at = "placed", !.snap = w_run[s].snap, !.opt = w_run[s].opt]]
      BY <1>4, <2>1, <1>t DEF W!Place, W!Run
    <3> QED BY <3>1, <2>1, <1>1, <1>4, <1>t DEF W!Place, W!Run
  <2>2. CASE f \notin w_temp \cup w_disk
    BY <2>2, <1>2, <1>4 DEF W!Place, W!Retries
  <2> QED BY <2>1, <2>2
<1>5. CASE W!ReadDone(s)
  <2>1. PICK opt \in {"none"} \cup {o \in Options : W!Url(o) = f} :
          w_run' = [w_run EXCEPT ![s].at = "saving", ![s].snap = w_row, ![s].opt = opt]
    BY <1>5 DEF W!ReadDone
  <2>2. w_run' = [w_run EXCEPT ![s] = [w_run[s] EXCEPT !.at = "saving", !.snap = w_row, !.opt = opt]]
    BY <2>1, <1>t DEF W!Run
  <2>3. UNCHANGED <<w_row, w_job, w_events>> BY <1>5 DEF W!ReadDone
  <2> QED BY <2>2, <2>3, <1>1, <1>t
<1>6. CASE W!SaveDone(s)
  <2> DEFINE t == w_run[s]
             opt == IF t.opt # "none" THEN t.opt ELSE IF t.snap.has THEN t.snap.opt ELSE "unknown"
             new == [has |-> TRUE, opt |-> opt, file |-> t.file, st |-> "installed"]
  <2>1. t.snap \in W!Row /\ new \in W!Row BY <1>a, <1>t DEF W!Run, W!Row
  <2>2. w_row' = W!Saved(t.snap, new) BY <1>6 DEF W!SaveDone
  <2> HIDE DEF new
  <2>3. w_row' \in W!Row BY <2>1, <2>2, <1>t, WSaves
  <2>4. w_run' = [w_run EXCEPT ![s] = [w_run[s] EXCEPT !.at = "end", !.snap = W!NoRow, !.opt = "none"]]
    BY <1>6 DEF W!SaveDone
  <2>5. UNCHANGED <<w_job, w_events>> BY <1>6 DEF W!SaveDone
  <2> QED BY <2>3, <2>4, <2>5, <1>1, WRecords
<1>7. CASE W!End(s)
  <2>1. /\ w_run' = [w_run EXCEPT ![s] = W!Idle] /\ UNCHANGED <<w_row, w_events>>
        /\ w_job' = w_job \/ (WOwns(s) /\ w_job' = [w_job EXCEPT ![f] = W!NoJob])
    BY <1>7, <1>a DEF W!End, W!Stops, WOwns
  <2>2. w_job' \in [W!File -> WJob]
        /\ \A g \in W!File : w_job'[g] = w_job[g] \/ (WOwns(s) /\ g = f /\ w_job'[g] = W!NoJob)
    BY <2>1, <1>t, WRecords
  <2>3. \A g \in W!File : W!UnderWay(g)' => w_job'[g].left >= 1 BY <2>2, <1>t, WRecords DEF W!UnderWay
  <2>4. WOwned' BY <2>1, <2>2, <1>a, WRecords, WHolds
  <2>5. w_run' \in [Slots -> W!Run] BY <2>1, <1>t, WRecords
  <2> QED BY <2>1, <2>2, <2>3, <2>4, <2>5, <1>g, <1>t
<1>8. CASE W!Fail(s) BY <1>2, <1>8 DEF W!Fail, W!Retries
<1>9. CASE W!Poll(s) BY <1>2, <1>9 DEF W!Poll
<1> QED BY <1>3, <1>4, <1>5, <1>6, <1>7, <1>8, <1>9 DEF WRan, W!Working

\* Types: a job is taken.
LEMMA WTakes ==
    ASSUME WTyped, WOwned, NEW s \in Slots, NEW f \in W!File, W!Take(s, f) PROVE WTyped' /\ WOwned'
<1> DEFINE r == [W!Idle EXCEPT !.file = f, !.at = "head", !.job = "own"]
           j == [w_job[f] EXCEPT !.st = "active"]
<1>t. /\ w_run \in [Slots -> W!Run] /\ w_job \in [W!File -> WJob] /\ w_job[f] \in WJob
      /\ \A g \in W!File : W!UnderWay(g) => w_job[g].left >= 1
  BY DEF WTyped
<1>1. /\ w_run' = [w_run EXCEPT ![s] = r] /\ w_run[s].at = "none"
      /\ w_job' = [w_job EXCEPT ![f] = j] /\ w_job[f].st \in {"waiting", "delayed"} /\ W!Normally
      /\ UNCHANGED <<w_listed, w_row, w_disk, w_temp, w_key, w_events, w_tellers, w_ask, w_cancel, w_page, w_excused>>
  BY DEF W!Take
<1>2. r \in W!Run /\ r.file = f /\ r.at = "head" /\ r.job = "own" BY WRecords DEF W!Run
<1>3. j \in WJob /\ j.st = "active" /\ j.left = w_job[f].left /\ j.left >= 1
  BY <1>1, <1>t DEF WJob, W!UnderWay
<1> HIDE DEF r, j
<1>4. /\ w_run' \in [Slots -> W!Run] /\ \A t \in Slots : w_run'[t] = IF t = s THEN r ELSE w_run[t]
      /\ w_job' \in [W!File -> WJob] /\ \A g \in W!File : w_job'[g] = IF g = f THEN j ELSE w_job[g]
  BY <1>1, <1>2, <1>3, <1>t
<1>5. \A g \in W!File : W!UnderWay(g)' => w_job'[g].left >= 1 BY <1>3, <1>4, <1>t DEF W!UnderWay
<1>6. w_used' \in WUsed /\ w_used'.moves = w_used.moves BY <1>1, WUses
<1>7. WTyped' BY <1>1, <1>4, <1>5, <1>6 DEF WTyped
<1>8. \A t \in Slots : t # s => (WOwns(t)' <=> WOwns(t)) /\ (WOwns(t) => w_run[t].file # f)
  BY <1>1, <1>4 DEF WOwned, WOwns
<1>9. /\ \A t \in Slots : w_run'[t].at # "none" => w_run'[t].file \in W!File
      /\ \A t \in Slots : WOwns(t)' => w_job'[w_run'[t].file].st = "active"
  BY <1>2, <1>3, <1>4, <1>8 DEF WOwned, WOwns
<1>10. \A t, u \in Slots : WOwns(t)' /\ WOwns(u)' /\ w_run'[t].file = w_run'[u].file => t = u
  BY <1>2, <1>4, <1>8 DEF WOwned
<1> QED BY <1>7, <1>9, <1>10 DEF WOwned

\* Types: what is asked of a download.
LEMMA WAskedTypes == ASSUME WTyped, WOwned, NEW f \in W!File, WAsked(f) PROVE WTyped' /\ WOwned'
<1> USE DEF WAsked, W!Cancelling
<1>t. /\ w_job \in [W!File -> WJob] /\ w_cancel \in [W!File -> WStates] /\ w_run \in [Slots -> W!Run]
      /\ \A g \in W!File : W!UnderWay(g) => w_job[g].left >= 1
      /\ w_row \in W!Row /\ w_disk \subseteq W!File /\ w_events \subseteq W!File /\ w_tellers \subseteq W!Tellers
      /\ w_temp \subseteq W!File /\ w_key \subseteq W!File /\ w_excused \in BOOLEAN
  BY DEF WTyped
<1>1. /\ UNCHANGED <<w_listed, w_row, w_ask, w_page>> /\ w_excused' \in BOOLEAN
      /\ w_disk' \subseteq W!File /\ w_temp' \subseteq W!File /\ w_events' \subseteq W!File
      /\ w_key' \subseteq W!File
  BY <1>t DEF W!ReadFailed, W!Reads, W!Cancel, W!KeyExpires, W!RemoveJob, W!DeleteFile, W!DeleteTemp,
     W!TellCancelled, W!DeletePackage, W!queue
<1>2. w_used' \in WUsed /\ w_used'.moves = w_used.moves
  <2>1. W!Asked \/ W!Fault \/ W!Normally
    BY DEF W!ReadFailed, W!Cancel, W!KeyExpires, W!RemoveJob, W!DeleteFile, W!DeleteTemp,
       W!TellCancelled, W!DeletePackage
  <2> QED BY <2>1, WUses
<1>3. w_tellers' \subseteq W!Tellers
  <2>1. [file |-> f, snap |-> w_row] \in W!Tellers BY <1>t DEF W!Tellers
  <2>2. w_tellers' = w_tellers \/ w_tellers' = w_tellers \cup {[file |-> f, snap |-> w_row]}
    BY DEF W!ReadFailed, W!Reads, W!Cancel, W!KeyExpires, W!RemoveJob, W!DeleteFile, W!DeleteTemp,
       W!TellCancelled, W!DeletePackage
  <2> QED BY <2>1, <2>2, <1>t
<1>4. w_cancel' \in [W!File -> WStates]
  BY <1>t DEF W!ReadFailed, W!Cancel, W!KeyExpires, W!RemoveJob, W!DeleteFile, W!DeleteTemp,
     W!TellCancelled, W!DeletePackage, WStates
<1>5. CASE W!RemoveJob(f)
  <2> DEFINE gone(s) == [w_run[s] EXCEPT !.job = "gone"]
  <2>1. /\ w_job' = [w_job EXCEPT ![f] = W!NoJob]
        /\ w_run' = [s \in Slots |-> IF w_run[s].file = f /\ w_run[s].job = "own" THEN gone(s) ELSE w_run[s]]
    BY <1>5 DEF W!RemoveJob
  <2>2. \A s \in Slots : gone(s) \in W!Run /\ gone(s).job = "gone" /\ gone(s).at = w_run[s].at
                         /\ gone(s).file = w_run[s].file
    BY <1>t DEF W!Run
  <2> HIDE DEF gone
  <2>3. w_run' \in [Slots -> W!Run] BY <2>1, <2>2, <1>t
  <2>4. w_job' \in [W!File -> WJob] /\ \A g \in W!File : w_job'[g] = IF g = f THEN W!NoJob ELSE w_job[g]
    BY <2>1, <1>t, WRecords
  <2>5. \A g \in W!File : W!UnderWay(g)' => w_job'[g].left >= 1 BY <2>4, <1>t, WRecords DEF W!UnderWay
  <2>6. \A s \in Slots : /\ w_run'[s].at = w_run[s].at /\ w_run'[s].file = w_run[s].file
                         /\ WOwns(s)' => WOwns(s) /\ w_run[s].file # f
    BY <2>1, <2>2 DEF WOwns
  <2>7. WOwned' BY <2>4, <2>6 DEF WOwned, WOwns
  <2> QED BY <2>3, <2>4, <2>5, <2>7, <1>1, <1>2, <1>3, <1>4 DEF WTyped
<1>6. CASE ~W!RemoveJob(f)
  <2>1. UNCHANGED <<w_job, w_run>>
    BY <1>6 DEF W!ReadFailed, W!Cancel, W!KeyExpires, W!DeleteFile, W!DeleteTemp, W!TellCancelled,
       W!DeletePackage, W!queue
  <2>2. WOwned' BY <2>1 DEF WOwned, WOwns
  <2> QED BY <2>1, <2>2, <1>1, <1>2, <1>3, <1>4, <1>t DEF WTyped, W!UnderWay
<1> QED BY <1>5, <1>6

\* Types: the row is told of a failure.
LEMMA WTellTypes == ASSUME WTyped, WOwned, NEW t \in w_tellers, W!SaveFailed(t) PROVE WTyped' /\ WOwned'
<1>t. /\ t \in W!Tellers /\ t.file \in W!File /\ t.snap \in W!Row /\ w_row \in W!Row
  BY DEF WTyped, W!Tellers
<1>1. /\ UNCHANGED <<w_listed, w_disk, w_temp, w_job, w_run, w_key, w_events, w_ask, w_cancel, w_page, w_excused>>
      /\ W!Normally /\ w_tellers' = w_tellers \ {t}
  BY DEF W!SaveFailed, W!queue
<1>2. w_used' \in WUsed /\ w_used'.moves = w_used.moves BY <1>1, WUses
<1>3. w_row' \in W!Row
  <2> DEFINE new == [t.snap EXCEPT !.st = "failed"]
  <2>1. w_row' = w_row \/ w_row' = W!Saved(t.snap, new) BY DEF W!SaveFailed
  <2>2. new \in W!Row BY <1>t DEF W!Row
  <2> HIDE DEF new
  <2> QED BY <2>1, <2>2, <1>t, WSaves
<1>4. WTyped' BY <1>1, <1>2, <1>3 DEF WTyped, W!UnderWay
<1>5. WOwned' BY <1>1 DEF WOwned, WOwns
<1> QED BY <1>4, <1>5

\* Types: the worker dies, and its jobs wait.
LEMMA WDeaths == ASSUME WTyped, WOwned, W!Dies PROVE WTyped' /\ WOwned'
<1> DEFINE j(f) == IF w_job[f].st = "active" THEN [w_job[f] EXCEPT !.st = "waiting"] ELSE w_job[f]
<1>t. w_job \in [W!File -> WJob] /\ \A g \in W!File : W!UnderWay(g) => w_job[g].left >= 1 BY DEF WTyped
<1>1. /\ UNCHANGED <<w_listed, w_row, w_disk, w_temp, w_key, w_ask, w_cancel, w_page>> /\ W!Fault
      /\ w_job' = [f \in W!File |-> j(f)] /\ w_run' = [s \in Slots |-> W!Idle]
      /\ w_tellers' = {} /\ w_events' = {} /\ w_excused' = TRUE
  BY DEF W!Dies
<1>2. \A f \in W!File : j(f) \in WJob /\ (j(f).st \in {"waiting", "active", "delayed"} => j(f).left >= 1)
  <2> SUFFICES ASSUME NEW f \in W!File PROVE j(f) \in WJob
               /\ (j(f).st \in {"waiting", "active", "delayed"} => j(f).left >= 1) OBVIOUS
  <2>1. w_job[f] \in WJob /\ (w_job[f].st \in {"waiting", "active", "delayed"} => w_job[f].left >= 1)
    BY <1>t DEF W!UnderWay
  <2>2. CASE w_job[f].st = "active" BY <2>1, <2>2 DEF WJob
  <2>3. CASE w_job[f].st # "active" BY <2>1, <2>3
  <2> QED BY <2>2, <2>3
<1> HIDE DEF j
<1>3. w_job' \in [W!File -> WJob] /\ \A f \in W!File : W!UnderWay(f)' => w_job'[f].left >= 1
  BY <1>1, <1>2 DEF W!UnderWay
<1>4. w_run' \in [Slots -> W!Run] /\ \A s \in Slots : w_run'[s].at = "none" BY <1>1, WRecords
<1>5. w_used' \in WUsed /\ w_used'.moves = w_used.moves BY <1>1, WUses
<1>6. WTyped' BY <1>1, <1>3, <1>4, <1>5 DEF WTyped
<1>7. WOwned' BY <1>4 DEF WOwned, WOwns
<1> QED BY <1>6, <1>7

\* Types: the catalogue has a new version, and there are as many as moves.
LEMMA WMoves == ASSUME WTyped, WOwned, NEW o \in Options, W!Moves(o) PROVE WTyped' /\ WOwned'
<1>1. /\ w_used.moves < MaxMoves /\ w_used' = [w_used EXCEPT !.moves = w_used.moves + 1]
      /\ w_listed' = [w_listed EXCEPT ![o] = w_listed[o] + 1]
      /\ UNCHANGED <<w_row, w_disk, w_temp, w_job, w_run, w_key, w_events, w_tellers, w_ask, w_cancel, w_page, w_excused>>
  BY DEF W!Moves, W!queue
<1>t. w_used \in WUsed /\ w_listed \in [Options -> 1 .. MaxMoves + 1]
      /\ \A p \in Options : w_listed[p] <= w_used.moves + 1
  BY DEF WTyped
<1>2. w_used.moves \in 0 .. MaxMoves /\ w_used.moves + 1 \in 0 .. MaxMoves
  BY <1>1, <1>t, Bounds DEF WUsed
<1>3. w_used' \in WUsed /\ w_used'.moves = w_used.moves + 1 BY <1>1, <1>2, <1>t DEF WUsed
<1>4. w_listed[o] \in 1 .. MaxMoves + 1 /\ w_listed[o] + 1 \in 1 .. MaxMoves + 1
  BY <1>1, <1>2, <1>t, Bounds
<1>5. w_listed' \in [Options -> 1 .. MaxMoves + 1] BY <1>1, <1>4, <1>t
<1>6. \A p \in Options : w_listed'[p] <= w_used'.moves + 1
  <2> SUFFICES ASSUME NEW p \in Options PROVE w_listed'[p] <= w_used'.moves + 1 OBVIOUS
  <2>1. w_listed'[p] = (IF p = o THEN w_listed[p] + 1 ELSE w_listed[p]) /\ w_listed[p] \in 1 .. MaxMoves + 1
    BY <1>1, <1>t
  <2> QED BY <2>1, <1>2, <1>3, <1>t, Bounds
<1>7. \A f \in W!File : W!UnderWay(f)' => w_job'[f].left >= 1 BY <1>1 DEF WTyped, W!UnderWay
<1>8. WTyped' BY <1>1, <1>3, <1>5, <1>6, <1>7 DEF WTyped
<1>9. WOwned' BY <1>1 DEF WOwned, WOwns
<1> QED BY <1>8, <1>9
----------------------------------------------------------------------------
\* A step that changes nothing of what the row is judged by.
LEMMA WFrame ==
    ASSUME WTrue, UNCHANGED <<w_row, w_disk, w_job, w_run, w_events, w_tellers, w_ask, w_cancel>>
    PROVE  WTrue'
BY DEF WTrue, WAlone, WReads, WAsks, WRow, WEnded, WDownloading, WInstalled, WChanging, WSaving, WOwns,
       W!Told, W!UnderWay

\* A selection begins: nobody else has the row in hand.
LEMMA WSubmitted == ASSUME WTyped, WTrue, NEW p \in WikiPages, W!Submit(p), ~w_excused' PROVE WTrue'
<1> DEFINE o == w_page[p].picked
           e == [at |-> IF o = "none" THEN "delete" ELSE "look", opt |-> o,
                 file |-> IF o = "none" THEN W!NoFile ELSE W!Url(o), snap |-> w_row]
<1>1. UNCHANGED <<w_row, w_disk, w_job, w_run, w_events, w_tellers, w_cancel>> /\ ~W!InHand /\ o # "nothing"
  BY DEF W!Submit, W!CanSubmit, W!queue
<1>2. w_tellers = {} /\ (\A q \in WikiPages : w_ask[q].at = "none") /\ \A s \in Slots : ~WSaving(s) /\ ~WSaving(s)'
  BY <1>1 DEF W!InHand, WSaving
<1>3. CASE w_ask' = w_ask BY <1>1, <1>3, WFrame
<1>4. CASE w_ask' # w_ask
  <2>1. w_ask' = [w_ask EXCEPT ![p] = e] BY <1>4 DEF W!Submit
  <2>2. o \in Options \cup {"none"} BY <1>1 DEF WTyped, WPage
  <2>3. e.at \in {"delete", "look"} /\ (e.at = "delete" <=> e.opt = "none") /\ e.snap = w_row
        /\ (e.opt # "none" => e.file \in W!File)
    BY <2>2, WUrls
  <2> HIDE DEF e
  <2>4. \A q \in WikiPages : w_ask'[q] = IF q = p THEN e ELSE w_ask[q] BY <2>1 DEF WTyped
  <2>5. WAlone' BY <1>1, <1>2, <2>4 DEF WAlone
  <2>6. WReads' BY <1>1, <1>2, <2>3, <2>4 DEF WReads
  <2>7. WAsks' BY <1>1, <1>2, <2>3, <2>4 DEF WAsks
  <2>8. WRow' /\ WEnded' BY <1>1 DEF WTrue, WRow, WEnded, WOwns, W!Told
  <2>9. WDownloading' /\ WInstalled'
    BY <1>1, <1>2 DEF WTrue, WDownloading, WInstalled, WChanging, W!UnderWay
  <2> QED BY <2>5, <2>6, <2>7, <2>8, <2>9 DEF WTrue
<1> QED BY <1>3, <1>4

\* A selection goes on: it is the only one, so that the row is as it was read.
LEMMA WRequests == ASSUME WTyped, WOwned, WTrue, NEW p \in WikiPages, W!Request(p), ~w_excused' PROVE WTrue'
<1> DEFINE f == w_ask[p].file
           save == [w_ask[p] EXCEPT !.at = "save"]
           add == [w_ask[p] EXCEPT !.at = "add"]
<1>t. w_ask \in [WikiPages -> WAsk] /\ w_ask[p] \in WAsk /\ w_job \in [W!File -> WJob] /\ w_row \in W!Row
      /\ w_ask[p].snap \in W!Row /\ w_disk \subseteq W!File
  BY DEF WTyped, WAsk
<1>r. /\ save.at = "save" /\ save.opt = w_ask[p].opt /\ save.file = f /\ save.snap = w_ask[p].snap
      /\ add.at = "add" /\ add.opt = w_ask[p].opt /\ add.file = f /\ add.snap = w_ask[p].snap
  BY <1>t DEF WAsk
<1>a. /\ w_ask[p].at # "none"
      /\ UNCHANGED <<w_run, w_events, w_tellers, w_cancel>>
  BY DEF W!Request, W!DeleteOld, W!SaveNone, W!LookAtJob, W!SaveChoice, W!AddJob, W!queue
<1>n. /\ w_tellers = {} /\ \A s \in Slots : ~WSaving(s) /\ ~WSaving(s)'
      /\ \A q \in WikiPages : q # p => w_ask[q].at = "none"
  BY <1>a DEF WTrue, WAlone, WSaving
<1>k. /\ w_ask[p].at = "delete" => w_ask[p].opt = "none"
      /\ w_ask[p].at \in {"look", "add"} => w_ask[p].opt # "none"
      /\ w_ask[p].opt # "none" => f \in W!File
      /\ w_ask[p].at \in {"save", "add"} /\ w_ask[p].opt # "none" => w_job[f].st = "none"
      /\ w_ask[p].at = "add" => w_row.file = f
      /\ w_ask[p].at \in {"delete", "look", "save"} => w_ask[p].snap = w_row
      /\ w_row.st \in {"downloading", "installed"} => w_row.has /\ w_row.file \in W!File
  BY <1>a DEF WTrue, WAsks, WReads, WRow
<1>e. ASSUME NEW e, w_ask' = [w_ask EXCEPT ![p] = e] PROVE \A q \in WikiPages : w_ask'[q] = IF q = p THEN e ELSE w_ask[q]
  BY <1>e, <1>t
<1> HIDE DEF save, add, f
<1>1. CASE W!DeleteOld(p)
  <2>1. /\ w_ask[p].at = "delete" /\ w_disk' = w_disk \ {w_ask[p].snap.file}
        /\ w_ask' = [w_ask EXCEPT ![p] = save] /\ UNCHANGED <<w_row, w_job>>
        /\ ~\E g \in W!File : g = w_ask[p].snap.file /\ W!Told(g)
    BY <1>1 DEF W!DeleteOld, W!queue, save
  <2>2. \A q \in WikiPages : w_ask'[q] = IF q = p THEN save ELSE w_ask[q] BY <2>1, <1>e
  <2>3. WAlone' BY <1>a, <1>n, <2>2 DEF WAlone
  <2>4. WReads' BY <1>a, <1>n, <1>k, <1>r, <2>1, <2>2 DEF WReads
  <2>5. WAsks' BY <1>a, <1>n, <1>k, <1>r, <2>1, <2>2 DEF WAsks
  <2>6. WRow' /\ WEnded' BY <1>a, <2>1 DEF WTrue, WRow, WEnded, WOwns, W!Told
  <2>7. WChanging' BY <2>2, <1>r DEF WChanging
  <2> QED BY <2>3, <2>4, <2>5, <2>6, <2>7 DEF WTrue, WDownloading, WInstalled
<1>2. CASE W!SaveNone(p)
  <2> DEFINE new == [has |-> TRUE, opt |-> "none", file |-> W!NoFile, st |-> "none"]
  <2>1. /\ w_ask[p].at = "save" /\ w_row' = W!Saved(w_ask[p].snap, new)
        /\ w_ask' = [w_ask EXCEPT ![p] = W!NoAsk] /\ UNCHANGED <<w_disk, w_job>>
    BY <1>2 DEF W!SaveNone, W!queue
  <2>2. new \in W!Row /\ new.has /\ new.st = "none" BY DEF W!Row
  <2> HIDE DEF new
  <2>3. w_row' = new BY <2>1, <2>2, <1>k, <1>t, WSaves
  <2>4. \A q \in WikiPages : w_ask'[q].at = "none"
    <3>1. \A q \in WikiPages : w_ask'[q] = IF q = p THEN W!NoAsk ELSE w_ask[q] BY <2>1, <1>e
    <3> QED BY <3>1, <1>n, WRecords
  <2>5. WAlone' /\ WReads' /\ WAsks' BY <1>a, <1>n, <2>4 DEF WAlone, WReads, WAsks
  <2>6. WRow' /\ WEnded' BY <1>a, <2>1, <2>2, <2>3 DEF WTrue, WRow, WEnded, W!Told
  <2> QED BY <2>2, <2>3, <2>5, <2>6 DEF WTrue, WDownloading, WInstalled
<1>3. CASE W!LookAtJob(p)
  <2>0. /\ w_ask[p].at = "look" /\ UNCHANGED <<w_row, w_disk>> /\ f \in W!File
        /\ IF W!UnderWay(f) THEN w_ask' = [w_ask EXCEPT ![p] = W!NoAsk] /\ w_job' = w_job
           ELSE w_ask' = [w_ask EXCEPT ![p] = save] /\ w_job' = [w_job EXCEPT ![f] = W!NoJob]
    BY <1>3, <1>k DEF W!LookAtJob, save, f
  <2>1. CASE W!UnderWay(f)
    <3>1. \A q \in WikiPages : w_ask'[q].at = "none" BY <2>0, <2>1, <1>e, <1>n, WRecords
    <3>2. WAlone' /\ WReads' /\ WAsks' BY <1>a, <1>n, <3>1 DEF WAlone, WReads, WAsks
    <3>3. WRow' /\ WEnded' BY <1>a, <2>0, <2>1 DEF WTrue, WRow, WEnded, WOwns, W!Told
    <3>4. ~WChanging /\ ~\E q \in WikiPages : w_ask[q].at = "add" BY <2>0, <1>n DEF WChanging
    <3>5. WDownloading' /\ WInstalled'
      BY <3>4, <2>0, <2>1, <1>a DEF WTrue, WDownloading, WInstalled, W!UnderWay
    <3> QED BY <3>2, <3>3, <3>5 DEF WTrue
  <2>2. CASE ~W!UnderWay(f)
    <3>1. \A q \in WikiPages : w_ask'[q] = IF q = p THEN save ELSE w_ask[q] BY <2>0, <2>2, <1>e
    <3>2. \A g \in W!File : w_job'[g] = IF g = f THEN W!NoJob ELSE w_job[g] BY <2>0, <2>2, <1>t
    <3>3. WAlone' BY <1>a, <1>n, <3>1 DEF WAlone
    <3>4. WReads' BY <1>a, <1>n, <1>k, <1>r, <2>0, <3>1 DEF WReads
    <3>5. WAsks' BY <1>a, <1>n, <1>k, <1>r, <2>0, <3>1, <3>2, WRecords DEF WAsks
    <3>6. WRow' /\ WEnded' BY <1>a, <2>0 DEF WTrue, WRow, WEnded, WOwns, W!Told
    <3>7. WChanging' BY <3>1, <1>r DEF WChanging
    <3> QED BY <3>3, <3>4, <3>5, <3>6, <3>7 DEF WTrue, WDownloading, WInstalled
  <2> QED BY <2>1, <2>2
<1>4. CASE W!SaveChoice(p)
  <2> DEFINE new == [has |-> TRUE, opt |-> w_ask[p].opt, file |-> w_ask[p].file, st |-> "downloading"]
  <2>1. /\ w_ask[p].at = "save" /\ w_ask[p].opt # "none" /\ w_row' = W!Saved(w_ask[p].snap, new)
        /\ w_ask' = [w_ask EXCEPT ![p] = add] /\ UNCHANGED <<w_disk, w_job>>
    BY <1>4 DEF W!SaveChoice, W!queue, add
  <2>2. new \in W!Row /\ new.has /\ new.st = "downloading" /\ new.file = f
    BY <1>t DEF W!Row, WAsk, f
  <2> HIDE DEF new
  <2>3. w_row' = new BY <2>1, <2>2, <1>k, <1>t, WSaves
  <2>4. \A q \in WikiPages : w_ask'[q] = IF q = p THEN add ELSE w_ask[q] BY <2>1, <1>e
  <2>5. WAlone' BY <1>a, <1>n, <2>4 DEF WAlone
  <2>6. WReads' BY <1>a, <1>n, <1>r, <2>4 DEF WReads
  <2>7. WAsks' BY <1>n, <1>k, <1>r, <2>1, <2>2, <2>3, <2>4 DEF WAsks
  <2>8. WRow' BY <1>a, <2>1, <2>2, <2>3, <1>k DEF WTrue, WRow, W!Told
  <2>10. WEnded' BY <1>a, <1>k, <2>1, <2>2, <2>3 DEF WOwned, WEnded, WOwns
  <2>9. WDownloading' /\ WInstalled' BY <2>2, <2>3, <2>4, <1>r DEF WDownloading, WInstalled
  <2> QED BY <2>5, <2>6, <2>7, <2>8, <2>9, <2>10 DEF WTrue
<1>5. CASE W!AddJob(p)
  <2> DEFINE j == [st |-> "waiting", left |-> Attempts]
  <2>0. w_ask[p].at = "add" BY <1>5 DEF W!AddJob
  <2>1. /\ w_ask' = [w_ask EXCEPT ![p] = W!NoAsk] /\ UNCHANGED <<w_disk, w_row>>
        /\ w_job' = [w_job EXCEPT ![f] = j] /\ f \in W!File /\ w_job[f].st = "none"
    BY <2>0, <1>5, <1>k DEF W!AddJob, f
  <2>2. j.st = "waiting" OBVIOUS
  <2> HIDE DEF j
  <2>3. \A q \in WikiPages : w_ask'[q].at = "none"
    <3>1. \A q \in WikiPages : w_ask'[q] = IF q = p THEN W!NoAsk ELSE w_ask[q] BY <2>1, <1>e
    <3> QED BY <3>1, <1>n, WRecords
  <2>4. \A g \in W!File : w_job'[g] = IF g = f THEN j ELSE w_job[g] BY <2>1, <1>t
  <2>5. WAlone' /\ WReads' /\ WAsks' BY <1>a, <1>n, <2>3 DEF WAlone, WReads, WAsks
  <2>6. WRow' /\ WEnded' BY <1>a, <2>1, <2>2, <2>4 DEF WTrue, WRow, WEnded, WOwns, W!Told
  <2>7. WDownloading' BY <2>0, <2>1, <2>2, <2>4, <1>k DEF WDownloading, W!UnderWay
  <2>8. ~WChanging BY <2>0, <1>n DEF WChanging
  <2>9. WInstalled' BY <2>1, <2>8, <1>a DEF WTrue, WInstalled
  <2> QED BY <2>5, <2>6, <2>7, <2>9 DEF WTrue
<1> QED BY <1>1, <1>2, <1>3, <1>4, <1>5 DEF W!Request

\* A step of the worker that leaves the row and the file, after which nobody else is telling.
LEMMA WGoesOn ==
    ASSUME WTyped, WOwned, WTrue, NEW s \in Slots, NEW r, w_run' = [w_run EXCEPT ![s] = r],
           r.at # "saving" \/ (WSaving(s) /\ r.snap = w_run[s].snap),
           WSaving(s) => r.at = "saving",
           r.at \in {"placed", "saving"} => r.file \in w_disk',
           r.at = "end" /\ r.job = "own" => WOwns(s) /\ w_run[s].at = "end" /\ r.file = w_run[s].file,
           UNCHANGED <<w_row, w_ask, w_tellers, w_cancel>>, w_disk \subseteq w_disk', w_events \subseteq w_events',
           \A f \in W!File : w_job[f].st = "none" => w_job'[f].st = "none",
           \A f \in W!File : W!UnderWay(f) =>
               \/ W!UnderWay(f)' \/ f \in w_events' \/ ~(w_row.st = "downloading" /\ w_row.file = f)
    PROVE  WTrue'
<1>1. \A t \in Slots : w_run'[t] = IF t = s THEN r ELSE w_run[t] BY DEF WTyped
<1>2. \A t \in Slots : WSaving(t)' <=> WSaving(t) BY <1>1 DEF WSaving
<1>3. \A t \in Slots : WSaving(t)' => w_run'[t].snap = w_run[t].snap BY <1>1 DEF WSaving
<1>4. WAlone' BY <1>2 DEF WTrue, WAlone
<1>5. WReads' BY <1>2, <1>3 DEF WTrue, WReads
<1>6. WAsks' BY DEF WTrue, WAsks
<1>7. WRow' BY <1>1 DEF WTrue, WRow, W!Told
<1>8. WEnded' BY <1>1 DEF WTrue, WEnded, WOwns
<1>9. WChanging' <=> WChanging BY <1>2 DEF WChanging
<1>10. w_row.st \in {"downloading", "installed"} => w_row.file \in W!File BY DEF WTrue, WRow
<1>11. WDownloading' BY <1>9, <1>10 DEF WTrue, WDownloading
<1>12. WInstalled' BY <1>9 DEF WTrue, WInstalled
<1> QED BY <1>4, <1>5, <1>6, <1>7, <1>8, <1>11, <1>12 DEF WTrue

\* The worker goes on. With ReadDone it takes the row in hand, with SaveDone it lets it go.
LEMMA WRuns == ASSUME WTyped, WOwned, WTrue, NEW s \in Slots, WRan(s), ~w_excused' PROVE WTrue'
<1> DEFINE f == w_run[s].file
<1>t. /\ w_run \in [Slots -> W!Run] /\ w_run[s] \in W!Run /\ w_job \in [W!File -> WJob]
      /\ w_row \in W!Row /\ w_disk \subseteq W!File
  BY DEF WTyped
<1>a. w_run[s].at # "none" /\ f \in W!File
  BY DEF WOwned, WRan, W!Working, W!Begin, W!Place, W!ReadDone, W!SaveDone, W!End, W!Fail, W!Poll
<1>u. UNCHANGED <<w_ask, w_tellers, w_cancel>>
  BY DEF WRan, W!Working, W!Begin, W!Place, W!ReadDone, W!SaveDone, W!End, W!Fail, W!Poll
<1>k. /\ \A g \in W!File : W!Told(g) => g \in w_disk
      /\ w_row.st \in {"downloading", "installed"} => w_row.has /\ w_row.file \in W!File
  BY DEF WTrue, WRow
<1>f. ASSUME NEW left \in {0, w_job[f].left - 1}, W!Failed(s, left)
      PROVE  /\ w_events \subseteq w_events'
             /\ \A g \in W!File : w_job[g].st = "none" => w_job'[g].st = "none"
             /\ \A g \in W!File : W!UnderWay(g) => W!UnderWay(g)' \/ g \in w_events'
  <2>1. IF WOwns(s)
        THEN /\ w_events' = w_events \cup {f} /\ w_job[f].st = "active"
             /\ \A g \in W!File : g # f => w_job'[g] = w_job[g]
        ELSE UNCHANGED <<w_job, w_events>>
    BY <1>f, <1>a, WFails
  <2> QED BY <2>1 DEF W!UnderWay
<1>1. CASE W!Begin(s)
  <2> DEFINE r == [w_run[s] EXCEPT !.at = "fetch"]
  <2>1. w_run' = [w_run EXCEPT ![s] = r] /\ ~WSaving(s) BY <1>1 DEF W!Begin, WSaving
  <2>2. r.at = "fetch" BY <1>t DEF W!Run
  <2>3. UNCHANGED <<w_row, w_disk, w_job, w_events>> BY <1>1 DEF W!Begin
  <2> HIDE DEF r
  <2> QED BY <2>1, <2>2, <2>3, <1>u, WGoesOn DEF W!UnderWay
<1>2. CASE W!Place(s)
  <2>0. ~WSaving(s) /\ UNCHANGED w_row BY <1>2 DEF W!Place, WSaving
  <2>1. CASE f \in w_temp \cup w_disk
    <3> DEFINE r == [w_run[s] EXCEPT !.at = "placed"]
    <3>1. w_run' = [w_run EXCEPT ![s] = r] /\ w_disk' = w_disk \cup {f} /\ UNCHANGED <<w_job, w_events>>
      BY <1>2, <2>1 DEF W!Place
    <3>2. r.at = "placed" /\ r.file = f BY <1>t DEF W!Run
    <3> HIDE DEF r
    <3> QED BY <2>0, <3>1, <3>2, <1>u, WGoesOn DEF W!UnderWay
  <2>2. CASE f \notin w_temp \cup w_disk
    <3>1. w_run' = [w_run EXCEPT ![s] = W!Idle] /\ W!Failed(s, w_job[f].left - 1) /\ UNCHANGED w_disk
      BY <1>2, <2>2 DEF W!Place, W!Retries, W!Stops
    <3> QED BY <2>0, <3>1, <1>f, <1>u, WGoesOn, WRecords
  <2> QED BY <2>1, <2>2
<1>3. CASE W!ReadDone(s)
  <2>1. PICK opt \in {"none"} \cup {o \in Options : W!Url(o) = f} :
          w_run' = [w_run EXCEPT ![s].at = "saving", ![s].snap = w_row, ![s].opt = opt]
    BY <1>3 DEF W!ReadDone
  <2> DEFINE r == [w_run[s] EXCEPT !.at = "saving", !.snap = w_row, !.opt = opt]
  <2>2. w_run' = [w_run EXCEPT ![s] = r] BY <2>1, <1>t DEF W!Run
  <2>3. r.at = "saving" /\ r.snap = w_row /\ r.file = f BY <1>t DEF W!Run
  <2>4. UNCHANGED <<w_row, w_disk, w_job, w_events>> /\ w_run[s].at = "placed" BY <1>3 DEF W!ReadDone
  <2>5. /\ w_tellers = {} /\ \A q \in WikiPages : w_ask[q].at = "none"
        /\ \A t \in Slots : ~WSaving(t)
    BY <1>3 DEF W!ReadDone, W!InHand, WSaving
  <2> HIDE DEF r
  <2>6. \A t \in Slots : w_run'[t] = IF t = s THEN r ELSE w_run[t] BY <2>2, <1>t
  <2>7. \A t \in Slots : WSaving(t)' <=> t = s BY <2>3, <2>5, <2>6 DEF WSaving
  <2>8. WAlone' BY <2>5, <2>7, <1>u DEF WAlone
  <2>9. WReads' BY <2>3, <2>4, <2>5, <2>6, <2>7, <1>u DEF WReads
  <2>10. WAsks' BY <2>5, <1>u DEF WAsks
  <2>11. WRow'
    <3>1. W!Told(f) BY <2>4 DEF W!Told
    <3> QED BY <3>1, <2>3, <2>4, <2>6, <1>k, <1>a DEF WRow, W!Told
  <2>12. WEnded' BY <2>3, <2>4, <2>6 DEF WTrue, WEnded, WOwns
  <2>13. WChanging' BY <2>7 DEF WChanging
  <2> QED BY <2>8, <2>9, <2>10, <2>11, <2>12, <2>13 DEF WTrue, WDownloading, WInstalled
<1>4. CASE W!SaveDone(s)
  <2> DEFINE t == w_run[s]
             opt == IF t.opt # "none" THEN t.opt ELSE IF t.snap.has THEN t.snap.opt ELSE "unknown"
             new == [has |-> TRUE, opt |-> opt, file |-> t.file, st |-> "installed"]
             r == [t EXCEPT !.at = "end", !.snap = W!NoRow, !.opt = "none"]
  <2>1. /\ w_row' = W!Saved(t.snap, new) /\ w_run' = [w_run EXCEPT ![s] = r] /\ WSaving(s)
        /\ w_disk' = {g \in w_disk : g = t.file \/ g[1] # t.file[1]} /\ UNCHANGED <<w_job, w_events>>
        /\ ~\E g \in w_disk \ w_disk' : W!Told(g)
    BY <1>4 DEF W!SaveDone, WSaving
  <2>2. new \in W!Row /\ new.has /\ new.st = "installed" /\ new.file = f /\ t.snap = w_row
    BY <1>a, <1>t, <2>1 DEF W!Run, W!Row, WTrue, WReads
  <2>3. r.at = "end" /\ r.file = f BY <1>t DEF W!Run
  <2> HIDE DEF new, r
  <2>4. w_row' = new BY <2>1, <2>2, <1>t, WSaves
  <2>5. \A u \in Slots : w_run'[u] = IF u = s THEN r ELSE w_run[u] BY <2>1, <1>t
  <2>6. /\ w_tellers = {} /\ (\A q \in WikiPages : w_ask[q].at = "none")
        /\ \A u \in Slots : ~WSaving(u)'
    BY <2>1, <2>3, <2>5 DEF WTrue, WAlone, WSaving
  <2>7. f \in w_disk' BY <2>1, <1>k, <1>a DEF W!Told, WSaving
  <2>8. WAlone' /\ WReads' /\ WAsks' BY <1>u, <2>6 DEF WAlone, WReads, WAsks
  <2>9. WRow'
    <3>1. ASSUME NEW g \in W!File, W!Told(g)' PROVE g \in w_disk'
      <4>1. W!Told(g) BY <3>1, <2>3, <2>5 DEF W!Told
      <4> QED BY <4>1, <2>1, <1>k
    <3> QED BY <3>1, <2>2, <2>4, <1>a DEF WRow
  <2>10. WEnded' BY <2>2, <2>4 DEF WEnded
  <2>11. WDownloading' /\ WInstalled' BY <2>2, <2>4, <2>7 DEF WDownloading, WInstalled
  <2> QED BY <2>8, <2>9, <2>10, <2>11 DEF WTrue
<1>5. CASE W!End(s)
  <2>1. /\ w_run' = [w_run EXCEPT ![s] = W!Idle] /\ UNCHANGED <<w_row, w_disk, w_events>> /\ w_run[s].at = "end"
        /\ w_job' = IF WOwns(s) THEN [w_job EXCEPT ![f] = W!NoJob] ELSE w_job
    BY <1>5 DEF W!End, W!Stops, WOwns
  <2>2. \A g \in W!File : w_job'[g] = IF WOwns(s) /\ g = f THEN W!NoJob ELSE w_job[g] BY <2>1, <1>t
  <2>3. WOwns(s) => ~(w_row.st = "downloading" /\ w_row.file = f) BY <2>1 DEF WTrue, WEnded
  <2>4. \A g \in W!File : W!UnderWay(g) => W!UnderWay(g)' \/ ~(w_row.st = "downloading" /\ w_row.file = g)
    BY <2>2, <2>3 DEF W!UnderWay
  <2>5. \A g \in W!File : w_job[g].st = "none" => w_job'[g].st = "none" BY <2>2, WRecords
  <2>6. ~WSaving(s) /\ W!Idle.at = "none" BY <2>1, WRecords DEF WSaving
  <2> QED BY <2>1, <2>4, <2>5, <2>6, <1>u, WGoesOn
<1>6. CASE W!Fail(s)
  <2>1. /\ w_run' = [w_run EXCEPT ![s] = W!Idle] /\ W!Failed(s, w_job[f].left - 1) /\ ~WSaving(s)
        /\ UNCHANGED <<w_row, w_disk>>
    BY <1>6 DEF W!Fail, W!Retries, W!Stops, WSaving
  <2> QED BY <2>1, <1>f, <1>u, WGoesOn, WRecords
<1>7. CASE W!Poll(s)
  <2> DEFINE over == [w_run[s] EXCEPT !.job = "over"]
  <2>1. W!Failed(s, 0) /\ UNCHANGED <<w_row, w_disk>> BY <1>7 DEF W!Poll
  <2>2. CASE w_run[s].at \in {"head", "fetch"}
    <3>1. w_run' = [w_run EXCEPT ![s] = W!Idle] /\ ~WSaving(s) BY <1>7, <2>2 DEF W!Poll, W!Stops, WSaving
    <3> QED BY <2>1, <3>1, <1>f, <1>u, WGoesOn, WRecords
  <2>3. CASE w_run[s].at \notin {"head", "fetch"}
    <3>1. w_run' = [w_run EXCEPT ![s] = over] BY <1>7, <2>3 DEF W!Poll
    <3>2. over.at = w_run[s].at /\ over.snap = w_run[s].snap /\ over.file = f /\ over.job = "over"
      BY <1>t DEF W!Run
    <3>3. over.at \in {"placed", "saving"} => over.file \in w_disk'
      BY <2>1, <3>2, <1>a, <1>k DEF W!Told
    <3> HIDE DEF over
    <3>4. over.at # "saving" \/ (WSaving(s) /\ over.snap = w_run[s].snap) BY <3>2 DEF WSaving
    <3>5. WSaving(s) => over.at = "saving" BY <3>2 DEF WSaving
    <3> QED BY <2>1, <3>1, <3>2, <3>3, <3>4, <3>5, <1>f, <1>u, WGoesOn
  <2> QED BY <2>2, <2>3
<1> QED BY <1>1, <1>2, <1>3, <1>4, <1>5, <1>6, <1>7 DEF WRan, W!Working

\* A job that is taken was waiting, so that no request has been told that there is none.
LEMMA WTaken ==
    ASSUME WTyped, WOwned, WTrue, NEW s \in Slots, NEW f \in W!File, W!Take(s, f) PROVE WTrue'
<1> DEFINE r == [W!Idle EXCEPT !.file = f, !.at = "head", !.job = "own"]
           j == [w_job[f] EXCEPT !.st = "active"]
<1>1. /\ w_run' = [w_run EXCEPT ![s] = r] /\ w_run[s].at = "none"
      /\ w_job' = [w_job EXCEPT ![f] = j] /\ w_job[f].st \in {"waiting", "delayed"}
      /\ UNCHANGED <<w_row, w_disk, w_events, w_tellers, w_ask, w_cancel>>
  BY DEF W!Take
<1>2. r.at = "head" BY WRecords DEF W!Run
<1>3. w_job[f] \in WJob /\ w_job \in [W!File -> WJob] BY DEF WTyped
<1>4. j.st = "active" BY <1>3 DEF WJob
<1> HIDE DEF r, j
<1>5. \A g \in W!File : w_job'[g] = IF g = f THEN j ELSE w_job[g] BY <1>1, <1>3
<1>6. \A g \in W!File : W!UnderWay(g) => W!UnderWay(g)' BY <1>4, <1>5 DEF W!UnderWay
<1>7. \A g \in W!File : w_job[g].st = "none" => w_job'[g].st = "none" BY <1>1, <1>5
<1>8. ~WSaving(s) BY <1>1 DEF WSaving
<1> QED BY <1>1, <1>2, <1>6, <1>7, <1>8, WGoesOn

\* A failure is read, of a job or of a cancel: nobody else has the row in hand.
LEMMA WReading ==
    ASSUME WTyped, WTrue, NEW f \in W!File, W!Reads(f), ~w_excused',
           UNCHANGED <<w_row, w_disk, w_job, w_run, w_ask>>,
           \A g \in W!File : g # f => /\ w_cancel'[g] = w_cancel[g]
                                      /\ g \in w_events => g \in w_events'
    PROVE  WTrue'
<1> DEFINE t == [file |-> f, snap |-> w_row]
<1>1. /\ w_tellers = {} /\ (\A q \in WikiPages : w_ask[q].at = "none")
      /\ \A s \in Slots : ~WSaving(s) /\ ~WSaving(s)'
  BY DEF W!Reads, W!InHand, WSaving
<1>2. w_tellers' = {t} /\ t.snap = w_row /\ t.file = f BY <1>1 DEF W!Reads
<1> HIDE DEF t
<1>3. WAlone' BY <1>1, <1>2 DEF WAlone
<1>4. WReads' BY <1>1, <1>2 DEF WReads
<1>5. WAsks' BY <1>1 DEF WAsks
<1>6. WRow' /\ WEnded' BY DEF WTrue, WRow, WEnded, WOwns, W!Told
<1>7. ~WChanging /\ (w_row.file = f => WChanging') BY <1>1, <1>2 DEF WChanging
<1>8. w_row.st \in {"downloading", "installed"} => w_row.file \in W!File BY DEF WTrue, WRow
<1>9. WDownloading' /\ WInstalled'
  BY <1>1, <1>7, <1>8 DEF WTrue, WDownloading, WInstalled, W!UnderWay
<1> QED BY <1>3, <1>4, <1>5, <1>6, <1>9 DEF WTrue

\* A cancel removes the job, then the file, and then tells the row.
LEMMA WCancels == ASSUME WTyped, WTrue, NEW f \in W!File, WAsked(f), ~w_excused' PROVE WTrue'
<1>t. /\ w_job \in [W!File -> WJob] /\ w_disk \subseteq W!File /\ w_run \in [Slots -> W!Run]
      /\ w_cancel \in [W!File -> WStates]
  BY DEF WTyped
<1>k. /\ \A g \in W!File : W!Told(g) => g \in w_disk
      /\ w_row.st \in {"downloading", "installed"} => w_row.file \in W!File
  BY DEF WTrue, WRow
<1>d. ASSUME NEW x, w_cancel' = [w_cancel EXCEPT ![f] = x]
      PROVE  \A g \in W!File : w_cancel'[g] = IF g = f THEN x ELSE w_cancel[g]
  BY <1>d, <1>t
\* What the cancel does before it tells the row.
<1>g. ASSUME UNCHANGED <<w_row, w_ask, w_events, w_tellers, w_job, w_run>>,
             w_disk' = w_disk \/ (w_disk' = w_disk \ {f} /\ ~W!Told(f) /\ w_cancel'[f] = "temp"),
             \A g \in W!File : \/ w_cancel'[g] = w_cancel[g]
                               \/ /\ w_cancel'[g] # "none"
                                  /\ w_cancel[g] \in {"temp", "tell"} => w_cancel'[g] \in {"temp", "tell"}
      PROVE  WTrue'
  <2>1. WAlone' /\ WReads' /\ WAsks' /\ WEnded'
    BY <1>g DEF WTrue, WAlone, WReads, WAsks, WEnded, WSaving, WOwns
  <2>2. WRow' BY <1>g DEF WTrue, WRow, W!Told
  <2>3. WChanging' <=> WChanging BY <1>g DEF WChanging, WSaving
  <2>4. WDownloading' /\ WInstalled'
    BY <1>g, <1>k, <2>3 DEF WTrue, WDownloading, WInstalled, W!UnderWay
  <2> QED BY <2>1, <2>2, <2>4 DEF WTrue
<1>1. CASE W!ReadFailed(f)
  <2>1. /\ W!Reads(f) /\ w_events' = w_events \ {f}
        /\ UNCHANGED <<w_row, w_disk, w_job, w_run, w_ask, w_cancel>>
    BY <1>1 DEF W!ReadFailed
  <2> QED BY <2>1, WReading
<1>2. CASE W!Cancel(f)
  <2>0. \A g \in W!File : w_cancel'[g] = IF g = f THEN "wait" ELSE w_cancel[g] BY <1>2, <1>d DEF W!Cancel
  <2>1. UNCHANGED <<w_row, w_ask, w_events, w_tellers, w_disk, w_job, w_run>> /\ w_cancel[f] = "none"
    BY <1>2 DEF W!Cancel
  <2> QED BY <2>0, <2>1, <1>g
<1>3. CASE W!KeyExpires(f)
  BY <1>3, WFrame DEF W!KeyExpires
<1>4. CASE W!RemoveJob(f)
  <2> DEFINE gone(s) == [w_run[s] EXCEPT !.job = "gone"]
  <2>0. \A g \in W!File : w_cancel'[g] = IF g = f THEN "delete" ELSE w_cancel[g] BY <1>4, <1>d DEF W!RemoveJob
  <2>1. /\ UNCHANGED <<w_row, w_ask, w_events, w_disk, w_tellers>> /\ w_cancel[f] = "wait"
        /\ w_job' = [w_job EXCEPT ![f] = W!NoJob]
        /\ w_run' = [s \in Slots |-> IF w_run[s].file = f /\ w_run[s].job = "own" THEN gone(s) ELSE w_run[s]]
    BY <1>4 DEF W!RemoveJob
  <2>2. \A s \in Slots : gone(s).job = "gone" /\ gone(s).at = w_run[s].at /\ gone(s).snap = w_run[s].snap
                         /\ gone(s).file = w_run[s].file
    BY <1>t DEF W!Run
  <2> HIDE DEF gone
  <2>3. \A s \in Slots : /\ w_run'[s].at = w_run[s].at /\ w_run'[s].snap = w_run[s].snap
                         /\ w_run'[s].file = w_run[s].file /\ (WOwns(s)' => WOwns(s))
    BY <2>1, <2>2 DEF WOwns
  <2>4. \A g \in W!File : w_job'[g] = IF g = f THEN W!NoJob ELSE w_job[g] BY <2>1, <1>t
  <2>5. \A s \in Slots : WSaving(s)' <=> WSaving(s) BY <2>3 DEF WSaving
  <2>6. WAlone' BY <2>1, <2>5 DEF WTrue, WAlone
  <2>7. WReads' BY <2>1, <2>3, <2>5 DEF WTrue, WReads
  <2>8. WAsks' BY <2>1, <2>4, WRecords DEF WTrue, WAsks
  <2>9. WRow' BY <2>1, <2>3 DEF WTrue, WRow, W!Told
  <2>10. WEnded' BY <2>1, <2>3 DEF WTrue, WEnded
  <2>11. WChanging' <=> WChanging BY <2>1, <2>5 DEF WChanging
  <2>12. WDownloading' /\ WInstalled'
    BY <1>k, <2>0, <2>1, <2>4, <2>11 DEF WTrue, WDownloading, WInstalled, W!UnderWay
  <2> QED BY <2>6, <2>7, <2>8, <2>9, <2>10, <2>12 DEF WTrue
<1>5. CASE W!DeleteFile(f)
  <2>0. \A g \in W!File : w_cancel'[g] = IF g = f THEN "temp" ELSE w_cancel[g] BY <1>5, <1>d DEF W!DeleteFile
  <2>1. /\ UNCHANGED <<w_row, w_ask, w_events, w_tellers, w_job, w_run>>
        /\ w_disk' = w_disk \ {f} /\ ~W!Told(f)
    BY <1>5 DEF W!DeleteFile, W!queue
  <2> QED BY <2>0, <2>1, <1>g
<1>6. CASE W!DeleteTemp(f)
  <2>0. \A g \in W!File : w_cancel'[g] = IF g = f THEN "tell" ELSE w_cancel[g] BY <1>6, <1>d DEF W!DeleteTemp
  <2>1. UNCHANGED <<w_row, w_ask, w_events, w_tellers, w_disk, w_job, w_run>> BY <1>6 DEF W!DeleteTemp
  <2> QED BY <2>0, <2>1, <1>g
<1>7. CASE W!TellCancelled(f)
  <2>0. \A g \in W!File : w_cancel'[g] = IF g = f THEN "none" ELSE w_cancel[g] BY <1>7, <1>d DEF W!TellCancelled
  <2>1. W!Reads(f) /\ UNCHANGED <<w_row, w_disk, w_job, w_run, w_ask, w_events>>
    BY <1>7 DEF W!TellCancelled, W!queue
  <2> QED BY <2>0, <2>1, WReading
<1>8. ~W!DeletePackage(f) BY DEF W!DeletePackage
<1> QED BY <1>1, <1>2, <1>3, <1>4, <1>5, <1>6, <1>7, <1>8 DEF WAsked, W!Cancelling

\* The row is told of a failure.
LEMMA WTellings == ASSUME WTyped, WTrue, NEW t \in w_tellers, W!SaveFailed(t) PROVE WTrue'
<1> DEFINE new == [w_row EXCEPT !.st = "failed"]
<1>t. /\ t \in W!Tellers /\ t.snap \in W!Row /\ w_row \in W!Row BY DEF WTyped, W!Tellers
<1>a. UNCHANGED <<w_disk, w_job, w_run, w_events, w_ask, w_cancel>> /\ w_tellers' = w_tellers \ {t}
  BY DEF W!SaveFailed, W!queue
<1>n. /\ w_tellers = {t} /\ w_tellers' = {} /\ (\A q \in WikiPages : w_ask[q].at = "none")
      /\ \A s \in Slots : ~WSaving(s) /\ ~WSaving(s)'
  BY <1>a DEF WTrue, WAlone, WSaving
<1>k. /\ t.snap = w_row /\ (w_row.st \in {"downloading", "installed"} => w_row.has /\ w_row.file \in W!File)
  BY DEF WTrue, WReads, WRow
<1>b. WAlone' /\ WReads' /\ WAsks' BY <1>a, <1>n DEF WAlone, WReads, WAsks
<1>1. CASE w_row.has /\ w_row.file \in {W!NoFile, t.file}
  <2>1. w_row' = W!Saved(t.snap, new) BY <1>1, <1>k DEF W!SaveFailed
  <2>2. new \in W!Row /\ new.st = "failed" /\ new.has BY <1>1, <1>t DEF W!Row
  <2> HIDE DEF new
  <2>3. w_row' = new BY <2>1, <2>2, <1>t, <1>k, WSaves
  <2>4. WRow' /\ WEnded' BY <1>a, <2>2, <2>3 DEF WTrue, WRow, WEnded, W!Told
  <2>5. WDownloading' /\ WInstalled' BY <2>2, <2>3 DEF WDownloading, WInstalled
  <2> QED BY <1>b, <2>4, <2>5 DEF WTrue
<1>2. CASE ~(w_row.has /\ w_row.file \in {W!NoFile, t.file})
  <2>1. w_row' = w_row BY <1>2, <1>k DEF W!SaveFailed
  <2>2. WRow' /\ WEnded' BY <1>a, <2>1 DEF WTrue, WRow, WEnded, WOwns, W!Told
  <2>3. w_row.st \in {"downloading", "installed"} => ~WChanging BY <1>n, <1>k, <1>2 DEF WChanging
  <2>4. WDownloading' /\ WInstalled'
    BY <1>a, <1>n, <2>1, <2>3 DEF WTrue, WDownloading, WInstalled, W!UnderWay
  <2> QED BY <1>b, <2>2, <2>4 DEF WTrue
<1> QED BY <1>1, <1>2

\* Every step keeps the invariant.
LEMMA WStep == WInv /\ (W!Next \/ UNCHANGED wikipedia) => WInv'
<1> SUFFICES ASSUME WInv, W!Next \/ UNCHANGED wikipedia PROVE WInv' OBVIOUS
<1>0. WTyped /\ WOwned /\ w_excused \in BOOLEAN BY DEF WInv, WTyped
<1>1. ASSUME NEW p \in WikiPages, WRequested(p) PROVE WInv'
  <2>1. WTyped' /\ WOwned' BY <1>0, <1>1, WRequestTypes
  <2>2. ASSUME ~w_excused' PROVE WTrue'
    <3>1. ~w_excused
      BY <1>1, <2>2 DEF WRequested, W!Load, W!Submit, W!Request, W!DeleteOld, W!SaveNone, W!LookAtJob,
         W!SaveChoice, W!AddJob, W!Pick
    <3>2. WTrue BY <3>1 DEF WInv
    <3>3. CASE W!Load(p) \/ \E o \in Options \cup {"none"} : W!Pick(p, o)
      BY <3>2, <3>3, WFrame DEF W!Load, W!Pick, W!queue
    <3>4. CASE W!Submit(p) BY <1>0, <3>2, <3>4, <2>2, WSubmitted
    <3>5. CASE W!Request(p) BY <1>0, <3>2, <3>5, <2>2, WRequests
    <3> QED BY <1>1, <3>3, <3>4, <3>5 DEF WRequested
  <2> QED BY <2>1, <2>2 DEF WInv
<1>2. ASSUME NEW s \in Slots, WRan(s) PROVE WInv'
  <2>1. WTyped' /\ WOwned' BY <1>0, <1>2, WRunTypes
  <2>2. ~w_excused' => ~w_excused
    BY <1>2 DEF WRan, W!Working, W!Begin, W!Place, W!ReadDone, W!SaveDone, W!End, W!Fail, W!Poll
  <2> QED BY <1>0, <1>2, <2>1, <2>2, WRuns DEF WInv
<1>3. ASSUME NEW s \in Slots, NEW f \in W!File, W!Take(s, f) PROVE WInv'
  <2>1. WTyped' /\ WOwned' BY <1>0, <1>3, WTakes
  <2>2. ~w_excused' => ~w_excused BY <1>3 DEF W!Take
  <2> QED BY <1>0, <1>3, <2>1, <2>2, WTaken DEF WInv
<1>4. ASSUME NEW f \in W!File, WAsked(f) PROVE WInv'
  <2>1. WTyped' /\ WOwned' BY <1>0, <1>4, WAskedTypes
  <2>2. ~w_excused' => ~w_excused
    BY <1>4 DEF WAsked, W!Cancelling, W!ReadFailed, W!Reads, W!Cancel, W!KeyExpires, W!RemoveJob,
       W!DeleteFile, W!DeleteTemp, W!TellCancelled, W!DeletePackage
  <2> QED BY <1>0, <1>4, <2>1, <2>2, WCancels DEF WInv
<1>5. ASSUME NEW t \in w_tellers, W!SaveFailed(t) PROVE WInv'
  <2>1. WTyped' /\ WOwned' BY <1>0, <1>5, WTellTypes
  <2>2. ~w_excused' => ~w_excused BY <1>5 DEF W!SaveFailed
  <2> QED BY <1>0, <1>5, <2>1, <2>2, WTellings DEF WInv
<1>6. CASE W!Dies
  <2>1. WTyped' /\ WOwned' BY <1>0, <1>6, WDeaths
  <2> QED BY <2>1, <1>6 DEF WInv, W!Dies
<1>7. ASSUME NEW o \in Options, W!Moves(o) PROVE WInv'
  <2>1. WTyped' /\ WOwned' BY <1>0, <1>7, WMoves
  <2>2. ~w_excused' => WTrue' BY <1>7, WFrame DEF WInv, W!Moves, W!queue
  <2> QED BY <2>1, <2>2 DEF WInv
<1>8. CASE UNCHANGED wikipedia
  <2>1. UNCHANGED <<w_listed, w_row, w_disk, w_temp, w_job, w_run, w_key, w_events, w_tellers, w_ask, w_cancel,
                    w_page, w_used, w_excused>>
    BY <1>8 DEF wikipedia
  <2>2. WTyped' /\ WOwned' BY <1>0, <2>1 DEF WTyped, WOwned, WOwns, W!UnderWay
  <2>3. ~w_excused' => WTrue' BY <2>1, WFrame DEF WInv
  <2> QED BY <2>2, <2>3 DEF WInv
<1> QED BY <1>1, <1>2, <1>3, <1>4, <1>5, <1>6, <1>7, <1>8 DEF W!Next, WRequested, WRan, WAsked
----------------------------------------------------------------------------
(* The list of packages *)

\* The i-th results of a search, from one after a up to b, are in a list once each, but for what
\* is installed; and nothing else is in it.
EHolds(items, a, b) ==
    /\ \A e \in E!Entry : items[e] \in {0, 1}
    /\ \A e \in E!Entry : items[e] = 1 => \E i \in a + 1 .. b : e = E!Result(e_query, i)
    /\ \A i \in a + 1 .. b :
          \/ e_excused \/ E!Result(e_query, i) \in e_installed
          \/ items[E!Result(e_query, i)] = 1

\* The list goes as far as its offset, and the request for more from there to its own.
EList ==
    /\ e_list.next <= E!Found(e_query) /\ EHolds(e_list.items, 0, e_list.next)
    /\ IF e_list.loaded THEN e_list.more <=> e_list.next < E!Found(e_query)
       ELSE e_list = E!Unloaded
EReq ==
    e_req.on =>
        /\ e_req.q = e_query /\ e_list.next <= e_req.start /\ e_req.start <= E!Found(e_query)
        /\ e_excused \/ e_req.had \subseteq e_installed
        /\ EHolds(e_req.acc, e_list.next, e_req.start)
        /\ e_req.over \/ e_req.fetched < MaxFetches
\* What is always so of the list.
EInv == E!TypeOK /\ EList /\ EReq

\* The results of a search are packages, and no package is there twice.
LEMMA EResults ==
    ASSUME NEW q
    PROVE  /\ E!Found(q) \in 0 .. Total
           /\ \A i \in 1 .. E!Found(q) : E!Result(q, i) \in E!Entry
           /\ \A i, j \in 1 .. E!Found(q) : E!Result(q, i) = E!Result(q, j) => i = j
<1>1. CASE q = ""
  <2>1. E!Found(q) = Total /\ \A i : E!Result(q, i) = i BY <1>1 DEF E!Found, E!Result
  <2> QED BY <2>1, Bounds DEF E!Entry
<1>2. CASE q # ""
  <2>1. E!Found(q) = Total \div 2 /\ \A i : E!Result(q, i) = 2 * i BY <1>2 DEF E!Found, E!Result
  <2>2. Total \div 2 \in 0 .. Total /\ 2 * (Total \div 2) <= Total BY Bounds
  <2> QED BY <2>1, <2>2, Bounds DEF E!Entry
<1> QED BY <1>1, <1>2

\* The invariant has the types in it,
LEMMA ETypes == EInv => E!TypeOK BY DEF EInv

\* and a list that has been loaded to its end has everything once.
LEMMA ENothingMissed == EInv => E!NothingMissed
<1> SUFFICES ASSUME EInv, e_list.loaded, ~e_list.more PROVE E!NothingMissed BY DEF E!NothingMissed
<1>1. E!Found(e_query) \in 0 .. Total BY EResults
<1>2. e_list.next = E!Found(e_query) /\ EHolds(e_list.items, 0, e_list.next)
  BY <1>1, Bounds DEF EInv, EList, E!TypeOK
<1>3. \A e \in E!Entry : e_list.items[e] <= 1 BY <1>2 DEF EHolds
<1> QED BY <1>2, <1>3 DEF EHolds, E!NothingMissed

\* It is so at first.
LEMMA EInit == E!Init => EInv
<1> SUFFICES ASSUME E!Init PROVE EInv OBVIOUS
<1>1. E!Found(e_query) \in 0 .. Total BY EResults
<1>2. E!NoItems \in [E!Entry -> Nat] /\ \A e \in E!Entry : E!NoItems[e] = 0 BY DEF E!NoItems
<1>3. E!TypeOK
  <2>1. 0 \in 0 .. MaxFetches /\ 0 \in 0 .. Total /\ 0 \in 0 .. ListAsked /\ 0 \in 0 .. MaxFaults
    BY Bounds, MCLibraryAssumption
  <2>2. E!NoReq \in [on: BOOLEAN, q: E!Queries, start: 0 .. Total, had: SUBSET E!Entry,
                     acc: [E!Entry -> Nat], fetched: 0 .. MaxFetches, over: BOOLEAN]
    BY <1>2, <2>1 DEF E!NoReq, E!Queries
  <2>3. E!Unloaded \in [loaded: BOOLEAN, items: [E!Entry -> Nat], next: 0 .. Total, more: BOOLEAN]
    BY <1>2, <2>1 DEF E!Unloaded
  <2> QED BY <2>1, <2>2, <2>3 DEF E!Init, E!TypeOK, E!Queries
<1>4. EList
  <2>1. e_list = E!Unloaded /\ e_list.next = 0 /\ e_list.items = E!NoItems /\ e_list.loaded = FALSE
    BY DEF E!Init, E!Unloaded
  <2>2. EHolds(E!NoItems, 0, 0) BY <1>2 DEF EHolds
  <2> QED BY <1>1, <2>1, <2>2 DEF EList
<1>5. EReq BY DEF E!Init, EReq, E!NoReq
<1> QED BY <1>3, <1>4, <1>5 DEF EInv

\* Clicks and downloads are counted up to their bounds.
LEMMA EUsed ==
    ASSUME E!TypeOK, E!Asked \/ E!Fault \/ E!Normally
    PROVE  e_used' \in [asked: 0 .. ListAsked, faults: 0 .. MaxFaults]
<1>1. e_used \in [asked: 0 .. ListAsked, faults: 0 .. MaxFaults] BY DEF E!TypeOK
<1>2. CASE E!Asked
  <2>1. e_used.asked + 1 \in 0 .. ListAsked BY <1>1, <1>2, Bounds DEF E!Asked
  <2> QED BY <1>1, <1>2, <2>1 DEF E!Asked
<1>3. CASE E!Fault
  <2>1. e_used.faults + 1 \in 0 .. MaxFaults BY <1>1, <1>3, Bounds DEF E!Fault
  <2> QED BY <1>1, <1>3, <2>1 DEF E!Fault
<1>4. CASE E!Normally BY <1>1, <1>4 DEF E!Normally
<1> QED BY <1>2, <1>3, <1>4

\* What is in a list stays right when packages are installed, and when any is taken away.
LEMMA EKeeps ==
    ASSUME NEW items, NEW a, NEW b, EHolds(items, a, b), e_query' = e_query,
           e_excused => e_excused', e_installed \subseteq e_installed' \/ e_excused'
    PROVE  EHolds(items, a, b)'
BY DEF EHolds

\* Steps that leave the search, the list and the request for more of it alone.
LEMMA EApart ==
    ASSUME EInv, UNCHANGED <<e_typed, e_query, e_list, e_req>>,
           e_job' \in [E!Entry -> {"none", "active", "failed"}],
           e_polled' \in [E!Entry -> {"none", "active", "failed"}],
           e_confirming' \in 0 .. Total, e_cancelling' \subseteq E!Entry, e_excused' \in BOOLEAN,
           e_installed' \subseteq E!Entry, E!Asked \/ E!Fault \/ E!Normally,
           e_excused => e_excused', e_installed \subseteq e_installed' \/ e_excused'
    PROVE  EInv'
<1>t. E!TypeOK BY DEF EInv
<1>1. e_used' \in [asked: 0 .. ListAsked, faults: 0 .. MaxFaults] BY <1>t, EUsed
<1>2. E!TypeOK' BY <1>1, <1>t DEF E!TypeOK
<1>3. EList'
  <2>1. EHolds(e_list.items, 0, e_list.next)' BY EKeeps DEF EInv, EList
  <2> QED BY <2>1 DEF EInv, EList
<1>4. EReq'
  <2> SUFFICES ASSUME e_req.on PROVE EReq' BY DEF EReq
  <2>1. EHolds(e_req.acc, e_list.next, e_req.start)' BY EKeeps DEF EInv, EReq
  <2> QED BY <2>1 DEF EInv, EReq
<1> QED BY <1>2, <1>3, <1>4 DEF EInv

\* What is installed and downloaded excuses what the list has not noticed.
LEMMA EDownloads ==
    ASSUME EInv,
           \/ E!Poll \/ E!Keep
           \/ \E e \in E!Entry : \/ E!Download(e) \/ E!Finish(e) \/ E!Dismiss(e) \/ E!Confirm(e)
                                  \/ E!Cancel(e) \/ E!Cancelled(e)
    PROVE  EInv'
<1>t. E!TypeOK BY DEF EInv
<1>1. CASE E!Poll
  BY <1>1, <1>t, EApart DEF E!Poll, E!TypeOK, E!searched, E!listing
<1>2. CASE E!Keep
  BY <1>2, <1>t, EApart, Bounds DEF E!Keep, E!TypeOK, E!searched, E!listing
<1>3. ASSUME NEW e \in E!Entry, E!Download(e) PROVE EInv'
  BY <1>3, <1>t, EApart DEF E!Download, E!TypeOK, E!searched, E!listing, E!downloads
<1>4. ASSUME NEW e \in E!Entry, E!Finish(e) PROVE EInv'
  BY <1>4, <1>t, EApart DEF E!Finish, E!TypeOK, E!searched, E!listing, E!downloads
<1>5. ASSUME NEW e \in E!Entry, E!Dismiss(e) PROVE EInv'
  <2>1. e_job' \in [E!Entry -> {"none", "active", "failed"}] /\ e_polled' = e_job'
    BY <1>5, <1>t DEF E!Dismiss, E!TypeOK
  <2> QED BY <1>5, <2>1, <1>t, EApart DEF E!Dismiss, E!TypeOK, E!searched, E!listing
<1>6. ASSUME NEW e \in E!Entry, E!Confirm(e) PROVE EInv'
  <2>1. e \in 0 .. Total BY Bounds DEF E!Entry
  <2> QED BY <1>6, <2>1, <1>t, EApart DEF E!Confirm, E!TypeOK, E!searched, E!listing
<1>7. ASSUME NEW e \in E!Entry, E!Cancel(e) PROVE EInv'
  BY <1>7, <1>t, EApart, Bounds DEF E!Cancel, E!TypeOK, E!searched, E!listing
<1>8. ASSUME NEW e \in E!Entry, E!Cancelled(e) PROVE EInv'
  <2>1. e_job' \in [E!Entry -> {"none", "active", "failed"}] /\ e_polled' = e_job'
        /\ e_installed' \subseteq E!Entry /\ e_excused' \in BOOLEAN
        /\ (e_excused => e_excused') /\ (e_installed \subseteq e_installed' \/ e_excused')
    BY <1>8, <1>t DEF E!Cancelled, E!TypeOK
  <2> QED BY <1>8, <2>1, <1>t, EApart DEF E!Cancelled, E!TypeOK, E!searched, E!listing
<1> QED BY <1>1, <1>2, <1>3, <1>4, <1>5, <1>6, <1>7, <1>8

\* A request for more begins where the list ends.
LEMMA EAsks ==
    ASSUME EInv, E!FirstPage \/ E!FetchOnBottom \/ E!Scroll
    PROVE  EInv'
<1>t. E!TypeOK BY DEF EInv
<1>n. e_list.next \in 0 .. Total /\ e_query \in E!Queries /\ e_installed \subseteq E!Entry
      /\ e_list.next <= E!Found(e_query)
  BY <1>t DEF E!TypeOK, EInv, EList
<1>1. E!Ask(e_list.next)
  <2>1. CASE E!FirstPage
    <3>1. e_list = E!Unloaded BY <2>1 DEF E!FirstPage, EInv, EList
    <3> QED BY <2>1, <3>1 DEF E!FirstPage, E!Unloaded
  <2>2. CASE E!FetchOnBottom BY <2>2 DEF E!FetchOnBottom
  <2>3. CASE E!Scroll BY <2>3 DEF E!Scroll
  <2> QED BY <2>1, <2>2, <2>3
<1>2. UNCHANGED <<e_installed, e_job, e_typed, e_query, e_list, e_polled, e_confirming, e_cancelling, e_excused>>
  BY DEF E!FirstPage, E!FetchOnBottom, E!Scroll, E!searched, E!downloads
<1>3. e_used' \in [asked: 0 .. ListAsked, faults: 0 .. MaxFaults]
  BY <1>t, EUsed DEF E!FirstPage, E!FetchOnBottom, E!Scroll
<1>4. e_req' = [on |-> TRUE, q |-> e_query, start |-> e_list.next, had |-> e_installed,
                acc |-> E!NoItems, fetched |-> 0, over |-> FALSE]
  BY <1>1 DEF E!Ask, E!NoReq
<1>5. E!NoItems \in [E!Entry -> Nat] /\ \A e \in E!Entry : E!NoItems[e] = 0 BY DEF E!NoItems
<1>6. E!TypeOK'
  <2>1. 0 \in 0 .. MaxFetches BY MCLibraryAssumption
  <2>2. e_req' \in [on: BOOLEAN, q: E!Queries, start: 0 .. Total, had: SUBSET E!Entry,
                    acc: [E!Entry -> Nat], fetched: 0 .. MaxFetches, over: BOOLEAN]
    BY <1>4, <1>5, <1>n, <2>1
  <2> QED BY <2>2, <1>2, <1>3, <1>t DEF E!TypeOK
<1>7. EList' BY <1>2 DEF EInv, EList, EHolds
<1>8. EReq'
  <2>1. EHolds(E!NoItems, e_list.next, e_list.next)' 
    <3>1. e_list.next \in Nat BY <1>n, Bounds
    <3>2. \A i \in e_list.next + 1 .. e_list.next : FALSE BY <3>1
    <3> QED BY <1>2, <1>5, <3>2 DEF EHolds
  <2>2. 0 < MaxFetches BY MCLibraryAssumption
  <2> QED BY <1>2, <1>4, <1>n, <2>1, <2>2 DEF EReq
<1> QED BY <1>6, <1>7, <1>8 DEF EInv

\* A request that is given up, and the list of another search.
LEMMA EDrops == ASSUME EInv, E!FetchFails \/ E!Search \/ \E q \in E!Queries : E!Type(q) PROVE EInv'
<1>t. E!TypeOK BY DEF EInv
<1>0. e_used' \in [asked: 0 .. ListAsked, faults: 0 .. MaxFaults]
  BY <1>t, EUsed DEF E!FetchFails, E!Search, E!Type
<1>i. E!NoItems \in [E!Entry -> Nat] /\ \A e \in E!Entry : E!NoItems[e] = 0 BY DEF E!NoItems
<1>z. 0 \in 0 .. MaxFetches /\ 0 \in 0 .. Total BY Bounds, MCLibraryAssumption
<1>r. E!NoReq \in [on: BOOLEAN, q: E!Queries, start: 0 .. Total, had: SUBSET E!Entry,
                   acc: [E!Entry -> Nat], fetched: 0 .. MaxFetches, over: BOOLEAN] /\ ~E!NoReq.on
  BY <1>i, <1>z DEF E!NoReq, E!Queries
<1>1. CASE E!FetchFails
  <2>1. e_req' = E!NoReq /\ UNCHANGED <<e_installed, e_job, e_typed, e_query, e_list, e_polled,
                                       e_confirming, e_cancelling, e_excused>>
    BY <1>1 DEF E!FetchFails, E!searched, E!downloads
  <2>2. E!TypeOK' BY <2>1, <1>0, <1>r, <1>t DEF E!TypeOK
  <2>3. EList' BY <2>1 DEF EInv, EList, EHolds
  <2>4. EReq' BY <2>1, <1>r DEF EReq
  <2> QED BY <2>2, <2>3, <2>4 DEF EInv
<1>2. CASE E!Search
  <2>1. e_req' = E!NoReq /\ e_list' = E!Unloaded /\ e_query' = e_typed
        /\ UNCHANGED <<e_installed, e_job, e_typed, e_polled, e_confirming, e_cancelling, e_excused>>
    BY <1>2 DEF E!Search, E!downloads
  <2>2. E!Unloaded \in [loaded: BOOLEAN, items: [E!Entry -> Nat], next: 0 .. Total, more: BOOLEAN]
    BY <1>i, <1>z DEF E!Unloaded
  <2>3. E!TypeOK' BY <2>1, <2>2, <1>0, <1>r, <1>t DEF E!TypeOK
  <2>4. EList'
    <3>1. e_list'.next = 0 /\ e_list'.items = E!NoItems /\ e_list'.loaded = FALSE
      BY <2>1 DEF E!Unloaded
    <3>2. EHolds(E!NoItems, 0, 0)' BY <1>i DEF EHolds
    <3>3. E!Found(e_query') \in 0 .. Total BY EResults
    <3> QED BY <2>1, <3>1, <3>2, <3>3 DEF EList
  <2>5. EReq' BY <2>1, <1>r DEF EReq
  <2> QED BY <2>3, <2>4, <2>5 DEF EInv
<1>3. ASSUME NEW q \in E!Queries, E!Type(q) PROVE EInv'
  <2>1. e_typed' = q /\ UNCHANGED <<e_installed, e_job, e_query, e_list, e_req, e_polled,
                                    e_confirming, e_cancelling, e_excused>>
    BY <1>3 DEF E!Type, E!listing, E!downloads
  <2>2. E!TypeOK' BY <2>1, <1>0, <1>t DEF E!TypeOK
  <2>3. EList' /\ EReq' BY <2>1 DEF EInv, EList, EReq, EHolds
  <2> QED BY <2>2, <2>3 DEF EInv
<1> QED BY <1>1, <1>2, <1>3

\* The answer comes to the end of the list.
LEMMA EDeliver == ASSUME EInv, E!Deliver PROVE EInv'
<1>t. E!TypeOK BY DEF EInv
<1>0. e_used' \in [asked: 0 .. ListAsked, faults: 0 .. MaxFaults] BY <1>t, EUsed DEF E!Deliver
<1>1. /\ e_req.on /\ e_req' = E!NoReq
      /\ UNCHANGED <<e_installed, e_job, e_typed, e_query, e_polled, e_confirming, e_cancelling, e_excused>>
  BY DEF E!Deliver, E!searched, E!downloads
<1> DEFINE a == e_list.next
           b == e_req.start
           items == [e \in E!Entry |-> e_list.items[e] + e_req.acc[e]]
<1>2. e_req.q = e_query /\ a <= b /\ b <= E!Found(e_query)
      /\ EHolds(e_req.acc, a, b) /\ EHolds(e_list.items, 0, a)
  BY <1>1 DEF EInv, EList, EReq
<1>3. e_list' = [loaded |-> TRUE, items |-> items, next |-> b, more |-> b < E!Found(e_query)]
  BY <1>2 DEF E!Deliver
<1>4. a \in 0 .. Total /\ b \in 0 .. Total /\ E!Found(e_query) \in 0 .. Total
      /\ e_list.items \in [E!Entry -> Nat] /\ e_req.acc \in [E!Entry -> Nat]
  BY <1>t, EResults DEF E!TypeOK
<1>5. items \in [E!Entry -> Nat]
  <2>1. \A e \in E!Entry : e_list.items[e] + e_req.acc[e] \in Nat BY <1>4
  <2> QED BY <2>1
<1>6. E!TypeOK'
  <2>1. E!NoReq \in [on: BOOLEAN, q: E!Queries, start: 0 .. Total, had: SUBSET E!Entry,
                     acc: [E!Entry -> Nat], fetched: 0 .. MaxFetches, over: BOOLEAN]
    <3>1. 0 \in 0 .. MaxFetches /\ 0 \in 0 .. Total BY Bounds, MCLibraryAssumption
    <3> QED BY <3>1 DEF E!NoReq, E!Queries, E!NoItems
  <2>2. e_list' \in [loaded: BOOLEAN, items: [E!Entry -> Nat], next: 0 .. Total, more: BOOLEAN]
    <3> HIDE DEF items, b
    <3> QED BY <1>3, <1>4, <1>5
  <2> QED BY <2>1, <2>2, <1>0, <1>1, <1>t DEF E!TypeOK
<1>7. EHolds(items, 0, b)
  <2>1. ASSUME NEW e \in E!Entry PROVE ~(e_list.items[e] = 1 /\ e_req.acc[e] = 1)
    <3> SUFFICES ASSUME e_list.items[e] = 1, e_req.acc[e] = 1 PROVE FALSE OBVIOUS
    <3>1. PICK i \in 0 + 1 .. a : e = E!Result(e_query, i) BY <1>2 DEF EHolds
    <3>2. PICK j \in a + 1 .. b : e = E!Result(e_query, j) BY <1>2 DEF EHolds
    <3>3. i \in 1 .. E!Found(e_query) /\ j \in 1 .. E!Found(e_query) /\ i # j
      BY <1>2, <1>4, <3>1, <3>2
    <3> QED BY <3>1, <3>2, <3>3, EResults
  <2>2. \A e \in E!Entry : items[e] \in {0, 1} BY <2>1, <1>2 DEF EHolds
  <2>3. ASSUME NEW e \in E!Entry, items[e] = 1 PROVE \E i \in 0 + 1 .. b : e = E!Result(e_query, i)
    <3>1. e_list.items[e] = 1 \/ e_req.acc[e] = 1 BY <1>2, <2>3 DEF EHolds
    <3>2. \A i : i \in 0 + 1 .. a \/ i \in a + 1 .. b => i \in 0 + 1 .. b BY <1>2, <1>4
    <3> QED BY <3>1, <3>2, <1>2 DEF EHolds
  <2>4. ASSUME NEW i \in 0 + 1 .. b
        PROVE  \/ e_excused \/ E!Result(e_query, i) \in e_installed
               \/ items[E!Result(e_query, i)] = 1
    <3>1. i \in 0 + 1 .. a \/ i \in a + 1 .. b BY <1>2, <1>4
    <3>2. E!Result(e_query, i) \in E!Entry
      <4>1. i \in 1 .. E!Found(e_query) BY <1>2, <1>4
      <4> QED BY <4>1, EResults
    <3>3. \/ e_excused \/ E!Result(e_query, i) \in e_installed
          \/ e_list.items[E!Result(e_query, i)] = 1 \/ e_req.acc[E!Result(e_query, i)] = 1
      BY <3>1, <1>2 DEF EHolds
    <3>4. e_list.items[E!Result(e_query, i)] \in {0, 1} /\ e_req.acc[E!Result(e_query, i)] \in {0, 1}
      BY <3>2, <1>2 DEF EHolds
    <3> QED BY <2>1, <3>2, <3>3, <3>4
  <2> HIDE DEF items
  <2> QED BY <2>2, <2>3, <2>4 DEF EHolds
<1> HIDE DEF items
<1>8. EList'
  <2>1. e_list'.items = items /\ e_list'.next = b /\ e_list'.loaded /\ e_list'.more = (b < E!Found(e_query))
    BY <1>3
  <2> HIDE DEF b
  <2>2. EHolds(e_list.items, 0, e_list.next)' BY <1>1, <1>7, <2>1 DEF EHolds
  <2> QED BY <1>1, <1>2, <2>1, <2>2 DEF EList
<1>9. EReq' BY <1>1 DEF EReq, E!NoReq
<1> QED BY <1>6, <1>8, <1>9 DEF EInv

\* A page of the library: what of it is wanted is in the answer, once.
LEMMA EFetch == ASSUME EInv, E!Fetch PROVE EInv'
<1>t. E!TypeOK BY DEF EInv
<1> DEFINE found == E!Found(e_req.q)
           Page(n) == {E!Result(e_req.q, i) : i \in e_req.start + 1 .. e_req.start + n}
           Wanted(e) == e \notin e_req.had /\ e_req.acc[e] = 0
           Acc(n) == [e \in E!Entry |-> IF e \in Page(n) /\ Wanted(e) THEN 1 ELSE e_req.acc[e]]
<1>1. PICK n \in 0 .. PageSize :
        /\ e_req.start + n <= found
        /\ E!Normally \/ E!Fault
        /\ e_req' = [e_req EXCEPT !.acc = Acc(n), !.start = e_req.start + n, !.fetched = @ + 1,
                                  !.over = \/ n = 0 \/ E!Size(Acc(n)) >= Count
                                           \/ e_req.start + n >= found \/ E!LastFetch]
  BY DEF E!Fetch, E!Advanced
<1>2. e_req.on /\ ~e_req.over
      /\ UNCHANGED <<e_installed, e_job, e_typed, e_query, e_list, e_polled, e_confirming, e_cancelling, e_excused>>
  BY DEF E!Fetch, E!searched, E!downloads
<1> DEFINE a == e_list.next
           b == e_req.start
           acc == Acc(n)
           over == \/ n = 0 \/ E!Size(acc) >= Count \/ b + n >= found \/ E!LastFetch
<1>3. /\ e_req.q = e_query /\ a <= b /\ EHolds(e_req.acc, a, b) /\ e_req.fetched < MaxFetches
      /\ e_excused \/ e_req.had \subseteq e_installed
  BY <1>2 DEF EInv, EReq
<1>4. /\ a \in Nat /\ b \in Nat /\ n \in Nat /\ found \in 0 .. Total /\ b + n \in 0 .. Total
      /\ e_req.fetched \in Nat /\ e_req.fetched + 1 \in 0 .. MaxFetches
  <2>1. found \in 0 .. Total BY EResults
  <2> HIDE DEF found
  <2>2. a \in 0 .. Total /\ b \in 0 .. Total /\ e_req.fetched \in 0 .. MaxFetches BY <1>t DEF E!TypeOK
  <2>3. MaxFetches \in Nat BY MCLibraryAssumption
  <2> QED BY <2>1, <2>2, <2>3, <1>1, <1>3, Bounds
<1>5. e_used' \in [asked: 0 .. ListAsked, faults: 0 .. MaxFaults] BY <1>t, <1>1, EUsed
<1>6. \A i \in b + 1 .. b + n : E!Result(e_query, i) \in Page(n) BY <1>3
<1>7. \A e \in E!Entry : acc[e] = IF e \in Page(n) /\ Wanted(e) THEN 1 ELSE e_req.acc[e]
  OBVIOUS
<1>8. acc \in [E!Entry -> Nat] BY <1>t DEF E!TypeOK
<1>9. EHolds(acc, a, b + n)
  <2> HIDE DEF acc, Acc
  <2>1. \A e \in E!Entry : acc[e] \in {0, 1} BY <1>3, <1>7 DEF EHolds
  <2>2. ASSUME NEW e \in E!Entry, acc[e] = 1 PROVE \E i \in a + 1 .. b + n : e = E!Result(e_query, i)
    <3>1. CASE e \in Page(n)
      <4>1. PICK i \in b + 1 .. b + n : e = E!Result(e_query, i) BY <3>1, <1>3
      <4>2. i \in a + 1 .. b + n BY <1>3, <1>4
      <4> QED BY <4>1, <4>2
    <3>2. CASE e_req.acc[e] = 1
      <4>1. PICK i \in a + 1 .. b : e = E!Result(e_query, i) BY <3>2, <1>3 DEF EHolds
      <4>2. i \in a + 1 .. b + n BY <1>3, <1>4
      <4> QED BY <4>1, <4>2
    <3> QED BY <2>2, <3>1, <3>2, <1>7
  <2>3. ASSUME NEW i \in a + 1 .. b + n
        PROVE  \/ e_excused \/ E!Result(e_query, i) \in e_installed
               \/ acc[E!Result(e_query, i)] = 1
    <3> DEFINE e == E!Result(e_query, i)
    <3>1. e \in E!Entry
      <4>1. i \in 1 .. found BY <1>1, <1>3, <1>4
      <4> QED BY <4>1, <1>3, EResults
    <3>2. CASE i \in a + 1 .. b BY <3>1, <3>2, <1>3, <1>7 DEF EHolds
    <3>3. CASE i \in b + 1 .. b + n
      <4>1. e \in Page(n) BY <3>3, <1>6
      <4>2. e_req.acc[e] \in {0, 1} BY <3>1, <1>3 DEF EHolds
      <4>3. acc[e] = 1 \/ e \in e_req.had BY <4>1, <4>2, <3>1, <1>7
      <4> QED BY <4>3, <1>3
    <3>4. i \in a + 1 .. b \/ i \in b + 1 .. b + n BY <1>3, <1>4
    <3> QED BY <3>2, <3>3, <3>4
  <2> QED BY <2>1, <2>2, <2>3 DEF EHolds
<1>10. /\ e_req' = [e_req EXCEPT !.acc = acc, !.start = b + n, !.fetched = @ + 1, !.over = over]
  BY <1>1
<1>11. over \in BOOLEAN /\ (over \/ e_req.fetched + 1 < MaxFetches)
  <2>1. E!LastFetch = (e_req.fetched + 1 = MaxFetches) BY DEF E!LastFetch
  <2>2. MaxFetches \in Nat BY MCLibraryAssumption
  <2>3. E!LastFetch \/ e_req.fetched + 1 < MaxFetches
    <3>1. e_req.fetched + 1 = MaxFetches \/ e_req.fetched + 1 < MaxFetches
      <4> DEFINE m == e_req.fetched
      <4>1. m \in Nat /\ m < MaxFetches BY <1>3, <1>4
      <4> HIDE DEF m
      <4>2. m + 1 = MaxFetches \/ m + 1 < MaxFetches BY <4>1, <2>2
      <4> QED BY <4>2 DEF m
    <3> QED BY <2>1, <3>1
  <2>4. E!LastFetch => over OBVIOUS
  <2>5. over \in BOOLEAN OBVIOUS
  <2> HIDE DEF over
  <2> QED BY <2>3, <2>4, <2>5
<1> HIDE DEF acc, Acc, over, Page, Wanted
<1>12. /\ e_req'.on /\ e_req'.q = e_req.q /\ e_req'.start = b + n /\ e_req'.had = e_req.had
       /\ e_req'.acc = acc /\ e_req'.fetched = e_req.fetched + 1 /\ e_req'.over = over
       /\ e_req' \in [on: BOOLEAN, q: E!Queries, start: 0 .. Total, had: SUBSET E!Entry,
                      acc: [E!Entry -> Nat], fetched: 0 .. MaxFetches, over: BOOLEAN]
  <2>1. e_req \in [on: BOOLEAN, q: E!Queries, start: 0 .. Total, had: SUBSET E!Entry,
                   acc: [E!Entry -> Nat], fetched: 0 .. MaxFetches, over: BOOLEAN]
    BY <1>t DEF E!TypeOK
  <2> HIDE DEF b
  <2> QED BY <2>1, <1>2, <1>4, <1>8, <1>10, <1>11
<1>13. E!TypeOK' BY <1>2, <1>5, <1>12, <1>t DEF E!TypeOK
<1>14. EList' BY <1>2 DEF EInv, EList, EHolds
<1>15. EReq'
  <2>1. EHolds(e_req.acc, e_list.next, e_req.start)' BY <1>2, <1>9, <1>12 DEF EHolds
  <2>2. e_req'.q = e_query' /\ e_req'.start <= E!Found(e_query') /\ e_list'.next <= e_req'.start
    BY <1>1, <1>2, <1>3, <1>4, <1>12
  <2>3. e_excused' \/ e_req'.had \subseteq e_installed' BY <1>2, <1>3, <1>12
  <2>4. e_req'.over \/ e_req'.fetched < MaxFetches BY <1>11, <1>12
  <2> QED BY <2>1, <2>2, <2>3, <2>4 DEF EReq
<1> QED BY <1>13, <1>14, <1>15 DEF EInv

\* Every step keeps the invariant.
LEMMA EStep == ASSUME EInv, E!Next \/ UNCHANGED explorer PROVE EInv'
<1>1. CASE E!Next
  BY <1>1, EDownloads, EAsks, EDrops, EDeliver, EFetch DEF E!Next, E!Page, E!Request
<1>2. CASE UNCHANGED explorer
  BY <1>2 DEF explorer, EInv, E!TypeOK, EList, EReq, EHolds
<1> QED BY <1>1, <1>2
----------------------------------------------------------------------------
(* Local life *)

\* The requests there can be: what they name is there to be named.
LCall ==
    [op: {"idle", "create", "update", "delete", "load", "remind", "toggle", "dashboard", "upload", "remove"},
     at: {"sent", "file", "row", "copied", "done", "failed"}, page: LifePages \cup {"dashboard", "api"},
     id: 0 .. LifeCalls + 1, text: Texts \cup {"none", "open", "done"}, also: BOOLEAN]
LWell(e) ==
    /\ e.op \in {"update", "delete"} => e.page \in LifePages /\ e.id \in L!Ids
    /\ e.op \in {"create", "update"} => e.text \in Texts
    /\ e.op = "load" => e.page \in LifePages
    /\ e.op = "toggle" => e.id \in L!Ids /\ e.text = "done"
    /\ e.op = "remove" => e.id \in L!Ids
    /\ e.op = "upload" /\ e.at \in {"file", "row"} => e.id \in L!Ids
    /\ e.at = "file" => e.op \in {"upload", "remove"}
    /\ e.at = "row" => e.op \in {"create", "upload"}
LCalls ==
    \A c \in 1 .. LifeCalls :
        /\ LWell(l_calls[c])
        /\ c > l_used.calls => l_calls[c].op = "idle"

\* A list, a form and a request to update have a text of the row they are about.
LTexts ==
    /\ \A p \in LifePages, i \in L!Ids : l_list[p][i] \in l_typed[p][i] \cup {"none"}
    /\ \A p \in LifePages : l_form[p].id # 0 /\ l_form[p].text # "none" =>
           l_form[p].text \in l_typed[p][l_form[p].id]
LUpdates ==
    \A c \in 1 .. LifeCalls : l_calls[c].op = "update" =>
        l_calls[c].text \in l_typed[l_calls[c].page][l_calls[c].id]

\* A document between its file and its row has one upload that is at it; one whose file is being
\* removed has no file any more.
LAt(c, op) == l_calls[c].op = op /\ l_calls[c].at = "file"
LDocs ==
    /\ \A d \in L!Ids : l_docs[d].file = "new" => ~l_docs[d].row
    /\ \A c \in 1 .. LifeCalls : LAt(c, "upload") =>
           l_docs[l_calls[c].id].file = "stored" /\ ~l_docs[l_calls[c].id].row
    /\ \A c \in 1 .. LifeCalls : LAt(c, "remove") => l_docs[l_calls[c].id].file = "gone"
    /\ \A c, b \in 1 .. LifeCalls :
           c # b /\ LAt(c, "upload") /\ LAt(b, "upload") => l_calls[c].id # l_calls[b].id
\* What is always so of local life.
LInv ==
    /\ L!TypeOK /\ LCalls /\ LTexts /\ LUpdates /\ LDocs
    /\ L!RowsKeepTheirText /\ L!RowHasFile

\* A row loses none of the texts that were meant for it.
LGrows == \A p \in LifePages, i \in L!Ids : l_typed[p][i] \subseteq l_typed'[p][i]
LUsed == [calls: 0 .. LifeCalls, clicks: 0 .. LifeClicks, faults: 0 .. MaxFaults]

\* It is so at first.
LEMMA LInit == L!Init => LInv
<1> SUFFICES ASSUME L!Init PROVE LInv OBVIOUS
<1> USE DEF L!None
<1>n. /\ 1 \in L!Ids /\ "none" \notin Texts /\ "notes" \in LifePages /\ LifePages \cap {"dashboard", "api"} = {}
      /\ 0 \in 0 .. LifeCalls + 1 /\ 0 \in 0 .. LifeCalls /\ 0 \in 0 .. LifeClicks /\ 0 \in 0 .. MaxFaults
      /\ \A i \in L!Ids : i \in 0 .. LifeCalls + 1 /\ i # 0
  BY MCLibraryAssumption, Bounds DEF L!Ids
<1>1. PICK t \in Texts \cup {"none"} :
        /\ l_rows = [p \in LifePages |-> [i \in L!Ids |-> IF i = 1 THEN t ELSE "none"]]
        /\ l_typed = [p \in LifePages |-> [i \in L!Ids |-> {l_rows[p][i]} \ {"none"}]]
        /\ l_reminders = [i \in L!Ids |-> IF i = 1 /\ t # "none" THEN "open" ELSE "none"]
        /\ l_docs = [i \in L!Ids |-> IF i = 1 /\ t # "none" THEN [file |-> "stored", row |-> TRUE, copy |-> FALSE]
                                     ELSE [file |-> "new", row |-> FALSE, copy |-> FALSE]]
  BY DEF L!Init
<1>2. /\ l_form = [p \in LifePages |-> [id |-> 0, text |-> "none"]] /\ l_list = l_rows
      /\ l_shown = {i \in L!Ids : l_reminders[i] = "open"}
      /\ l_uploading = FALSE /\ l_calls = [c \in 1 .. LifeCalls |-> L!NoCall]
      /\ l_used = [calls |-> 0, clicks |-> 0, faults |-> 0]
  BY DEF L!Init, L!EmptyForm
<1>3. L!NoCall \in LCall /\ LWell(L!NoCall) /\ L!NoCall.op = "idle" /\ L!NoCall.at = "sent"
  BY <1>n DEF L!NoCall, LCall, LWell
<1>4. \A p \in LifePages, i \in L!Ids : l_rows[p][i] \in Texts \cup {"none"} /\ l_typed[p][i] = {l_rows[p][i]} \ {"none"}
  BY <1>1
<1>5. l_rows \in [LifePages -> [L!Ids -> Texts \cup {"none"}]] BY <1>1
<1>6. l_typed \in [LifePages -> [L!Ids -> SUBSET Texts]]
  <2>1. \A p \in LifePages, i \in L!Ids : ({l_rows[p][i]} \ {"none"}) \in SUBSET Texts BY <1>4
  <2> QED BY <1>1, <2>1
<1>7. L!TypeOK BY <1>n, <1>1, <1>2, <1>3, <1>5, <1>6 DEF L!TypeOK, LCall
<1>8. LCalls BY <1>2, <1>3 DEF LCalls
<1>9. LTexts /\ L!RowsKeepTheirText BY <1>2, <1>4 DEF LTexts, L!RowsKeepTheirText
<1>10. LUpdates BY <1>2, <1>3 DEF LUpdates
<1>11. LDocs BY <1>1, <1>2, <1>3 DEF LDocs, LAt
<1>12. L!RowHasFile BY <1>1 DEF L!RowHasFile
<1> QED BY <1>7, <1>8, <1>9, <1>10, <1>11, <1>12 DEF LInv

\* A step that changes one request, and is not at the file of a document.
LEMMA LOneCall ==
    ASSUME LInv, NEW c \in 1 .. LifeCalls, NEW e \in LCall, LWell(e),
           l_calls' = [l_calls EXCEPT ![c] = e], l_calls[c].at # "file", e.at # "file",
           l_used' \in LUsed, l_used.calls <= l_used'.calls, l_used.faults <= l_used'.faults,
           e.op # "idle" => c <= l_used'.calls
    PROVE  /\ l_calls' \in [1 .. LifeCalls -> LCall] /\ LCalls'
           /\ UNCHANGED l_docs => LDocs' /\ L!RowHasFile'
           /\ LGrows /\ (e.op = "update" => e.text \in l_typed'[e.page][e.id]) => LUpdates'
<1>t. l_calls \in [1 .. LifeCalls -> LCall] /\ l_used \in LUsed BY DEF LInv, L!TypeOK, LCall, LUsed, L!None
<1>1. l_calls' \in [1 .. LifeCalls -> LCall] BY <1>t
<1>2. \A b \in 1 .. LifeCalls : l_calls'[b] = IF b = c THEN e ELSE l_calls[b] BY <1>t
<1>3. LCalls'
  <2>1. ASSUME NEW b \in 1 .. LifeCalls, b > l_used'.calls PROVE l_calls'[b].op = "idle"
    <3>1. b > l_used.calls BY <1>t, <2>1 DEF LUsed
    <3>2. CASE b = c BY <3>2, <1>2, <2>1 DEF LUsed
    <3>3. CASE b # c BY <3>1, <3>3, <1>2 DEF LInv, LCalls
    <3> QED BY <3>2, <3>3
  <2> QED BY <1>2, <2>1 DEF LInv, LCalls
<1>4. ASSUME UNCHANGED l_docs PROVE LDocs' /\ L!RowHasFile'
  <2>1. \A b \in 1 .. LifeCalls : \A op : LAt(b, op)' => LAt(b, op) /\ l_calls'[b] = l_calls[b]
    BY <1>2 DEF LAt
  <2>2. LDocs' BY <1>4, <2>1 DEF LInv, LDocs
  <2>3. L!RowHasFile'
    <3> SUFFICES ASSUME NEW d \in L!Ids, l_docs[d].row # (l_docs[d].file = "stored"), ~(l_used'.faults > 0)
                 PROVE  \E b \in 1 .. LifeCalls :
                            l_calls'[b].op \in {"upload", "remove"} /\ l_calls'[b].at = "file" /\ l_calls'[b].id = d
      BY <1>4 DEF L!RowHasFile
    <3>1. ~(l_used.faults > 0) BY <1>t DEF LUsed
    <3>2. PICK b \in 1 .. LifeCalls :
            l_calls[b].op \in {"upload", "remove"} /\ l_calls[b].at = "file" /\ l_calls[b].id = d
      BY <3>1 DEF LInv, L!RowHasFile
    <3> QED BY <3>2, <1>2
  <2> QED BY <2>2, <2>3
<1>5. ASSUME LGrows, e.op = "update" => e.text \in l_typed'[e.page][e.id] PROVE LUpdates'
  <2> SUFFICES ASSUME NEW b \in 1 .. LifeCalls, l_calls'[b].op = "update"
               PROVE  l_calls'[b].text \in l_typed'[l_calls'[b].page][l_calls'[b].id]
    BY DEF LUpdates
  <2>1. CASE b = c BY <2>1, <1>2, <1>5
  <2>2. CASE b # c
    <3>1. l_calls'[b] = l_calls[b] /\ l_calls[b].page \in LifePages /\ l_calls[b].id \in L!Ids
      BY <2>2, <1>2 DEF LInv, LCalls, LWell
    <3> QED BY <3>1, <1>5 DEF LInv, LUpdates, LGrows
  <2> QED BY <2>1, <2>2
<1> QED BY <1>1, <1>3, <1>4, <1>5

\* Names and numbers of rows.
LEMMA LNames ==
    /\ "notes" \in LifePages /\ "none" \notin Texts
    /\ \A i \in L!Ids : i \in 0 .. LifeCalls + 1 /\ i # 0
BY MCLibraryAssumption, Bounds DEF L!Ids

\* No request.
LEMMA LNoCall == L!NoCall \in LCall /\ LWell(L!NoCall) /\ L!NoCall.op = "idle" /\ L!NoCall.at = "sent"
BY LNames, Bounds DEF L!NoCall, L!None, LCall, LWell

\* Clicks and faults are counted up to their bounds.
LEMMA LUses ==
    ASSUME LInv, L!Fault \/ L!Clicked \/ UNCHANGED l_used
    PROVE  l_used' \in LUsed /\ l_used.calls = l_used'.calls /\ l_used.faults <= l_used'.faults
<1>1. l_used \in LUsed BY DEF LInv, L!TypeOK, LUsed
<1>2. CASE L!Fault
  <2>1. l_used.faults + 1 \in 0 .. MaxFaults /\ l_used.faults <= l_used.faults + 1
    BY <1>1, <1>2, Bounds DEF L!Fault, LUsed
  <2> QED BY <1>1, <1>2, <2>1 DEF L!Fault, LUsed
<1>3. CASE L!Clicked
  <2>1. l_used.clicks + 1 \in 0 .. LifeClicks BY <1>1, <1>3, Bounds DEF L!Clicked, LUsed
  <2> QED BY <1>1, <1>3, <2>1 DEF L!Clicked, LUsed
<1>4. CASE UNCHANGED l_used BY <1>1, <1>4 DEF LUsed
<1> QED BY <1>2, <1>3, <1>4

\* A request is sent: it takes a number that no other has had.
LEMMA LSends ==
    ASSUME LInv, NEW e \in LCall, LWell(e), e.at = "sent", L!Send(e),
           e.op = "update" => e.text \in l_typed[e.page][e.id],
           UNCHANGED <<l_rows, l_reminders, l_docs, l_typed, l_form, l_list, l_shown>>,
           l_uploading' \in BOOLEAN
    PROVE  LInv'
<1> DEFINE c == l_used.calls + 1
<1>1. l_used \in LUsed BY DEF LInv, L!TypeOK, LUsed
<1>2. c \in 1 .. LifeCalls /\ l_calls' = [l_calls EXCEPT ![c] = e] /\ l_used' = [l_used EXCEPT !.calls = c]
  BY <1>1, Bounds DEF L!Send, LUsed
<1>3. l_used' \in LUsed /\ l_used.calls <= l_used'.calls /\ l_used.faults <= l_used'.faults /\ c <= l_used'.calls
  <2>1. c \in 0 .. LifeCalls /\ l_used.calls <= c /\ c <= c /\ l_used.faults <= l_used.faults
    BY <1>1, <1>2, Bounds DEF LUsed
  <2> HIDE DEF c
  <2> QED BY <1>1, <1>2, <2>1 DEF LUsed
<1>4. l_calls[c].at # "file"
  <2>1. l_calls[c].op = "idle" BY <1>1, <1>2 DEF LInv, LCalls, LUsed
  <2> QED BY <1>2, <2>1 DEF LInv, LCalls, LWell
<1> HIDE DEF c
<1>5. LGrows BY DEF LGrows
<1>6. /\ l_calls' \in [1 .. LifeCalls -> LCall] /\ LCalls' /\ LDocs' /\ L!RowHasFile' /\ LUpdates'
  BY <1>2, <1>3, <1>4, <1>5, LOneCall
<1>7. L!TypeOK' BY <1>3, <1>6 DEF LInv, L!TypeOK, LUsed, LCall, L!None, L!Ids
<1> QED BY <1>6, <1>7 DEF LInv, LTexts, L!RowsKeepTheirText

\* What is clicked and sends a request.
LEMMA LClicks == ASSUME LInv, L!Click, ~\E p \in LifePages : \/ L!New(p)
                                                             \/ \E i \in L!Ids : L!Edit(p, i)
                                                             \/ \E t \in Texts : L!Type(p, t)
                 PROVE  LInv'
<1> USE DEF L!None, L!Server, L!Page
<1>t. L!TypeOK /\ l_uploading \in BOOLEAN BY DEF LInv, L!TypeOK
<1>n. /\ L!NoCall = [op |-> "idle", at |-> "sent", page |-> "notes", id |-> 0, text |-> "none", also |-> FALSE]
      /\ 0 \in 0 .. LifeCalls + 1
  BY Bounds DEF L!NoCall
<1>1. ASSUME NEW p \in LifePages, L!Save(p) PROVE LInv'
  <2> DEFINE e == [L!NoCall EXCEPT !.op = IF l_form[p].id > 0 THEN "update" ELSE "create", !.page = p,
                                   !.id = l_form[p].id, !.text = l_form[p].text]
  <2>1. l_form[p] \in [id: 0 .. LifeCalls + 1, text: Texts \cup {"none"}] BY <1>t DEF L!TypeOK
  <2>2. l_form[p].text \in Texts /\ l_form[p].id \in 0 .. LifeCalls + 1
        /\ (l_form[p].id > 0 => l_form[p].id \in L!Ids /\ l_form[p].id # 0)
    BY <1>1, <2>1, Bounds DEF L!Save, L!Ids
  <2>3. /\ e \in LCall /\ e.at = "sent" /\ e.page = p /\ e.id = l_form[p].id /\ e.text = l_form[p].text
        /\ e.op \in {"update", "create"} /\ (e.op = "update" => l_form[p].id > 0)
    BY <1>n, <2>2 DEF LCall
  <2>4. LWell(e) BY <2>2, <2>3 DEF LWell
  <2>5. e.op = "update" => e.text \in l_typed[e.page][e.id] BY <2>2, <2>3, LNames DEF LInv, LTexts
  <2>6. L!Send(e) /\ UNCHANGED <<l_rows, l_reminders, l_docs, l_typed, l_form, l_list, l_shown, l_uploading>>
    BY <1>1 DEF L!Save
  <2> HIDE DEF e
  <2> QED BY <1>t, <2>3, <2>4, <2>5, <2>6, LSends
<1>2. ASSUME NEW p \in LifePages, NEW i \in L!Ids, L!Delete(p, i) PROVE LInv'
  <2> DEFINE e == [L!NoCall EXCEPT !.op = "delete", !.page = p, !.id = i, !.also = l_form[p].id = i]
  <2>1. e \in LCall /\ LWell(e) /\ e.at = "sent" /\ e.op = "delete" BY <1>n, LNames DEF LCall, LWell
  <2>2. L!Send(e) /\ UNCHANGED <<l_rows, l_reminders, l_docs, l_typed, l_form, l_list, l_shown, l_uploading>>
    BY <1>2 DEF L!Delete
  <2> HIDE DEF e
  <2> QED BY <1>t, <2>1, <2>2, LSends
<1>3. ASSUME NEW p \in LifePages, L!Load(p) PROVE LInv'
  <2> DEFINE e == [L!NoCall EXCEPT !.op = "load", !.page = p]
  <2>1. e \in LCall /\ LWell(e) /\ e.at = "sent" /\ e.op = "load" BY <1>n DEF LCall, LWell
  <2>2. L!Send(e) /\ UNCHANGED <<l_rows, l_reminders, l_docs, l_typed, l_form, l_list, l_shown, l_uploading>>
    BY <1>3 DEF L!Load
  <2> HIDE DEF e
  <2> QED BY <1>t, <2>1, <2>2, LSends
<1>4. ASSUME NEW t \in Texts, L!QuickNote(t) PROVE LInv'
  <2> DEFINE e == [L!NoCall EXCEPT !.op = "create", !.page = "dashboard", !.text = t]
  <2>1. e \in LCall /\ LWell(e) /\ e.at = "sent" /\ e.op = "create" BY <1>n DEF LCall, LWell
  <2>2. L!Send(e) /\ UNCHANGED <<l_rows, l_reminders, l_docs, l_typed, l_form, l_list, l_shown, l_uploading>>
    BY <1>4 DEF L!QuickNote
  <2> HIDE DEF e
  <2> QED BY <1>t, <2>1, <2>2, LSends
<1>5. ASSUME NEW t \in Texts, L!CreateWithCopy(t) PROVE LInv'
  <2> DEFINE e == [L!NoCall EXCEPT !.op = "create", !.page = "api", !.text = t, !.also = TRUE]
  <2>1. e \in LCall /\ LWell(e) /\ e.at = "sent" /\ e.op = "create" BY <1>n DEF LCall, LWell
  <2>2. L!Send(e) /\ UNCHANGED <<l_rows, l_reminders, l_docs, l_typed, l_form, l_list, l_shown, l_uploading>>
    BY <1>5 DEF L!CreateWithCopy
  <2> HIDE DEF e
  <2> QED BY <1>t, <2>1, <2>2, LSends
<1>6. CASE L!CreateReminder
  <2> DEFINE e == [L!NoCall EXCEPT !.op = "remind", !.page = "dashboard"]
  <2>1. e \in LCall /\ LWell(e) /\ e.at = "sent" /\ e.op = "remind" BY <1>n DEF LCall, LWell
  <2>2. L!Send(e) /\ UNCHANGED <<l_rows, l_reminders, l_docs, l_typed, l_form, l_list, l_shown, l_uploading>>
    BY <1>6 DEF L!CreateReminder
  <2> HIDE DEF e
  <2> QED BY <1>t, <2>1, <2>2, LSends
<1>7. ASSUME NEW i \in L!Ids, L!ToggleReminder(i) PROVE LInv'
  <2> DEFINE e == [L!NoCall EXCEPT !.op = "toggle", !.page = "dashboard", !.id = i, !.text = "done"]
  <2>1. e \in LCall /\ LWell(e) /\ e.at = "sent" /\ e.op = "toggle" BY <1>n, LNames DEF LCall, LWell
  <2>2. L!Send(e) /\ UNCHANGED <<l_rows, l_reminders, l_docs, l_typed, l_form, l_list, l_shown, l_uploading>>
    BY <1>7 DEF L!ToggleReminder
  <2> HIDE DEF e
  <2> QED BY <1>t, <2>1, <2>2, LSends
<1>8. CASE L!Upload
  <2> DEFINE e == [L!NoCall EXCEPT !.op = "upload"]
  <2>1. e \in LCall /\ LWell(e) /\ e.at = "sent" /\ e.op = "upload" BY <1>n, LNames DEF LCall, LWell
  <2>2. L!Send(e) /\ UNCHANGED <<l_rows, l_reminders, l_docs, l_typed, l_form, l_list, l_shown>> /\ l_uploading' = TRUE
    BY <1>8 DEF L!Upload
  <2> HIDE DEF e
  <2> QED BY <2>1, <2>2, LSends
<1>9. CASE L!UploadWithCopy
  <2> DEFINE e == [L!NoCall EXCEPT !.op = "upload", !.also = TRUE]
  <2>1. e \in LCall /\ LWell(e) /\ e.at = "sent" /\ e.op = "upload" BY <1>n, LNames DEF LCall, LWell
  <2>2. L!Send(e) /\ UNCHANGED <<l_rows, l_reminders, l_docs, l_typed, l_form, l_list, l_shown, l_uploading>>
    BY <1>9 DEF L!UploadWithCopy
  <2> HIDE DEF e
  <2> QED BY <1>t, <2>1, <2>2, LSends
<1>10. ASSUME NEW d \in L!Ids, L!Remove(d) PROVE LInv'
  <2> DEFINE e == [L!NoCall EXCEPT !.op = "remove", !.id = d]
  <2>1. e \in LCall /\ LWell(e) /\ e.at = "sent" /\ e.op = "remove" BY <1>n, LNames DEF LCall, LWell
  <2>2. L!Send(e) /\ UNCHANGED <<l_rows, l_reminders, l_docs, l_typed, l_form, l_list, l_shown, l_uploading>>
    BY <1>10 DEF L!Remove
  <2> HIDE DEF e
  <2> QED BY <1>t, <2>1, <2>2, LSends
<1>11. CASE \E p \in LifePages : L!RowPage(p)
  BY <1>1, <1>2, <1>3, <1>11 DEF L!RowPage
<1> QED BY <1>4, <1>5, <1>6, <1>7, <1>8, <1>9, <1>10, <1>11
     DEF L!Click, L!NotesPage, L!ServicesPage, L!DashboardPage, L!DocumentsPage, L!Api, L!RowPage

\* What is typed is typed for the row that the form has.
LEMMA LForms ==
    ASSUME LInv, NEW p \in LifePages,
           \/ L!New(p) \/ (\E i \in L!Ids : L!Edit(p, i)) \/ \E t \in Texts : L!Type(p, t)
    PROVE  LInv'
<1> USE DEF L!None
<1>t. L!TypeOK BY DEF LInv
<1> DEFINE F == [id: 0 .. LifeCalls + 1, text: Texts \cup {"none"}]
<1>0. /\ l_form \in [LifePages -> F] /\ l_typed \in [LifePages -> [L!Ids -> SUBSET Texts]]
      /\ l_form[p] \in F
  BY <1>t DEF L!TypeOK
<1>1. UNCHANGED <<l_rows, l_reminders, l_docs, l_list, l_shown, l_uploading, l_calls>>
  BY DEF L!New, L!Edit, L!Type, L!Server
<1>2. l_used' \in LUsed /\ l_used.calls = l_used'.calls /\ l_used.faults <= l_used'.faults
  BY LUses DEF L!New, L!Edit, L!Type
<1> DEFINE Fits(f) ==
        /\ l_form' = [l_form EXCEPT ![p] = f]
        /\ l_typed' \in [LifePages -> [L!Ids -> SUBSET Texts]] /\ LGrows
        /\ f.id # 0 /\ f.text # "none" => f.text \in l_typed'[p][f.id]
<1>3. PICK f \in F : Fits(f)
  <2>1. CASE L!New(p)
    <3>1. L!EmptyForm \in F /\ L!EmptyForm.id = 0 BY Bounds DEF L!EmptyForm
    <3>2. l_form' = [l_form EXCEPT ![p] = L!EmptyForm] /\ l_typed' = l_typed BY <2>1 DEF L!New, L!Server
    <3>3. Fits(L!EmptyForm) BY <3>1, <3>2, <1>0 DEF LGrows
    <3> QED BY <3>1, <3>3
  <2>2. ASSUME NEW i \in L!Ids, L!Edit(p, i) PROVE \E f \in F : Fits(f)
    <3> DEFINE e == [id |-> i, text |-> l_list[p][i]]
    <3>1. e \in F
      <4>1. l_list[p][i] \in Texts \cup {"none"} BY <1>t DEF L!TypeOK
      <4> QED BY <4>1, LNames
    <3>2. l_form' = [l_form EXCEPT ![p] = e] /\ l_typed' = l_typed BY <2>2 DEF L!Edit, L!Server
    <3>3. e.text # "none" => e.text \in l_typed[p][e.id] BY DEF LInv, LTexts
    <3>4. Fits(e)
      <4> HIDE DEF e
      <4> QED BY <3>1, <3>2, <3>3, <1>0 DEF LGrows
    <3> QED BY <3>1, <3>4
  <2>3. ASSUME NEW t \in Texts, L!Type(p, t) PROVE \E f \in F : Fits(f)
    <3> DEFINE e == [l_form[p] EXCEPT !.text = t]
               n == l_form[p].id
    <3>1. e \in F /\ e.id = n /\ e.text = t BY <1>0
    <3>2. l_form' = [l_form EXCEPT ![p] = e] BY <2>3, <1>0 DEF L!Type
    <3>3. CASE n = 0
      <4>1. l_typed' = l_typed BY <2>3, <3>3 DEF L!Type
      <4>2. Fits(e)
        <5> HIDE DEF e, n
        <5> QED BY <3>1, <3>2, <3>3, <4>1, <1>0 DEF LGrows
      <4> QED BY <3>1, <4>2
    <3>4. CASE n # 0
      <4>1. n \in L!Ids BY <3>4, <1>0, Bounds DEF L!Ids
      <4>2. l_typed' = [l_typed EXCEPT ![p] = [l_typed[p] EXCEPT ![n] = l_typed[p][n] \cup {t}]]
        BY <2>3, <3>4 DEF L!Type
      <4> HIDE DEF n
      <4>3. l_typed'[p][n] = l_typed[p][n] \cup {t} /\ LGrows
            /\ l_typed' \in [LifePages -> [L!Ids -> SUBSET Texts]]
        BY <4>1, <4>2, <1>0 DEF LGrows
      <4>4. Fits(e)
        <5> HIDE DEF e
        <5> QED BY <3>1, <3>2, <4>3
      <4> QED BY <3>1, <4>4
    <3> QED BY <3>3, <3>4
  <2> HIDE DEF F, Fits
  <2> QED BY <2>1, <2>2, <2>3
<1>4. L!TypeOK' BY <1>0, <1>1, <1>2, <1>3, <1>t DEF L!TypeOK, LUsed
<1>5. LCalls' BY <1>1, <1>2 DEF LInv, LCalls
<1>6. LTexts'
  <2>1. ASSUME NEW q \in LifePages, l_form'[q].id # 0, l_form'[q].text # "none"
        PROVE  l_form'[q].text \in l_typed'[q][l_form'[q].id]
    <3>1. CASE q = p BY <3>1, <2>1, <1>0, <1>3
    <3>2. CASE q # p
      <4>1. l_form'[q] = l_form[q] /\ l_form[q] \in F BY <3>2, <1>0, <1>3
      <4>2. l_form[q].id \in L!Ids BY <4>1, <2>1, Bounds DEF L!Ids
      <4>3. l_typed[q][l_form[q].id] \subseteq l_typed'[q][l_form[q].id] BY <4>2, <1>3 DEF LGrows
      <4> QED BY <2>1, <4>1, <4>3 DEF LInv, LTexts
    <3> QED BY <3>1, <3>2
  <2>2. \A q \in LifePages, i \in L!Ids : l_list'[q][i] \in l_typed'[q][i] \cup {"none"}
    BY <1>1, <1>3 DEF LInv, LTexts, LGrows
  <2> QED BY <2>1, <2>2 DEF LTexts
<1>7. LUpdates' BY <1>1, <1>3 DEF LInv, LUpdates, LCalls, LWell, LGrows
<1>8. L!RowsKeepTheirText' BY <1>1, <1>3 DEF LInv, L!RowsKeepTheirText, LGrows
<1>9. LDocs' BY <1>1 DEF LInv, LDocs, LAt
<1>10. L!RowHasFile'
  <2>1. l_used'.faults > 0 \/ ~(l_used.faults > 0)
    <3>1. l_used \in LUsed BY <1>t DEF L!TypeOK, LUsed
    <3> QED BY <1>2, <3>1 DEF LUsed
  <2> QED BY <1>1, <2>1 DEF LInv, L!RowHasFile
<1> QED BY <1>4, <1>5, <1>6, <1>7, <1>8, <1>9, <1>10 DEF LInv

\* What of a request is left as it was when only its place changes.
LEMMA LMoves ==
    ASSUME LInv, NEW c \in 1 .. LifeCalls, NEW at \in {"row", "done", "failed"},
           at = "row" => l_calls[c].op \in {"create", "upload"} /\ (l_calls[c].op = "upload" => l_calls[c].id \in L!Ids),
           l_calls[c].op # "idle"
    PROVE  /\ [l_calls[c] EXCEPT !.at = at] \in LCall /\ LWell([l_calls[c] EXCEPT !.at = at])
           /\ c <= l_used.calls /\ l_used \in LUsed
<1>1. l_calls[c] \in LCall /\ l_used \in LUsed BY DEF LInv, L!TypeOK, LCall, LUsed, L!None
<1>2. LWell(l_calls[c]) BY DEF LInv, LCalls
<1>3. c <= l_used.calls BY <1>1 DEF LInv, LCalls, LUsed
<1>4. [l_calls[c] EXCEPT !.at = at] \in LCall BY <1>1 DEF LCall
<1>5. LWell([l_calls[c] EXCEPT !.at = at]) BY <1>1, <1>2 DEF LWell, LCall
<1> QED BY <1>1, <1>3, <1>4, <1>5

\* A request ends a step at the tables of rows or reminders, which may get a text that was typed.
LEMMA LRowStep ==
    ASSUME LInv, NEW c \in 1 .. LifeCalls, NEW at \in {"row", "done", "failed"},
           at = "row" => l_calls[c].op = "create",
           l_calls[c].op # "idle", l_calls[c].at # "file", L!Reply(c, at), UNCHANGED l_docs,
           l_rows' \in [LifePages -> [L!Ids -> Texts \cup {"none"}]],
           l_reminders' \in [L!Ids -> {"none", "open", "done"}],
           l_typed' \in [LifePages -> [L!Ids -> SUBSET Texts]], LGrows,
           \A p \in LifePages, i \in L!Ids : l_rows'[p][i] \in l_typed'[p][i] \cup {"none"}
    PROVE  LInv'
<1> DEFINE e == [l_calls[c] EXCEPT !.at = at]
<1>0. L!TypeOK BY DEF LInv
<1>1. e \in LCall /\ LWell(e) /\ c <= l_used.calls /\ l_used \in LUsed BY LMoves
<1>2. l_calls[c] \in LCall BY <1>0 DEF L!TypeOK, LCall, L!None
<1>3. e.at = at /\ e.op = l_calls[c].op /\ e.page = l_calls[c].page /\ e.id = l_calls[c].id
      /\ e.text = l_calls[c].text
  BY <1>2 DEF LCall
<1>4. l_calls' = [l_calls EXCEPT ![c] = e]
      /\ UNCHANGED <<l_form, l_list, l_shown, l_uploading, l_used>>
  BY DEF L!Reply, L!Page
<1>5. ASSUME e.op = "update" PROVE e.text \in l_typed'[e.page][e.id]
  <2>1. l_calls[c].page \in LifePages /\ l_calls[c].id \in L!Ids BY <1>3, <1>5 DEF LInv, LCalls, LWell
  <2> QED BY <2>1, <1>3, <1>5 DEF LInv, LUpdates, LGrows
<1> HIDE DEF e
<1>6. l_used.calls <= l_used'.calls /\ l_used.faults <= l_used'.faults /\ l_used' \in LUsed
  BY <1>1, <1>4 DEF LUsed
<1>7. /\ l_calls' \in [1 .. LifeCalls -> LCall] /\ LCalls' /\ LDocs' /\ L!RowHasFile' /\ LUpdates'
  BY <1>1, <1>3, <1>4, <1>5, <1>6, LOneCall
<1>8. L!TypeOK' BY <1>0, <1>4, <1>6, <1>7 DEF L!TypeOK, LUsed, LCall, L!None, L!Ids
<1>9. LTexts'
  <2>1. \A p \in LifePages : l_form[p].id # 0 => l_form[p].id \in L!Ids
    BY <1>0, Bounds DEF L!TypeOK, L!Ids
  <2> QED BY <2>1, <1>4 DEF LInv, LTexts, LGrows
<1> QED BY <1>7, <1>8, <1>9 DEF LInv, L!RowsKeepTheirText, L!None

\* The server handles a row of a table.
LEMMA LRows ==
    ASSUME LInv, NEW c \in 1 .. LifeCalls,
           \/ L!CreateRow(c) \/ L!CopyRow(c) \/ L!UpdateRow(c) \/ L!DeleteRow(c)
           \/ L!CreateReminderRow(c) \/ L!UpdateReminder(c)
    PROVE  LInv'
<1> USE DEF L!None, L!Sent
<1>0. L!TypeOK BY DEF LInv
<1>t. /\ l_rows \in [LifePages -> [L!Ids -> Texts \cup {"none"}]]
      /\ l_reminders \in [L!Ids -> {"none", "open", "done"}]
      /\ l_typed \in [LifePages -> [L!Ids -> SUBSET Texts]]
      /\ l_calls[c] \in LCall
  BY <1>0 DEF L!TypeOK, LCall
<1>w. LWell(l_calls[c]) BY DEF LInv, LCalls
<1>k. \A p \in LifePages, i \in L!Ids : l_rows[p][i] \in l_typed[p][i] \cup {"none"}
  BY DEF LInv, L!RowsKeepTheirText
<1>g. l_typed' = l_typed => LGrows BY DEF LGrows
<1>1. CASE L!CreateRow(c)
  <2> DEFINE t == l_calls[c].text
             p == L!Table(c)
             at == IF l_calls[c].also THEN "row" ELSE "done"
  <2>1. PICK i \in L!Ids : /\ l_rows' = [l_rows EXCEPT ![p][i] = t]
                           /\ l_typed' = [l_typed EXCEPT ![p][i] = {t}]
                           /\ l_typed[p][i] = {}
    BY <1>1 DEF L!CreateRow, L!Lowest
  <2>2. p \in LifePages /\ t \in Texts
    BY <1>1, <1>w, LNames DEF L!CreateRow, L!Table, LWell
  <2>3. L!Reply(c, at) /\ UNCHANGED <<l_reminders, l_docs>> /\ l_calls[c].op = "create"
        /\ l_calls[c].at = "sent" /\ at \in {"row", "done"}
    BY <1>1 DEF L!CreateRow
  <2> HIDE DEF t, p, at
  <2>4. /\ l_rows' \in [LifePages -> [L!Ids -> Texts \cup {"none"}]]
        /\ l_typed' \in [LifePages -> [L!Ids -> SUBSET Texts]]
    BY <2>1, <2>2, <1>t
  <2>5. ASSUME NEW q \in LifePages, NEW j \in L!Ids
        PROVE  l_typed[q][j] \subseteq l_typed'[q][j] /\ l_rows'[q][j] \in l_typed'[q][j] \cup {"none"}
    <3>1. CASE q = p /\ j = i BY <3>1, <2>1, <2>2, <1>t
    <3>2. CASE ~(q = p /\ j = i)
      <4>1. l_rows'[q][j] = l_rows[q][j] /\ l_typed'[q][j] = l_typed[q][j]
        BY <3>2, <2>1, <2>2, <1>t
      <4> QED BY <4>1, <1>k
    <3> QED BY <3>1, <3>2
  <2>6. LGrows BY <2>5 DEF LGrows
  <2> QED BY <2>3, <2>4, <2>5, <2>6, <1>t, LRowStep
<1>2. CASE L!CopyRow(c)
  BY <1>2, <1>t, <1>k, <1>g, LRowStep DEF L!CopyRow, L!Server
<1>3. CASE L!UpdateRow(c)
  <2> DEFINE p == l_calls[c].page
             i == l_calls[c].id
             t == l_calls[c].text
  <2>0. l_calls[c].op = "update" /\ l_calls[c].at = "sent" BY <1>3 DEF L!UpdateRow
  <2>1. p \in LifePages /\ i \in L!Ids /\ t \in Texts /\ t \in l_typed[p][i]
    BY <2>0, <1>w DEF LWell, LInv, LUpdates
  <2>2. UNCHANGED <<l_reminders, l_docs, l_typed>>
        /\ \/ L!Reply(c, "failed") /\ l_rows' = l_rows
           \/ L!Reply(c, "done") /\ l_rows' = [l_rows EXCEPT ![p] = [l_rows[p] EXCEPT ![i] = t]]
    BY <1>3 DEF L!UpdateRow
  <2> HIDE DEF p, i, t
  <2>3. CASE L!Reply(c, "failed") /\ l_rows' = l_rows BY <2>0, <2>2, <2>3, <1>t, <1>k, <1>g, LRowStep
  <2>4. CASE L!Reply(c, "done") /\ l_rows' = [l_rows EXCEPT ![p] = [l_rows[p] EXCEPT ![i] = t]]
    <3>1. l_rows' \in [LifePages -> [L!Ids -> Texts \cup {"none"}]] BY <2>1, <2>4, <1>t
    <3>2. \A q \in LifePages, j \in L!Ids : l_rows'[q][j] = IF q = p /\ j = i THEN t ELSE l_rows[q][j]
      BY <2>1, <2>4, <1>t
    <3>3. \A q \in LifePages, j \in L!Ids : l_rows'[q][j] \in l_typed'[q][j] \cup {"none"}
      BY <3>2, <2>1, <2>2, <1>k
    <3> QED BY <3>1, <3>3, <2>0, <2>2, <2>4, <1>t, <1>g, LRowStep
  <2> QED BY <2>2, <2>3, <2>4
<1>4. CASE L!DeleteRow(c)
  <2> DEFINE p == l_calls[c].page
             i == l_calls[c].id
  <2>0. l_calls[c].op = "delete" /\ l_calls[c].at = "sent" BY <1>4 DEF L!DeleteRow
  <2>1. p \in LifePages /\ i \in L!Ids
    BY <2>0, <1>w DEF LWell
  <2>2. UNCHANGED <<l_reminders, l_docs, l_typed>>
        /\ \/ L!Reply(c, "failed") /\ l_rows' = l_rows
           \/ L!Reply(c, "done") /\ l_rows' = [l_rows EXCEPT ![p] = [l_rows[p] EXCEPT ![i] = "none"]]
    BY <1>4 DEF L!DeleteRow
  <2> HIDE DEF p, i
  <2>3. CASE L!Reply(c, "failed") /\ l_rows' = l_rows BY <2>0, <2>2, <2>3, <1>t, <1>k, <1>g, LRowStep
  <2>4. CASE L!Reply(c, "done") /\ l_rows' = [l_rows EXCEPT ![p] = [l_rows[p] EXCEPT ![i] = "none"]]
    <3>1. l_rows' \in [LifePages -> [L!Ids -> Texts \cup {"none"}]] BY <2>1, <2>4, <1>t
    <3>2. \A q \in LifePages, j \in L!Ids : l_rows'[q][j] = IF q = p /\ j = i THEN "none" ELSE l_rows[q][j]
      BY <2>1, <2>4, <1>t
    <3>3. \A q \in LifePages, j \in L!Ids : l_rows'[q][j] \in l_typed'[q][j] \cup {"none"}
      BY <3>2, <2>2, <1>k
    <3> QED BY <3>1, <3>3, <2>0, <2>2, <2>4, <1>t, <1>g, LRowStep
  <2> QED BY <2>2, <2>3, <2>4
<1>5. CASE L!CreateReminderRow(c)
  <2>1. PICK i \in L!Ids : l_reminders' = [l_reminders EXCEPT ![i] = "open"]
    BY <1>5 DEF L!CreateReminderRow
  <2>2. l_reminders' \in [L!Ids -> {"none", "open", "done"}] BY <2>1, <1>t
  <2> QED BY <1>5, <2>2, <1>t, <1>k, <1>g, LRowStep DEF L!CreateReminderRow
<1>6. CASE L!UpdateReminder(c)
  <2>1. l_reminders' = [l_reminders EXCEPT ![l_calls[c].id] = "done"]
    BY <1>6, <1>w DEF L!UpdateReminder, LWell
  <2>2. l_reminders' \in [L!Ids -> {"none", "open", "done"}] BY <2>1, <1>t
  <2> QED BY <1>6, <2>2, <1>t, <1>k, <1>g, LRowStep DEF L!UpdateReminder
<1> QED BY <1>1, <1>2, <1>3, <1>4, <1>5, <1>6

\* The page gets an answer, or a request fails where it was sent or at its copy.
LEMMA LAnswerStep ==
    ASSUME LInv, NEW c \in 1 .. LifeCalls, NEW e \in LCall, LWell(e), e.op # "update", e.at # "file",
           l_calls[c].at # "file", l_calls[c].op # "idle", l_calls' = [l_calls EXCEPT ![c] = e],
           UNCHANGED <<l_rows, l_reminders, l_docs, l_typed>>,
           l_form' \in [LifePages -> [id: 0 .. LifeCalls + 1, text: Texts \cup {"none"}]],
           l_list' \in [LifePages -> [L!Ids -> Texts \cup {"none"}]],
           l_shown' \subseteq L!Ids, l_uploading' \in BOOLEAN,
           l_used' \in LUsed, l_used.calls = l_used'.calls, l_used.faults <= l_used'.faults,
           LTexts'
    PROVE  LInv'
<1>0. L!TypeOK BY DEF LInv
<1>1. l_used \in LUsed BY <1>0 DEF L!TypeOK, LUsed
<1>2. c <= l_used'.calls BY <1>1 DEF LInv, LCalls, LUsed
<1>3. LGrows BY DEF LGrows
<1>4. l_used.calls <= l_used'.calls BY <1>1 DEF LUsed
<1>5. /\ l_calls' \in [1 .. LifeCalls -> LCall] /\ LCalls' /\ LDocs' /\ L!RowHasFile' /\ LUpdates'
  BY <1>2, <1>3, <1>4, LOneCall
<1>6. L!TypeOK' BY <1>0, <1>5 DEF L!TypeOK, LUsed, LCall, L!None, L!Ids
<1> QED BY <1>5, <1>6 DEF LInv, L!RowsKeepTheirText, L!None

\* The page gets an answer: what it shows has been in the table, a form is emptied at most.
LEMMA LAnswers ==
    ASSUME LInv, NEW c \in 1 .. LifeCalls,
           \/ L!SavedRow(c) \/ L!DeletedRow(c) \/ L!Loaded(c) \/ L!Reminded(c)
           \/ L!LoadedDashboard(c) \/ L!Uploaded(c) \/ L!Removed(c) \/ L!Notified(c)
    PROVE  LInv'
<1> USE DEF L!None
<1>0. L!TypeOK BY DEF LInv
<1> DEFINE F == [id: 0 .. LifeCalls + 1, text: Texts \cup {"none"}]
           T == [LifePages -> [L!Ids -> Texts \cup {"none"}]]
<1>t. l_form \in [LifePages -> F] /\ l_list \in T /\ l_rows \in T /\ l_shown \subseteq L!Ids
      /\ l_uploading \in BOOLEAN /\ l_used \in LUsed /\ l_calls[c] \in LCall
  BY <1>0 DEF L!TypeOK, LUsed, LCall
<1>w. LWell(l_calls[c]) BY DEF LInv, LCalls
<1>n. L!NoCall = [op |-> "idle", at |-> "sent", page |-> "notes", id |-> 0, text |-> "none", also |-> FALSE]
      /\ 0 \in 0 .. LifeCalls + 1
  BY Bounds DEF L!NoCall
<1> DEFINE Reloads(p) == [L!NoCall EXCEPT !.op = "load", !.page = p]
           dashboard == [L!NoCall EXCEPT !.op = "dashboard", !.page = "dashboard"]
           Follows(e) == e \in LCall /\ LWell(e) /\ e.op # "update" /\ e.at # "file"
<1>1. Follows(L!NoCall) BY LNoCall
<1>2. \A p \in LifePages : Follows(Reloads(p)) BY <1>n DEF LCall, LWell
<1>3. Follows(dashboard) BY <1>n DEF LCall, LWell
<1>4. UNCHANGED <<l_rows, l_reminders, l_docs, l_typed, l_used>>
  BY DEF L!SavedRow, L!DeletedRow, L!Loaded, L!Reminded, L!LoadedDashboard, L!Uploaded, L!Removed,
         L!Notified, L!Server
<1>5. l_calls[c].at # "file" /\ l_calls[c].op # "idle"
  BY DEF L!SavedRow, L!DeletedRow, L!Loaded, L!Reminded, L!LoadedDashboard, L!Uploaded, L!Removed,
         L!Notified, L!Sent, L!Answered
<1>6. \E e : Follows(e) /\ l_calls' = [l_calls EXCEPT ![c] = e]
  <2> HIDE DEF Follows, Reloads, dashboard
  <2>1. CASE L!SavedRow(c)
    <3>1. l_calls[c].page \in LifePages \cup {"dashboard", "api"} BY <1>t DEF LCall
    <3>2. CASE l_calls[c].page = "api" BY <2>1, <3>2, <1>1 DEF L!SavedRow, L!Idle
    <3>3. CASE l_calls[c].page = "dashboard" BY <2>1, <3>3, <1>3 DEF L!SavedRow, dashboard
    <3>4. CASE l_calls[c].page \in LifePages /\ l_calls[c].page \notin {"api", "dashboard"}
      BY <2>1, <3>4, <1>2 DEF L!SavedRow, Reloads
    <3> QED BY <3>1, <3>2, <3>3, <3>4
  <2>2. CASE L!DeletedRow(c)
    <3>1. l_calls[c].page \in LifePages BY <2>2, <1>w DEF L!DeletedRow, L!Answered, LWell
    <3> QED BY <2>2, <3>1, <1>2 DEF L!DeletedRow, Reloads
  <2>3. CASE L!Reminded(c) BY <2>3, <1>3 DEF L!Reminded, dashboard
  <2>4. CASE L!Loaded(c) \/ L!LoadedDashboard(c) \/ L!Uploaded(c) \/ L!Removed(c) \/ L!Notified(c)
    BY <2>4, <1>1 DEF L!Loaded, L!LoadedDashboard, L!Uploaded, L!Removed, L!Notified, L!Idle
  <2> QED BY <2>1, <2>2, <2>3, <2>4
<1>7. l_uploading' \in BOOLEAN /\ l_shown' \subseteq L!Ids
  BY <1>t DEF L!SavedRow, L!DeletedRow, L!Loaded, L!Reminded, L!LoadedDashboard, L!Uploaded, L!Removed,
         L!Notified, L!Page
<1>e. L!EmptyForm \in F /\ L!EmptyForm.id = 0 BY <1>n DEF L!EmptyForm
<1>8. /\ l_form' \in [LifePages -> F]
      /\ \A p \in LifePages : l_form'[p] = l_form[p] \/ l_form'[p] = L!EmptyForm
  <2>1. l_form' = l_form \/ \E p \in LifePages : l_form' = [l_form EXCEPT ![p] = L!EmptyForm]
    <3>1. CASE L!SavedRow(c)
      <4>1. l_calls[c].page \in LifePages \cup {"dashboard", "api"} BY <1>t DEF LCall
      <4> QED BY <3>1, <4>1 DEF L!SavedRow
    <3>2. CASE L!DeletedRow(c)
      <4>1. l_calls[c].page \in LifePages BY <3>2, <1>w DEF L!DeletedRow, L!Answered, LWell
      <4> QED BY <3>2, <4>1 DEF L!DeletedRow
    <3>3. CASE \/ L!Loaded(c) \/ L!Reminded(c) \/ L!LoadedDashboard(c) \/ L!Uploaded(c) \/ L!Removed(c)
               \/ L!Notified(c)
      BY <3>3 DEF L!Loaded, L!Reminded, L!LoadedDashboard, L!Uploaded, L!Removed, L!Notified, L!Page
    <3> QED BY <3>1, <3>2, <3>3
  <2> HIDE DEF F
  <2> QED BY <2>1, <1>e, <1>t
<1>9. /\ l_list' \in T
      /\ \A p \in LifePages : l_list'[p] = l_list[p] \/ l_list'[p] = l_rows[p]
  <2>1. CASE L!Loaded(c)
    <3>1. l_calls[c].page \in LifePages BY <2>1, <1>w DEF L!Loaded, L!Sent, LWell
    <3> QED BY <2>1, <3>1, <1>t DEF L!Loaded
  <2>2. CASE ~L!Loaded(c)
    <3>1. l_list' = l_list
      BY <2>2 DEF L!SavedRow, L!DeletedRow, L!Reminded, L!LoadedDashboard, L!Uploaded, L!Removed,
         L!Notified, L!Page
    <3> QED BY <3>1, <1>t
  <2> QED BY <2>1, <2>2
<1>10. LTexts'
  <2>1. \A p \in LifePages, i \in L!Ids : l_list'[p][i] \in l_typed'[p][i] \cup {"none"}
    BY <1>4, <1>9 DEF LInv, LTexts, L!RowsKeepTheirText
  <2>2. \A p \in LifePages : l_form'[p].id # 0 /\ l_form'[p].text # "none" =>
           l_form'[p].text \in l_typed'[p][l_form'[p].id]
    BY <1>4, <1>8, <1>e DEF LInv, LTexts
  <2> QED BY <2>1, <2>2 DEF LTexts
<1>11. l_used' \in LUsed /\ l_used.calls = l_used'.calls /\ l_used.faults <= l_used'.faults
  BY <1>4, <1>t DEF LUsed
<1> QED BY <1>4, <1>5, <1>6, <1>7, <1>8, <1>9, <1>10, <1>11, LAnswerStep

\* A request is cut off where it is; the fault excuses its document.
LEMMA LFaults ==
    ASSUME LInv,
           \/ \E c \in 1 .. LifeCalls : L!Fails(c) \/ L!MirrorFails(c)
           \/ L!Restart
    PROVE  LInv'
<1>0. L!TypeOK BY DEF LInv
<1>t. l_calls \in [1 .. LifeCalls -> LCall] /\ l_used \in LUsed BY <1>0 DEF L!TypeOK, LUsed, LCall, L!None
<1>1. L!Fault /\ UNCHANGED <<l_rows, l_reminders, l_docs, l_typed, l_form, l_list, l_shown, l_uploading>>
  BY DEF L!Fails, L!MirrorFails, L!Restart, L!Server, L!Page
<1>2. l_used' \in LUsed /\ l_used.calls = l_used'.calls /\ l_used'.faults > 0
  <2>1. l_used' \in LUsed /\ l_used.calls = l_used'.calls BY <1>1, LUses
  <2>2. l_used'.faults = l_used.faults + 1 BY <1>1, <1>t DEF L!Fault, LUsed
  <2> QED BY <2>1, <2>2, <1>t DEF LUsed
<1> DEFINE cut(b) == [l_calls[b] EXCEPT !.at = "failed"]
<1>3. ASSUME NEW b \in 1 .. LifeCalls
      PROVE  /\ cut(b) \in LCall /\ LWell(cut(b)) /\ cut(b).op = l_calls[b].op /\ cut(b).at = "failed"
             /\ cut(b).page = l_calls[b].page /\ cut(b).id = l_calls[b].id /\ cut(b).text = l_calls[b].text
  <2>1. l_calls[b] \in LCall /\ LWell(l_calls[b]) BY <1>t DEF LInv, LCalls
  <2>2. /\ cut(b).op = l_calls[b].op /\ cut(b).at = "failed" /\ cut(b).page = l_calls[b].page
        /\ cut(b).id = l_calls[b].id /\ cut(b).text = l_calls[b].text /\ cut(b) \in LCall
    BY <2>1 DEF LCall
  <2> QED BY <2>1, <2>2 DEF LWell
<1>4. /\ l_calls' \in [1 .. LifeCalls -> LCall]
      /\ \A b \in 1 .. LifeCalls : l_calls'[b] = l_calls[b] \/ l_calls'[b] = cut(b)
  <2> HIDE DEF cut
  <2>1. CASE \E c \in 1 .. LifeCalls : L!Fails(c) \/ L!MirrorFails(c)
    <3>1. PICK c \in 1 .. LifeCalls : l_calls' = [l_calls EXCEPT ![c] = cut(c)]
      BY <2>1 DEF L!Fails, L!MirrorFails, cut
    <3> QED BY <3>1, <1>3, <1>t
  <2>2. CASE L!Restart
    <3>1. l_calls' = [c \in 1 .. LifeCalls |->
                        IF \/ l_calls[c].at \in {"file", "row"}
                           \/ l_calls[c].op # "idle" /\ l_calls[c].at = "sent"
                        THEN cut(c) ELSE l_calls[c]]
      BY <2>2 DEF L!Restart, cut
    <3> QED BY <3>1, <1>3, <1>t
  <2> QED BY <2>1, <2>2
<1> HIDE DEF cut
<1>5. LCalls' BY <1>2, <1>3, <1>4 DEF LInv, LCalls
<1>6. L!TypeOK' BY <1>0, <1>1, <1>2, <1>4 DEF L!TypeOK, LUsed, LCall, L!None
<1>7. LTexts' /\ L!RowsKeepTheirText' BY <1>1 DEF LInv, LTexts, L!RowsKeepTheirText
<1>8. LUpdates' BY <1>1, <1>3, <1>4 DEF LInv, LUpdates
<1>9. LDocs'
  <2>1. \A b \in 1 .. LifeCalls : \A op : LAt(b, op)' => LAt(b, op) /\ l_calls'[b] = l_calls[b]
    BY <1>3, <1>4 DEF LAt
  <2> QED BY <2>1, <1>1 DEF LInv, LDocs
<1>10. L!RowHasFile' BY <1>2 DEF L!RowHasFile
<1> QED BY <1>5, <1>6, <1>7, <1>8, <1>9, <1>10 DEF LInv

\* What is left to show for a step of a document, once its request and the documents are known.
LEMMA LDocStep ==
    ASSUME LInv, NEW c \in 1 .. LifeCalls, NEW e \in LCall, LWell(e), e.op = l_calls[c].op,
           e.op \in {"upload", "remove"}, l_calls' = [l_calls EXCEPT ![c] = e],
           UNCHANGED <<l_rows, l_reminders, l_typed, l_form, l_list, l_shown, l_uploading, l_used>>,
           l_docs' \in [L!Ids -> [file: {"new", "stored", "gone"}, row: BOOLEAN, copy: BOOLEAN]],
           LDocs', L!RowHasFile'
    PROVE  LInv'
<1>0. L!TypeOK BY DEF LInv
<1>t. l_calls \in [1 .. LifeCalls -> LCall] BY <1>0 DEF L!TypeOK, LCall, L!None
<1>1. l_calls' \in [1 .. LifeCalls -> LCall] BY <1>t
<1>2. \A b \in 1 .. LifeCalls : l_calls'[b] = IF b = c THEN e ELSE l_calls[b] BY <1>t
<1>3. LCalls' BY <1>2 DEF LInv, LCalls
<1>4. LUpdates' BY <1>2 DEF LInv, LUpdates
<1>5. L!TypeOK' BY <1>0, <1>1 DEF L!TypeOK, LCall, L!None
<1> QED BY <1>3, <1>4, <1>5 DEF LInv, LTexts, L!RowsKeepTheirText

\* The server handles a document: the others keep their requests.
LEMMA LDocuments ==
    ASSUME LInv, NEW c \in 1 .. LifeCalls,
           \/ L!StoreFile(c) \/ L!CreateDocument(c) \/ L!MirrorDocument(c)
           \/ L!RemoveFile(c) \/ L!RemoveRow(c)
    PROVE  LInv'
<1> DEFINE D == [file: {"new", "stored", "gone"}, row: BOOLEAN, copy: BOOLEAN]
           i == l_calls[c].id
           Same == UNCHANGED <<l_rows, l_reminders, l_typed, l_form, l_list, l_shown, l_uploading, l_used>>
           Busy(b, d) == l_calls[b].op \in {"upload", "remove"} /\ l_calls[b].at = "file" /\ l_calls[b].id = d
<1>0. L!TypeOK BY DEF LInv
<1>t. /\ l_calls \in [1 .. LifeCalls -> LCall] /\ l_docs \in [L!Ids -> D]
      /\ l_calls[c] \in LCall /\ LWell(l_calls[c])
  BY <1>0 DEF L!TypeOK, LCall, LInv, LCalls, L!None
<1>s. Same
  BY DEF L!StoreFile, L!CreateDocument, L!MirrorDocument, L!RemoveFile, L!RemoveRow, L!Reply, L!Page
<1>o. l_calls[c].op \in {"upload", "remove"}
  BY DEF L!StoreFile, L!CreateDocument, L!MirrorDocument, L!RemoveFile, L!RemoveRow, L!Sent
<1>k. /\ \A d \in L!Ids : l_docs[d].file = "new" => ~l_docs[d].row
      /\ \A b \in 1 .. LifeCalls : LAt(b, "upload") =>
             l_calls[b].id \in L!Ids /\ l_docs[l_calls[b].id].file = "stored" /\ ~l_docs[l_calls[b].id].row
      /\ \A b \in 1 .. LifeCalls : LAt(b, "remove") => l_calls[b].id \in L!Ids /\ l_docs[l_calls[b].id].file = "gone"
      /\ \A a, b \in 1 .. LifeCalls :
             a # b /\ LAt(a, "upload") /\ LAt(b, "upload") => l_calls[a].id # l_calls[b].id
  BY DEF LInv, LDocs, LCalls, LWell, LAt
<1>r. \A d \in L!Ids : l_docs[d].row # (l_docs[d].file = "stored") =>
          l_used.faults > 0 \/ \E b \in 1 .. LifeCalls : Busy(b, d)
  BY DEF LInv, L!RowHasFile
<1>a. ASSUME NEW at \in {"file", "row", "done", "failed"}, NEW e, e = [l_calls[c] EXCEPT !.at = at],
             at = "row" => l_calls[c].op = "upload", i \in L!Ids
      PROVE  e \in LCall /\ LWell(e) /\ e.op = l_calls[c].op /\ e.at = at /\ e.id = i
  <2>1. e \in LCall /\ e.op = l_calls[c].op /\ e.at = at /\ e.id = i BY <1>t, <1>a DEF LCall
  <2> QED BY <2>1, <1>t, <1>o, <1>a DEF LWell
<1>1. CASE L!StoreFile(c)
  <2>1. PICK d \in L!Ids : /\ l_docs[d].file = "new"
                           /\ l_docs' = [l_docs EXCEPT ![d] = [l_docs[d] EXCEPT !.file = "stored"]]
                           /\ l_calls' = [l_calls EXCEPT ![c] = [l_calls[c] EXCEPT !.at = "file", !.id = d]]
    BY <1>1, <1>t DEF L!StoreFile
  <2> DEFINE e == [l_calls[c] EXCEPT !.at = "file", !.id = d]
             f == [l_docs[d] EXCEPT !.file = "stored"]
  <2>2. l_calls[c].op = "upload" /\ l_calls[c].at = "sent" BY <1>1 DEF L!StoreFile, L!Sent
  <2>3. e \in LCall /\ e.op = "upload" /\ e.at = "file" /\ e.id = d BY <2>2, <1>t, LNames DEF LCall
  <2>4. LWell(e) BY <2>3 DEF LWell
  <2>5. f \in D /\ f.file = "stored" /\ ~f.row /\ ~l_docs[d].row
    <3>1. l_docs[d] \in D /\ ~l_docs[d].row BY <2>1, <1>t, <1>k
    <3> QED BY <3>1
  <2>6. l_docs' = [l_docs EXCEPT ![d] = f] /\ l_calls' = [l_calls EXCEPT ![c] = e] BY <2>1
  <2> HIDE DEF e, f, D
  <2>7. /\ l_docs' \in [L!Ids -> D]
        /\ \A a \in L!Ids : l_docs'[a] = IF a = d THEN f ELSE l_docs[a]
        /\ \A b \in 1 .. LifeCalls : l_calls'[b] = IF b = c THEN e ELSE l_calls[b]
    BY <2>5, <2>6, <1>t
  <2>8. \A b \in 1 .. LifeCalls : l_calls[b].at = "file" => b # c /\ (LAt(b, "upload") \/ LAt(b, "remove") => l_calls[b].id # d)
    BY <2>1, <2>2, <1>k DEF LAt
  <2>9. \A b \in 1 .. LifeCalls : \A op : LAt(b, op)' => (b = c /\ op = "upload") \/ (b # c /\ LAt(b, op))
    BY <2>7, <2>3 DEF LAt
  <2>10. LDocs' BY <2>3, <2>5, <2>7, <2>8, <2>9, <1>k DEF LDocs, LAt
  <2>11. L!RowHasFile'
    <3> SUFFICES ASSUME NEW a \in L!Ids, l_docs'[a].row # (l_docs'[a].file = "stored"), ~(l_used.faults > 0)
                 PROVE  \E b \in 1 .. LifeCalls :
                            l_calls'[b].op \in {"upload", "remove"} /\ l_calls'[b].at = "file" /\ l_calls'[b].id = a
      BY <1>s DEF L!RowHasFile
    <3>1. CASE a = d BY <3>1, <2>3, <2>7
    <3>2. CASE a # d
      <4>1. PICK b \in 1 .. LifeCalls : Busy(b, a) BY <3>2, <2>7, <1>r
      <4> QED BY <4>1, <2>7, <2>8
    <3> QED BY <3>1, <3>2
  <2> QED BY <2>2, <2>3, <2>4, <2>6, <2>7, <2>10, <2>11, <1>s, LDocStep DEF D
<1>2. CASE L!CreateDocument(c)
  <2> DEFINE at == IF l_calls[c].also THEN "row" ELSE "done"
             e == [l_calls[c] EXCEPT !.at = at]
             f == [l_docs[i] EXCEPT !.row = TRUE]
  <2>1. /\ l_calls[c].op = "upload" /\ l_calls[c].at = "file" /\ l_docs' = [l_docs EXCEPT ![i] = f]
        /\ l_calls' = [l_calls EXCEPT ![c] = e]
    BY <1>2 DEF L!CreateDocument, L!Reply
  <2>2. i \in L!Ids /\ l_docs[i].file = "stored" BY <2>1, <1>k DEF LAt
  <2>3. e \in LCall /\ LWell(e) /\ e.op = l_calls[c].op /\ e.at \in {"row", "done"} BY <2>1, <2>2, <1>a
  <2>5. f \in D /\ f.file = "stored" /\ f.row
    <3>1. l_docs[i] \in D BY <2>2, <1>t
    <3> QED BY <3>1, <2>2
  <2> HIDE DEF e, f, D, at
  <2>7. /\ l_docs' \in [L!Ids -> D]
        /\ \A a \in L!Ids : l_docs'[a] = IF a = i THEN f ELSE l_docs[a]
        /\ \A b \in 1 .. LifeCalls : l_calls'[b] = IF b = c THEN e ELSE l_calls[b]
    BY <2>1, <2>2, <2>5, <1>t
  <2>9. \A b \in 1 .. LifeCalls : \A op : LAt(b, op)' => b # c /\ LAt(b, op)
    BY <2>7, <2>3 DEF LAt
  <2>8. \A b \in 1 .. LifeCalls : b # c /\ (LAt(b, "upload") \/ LAt(b, "remove")) => l_calls[b].id # i
    BY <2>1, <2>2, <1>k DEF LAt
  <2>10. LDocs' BY <2>5, <2>7, <2>8, <2>9, <1>k DEF LDocs, LAt
  <2>11. L!RowHasFile'
    <3> SUFFICES ASSUME NEW a \in L!Ids, l_docs'[a].row # (l_docs'[a].file = "stored"), ~(l_used.faults > 0)
                 PROVE  \E b \in 1 .. LifeCalls :
                            l_calls'[b].op \in {"upload", "remove"} /\ l_calls'[b].at = "file" /\ l_calls'[b].id = a
      BY <1>s DEF L!RowHasFile
    <3>1. a # i BY <2>5, <2>7
    <3>2. PICK b \in 1 .. LifeCalls : Busy(b, a) BY <3>1, <2>7, <1>r
    <3> QED BY <3>1, <3>2, <2>7
  <2> QED BY <2>1, <2>3, <2>7, <2>10, <2>11, <1>s, <1>o, LDocStep DEF D
<1>3. CASE L!MirrorDocument(c)
  <2>1. l_calls[c].op = "upload" /\ l_calls[c].at = "row" /\ i \in L!Ids
    BY <1>3, <1>t DEF L!MirrorDocument, LWell
  <2>2. PICK at \in {"done", "failed"} : l_calls' = [l_calls EXCEPT ![c] = [l_calls[c] EXCEPT !.at = at]]
    BY <1>3 DEF L!MirrorDocument, L!Reply
  <2> DEFINE e == [l_calls[c] EXCEPT !.at = at]
             f == [l_docs[i] EXCEPT !.copy = TRUE]
  <2>3. e \in LCall /\ LWell(e) /\ e.op = l_calls[c].op /\ e.at = at BY <2>1, <1>a
  <2>4. l_docs' = l_docs \/ l_docs' = [l_docs EXCEPT ![i] = f] BY <1>3 DEF L!MirrorDocument
  <2>5. f \in D /\ f.file = l_docs[i].file /\ f.row = l_docs[i].row
    <3>1. l_docs[i] \in D BY <2>1, <1>t
    <3> QED BY <3>1
  <2>6. l_calls' = [l_calls EXCEPT ![c] = e] BY <2>2
  <2> HIDE DEF e, f, D
  <2>7. /\ l_docs' \in [L!Ids -> D]
        /\ \A a \in L!Ids : l_docs'[a].row = l_docs[a].row /\ l_docs'[a].file = l_docs[a].file
        /\ \A b \in 1 .. LifeCalls : l_calls'[b] = IF b = c THEN e ELSE l_calls[b]
    BY <2>1, <2>4, <2>5, <2>6, <1>t
  <2>9. \A b \in 1 .. LifeCalls : \A op : LAt(b, op)' => b # c /\ LAt(b, op)
    BY <2>7, <2>3 DEF LAt
  <2>10. LDocs' BY <2>7, <2>9, <1>k DEF LDocs, LAt
  <2>11. L!RowHasFile'
    <3> SUFFICES ASSUME NEW a \in L!Ids, l_docs'[a].row # (l_docs'[a].file = "stored"), ~(l_used.faults > 0)
                 PROVE  \E b \in 1 .. LifeCalls :
                            l_calls'[b].op \in {"upload", "remove"} /\ l_calls'[b].at = "file" /\ l_calls'[b].id = a
      BY <1>s DEF L!RowHasFile
    <3>2. PICK b \in 1 .. LifeCalls : Busy(b, a) BY <2>7, <1>r
    <3> QED BY <3>2, <2>1, <2>7
  <2> QED BY <2>6, <2>3, <2>7, <2>10, <2>11, <1>s, <1>o, LDocStep DEF D
<1>4. CASE L!RemoveFile(c)
  <2>1. l_calls[c].op = "remove" /\ l_calls[c].at = "sent" /\ i \in L!Ids
    BY <1>4, <1>t DEF L!RemoveFile, L!Sent, LWell
  <2>2. CASE ~l_docs[i].row
    <3> DEFINE e == [l_calls[c] EXCEPT !.at = "failed"]
    <3>1. l_docs' = l_docs /\ l_calls' = [l_calls EXCEPT ![c] = e] BY <1>4, <2>2 DEF L!RemoveFile, L!Reply
    <3>2. e \in LCall /\ LWell(e) /\ e.op = l_calls[c].op /\ e.at = "failed" BY <2>1, <1>a
    <3> HIDE DEF e, D
    <3>3. \A b \in 1 .. LifeCalls : l_calls'[b] = IF b = c THEN e ELSE l_calls[b] BY <3>1, <1>t
    <3>4. \A b \in 1 .. LifeCalls : \A op : LAt(b, op)' => b # c /\ LAt(b, op)
      BY <3>2, <3>3 DEF LAt
    <3>5. LDocs' BY <3>1, <3>3, <3>4, <1>k DEF LDocs, LAt
    <3>6. L!RowHasFile'
      <4> SUFFICES ASSUME NEW a \in L!Ids, l_docs[a].row # (l_docs[a].file = "stored"), ~(l_used.faults > 0)
                   PROVE  \E b \in 1 .. LifeCalls :
                              l_calls'[b].op \in {"upload", "remove"} /\ l_calls'[b].at = "file" /\ l_calls'[b].id = a
        BY <1>s, <3>1 DEF L!RowHasFile
      <4>2. PICK b \in 1 .. LifeCalls : Busy(b, a) BY <1>r
      <4> QED BY <4>2, <2>1, <3>3
    <3> QED BY <3>1, <3>2, <3>5, <3>6, <1>s, <1>o, <1>t, LDocStep DEF D
  <2>3. CASE l_docs[i].row
    <3> DEFINE e == [l_calls[c] EXCEPT !.at = "file"]
               f == [l_docs[i] EXCEPT !.file = "gone"]
    <3>1. l_docs' = [l_docs EXCEPT ![i] = f] /\ l_calls' = [l_calls EXCEPT ![c] = e]
      BY <1>4, <2>3 DEF L!RemoveFile, L!Reply
    <3>2. e \in LCall /\ LWell(e) /\ e.op = l_calls[c].op /\ e.at = "file" /\ e.id = i BY <2>1, <1>a
    <3>3. f \in D /\ f.file = "gone"
      <4>1. l_docs[i] \in D BY <2>1, <1>t
      <4> QED BY <4>1
    <3> DEFINE j == i
    <3>i. j \in L!Ids /\ l_docs' = [l_docs EXCEPT ![j] = f] /\ e.id = j /\ l_docs[j].row BY <2>1, <2>3, <3>1, <3>2
    <3>4. \A b \in 1 .. LifeCalls : LAt(b, "upload") => l_calls[b].id # j BY <2>3, <1>k
    <3> HIDE DEF e, f, D, i, j
    <3>5. /\ l_docs' \in [L!Ids -> D]
          /\ \A a \in L!Ids : l_docs'[a] = IF a = j THEN f ELSE l_docs[a]
          /\ \A b \in 1 .. LifeCalls : l_calls'[b] = IF b = c THEN e ELSE l_calls[b]
      BY <3>1, <3>3, <3>i, <1>t
    <3>6. \A b \in 1 .. LifeCalls : \A op : LAt(b, op)' => (b = c /\ op = "remove") \/ (b # c /\ LAt(b, op))
      BY <2>1, <3>2, <3>5 DEF LAt
    <3>7. LDocs' BY <3>3, <3>4, <3>5, <3>6, <3>i, <1>k DEF LDocs, LAt
    <3>8. L!RowHasFile'
      <4> SUFFICES ASSUME NEW a \in L!Ids, l_docs'[a].row # (l_docs'[a].file = "stored"), ~(l_used.faults > 0)
                   PROVE  \E b \in 1 .. LifeCalls :
                              l_calls'[b].op \in {"upload", "remove"} /\ l_calls'[b].at = "file" /\ l_calls'[b].id = a
        BY <1>s DEF L!RowHasFile
      <4>1. CASE a = j BY <4>1, <3>2, <3>5, <3>i, <1>o
      <4>2. CASE a # j
        <5>1. PICK b \in 1 .. LifeCalls : Busy(b, a) BY <4>2, <3>5, <1>r
        <5> QED BY <5>1, <2>1, <3>5
      <4> QED BY <4>1, <4>2
    <3> QED BY <3>1, <3>2, <3>5, <3>7, <3>8, <1>s, <1>o, LDocStep DEF D
  <2> QED BY <2>2, <2>3
<1>5. CASE L!RemoveRow(c)
  <2> DEFINE e == [l_calls[c] EXCEPT !.at = "done"]
             f == [l_docs[i] EXCEPT !.row = FALSE]
  <2>1. /\ l_calls[c].op = "remove" /\ l_calls[c].at = "file" /\ l_docs' = [l_docs EXCEPT ![i] = f]
        /\ l_calls' = [l_calls EXCEPT ![c] = e]
    BY <1>5 DEF L!RemoveRow, L!Reply
  <2>2. i \in L!Ids /\ l_docs[i].file = "gone" BY <2>1, <1>k DEF LAt
  <2>3. e \in LCall /\ LWell(e) /\ e.op = l_calls[c].op /\ e.at = "done" BY <2>1, <2>2, <1>a
  <2>5. f \in D /\ f.file = "gone" /\ f.row = FALSE
    <3>1. l_docs[i] \in D BY <2>2, <1>t
    <3> QED BY <3>1, <2>2
  <2> HIDE DEF e, f, D
  <2>7. /\ l_docs' \in [L!Ids -> D]
        /\ \A a \in L!Ids : l_docs'[a] = IF a = i THEN f ELSE l_docs[a]
        /\ \A b \in 1 .. LifeCalls : l_calls'[b] = IF b = c THEN e ELSE l_calls[b]
    BY <2>1, <2>2, <2>5, <1>t
  <2>9. \A b \in 1 .. LifeCalls : \A op : LAt(b, op)' => b # c /\ LAt(b, op)
    BY <2>7, <2>3 DEF LAt
  <2>8. \A b \in 1 .. LifeCalls : LAt(b, "upload") => l_calls[b].id # i
    BY <2>1, <2>2, <1>k DEF LAt
  <2>10. LDocs' BY <2>5, <2>7, <2>8, <2>9, <1>k DEF LDocs, LAt
  <2>11. L!RowHasFile'
    <3> SUFFICES ASSUME NEW a \in L!Ids, l_docs'[a].row # (l_docs'[a].file = "stored"), ~(l_used.faults > 0)
                 PROVE  \E b \in 1 .. LifeCalls :
                            l_calls'[b].op \in {"upload", "remove"} /\ l_calls'[b].at = "file" /\ l_calls'[b].id = a
      BY <1>s DEF L!RowHasFile
    <3>1. a # i BY <2>5, <2>7
    <3>2. PICK b \in 1 .. LifeCalls : Busy(b, a) BY <3>1, <2>7, <1>r
    <3> QED BY <3>1, <3>2, <2>7
  <2> QED BY <2>1, <2>3, <2>7, <2>10, <2>11, <1>s, <1>o, LDocStep DEF D
<1> QED BY <1>1, <1>2, <1>3, <1>4, <1>5

\* Every step keeps the invariant.
LEMMA LStep == LInv /\ (L!Next \/ UNCHANGED localLife) => LInv'
<1> SUFFICES ASSUME LInv, L!Next \/ UNCHANGED localLife PROVE LInv' OBVIOUS
<1>1. CASE L!Click
  <2>1. CASE \E p \in LifePages : \/ L!New(p)
                                  \/ \E i \in L!Ids : L!Edit(p, i)
                                  \/ \E t \in Texts : L!Type(p, t)
    BY <2>1, LForms
  <2> QED BY <1>1, <2>1, LClicks
<1>2. CASE L!Restart \/ \E c \in 1 .. LifeCalls : L!Fails(c) \/ L!MirrorFails(c) BY <1>2, LFaults
<1>3. ASSUME NEW c \in 1 .. LifeCalls, L!Handle(c) PROVE LInv'
  BY <1>3, LRows, LDocuments, LAnswers DEF L!Handle
<1>4. CASE UNCHANGED localLife
  BY <1>4 DEF localLife, LInv, L!TypeOK, LCalls, LWell, LTexts, LUpdates, LDocs, LAt,
              L!RowsKeepTheirText, L!RowHasFile
<1> QED BY <1>1, <1>2, <1>3, <1>4 DEF L!Next

\* What local life promises is part of its invariant.
LEMMA LTypes == LInv => L!TypeOK /\ L!RowsKeepTheirText /\ L!RowHasFile
BY DEF LInv
----------------------------------------------------------------------------
(* Benchmarks *)

\* What is always so of the runs, pages and results: their types, and that a submission is
\* of a result there is.
BTyped ==
    /\ b_run \in [Runs -> B!Run] /\ b_page \in [BenchPages -> B!Page]
    /\ b_share \in [B!Senders -> B!Share]
    /\ b_result \in Seq(B!Row)
    /\ b_repository \in Seq([id: Nat, tag: Tags \cup {"none"}, by: B!Share])
    /\ b_used \in [shares: 0 .. MaxShares, faults: 0 .. MaxFaults]
    /\ b_excused \subseteq DOMAIN b_result
\* What is sent, or in the repository, is a result there is.
BNamed ==
    /\ \A i \in DOMAIN b_repository : b_repository[i].id \in DOMAIN b_result
    /\ \A s \in B!Senders : b_share[s].at # "none" => b_share[s].id \in DOMAIN b_result

\* Those that are sending a result.
BSending(s, i) == b_share[s].at \in {"post", "save"} /\ b_share[s].id = i

\* Why a result is in the repository once: one that is there is marked, about to be marked, or
\* excused; two do not send the same one unexcused; and what is about to be sent is not there.
BMarked ==
    \A i \in DOMAIN b_repository :
        LET n == b_repository[i].id IN
        \/ n \in b_excused \/ b_result[n].sent
        \/ \E s \in B!Senders : b_share[s].at = "save" /\ b_share[s].id = n
BAlone ==
    \A s, t \in B!Senders :
        s # t /\ BSending(s, b_share[s].id) /\ BSending(t, b_share[s].id)
            => b_share[s].id \in b_excused
BFresh ==
    \A s \in B!Senders : b_share[s].at = "post" /\ b_share[s].id \notin b_excused =>
        \A i \in DOMAIN b_repository : b_repository[i].id # b_share[s].id
\* What is always so of the benchmarks.
BInv == BTyped /\ BNamed /\ BMarked /\ BAlone /\ BFresh /\ B!SharedOnce

\* The score of any subset of the measurements is a percentage.
LEMMA BScoreRange == ASSUME NEW got \in SUBSET B!Part PROVE B!Score(got) \in 0 .. 100
<1> DEFINE P(p) == IF p \in got THEN B!Weight[p] ELSE 0
           system == (B!Part \ B!AI) \cup (got \cap B!AI)
           S(p) == IF p \in system THEN B!Weight[p] ELSE 0
<1>1. /\ P("cpu") \in 0 .. 25 /\ P("memory") \in 0 .. 15 /\ P("read") \in 0 .. 10
      /\ P("write") \in 0 .. 10 /\ P("tokens") \in {0, 30} /\ P("ttft") \in {0, 10}
  BY DEF B!Weight
<1>2. S("cpu") = 25 /\ S("memory") = 15 /\ S("read") = 10 /\ S("write") = 10
  BY DEF B!Weight, B!Part, B!AI
<1>3. S("tokens") = P("tokens") /\ S("ttft") = P("ttft")
  BY DEF B!Weight, B!Part, B!AI
<1>4. /\ B!Weigh(system) \in {60, 70, 90, 100}
      /\ B!Weigh(got) \in Nat /\ B!Weigh(got) <= B!Weigh(system)
  <2>1. B!Weigh(got) = P("cpu") + P("memory") + P("read") + P("write") + P("tokens") + P("ttft")
    BY DEF B!Weigh
  <2>2. B!Weigh(system) = S("cpu") + S("memory") + S("read") + S("write") + S("tokens") + S("ttft")
    BY DEF B!Weigh
  <2> HIDE DEF P, S
  <2> QED BY <2>1, <2>2, <1>1, <1>2, <1>3
<1>5. B!Score(got) = (50 * B!Weigh(got)) \div B!Weigh(system)
  BY DEF B!Score
<1> HIDE DEF system
<1>6. CASE B!Weigh(system) = 60 BY <1>4, <1>5, <1>6
<1>7. CASE B!Weigh(system) = 70 BY <1>4, <1>5, <1>7
<1>8. CASE B!Weigh(system) = 90 BY <1>4, <1>5, <1>8
<1>9. CASE B!Weigh(system) = 100 BY <1>4, <1>5, <1>9
<1> QED BY <1>4, <1>6, <1>7, <1>8, <1>9

\* It is so at first.
LEMMA BInit == B!Init => BInv
<1> SUFFICES ASSUME B!Init PROVE BInv OBVIOUS
<1>1. BTyped
  BY MCLibraryAssumption DEF B!Init, BTyped, B!NoRun, B!Run, B!Steps, B!NoShare, B!Share, B!Senders, B!Page, B!Row
<1>2. DOMAIN b_repository = {}
  <2>1. b_repository = << >> BY DEF B!Init
  <2> QED BY <2>1
<1>3. \A s \in B!Senders : b_share[s].at = "none" BY DEF B!Init, B!NoShare
<1>4. BNamed /\ BMarked /\ B!SharedOnce BY <1>2, <1>3 DEF BNamed, BMarked, B!SharedOnce
<1>5. BAlone /\ BFresh BY <1>3 DEF BAlone, BFresh, BSending
<1> QED BY <1>1, <1>4, <1>5 DEF BInv

\* What a page shows after a run has told them all, and a run that has not begun.
LEMMA BTellsTyped ==
    ASSUME BTyped, NEW shows \in {"progress", "completed", "error"}
    PROVE  B!Told(shows) \in [BenchPages -> B!Page]
<1>1. Len(b_result) \in Nat
  <2>1. b_result \in Seq(B!Row) BY DEF BTyped
  <2> QED BY <2>1, LenProperties
<1>2. ASSUME NEW p \in BenchPages
      PROVE  /\ [b_page[p] EXCEPT !.shows = shows] \in B!Page
             /\ [b_page[p] EXCEPT !.shows = shows, !.running = FALSE, !.latest = Len(b_result)] \in B!Page
  <2>1. b_page[p] \in B!Page BY DEF BTyped
  <2> QED BY <2>1, <1>1 DEF B!Page
<1> QED BY <1>2 DEF B!Told

\* No run has its type.
LEMMA BNoRunTyped == B!NoRun \in B!Run
BY MCLibraryAssumption DEF B!NoRun, B!Run, B!Steps

\* A step of a run that says how far it is, and one that ends it.
LEMMA BGoes ==
    ASSUME BTyped, NEW r \in Runs, NEW e \in B!Run, B!Goes(r, e)
    PROVE  /\ b_run' \in [Runs -> B!Run] /\ b_page' \in [BenchPages -> B!Page]
           /\ b_result' = b_result
BY BTellsTyped DEF BTyped, B!Goes

\* A run ends, and every page that waited for it is told.
LEMMA BEnds ==
    ASSUME BTyped, NEW r \in Runs, NEW shows \in {"completed", "error"}, NEW left \in BOOLEAN,
           B!Ends(r, shows, left)
    PROVE  /\ b_run' \in [Runs -> B!Run] /\ b_page' \in [BenchPages -> B!Page]
           /\ b_result' = b_result
<1>1. b_page' \in [BenchPages -> B!Page]
  <2> DEFINE told == B!Told(shows)
             asker == {b_run[r].via} \cap {p \in BenchPages : b_page[p].waits}
  <2>1. told \in [BenchPages -> B!Page] BY BTellsTyped
  <2>2. \A p \in BenchPages : told[p] \in B!Page /\ [told[p] EXCEPT !.waits = FALSE] \in B!Page
    <3> HIDE DEF told
    <3> QED BY <2>1 DEF B!Page
  <2>3. b_page' = [p \in BenchPages |-> IF p \in asker THEN [told[p] EXCEPT !.waits = FALSE] ELSE told[p]]
    BY DEF B!Ends
  <2> HIDE DEF told, asker
  <2> QED BY <2>2, <2>3
<1>2. b_run' = [b_run EXCEPT ![r].at = "over", ![r].left = @ \/ left] /\ b_result' = b_result
  BY DEF B!Ends
<1>3. [b_run[r] EXCEPT !.at = "over", !.left = @ \/ left] \in B!Run
  <2>1. b_run[r] \in B!Run BY DEF BTyped
  <2> QED BY <2>1 DEF B!Run
<1>4. b_run' = [b_run EXCEPT ![r] = [b_run[r] EXCEPT !.at = "over", !.left = @ \/ left]]
  BY <1>2 DEF BTyped
<1>5. b_run' \in [Runs -> B!Run]
  BY <1>3, <1>4 DEF BTyped
<1> QED BY <1>1, <1>2, <1>5

\* Submissions and faults are counted up to their bounds.
LEMMA BUsed ==
    ASSUME BTyped,
           \/ B!Fault \/ B!Normally
           \/ b_used.shares < MaxShares /\ b_used' = [b_used EXCEPT !.shares = @ + 1]
    PROVE  b_used' \in [shares: 0 .. MaxShares, faults: 0 .. MaxFaults]
<1>1. b_used \in [shares: 0 .. MaxShares, faults: 0 .. MaxFaults] BY DEF BTyped
<1>2. CASE B!Fault
  <2>1. b_used.faults + 1 \in 0 .. MaxFaults BY <1>1, <1>2, Bounds DEF B!Fault
  <2> QED BY <1>1, <1>2, <2>1 DEF B!Fault
<1>3. CASE B!Normally BY <1>1, <1>3 DEF B!Normally
<1>4. CASE b_used.shares < MaxShares /\ b_used' = [b_used EXCEPT !.shares = @ + 1]
  <2>1. b_used.shares + 1 \in 0 .. MaxShares BY <1>1, <1>4, Bounds
  <2> QED BY <1>1, <1>4, <2>1
<1> QED BY <1>2, <1>3, <1>4

\* A step that leaves the results and the submissions alone keeps what is so of them.
LEMMA BApart ==
    ASSUME BInv, UNCHANGED <<b_result, b_share, b_repository, b_excused>>
    PROVE  BNamed' /\ BMarked' /\ BAlone' /\ BFresh' /\ B!SharedOnce'
BY DEF BInv, BNamed, BMarked, BAlone, BFresh, BSending, B!SharedOnce

\* The steps of a run but for the one that stores its result.
LEMMA BRunStep ==
    ASSUME BInv, NEW r \in Runs,
           \/ B!Take(r) \/ B!Hardware(r) \/ B!Image(r) \/ B!Create(r) \/ B!Measure(r)
           \/ B!Ask(r) \/ B!Report(r)
    PROVE  BInv'
<1> USE MCLibraryAssumption
<1>t. BTyped /\ b_run[r] \in B!Run BY DEF BInv, BTyped
<1>1. UNCHANGED <<b_result, b_share, b_repository, b_excused>>
  BY DEF B!Take, B!Hardware, B!Image, B!Create, B!Measure, B!Ask, B!Report, B!Sharing, B!Goes,
     B!Throws, B!ThrowsBeside, B!Ends
<1>2. b_used' \in [shares: 0 .. MaxShares, faults: 0 .. MaxFaults]
  BY <1>t, BUsed DEF B!Take, B!Hardware, B!Image, B!Create, B!Measure, B!Ask, B!Report,
     B!Throws, B!ThrowsBeside
<1>3. \/ b_run' = [b_run EXCEPT ![r].at = "hardware"] /\ b_run[r].at = "queued" /\ b_page' = b_page
      \/ \E e \in B!Run : B!Goes(r, e)
      \/ \E shows \in {"completed", "error"}, left \in BOOLEAN : B!Ends(r, shows, left)
  <2>1. CASE B!Take(r) BY <2>1 DEF B!Take
  <2>2. CASE B!Hardware(r)
    <3> DEFINE e == [b_run[r] EXCEPT !.at = IF b_run[r].type = "ai" THEN "ai" ELSE "image"]
    <3>1. e \in B!Run BY <1>t DEF B!Run, B!Steps
    <3> QED BY <2>2, <3>1 DEF B!Hardware, B!Throws
  <2>3. CASE B!Image(r)
    <3> DEFINE e == [b_run[r] EXCEPT !.at = "create"]
    <3>1. e \in B!Run BY <1>t DEF B!Run, B!Steps
    <3> QED BY <2>3, <3>1 DEF B!Image, B!Throws
  <2>4. CASE B!Create(r)
    <3> DEFINE e == [b_run[r] EXCEPT !.at = "test"]
    <3>1. e \in B!Run BY <1>t DEF B!Run, B!Steps
    <3> QED BY <2>4, <3>1 DEF B!Create, B!ThrowsBeside
  <2>5. CASE B!Measure(r)
    <3>1. ASSUME NEW e \in B!Run PROVE B!AfterTest(e) \in B!Run
      <4>1. CASE e.i < Tests
        <5>1. B!AfterTest(e) = [e EXCEPT !.i = @ + 1, !.at = "create"]
          BY <4>1 DEF B!AfterTest
        <5>2. e.i + 1 \in 1 .. Tests BY <4>1 DEF B!Run
        <5> QED BY <5>1, <5>2 DEF B!Run, B!Steps
      <4>2. CASE ~(e.i < Tests) BY <4>2 DEF B!Run, B!Steps, B!AfterTest
      <4> QED BY <4>1, <4>2
    <3> DEFINE e == [b_run[r] EXCEPT !.got = @ \cup {B!Test[b_run[r].i]}]
               f == [b_run[r] EXCEPT !.got = @ \cup {B!Test[b_run[r].i]}, !.left = TRUE]
    <3>2. B!Test[b_run[r].i] \in B!Part BY <1>t DEF B!Run, B!Test, B!Part
    <3>3. e \in B!Run /\ f \in B!Run BY <1>t, <3>2 DEF B!Run
    <3>4. \A g \in {e, f, b_run[r]} : B!AfterTest(g) \in B!Run BY <1>t, <3>1, <3>3
    <3>5. (\E g \in {e, f, b_run[r]} : B!Goes(r, B!AfterTest(g))) \/ B!ThrowsBeside(r)
      BY <2>5 DEF B!Measure
    <3> HIDE DEF e, f
    <3> QED BY <3>4, <3>5 DEF B!ThrowsBeside
  <2>6. CASE B!Ask(r)
    <3> DEFINE e == [b_run[r] EXCEPT !.at = "save", !.got = @ \cup B!AI]
               f == [b_run[r] EXCEPT !.at = "save"]
    <3>1. e \in B!Run /\ f \in B!Run BY <1>t DEF B!Run, B!Steps, B!Part, B!AI
    <3> QED BY <2>6, <3>1 DEF B!Ask, B!Throws
  <2>7. CASE B!Report(r) BY <2>7 DEF B!Report
  <2> QED BY <2>1, <2>2, <2>3, <2>4, <2>5, <2>6, <2>7
<1>4. BTyped'
  <2>1. b_run' \in [Runs -> B!Run] /\ b_page' \in [BenchPages -> B!Page]
    <3>1. CASE b_run' = [b_run EXCEPT ![r].at = "hardware"] /\ b_run[r].at = "queued" /\ b_page' = b_page
      BY <3>1, <1>t, ZenonT(40) DEF BTyped, B!Run, B!Steps
    <3>2. CASE \E e \in B!Run : B!Goes(r, e) BY <3>2, <1>t, BGoes
    <3>3. CASE \E shows \in {"completed", "error"}, left \in BOOLEAN : B!Ends(r, shows, left)
      BY <3>3, <1>t, BEnds
    <3> QED BY <1>3, <3>1, <3>2, <3>3
  <2> QED BY <2>1, <1>1, <1>2, <1>t DEF BTyped
<1> QED BY <1>1, <1>4, BApart DEF BInv

\* The other steps that do not share anything: a run begins, or its worker dies.
LEMMA BRunOther ==
    ASSUME BInv,
           \/ \E p \in BenchPages, type \in Types : B!Start(p, type)
           \/ \E type \in Types : B!Dispatch(type)
           \/ B!WorkerDies
    PROVE  BInv'
<1>t. BTyped BY DEF BInv
<1>1. UNCHANGED <<b_result, b_share, b_repository, b_excused>>
  BY DEF B!Start, B!Dispatch, B!WorkerDies, B!Sharing
<1>2. b_used' \in [shares: 0 .. MaxShares, faults: 0 .. MaxFaults]
  BY <1>t, BUsed DEF B!Start, B!Dispatch, B!WorkerDies
<1> DEFINE Fine == b_run' \in [Runs -> B!Run] /\ b_page' \in [BenchPages -> B!Page]
<1>3. Fine
  <2>1. ASSUME NEW p \in BenchPages, NEW type \in Types, B!Start(p, type) PROVE Fine
    <3>1. PICK r \in Runs :
            b_run' = [b_run EXCEPT ![r] = [B!NoRun EXCEPT !.at = "hardware", !.via = p, !.type = type]]
      BY <2>1 DEF B!Start
    <3>2. [B!NoRun EXCEPT !.at = "hardware", !.via = p, !.type = type] \in B!Run
      BY BNoRunTyped DEF B!Run, B!Steps
    <3>3. b_page' \in [BenchPages -> B!Page]
      <4> DEFINE e == [b_page[p] EXCEPT !.running = TRUE, !.waits = TRUE]
      <4>1. e \in B!Page /\ [e EXCEPT !.shows = "progress"] \in B!Page
        BY <1>t DEF BTyped, B!Page
      <4>2. b_page' = [b_page EXCEPT ![p] = [e EXCEPT !.shows = "progress"]]
        BY <2>1, <1>t DEF B!Start, B!Simulated, BTyped
      <4> HIDE DEF e
      <4> QED BY <4>1, <4>2, <1>t DEF BTyped
    <3> QED BY <3>1, <3>2, <3>3, <1>t, BNoRunTyped DEF BTyped, B!Run
  <2>2. ASSUME NEW type \in Types, B!Dispatch(type) PROVE Fine
    <3>1. PICK r \in Runs, via \in {"shell", "job"} :
            b_run' = [b_run EXCEPT ![r] = [B!NoRun EXCEPT !.type = type, !.via = via,
                                    !.at = IF via = "job" THEN "queued" ELSE "hardware"]]
      BY <2>2 DEF B!Dispatch
    <3>2. [B!NoRun EXCEPT !.type = type, !.via = via,
                          !.at = IF via = "job" THEN "queued" ELSE "hardware"] \in B!Run
      BY BNoRunTyped DEF B!Run, B!Steps
    <3>3. b_page' = b_page BY <2>2 DEF B!Dispatch
    <3> QED BY <3>1, <3>2, <3>3, <1>t, BNoRunTyped DEF BTyped, B!Run
  <2>3. CASE B!WorkerDies
    <3> DEFINE again(r) == [B!NoRun EXCEPT !.type = b_run[r].type, !.again = TRUE,
                                           !.left = b_run[r].left \/ b_run[r].at = "test",
                                           !.at = IF b_run[r].again THEN "over" ELSE "queued"]
    <3>1. \A r \in Runs : again(r) \in B!Run
      BY <1>t, BNoRunTyped DEF BTyped, B!Run, B!Steps
    <3>2. b_run' = [r \in Runs |-> IF b_run[r].via = "job" /\ b_run[r].at \in B!Steps
                                   THEN again(r) ELSE b_run[r]]
      BY <2>3 DEF B!WorkerDies
    <3>3. b_page' = b_page BY <2>3 DEF B!WorkerDies
    <3> HIDE DEF again
    <3> QED BY <3>1, <3>2, <3>3, <1>t DEF BTyped
  <2> QED BY <2>1, <2>2, <2>3
<1>4. BTyped' BY <1>1, <1>2, <1>3, <1>t DEF BTyped
<1> QED BY <1>1, <1>3, <1>4, BApart DEF BInv

\* The run stores its result, the last of the table.
LEMMA BSaveStep == ASSUME BInv, NEW r \in Runs, B!Save(r) PROVE BInv'
<1>t. BTyped /\ b_run[r] \in B!Run BY DEF BInv, BTyped
<1> DEFINE row == [type |-> b_run[r].type, ai |-> B!AI \subseteq b_run[r].got,
                   score |-> B!Score(b_run[r].got), tag |-> "none", sent |-> FALSE]
<1>1. row \in B!Row
  <2>1. B!Score(b_run[r].got) \in 0 .. 100 BY <1>t, BScoreRange DEF B!Run
  <2>2. b_run[r].type \in Types BY <1>t DEF B!Run
  <2> QED BY <2>1, <2>2 DEF B!Row
<1>2. b_result' = Append(b_result, row) BY DEF B!Save
<1> HIDE DEF row
<1>3. /\ b_result' \in Seq(B!Row) /\ DOMAIN b_result \subseteq DOMAIN b_result'
      /\ \A i \in DOMAIN b_result : b_result'[i] = b_result[i]
  <2>1. b_result \in Seq(B!Row) BY <1>t DEF BTyped
  <2>2. /\ b_result' \in Seq(B!Row) /\ Len(b_result') = Len(b_result) + 1
        /\ \A i \in 1 .. Len(b_result) : b_result'[i] = b_result[i]
    BY <1>1, <1>2, <2>1, AppendProperties
  <2>3. DOMAIN b_result = 1 .. Len(b_result) /\ Len(b_result) \in Nat BY <2>1, LenProperties
  <2>4. DOMAIN b_result' = 1 .. Len(b_result') BY <2>2, LenProperties
  <2> QED BY <2>2, <2>3, <2>4
<1>4. UNCHANGED <<b_share, b_repository, b_excused, b_used>>
  BY DEF B!Save, B!Sharing, B!Normally
<1>5. b_run' \in [Runs -> B!Run] /\ b_page' \in [BenchPages -> B!Page]
  BY <1>t, BTellsTyped DEF B!Save, BTyped, B!Run, B!Steps
<1>6. BTyped' BY <1>3, <1>4, <1>5, <1>t DEF BTyped
<1>7. BNamed' BY <1>3, <1>4 DEF BInv, BNamed
<1>8. BMarked' BY <1>3, <1>4 DEF BInv, BNamed, BMarked
<1>9. BAlone' /\ BFresh' /\ B!SharedOnce' BY <1>4 DEF BInv, BAlone, BFresh, BSending, B!SharedOnce
<1> QED BY <1>5, <1>6, <1>7, <1>8, <1>9 DEF BInv

\* A submission that has not begun says nothing of any result.
LEMMA BNoShareTyped == B!NoShare \in B!Share /\ B!NoShare.at = "none"
BY DEF B!NoShare, B!Share

\* Restarting the server ends the runs of its pages and their submissions, and takes back no result.
LEMMA BServerDies == ASSUME BInv, B!ServerDies PROVE BInv'
<1>t. BTyped BY DEF BInv
<1>1. b_result' = b_result /\ b_repository' = b_repository BY DEF B!ServerDies
<1>2. b_used' \in [shares: 0 .. MaxShares, faults: 0 .. MaxFaults]
  BY <1>t, BUsed DEF B!ServerDies
<1>3. b_run' \in [Runs -> B!Run]
  <2> DEFINE dead(r) == [b_run[r] EXCEPT !.at = "over", !.left = @ \/ b_run[r].at = "test"]
  <2>1. ASSUME NEW r \in Runs PROVE dead(r) \in B!Run
    <3>1. b_run[r] \in B!Run BY <1>t DEF BTyped
    <3> QED BY <3>1 DEF B!Run
  <2>2. b_run' = [r \in Runs |-> IF b_run[r].via \in BenchPages /\ b_run[r].at \in B!Steps
                                 THEN dead(r) ELSE b_run[r]]
    BY DEF B!ServerDies
  <2> HIDE DEF dead
  <2> QED BY <2>1, <2>2, <1>t DEF BTyped
<1>4. b_page' \in [BenchPages -> B!Page]
  <2> DEFINE told(p) == [b_page[p] EXCEPT !.waits = FALSE, !.running = FALSE, !.shows = "error"]
  <2>1. \A p \in BenchPages : told(p) \in B!Page BY <1>t DEF BTyped, B!Page
  <2>2. b_page' = [p \in BenchPages |-> IF b_page[p].waits THEN told(p) ELSE b_page[p]]
    BY DEF B!ServerDies
  <2> HIDE DEF told
  <2> QED BY <2>1, <2>2, <1>t DEF BTyped
<1>5. b_share' = [s \in B!Senders |-> IF s = "shell" THEN b_share[s] ELSE B!NoShare]
  BY DEF B!ServerDies
<1>6. b_share' \in [B!Senders -> B!Share] BY <1>5, <1>t, BNoShareTyped DEF BTyped
<1>7. b_excused' = b_excused \cup {b_share[p].id : p \in {q \in BenchPages : b_share[q].at = "save"}}
  BY DEF B!ServerDies
<1>8. BTyped'
  <2>1. b_excused' \subseteq DOMAIN b_result
    BY <1>7, <1>t DEF BTyped, BInv, BNamed, B!Senders
  <2> QED BY <2>1, <1>1, <1>2, <1>3, <1>4, <1>6, <1>t DEF BTyped
<1>9. BNamed' BY <1>1, <1>5, BNoShareTyped DEF BInv, BNamed
<1>10. BMarked'
  <2> SUFFICES ASSUME NEW i \in DOMAIN b_repository, b_repository[i].id \notin b_excused',
                      ~b_result[b_repository[i].id].sent
               PROVE  \E s \in B!Senders : b_share'[s].at = "save" /\ b_share'[s].id = b_repository[i].id
    BY <1>1 DEF BMarked
  <2>1. PICK s \in B!Senders : b_share[s].at = "save" /\ b_share[s].id = b_repository[i].id
    BY <1>7 DEF BInv, BMarked
  <2>2. s = "shell" BY <2>1, <1>7 DEF B!Senders
  <2> QED BY <2>1, <2>2, <1>5
<1>11. BAlone' /\ BFresh' /\ B!SharedOnce'
  BY <1>1, <1>5, <1>7, BNoShareTyped DEF BInv, BAlone, BFresh, BSending, B!SharedOnce
<1> QED BY <1>3, <1>8, <1>9, <1>10, <1>11 DEF BInv

\* A submission that goes on, without sending yet or any more, or that begins or ends.
LEMMA BShareStep ==
    ASSUME BInv, NEW s \in B!Senders, NEW e \in B!Share,
           b_share' = [b_share EXCEPT ![s] = e], b_share[s].at \in {"none", "tag", "look", "post"},
           e.at # "none" => e.id \in DOMAIN b_result, e.at \in {"none", "tag", "look"},
           UNCHANGED <<b_run, b_page, b_result, b_repository, b_excused>>,
           \/ B!Fault \/ B!Normally
           \/ b_used.shares < MaxShares /\ b_used' = [b_used EXCEPT !.shares = @ + 1]
    PROVE  BInv'
<1>t. BTyped BY DEF BInv
<1>1. b_used' \in [shares: 0 .. MaxShares, faults: 0 .. MaxFaults] BY <1>t, BUsed
<1>2. BTyped' BY <1>1, <1>t DEF BTyped
<1>3. BNamed' /\ B!SharedOnce' BY <1>t DEF BInv, BTyped, BNamed, B!SharedOnce
<1>4. \A t \in B!Senders : t # s => b_share'[t] = b_share[t] BY <1>t DEF BTyped
<1>5. b_share'[s] = e BY <1>t DEF BTyped
<1>6. BMarked' BY <1>4 DEF BInv, BMarked
<1>7. BAlone' BY <1>4, <1>5 DEF BInv, BAlone, BSending
<1>8. BFresh' BY <1>4, <1>5 DEF BInv, BFresh
<1> QED BY <1>2, <1>3, <1>6, <1>7, <1>8 DEF BInv

\* A submission begins with what its page shows, or is refused: nothing is marked by that.
LEMMA BShares ==
    ASSUME BInv,
           \/ \E p \in BenchPages, tag \in B!TagChoices, anonymous \in BOOLEAN :
                  B!ShareClick(p, tag, anonymous)
           \/ \E i \in DOMAIN b_result : B!ShareShell(i)
           \/ \E s \in B!Senders : B!Refused(s)
    PROVE  BInv'
<1>t. BTyped BY DEF BInv
<1>1. ASSUME NEW p \in BenchPages, NEW tag \in B!TagChoices, NEW anonymous \in BOOLEAN,
             B!ShareClick(p, tag, anonymous)
      PROVE  BInv'
  <2> DEFINE e == [B!NoShare EXCEPT !.id = b_page[p].latest, !.tag = tag, !.anonymous = anonymous,
                                    !.at = IF anonymous THEN "look" ELSE "tag"]
  <2>1. e \in B!Share /\ e.at \in {"tag", "look"} /\ e.id = b_page[p].latest
    BY <1>t, BNoShareTyped DEF B!Share, BTyped, B!Page, B!TagChoices
  <2>2. b_share' = [b_share EXCEPT ![p] = e] /\ b_share[p].at = "none"
        /\ b_page[p].latest \in DOMAIN b_result
    BY <1>1 DEF B!ShareClick, B!Offered, B!Shareable
  <2>3. UNCHANGED <<b_run, b_page, b_result, b_repository, b_excused>>
        /\ b_used.shares < MaxShares /\ b_used' = [b_used EXCEPT !.shares = @ + 1]
    BY <1>1 DEF B!ShareClick
  <2> HIDE DEF e
  <2> QED BY <2>1, <2>2, <2>3, BShareStep DEF B!Senders
<1>2. ASSUME NEW i \in DOMAIN b_result, B!ShareShell(i) PROVE BInv'
  <2> DEFINE e == [B!NoShare EXCEPT !.id = i, !.at = "look"]
  <2>n. i \in Nat
    <3>1. b_result \in Seq(B!Row) BY <1>t DEF BTyped
    <3> QED BY <3>1, LenProperties
  <2>1. e \in B!Share /\ e.at = "look" /\ e.id = i
    BY <2>n, BNoShareTyped DEF B!Share
  <2>2. b_share' = [b_share EXCEPT !["shell"] = e] /\ b_share["shell"].at = "none"
    BY <1>2 DEF B!ShareShell
  <2>3. UNCHANGED <<b_run, b_page, b_result, b_repository, b_excused>>
        /\ b_used.shares < MaxShares /\ b_used' = [b_used EXCEPT !.shares = @ + 1]
    BY <1>2 DEF B!ShareShell
  <2> HIDE DEF e
  <2> QED BY <2>1, <2>2, <2>3, BShareStep DEF B!Senders
<1>3. ASSUME NEW s \in B!Senders, B!Refused(s) PROVE BInv'
  BY <1>3, BNoShareTyped, BShareStep DEF B!Refused
<1> QED BY <1>1, <1>2, <1>3

\* The tag of a result is stored; whether it was sent is not touched.
LEMMA BSaveTag == ASSUME BInv, NEW p \in BenchPages, B!SaveTag(p) PROVE BInv'
<1>t. BTyped /\ p \in B!Senders /\ b_share[p] \in B!Share BY DEF BInv, BTyped, B!Senders
<1> DEFINE n == b_share[p].id
           e == [b_share[p] EXCEPT !.at = "look"]
<1>1. /\ b_share[p].at = "tag" /\ b_share' = [b_share EXCEPT ![p] = e]
      /\ b_result' = [b_result EXCEPT ![n].tag = b_share[p].tag]
      /\ UNCHANGED <<b_run, b_page, b_repository, b_excused, b_used>>
  BY <1>t DEF B!SaveTag, B!Normally, BTyped
<1>2. n \in DOMAIN b_result BY <1>1, <1>t DEF BInv, BNamed
<1>3. e \in B!Share /\ e.at = "look" /\ e.id = n BY <1>t DEF B!Share
<1>4. /\ b_result' \in Seq(B!Row) /\ DOMAIN b_result' = DOMAIN b_result
      /\ \A i \in DOMAIN b_result : b_result'[i].sent = b_result[i].sent
  <2>1. b_result \in Seq(B!Row) /\ b_result[n] \in B!Row BY <1>t, <1>2, ElementOfSeq, LenProperties DEF BTyped
  <2>2. [b_result[n] EXCEPT !.tag = b_share[p].tag] \in B!Row
    BY <2>1, <1>t DEF B!Row, B!Share
  <2>3. b_result' = [b_result EXCEPT ![n] = [b_result[n] EXCEPT !.tag = b_share[p].tag]]
    BY <1>1
  <2>4. n \in 1 .. Len(b_result) BY <2>1, <1>2, LenProperties
  <2>5. b_result' \in Seq(B!Row) BY <2>1, <2>2, <2>3, <2>4, ExceptSeq
  <2> QED BY <2>1, <2>2, <2>3, <2>5 DEF B!Row
<1> HIDE DEF e, n
<1>5. BTyped' BY <1>1, <1>3, <1>4, <1>t DEF BTyped
<1>6. \A t \in B!Senders : t # p => b_share'[t] = b_share[t] BY <1>1, <1>t DEF BTyped
<1>7. b_share'[p] = e BY <1>1, <1>t DEF BTyped
<1>8. BNamed' BY <1>1, <1>2, <1>3, <1>4, <1>6, <1>7 DEF BInv, BNamed
<1>9. BMarked' BY <1>1, <1>4, <1>6 DEF BInv, BMarked, BNamed
<1>10. BAlone' /\ BFresh' BY <1>1, <1>3, <1>6, <1>7 DEF BInv, BAlone, BFresh, BSending
<1>11. B!SharedOnce' BY <1>1 DEF BInv, B!SharedOnce
<1> QED BY <1>5, <1>8, <1>9, <1>10, <1>11 DEF BInv

\* A submission that is about to send: its result is not there, or excused from now on.
LEMMA BLook == ASSUME BInv, NEW s \in B!Senders, B!Look(s) PROVE BInv'
<1>t. BTyped /\ b_share[s] \in B!Share BY DEF BInv, BTyped
<1> DEFINE n == b_share[s].id
           sends == IF b_share[s].anonymous THEN "none" ELSE b_result[n].tag
           e == [b_share[s] EXCEPT !.at = "post", !.sends = sends]
           met == {t \in B!Senders \ {s} : b_share[t].id = n /\ b_share[t].at \in {"post", "save"}}
<1>1. /\ b_share[s].at = "look" /\ b_share' = [b_share EXCEPT ![s] = e]
      /\ n \in DOMAIN b_result /\ ~b_result[n].sent
      /\ UNCHANGED <<b_run, b_page, b_result, b_repository, b_used>>
      /\ b_excused' = b_excused \cup {n : t \in met}
  BY <1>t DEF B!Look, B!Shareable, B!Normally, BTyped
<1>2. e \in B!Share /\ e.at = "post" /\ e.id = n
  <2>1. sends \in Tags \cup {"none"}
    <3>1. b_result \in Seq(B!Row) BY <1>t DEF BTyped
    <3>2. b_result[n] \in B!Row BY <3>1, <1>1, ElementOfSeq, LenProperties
    <3> QED BY <3>2 DEF B!Row
  <2> HIDE DEF sends
  <2> QED BY <2>1, <1>t DEF B!Share
<1>3. b_excused \subseteq b_excused' /\ b_excused' \subseteq b_excused \cup {n} BY <1>1
<1>4. ASSUME NEW t \in B!Senders, t # s, BSending(t, n) PROVE n \in b_excused'
  <2>1. t \in met BY <1>4 DEF BSending
  <2> QED BY <2>1, <1>1
<1> HIDE DEF e, n, met
<1>5. BTyped' BY <1>1, <1>2, <1>3, <1>t DEF BTyped
<1>6. \A t \in B!Senders : t # s => b_share'[t] = b_share[t] BY <1>1, <1>t DEF BTyped
<1>7. b_share'[s] = e BY <1>1, <1>t DEF BTyped
<1>8. BNamed' BY <1>1, <1>2, <1>6, <1>7 DEF BInv, BNamed
<1>9. BMarked' BY <1>1, <1>3, <1>6 DEF BInv, BMarked
<1>10. BAlone'
  <2> SUFFICES ASSUME NEW t \in B!Senders, NEW u \in B!Senders, t # u,
                      BSending(t, b_share[t].id)', BSending(u, b_share[t].id)'
               PROVE  b_share'[t].id \in b_excused'
    BY DEF BAlone
  <2>1. CASE t = s
    <3>1. BSending(u, n) BY <2>1, <1>2, <1>6, <1>7 DEF BSending
    <3> QED BY <3>1, <2>1, <1>4, <1>2, <1>7
  <2>2. CASE u = s
    <3>1. b_share'[t] = b_share[t] /\ b_share[t].id = n BY <2>2, <1>2, <1>6, <1>7 DEF BSending
    <3>2. BSending(t, n) BY <3>1 DEF BSending
    <3> QED BY <3>1, <3>2, <2>2, <1>4
  <2>3. CASE t # s /\ u # s BY <2>3, <1>3, <1>6 DEF BInv, BAlone, BSending
  <2> QED BY <2>1, <2>2, <2>3
<1>11. BFresh'
  <2>1. ASSUME n \notin b_excused', NEW i \in DOMAIN b_repository PROVE b_repository[i].id # n
    <3> SUFFICES ASSUME b_repository[i].id = n PROVE FALSE OBVIOUS
    <3>1. PICK t \in B!Senders : b_share[t].at = "save" /\ b_share[t].id = n
      BY <1>1, <1>3, <2>1 DEF BInv, BMarked
    <3>2. t # s BY <3>1, <1>1
    <3> QED BY <3>1, <3>2, <2>1, <1>4 DEF BSending
  <2> QED BY <2>1, <1>1, <1>2, <1>3, <1>6, <1>7 DEF BInv, BFresh
<1>12. B!SharedOnce' BY <1>1, <1>3 DEF BInv, B!SharedOnce
<1> QED BY <1>5, <1>8, <1>9, <1>10, <1>11, <1>12 DEF BInv

\* The repository takes a result, or does not.
LEMMA BPost == ASSUME BInv, NEW s \in B!Senders, B!Post(s) PROVE BInv'
<1>t. BTyped /\ b_share[s] \in B!Share BY DEF BInv, BTyped
<1> DEFINE n == b_share[s].id
           entry == [id |-> n, tag |-> b_share[s].sends, by |-> b_share[s]]
           e == [b_share[s] EXCEPT !.at = "save"]
<1>0. b_share[s].at = "post" /\ UNCHANGED <<b_run, b_page, b_result>> BY DEF B!Post
<1>n. n \in DOMAIN b_result BY <1>0, <1>t DEF BInv, BNamed
<1>1. CASE UNCHANGED <<b_repository, b_excused>> /\ b_share' = [b_share EXCEPT ![s] = B!NoShare] /\ B!Fault
  BY <1>0, <1>1, BNoShareTyped, BShareStep
<1>2. CASE /\ b_repository' = Append(b_repository, entry) /\ (B!Fault \/ B!Normally)
           /\ \/ b_share' = [b_share EXCEPT ![s] = e] /\ b_excused' = b_excused
              \/ b_share' = [b_share EXCEPT ![s] = B!NoShare] /\ b_excused' = b_excused \cup {n}
  <2> DEFINE Entries == [id: Nat, tag: Tags \cup {"none"}, by: B!Share]
  <2>1. entry \in Entries /\ entry.id = n BY <1>t DEF B!Share
  <2>2. e \in B!Share /\ e.at = "save" /\ e.id = n BY <1>t DEF B!Share
  <2>3. /\ b_repository' \in Seq(Entries) /\ DOMAIN b_repository \subseteq DOMAIN b_repository'
        /\ \A i \in DOMAIN b_repository : b_repository'[i] = b_repository[i]
        /\ \A i \in DOMAIN b_repository' : i \notin DOMAIN b_repository =>
               b_repository'[i] = entry /\ i = Len(b_repository) + 1
    <3> HIDE DEF entry, Entries
    <3>1. b_repository \in Seq(Entries) BY <1>t DEF BTyped, Entries
    <3>a. b_repository' = Append(b_repository, entry) BY <1>2
    <3>2. /\ b_repository' \in Seq(Entries) /\ Len(b_repository') = Len(b_repository) + 1
          /\ \A i \in 1 .. Len(b_repository) : b_repository'[i] = b_repository[i]
          /\ b_repository'[Len(b_repository) + 1] = entry
      BY <3>a, <2>1, <3>1, AppendProperties
    <3>3. DOMAIN b_repository = 1 .. Len(b_repository) /\ Len(b_repository) \in Nat
      BY <3>1, LenProperties
    <3>4. DOMAIN b_repository' = 1 .. Len(b_repository') BY <3>2, LenProperties
    <3> QED BY <3>2, <3>3, <3>4
  <2>4. b_used' \in [shares: 0 .. MaxShares, faults: 0 .. MaxFaults] BY <1>2, <1>t, BUsed
  <2>5. b_share'[s] = e \/ b_share'[s] = B!NoShare BY <1>2, <1>t DEF BTyped
  <2>6. \A t \in B!Senders : t # s => b_share'[t] = b_share[t] BY <1>2, <1>t DEF BTyped
  <2>7. b_share' \in [B!Senders -> B!Share] BY <1>2, <2>2, <1>t, BNoShareTyped DEF BTyped
  <2>8. b_excused \subseteq b_excused' /\ b_excused' \subseteq b_excused \cup {n}
        /\ (b_share'[s] = e \/ n \in b_excused')
    <3> HIDE DEF e
    <3> QED BY <1>2, <1>t DEF BTyped
  <2> HIDE DEF e, entry
  <2>9. BTyped' BY <1>0, <1>n, <2>3, <2>4, <2>7, <2>8, <1>t DEF BTyped
  <2>10. BNamed' BY <1>0, <1>n, <2>1, <2>2, <2>3, <2>5, <2>6, BNoShareTyped DEF BInv, BNamed
  <2>11. BMarked'
    <3> SUFFICES ASSUME NEW i \in DOMAIN b_repository', b_repository'[i].id \notin b_excused',
                        ~b_result[b_repository'[i].id].sent
                 PROVE  \E t \in B!Senders : b_share'[t].at = "save" /\ b_share'[t].id = b_repository'[i].id
      BY <1>0 DEF BMarked
    <3>1. CASE i \in DOMAIN b_repository
      <4>1. b_repository'[i] = b_repository[i] BY <3>1, <2>3
      <4>2. PICK t \in B!Senders : b_share[t].at = "save" /\ b_share[t].id = b_repository[i].id
        BY <3>1, <4>1, <2>8 DEF BInv, BMarked
      <4> QED BY <4>1, <4>2, <1>0, <2>6
    <3>2. CASE i \notin DOMAIN b_repository
      <4>1. b_repository'[i].id = n BY <3>2, <2>1, <2>3
      <4> QED BY <4>1, <2>2, <2>8
    <3> QED BY <3>1, <3>2
  <2>12. BAlone'
    <3> SUFFICES ASSUME NEW t \in B!Senders, NEW u \in B!Senders, t # u,
                        BSending(t, b_share[t].id)', BSending(u, b_share[t].id)'
                 PROVE  b_share'[t].id \in b_excused'
      BY DEF BAlone
    <3>1. ASSUME NEW v \in B!Senders, NEW i, BSending(v, i)' PROVE BSending(v, i)
      BY <3>1, <1>0, <2>2, <2>5, <2>6, BNoShareTyped DEF BSending
    <3>2. BSending(t, b_share'[t].id) /\ BSending(u, b_share'[t].id)
      BY <3>1 DEF BSending
    <3> QED BY <3>2, <2>8 DEF BInv, BAlone, BSending
  <2>13. BFresh'
    <3> SUFFICES ASSUME NEW t \in B!Senders, b_share'[t].at = "post", b_share'[t].id \notin b_excused',
                        NEW i \in DOMAIN b_repository'
                 PROVE  b_repository'[i].id # b_share'[t].id
      BY DEF BFresh
    <3>1. t # s BY <2>2, <2>5, BNoShareTyped
    <3>2. b_share'[t] = b_share[t] BY <3>1, <2>6
    <3>3. b_share[t].id # n BY <3>1, <3>2, <1>0, <2>8 DEF BInv, BAlone, BSending
    <3>4. CASE i \in DOMAIN b_repository BY <3>2, <3>4, <2>3, <2>8 DEF BInv, BFresh
    <3>5. CASE i \notin DOMAIN b_repository BY <3>2, <3>3, <3>5, <2>1, <2>3
    <3> QED BY <3>4, <3>5
  <2>14. B!SharedOnce'
    <3> SUFFICES ASSUME NEW i \in DOMAIN b_repository', NEW j \in DOMAIN b_repository',
                        b_repository'[i].id = b_repository'[j].id, i # j
                 PROVE  b_repository'[i].id \in b_excused'
      BY DEF B!SharedOnce
    <3>1. CASE i \in DOMAIN b_repository /\ j \in DOMAIN b_repository
      BY <3>1, <2>3, <2>8 DEF BInv, B!SharedOnce
    <3>2. CASE i \notin DOMAIN b_repository
      <4>1. j \in DOMAIN b_repository BY <3>2, <2>3
      <4> QED BY <3>2, <4>1, <1>0, <2>1, <2>3, <2>8 DEF BInv, BFresh
    <3>3. CASE j \notin DOMAIN b_repository
      <4>1. i \in DOMAIN b_repository BY <3>3, <2>3
      <4> QED BY <3>3, <4>1, <1>0, <2>1, <2>3, <2>8 DEF BInv, BFresh
    <3> QED BY <3>1, <3>2, <3>3
  <2> QED BY <2>9, <2>10, <2>11, <2>12, <2>13, <2>14 DEF BInv
<1> QED BY <1>1, <1>2 DEF B!Post

\* A result is marked as sent.
LEMMA BMark == ASSUME BInv, NEW s \in B!Senders, B!Mark(s) PROVE BInv'
<1>t. BTyped /\ b_share[s] \in B!Share BY DEF BInv, BTyped
<1> DEFINE n == b_share[s].id
<1>1. /\ b_share[s].at = "save" /\ b_share' = [b_share EXCEPT ![s] = B!NoShare]
      /\ b_result' = [b_result EXCEPT ![n].sent = TRUE]
      /\ UNCHANGED <<b_run, b_repository, b_excused, b_used>>
      /\ b_page' = IF s = "shell" THEN b_page ELSE [b_page EXCEPT ![s].latest = Len(b_result)]
  BY DEF B!Mark, B!Normally
<1>2. n \in DOMAIN b_result BY <1>1, <1>t DEF BInv, BNamed
<1>3. /\ b_result' \in Seq(B!Row) /\ DOMAIN b_result' = DOMAIN b_result
      /\ \A i \in DOMAIN b_result : b_result'[i].sent = (i = n \/ b_result[i].sent)
  <2>1. b_result \in Seq(B!Row) /\ b_result[n] \in B!Row BY <1>t, <1>2, ElementOfSeq, LenProperties DEF BTyped
  <2>2. [b_result[n] EXCEPT !.sent = TRUE] \in B!Row
    BY <2>1 DEF B!Row
  <2>3. b_result' = [b_result EXCEPT ![n] = [b_result[n] EXCEPT !.sent = TRUE]]
    BY <1>1
  <2>4. n \in 1 .. Len(b_result) BY <2>1, <1>2, LenProperties
  <2>5. b_result' \in Seq(B!Row) BY <2>1, <2>2, <2>3, <2>4, ExceptSeq
  <2>6. DOMAIN b_result' = DOMAIN b_result BY <2>3
  <2>7. ASSUME NEW i \in DOMAIN b_result PROVE b_result'[i].sent = (i = n \/ b_result[i].sent)
    <3>1. b_result[i] \in B!Row BY <2>1, ElementOfSeq, LenProperties
    <3>2. CASE i = n BY <3>2, <2>1, <2>3 DEF B!Row
    <3>3. CASE i # n BY <3>1, <3>3, <2>3 DEF B!Row
    <3> QED BY <3>2, <3>3
  <2> QED BY <2>5, <2>6, <2>7
<1>4. b_page' \in [BenchPages -> B!Page]
  <2>1. Len(b_result) \in Nat
    <3>1. b_result \in Seq(B!Row) BY <1>t DEF BTyped
    <3> QED BY <3>1, LenProperties
  <2> QED BY <1>1, <1>t, <2>1 DEF BTyped, B!Page
<1> HIDE DEF n
<1>5. BTyped' BY <1>1, <1>3, <1>4, <1>t, BNoShareTyped DEF BTyped
<1>6. \A t \in B!Senders : t # s => b_share'[t] = b_share[t] BY <1>1, <1>t DEF BTyped
<1>7. b_share'[s] = B!NoShare BY <1>1, <1>t DEF BTyped
<1>8. BNamed' BY <1>1, <1>3, <1>6, <1>7, BNoShareTyped DEF BInv, BNamed
<1>9. BMarked'
  <2> SUFFICES ASSUME NEW i \in DOMAIN b_repository, b_repository[i].id \notin b_excused,
                      ~b_result'[b_repository[i].id].sent
               PROVE  \E t \in B!Senders : b_share'[t].at = "save" /\ b_share'[t].id = b_repository[i].id
    BY <1>1 DEF BMarked
  <2>1. b_repository[i].id \in DOMAIN b_result BY DEF BInv, BNamed
  <2>2. b_repository[i].id # n /\ ~b_result[b_repository[i].id].sent BY <2>1, <1>3
  <2>3. PICK t \in B!Senders : b_share[t].at = "save" /\ b_share[t].id = b_repository[i].id
    BY <2>2 DEF BInv, BMarked
  <2> QED BY <2>2, <2>3, <1>6 DEF n
<1>10. BAlone' /\ BFresh' BY <1>1, <1>6, <1>7, BNoShareTyped DEF BInv, BAlone, BFresh, BSending
<1>11. B!SharedOnce' BY <1>1 DEF BInv, B!SharedOnce
<1> QED BY <1>5, <1>8, <1>9, <1>10, <1>11 DEF BInv

\* Every step keeps the invariant.
LEMMA BStep == ASSUME BInv, B!Next \/ UNCHANGED benchmarks PROVE BInv'
<1>1. CASE B!Next
  BY <1>1, BRunStep, BRunOther, BSaveStep, BServerDies, BShares, BSaveTag, BLook, BPost, BMark
     DEF B!Next, B!Works
<1>2. CASE UNCHANGED benchmarks
  BY <1>2 DEF benchmarks, BInv, BTyped, BNamed, BMarked, BAlone, BFresh, BSending,
     B!SharedOnce
<1> QED BY <1>1, <1>2

\* The invariant has the types in it.
LEMMA BTypes == BInv => B!TypeOK
<1> SUFFICES ASSUME BInv PROVE B!TypeOK OBVIOUS
<1>1. b_result \in Seq(B!Row) BY DEF BInv, BTyped
<1>2. \A i \in DOMAIN b_result : b_result[i] \in B!Row BY <1>1, ElementOfSeq, LenProperties
<1> QED BY <1>2 DEF BInv, BTyped, BNamed, B!TypeOK
----------------------------------------------------------------------------
(* All parts *)

\* No part ever leaves its invariant, whichever was chosen.
AllInv == MInv /\ WInv /\ EInv /\ LInv /\ BInv

\* The parts start well, and a step of one leaves the others where they are.
LEMMA AllAlways == Init /\ [][Next]_vars => []AllInv
<1>1. Init => AllInv BY MInit, WInit, EInit, LInit, BInit DEF Init, AllInv
<1>2. AllInv /\ [Next]_vars => AllInv'
  <2> SUFFICES ASSUME AllInv, [Next]_vars PROVE AllInv' OBVIOUS
  <2>1. M!Next \/ UNCHANGED maps BY DEF Next, Only, vars
  <2>2. W!Next \/ UNCHANGED wikipedia BY DEF Next, Only, vars
  <2>3. E!Next \/ UNCHANGED explorer BY DEF Next, Only, vars
  <2>4. L!Next \/ UNCHANGED localLife BY DEF Next, Only, vars
  <2>5. B!Next \/ UNCHANGED benchmarks BY DEF Next, Only, vars
  <2> QED BY <2>1, <2>2, <2>3, <2>4, <2>5, MStep, WStep, EStep, LStep, BStep DEF AllInv
<1> QED BY <1>1, <1>2, PTL

\* What the database, the files, the queue, the pages and the requests of each part hold stays of
\* the types that the columns and the code give it.
THEOREM LibraryTypeCorrect == FairSpec => []TypesOK
<1>1. AllInv => TypesOK
  <2>1. MInv => M!TypeOK BY DEF MInv
  <2> QED BY <2>1, WTypes, ETypes, LTypes, BTypes DEF AllInv, TypesOK
<1> QED BY <1>1, AllAlways, PTL DEF FairSpec

\* Tables and lists tell the truth, for any number of regions, options, packages, pages, rows and
\* runs, through jobs that are tried again, cancels, and processes that die: the row of a map,
\* of a document or of the Wikipedia package has its file, unless it is excused; the map of the world is whole when it
\* is shown; the list of packages has each that is not installed, once; a row has no text that
\* was meant for another; and a result is submitted once.
THEOREM LibraryTellsTruth == FairSpec => []RowsTellTruth
<1>1. AllInv => RowsTellTruth
  <2>1. MInv => M!RowHasFile /\ M!WorldIsWhole BY DEF MInv, MRows
  <2>2. BInv => B!SharedOnce BY DEF BInv
  <2> QED BY <2>1, <2>2, WTells, ENothingMissed, LTypes DEF AllInv, RowsTellTruth
<1> QED BY <1>1, AllAlways, PTL DEF FairSpec

\* A reminder that was completed stays completed, however many clicks on old lists are under way.
THEOREM RemindersStayDone == FairSpec => L!ReminderStaysDone
<1> DEFINE Stays == \A i \in L!Ids : l_reminders[i] = "done" => l_reminders'[i] = "done"
<1>1. AllInv /\ [Next]_vars => [Stays]_l_reminders
  <2> SUFFICES ASSUME AllInv, [Next]_vars, l_reminders' # l_reminders PROVE Stays OBVIOUS
  <2>1. L!Next BY DEF Next, Only, vars, localLife
  <2>2. PICK c \in 1 .. LifeCalls : L!CreateReminderRow(c) \/ L!UpdateReminder(c)
    BY <2>1 DEF L!Next, L!Click, L!NotesPage, L!ServicesPage, L!RowPage, L!New, L!Save, L!Load, L!Edit,
        L!Delete, L!Type, L!DashboardPage, L!CreateReminder, L!QuickNote, L!ToggleReminder,
        L!DocumentsPage, L!Upload, L!Remove, L!Api, L!UploadWithCopy, L!CreateWithCopy, L!Restart,
        L!Fails, L!MirrorFails, L!Handle, L!CreateRow, L!CopyRow, L!UpdateRow, L!DeleteRow,
        L!StoreFile, L!CreateDocument, L!MirrorDocument, L!RemoveFile, L!RemoveRow, L!SavedRow,
        L!DeletedRow, L!Loaded, L!Reminded, L!LoadedDashboard, L!Uploaded, L!Removed, L!Notified,
        L!Server
  <2>3. l_reminders \in [L!Ids -> {"none", "open", "done"}] BY DEF AllInv, LInv, L!TypeOK, L!None
  <2>4. CASE L!CreateReminderRow(c)
    BY <2>3, <2>4 DEF L!CreateReminderRow, L!Lowest, L!None
  <2>5. CASE L!UpdateReminder(c)
    <3>1. l_calls[c].text = "done" BY <2>5 DEF AllInv, LInv, LCalls, LWell, L!UpdateReminder, L!Sent
    <3> QED BY <2>3, <2>5, <3>1 DEF L!UpdateReminder
  <2> QED BY <2>2, <2>4, <2>5
<1> QED BY <1>1, AllAlways, PTL DEF FairSpec, L!ReminderStaysDone
=============================================================================
