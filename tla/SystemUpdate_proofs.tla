-------------------------- MODULE SystemUpdate_proofs --------------------------
(****************************************************************************)
(* Proofs about the update of MONAD itself. With the side car only the      *)
(* watcher is ever at work; with the daemon who is within an update or a    *)
(* check holds the lock, from its first status until it leaves it. From     *)
(* this follow that updates do not overlap, and, with what each thread is   *)
(* about to say, each page has seen and each look for a release has stored, *)
(* that what pages are shown and offered is so.                             *)
(****************************************************************************)
EXTENDS SystemUpdate, TLAPS

\* A thread in the middle of an update or a check.
Within(u) ==
    \/ u.at \in {"tag", "list", "pull", "stop", "up"}
    \/ u.at \in {"say", "saying", "linger"} /\ u.say \in Running \cup {"checking"}

OnlyWatcher == kind = "sidecar" => \A c \in Callers : upd[c].at = "idle"
LockHeld == kind = "daemon" => \A a \in Actors : Within(upd[a]) => lock = a
IInv == TypeOK /\ OnlyWatcher /\ LockHeld

DiskType == request \in Tag \cup {NoFile, Empty} /\ status \in Stage \cup {"halfway"}
            /\ compose \in Tag /\ image \in Version
ServerType == server \in {"down", "booting", "fresh", "up"} /\ running \in Version
              /\ kv \in [avail: BOOLEAN, latest: 0 .. MaxVersion] /\ job \in {"none", "write"}
PagesType == page \in [Pages -> Page] /\ ask \in [Pages -> Ask] /\ chk \in [Pages -> Check]
ThreadsType == upd \in [Actors -> Thread] /\ lock \in Actors \cup {NoOne}
UsedType == used \in [requests: 0 .. MaxRequests, checks: 0 .. MaxChecks, faults: 0 .. MaxFaults]
PastType == past \subseteq {"late", "overlap", "torn", "crash"}
----------------------------------------------------------------------------
(* The parts of a state *)

LEMMA Parts ==
    TypeOK <=> /\ kind \in Kinds /\ released \in Version
               /\ DiskType /\ ServerType /\ PagesType /\ ThreadsType /\ UsedType /\ PastType
  BY DEF TypeOK, DiskType, ServerType, PagesType, ThreadsType, UsedType, PastType

LEMMA PartsThen ==
    TypeOK' <=> /\ kind' \in Kinds /\ released' \in Version
                /\ DiskType' /\ ServerType' /\ PagesType' /\ ThreadsType' /\ UsedType' /\ PastType'
  BY DEF TypeOK, DiskType, ServerType, PagesType, ThreadsType, UsedType, PastType, Version, Tag,
     Stage, Page, Ask, Check, Thread, Actors

LEMMA Values ==
    /\ NoThread \in Thread /\ Polling \in Thread /\ NoAsk \in Ask /\ NoCheck \in Check
    /\ \A b \in BOOLEAN : Fresh(b) \in Page
    /\ 1 \in Version
    /\ NoThread.at = "idle" /\ Polling.at = "poll" /\ NoThread.say = "idle"
  <1>1. 1 \in Version /\ 1 \in 1 .. Services
    BY UpdateAssumption DEF Version
  <1> QED BY <1>1 DEF NoThread, Polling, Thread, Stage, Running, Tag, NoAsk, Ask, NoCheck, Check,
             Fresh, Page

LEMMA Faults == ASSUME UsedType, Fault PROVE UsedType'
  BY UpdateAssumption DEF Fault, UsedType

LEMMA Remembered ==
    ASSUME PagesType, NEW ends \in SUBSET {"complete", "error", "crash"}, Remember(ends),
           UNCHANGED <<ask, chk>>
    PROVE  PagesType'
  <1>1. \A p \in Pages : page[p] \in Page
    BY DEF PagesType
  <1>2. \A p \in Pages : [page[p] EXCEPT !.polled = FALSE, !.runs = @ \cup ends] \in Page
    BY <1>1 DEF Page
  <1> QED BY <1>1, <1>2 DEF Remember, PagesType

LEMMA ThreadKinds ==
    ASSUME IInv, NEW a \in Actors
    PROVE  /\ upd[a] \in Thread
           /\ upd[a].at # "idle" /\ kind = "sidecar" => a = Watcher
           /\ kind = "daemon" /\ Within(upd[a]) => lock = a
           /\ kind \in {"sidecar", "daemon"}
  BY UpdateAssumption DEF IInv, TypeOK, OnlyWatcher, LockHeld, Actors

\* A thread goes on: with the daemon within an update only if it holds the lock afterwards.
LEMMA GoesOn ==
    ASSUME IInv, NEW a \in Actors, NEW u \in Thread, upd' = [upd EXCEPT ![a] = u], kind' = kind,
           kind = "sidecar" => a = Watcher,
           lock' \in {lock, Freed(a)} \/ (lock = NoOne /\ lock' = a),
           kind = "daemon" /\ Within(u) => lock' = a
    PROVE  ThreadsType' /\ OnlyWatcher' /\ LockHeld'
  <1>1. upd' \in [Actors -> Thread] /\ upd'[a] = u /\ \A b \in Actors \ {a} : upd'[b] = upd[b]
    BY DEF IInv, TypeOK
  <1>2. lock' \in Actors \cup {NoOne}
    BY DEF IInv, TypeOK, Freed
  <1>3. OnlyWatcher'
    BY <1>1, UpdateAssumption DEF IInv, OnlyWatcher, Actors
  <1>4. ASSUME kind = "daemon", NEW b \in Actors \ {a}, Within(upd[b]) PROVE lock' = b
    <2>1. lock = b
      BY <1>4 DEF IInv, LockHeld
    <2> QED BY <1>4, <2>1, UpdateAssumption DEF Freed
  <1>5. LockHeld'
    <2> SUFFICES ASSUME kind = "daemon", NEW b \in Actors, Within(upd'[b]) PROVE lock' = b
        BY DEF LockHeld
    <2> QED BY <1>1, <1>4
  <1> QED BY <1>1, <1>2, <1>3, <1>5 DEF ThreadsType

\* A step of the server, the pages or the world.
LEMMA OthersGoOn ==
    ASSUME IInv, UNCHANGED <<kind, upd, lock>>
    PROVE  ThreadsType' /\ OnlyWatcher' /\ LockHeld'
  BY DEF IInv, TypeOK, ThreadsType, OnlyWatcher, LockHeld

LEMMA InitInvariant == Init => IInv
  <1> SUFFICES ASSUME Init PROVE IInv
      OBVIOUS
  <1>1. kind \in Kinds /\ released \in Version /\ DiskType
    BY Values DEF Init, DiskType, Stage, Tag
  <1>2. PICK v \in {0, released} : kv = [avail |-> v > 1, latest |-> v]
    BY DEF Init
  <1>3. kv \in [avail: BOOLEAN, latest: 0 .. MaxVersion]
    <2>1. v \in 0 .. MaxVersion
      BY <1>1, UpdateAssumption DEF Version
    <2> QED BY <1>2, <2>1
  <1>4. ServerType
    BY <1>3, Values DEF Init, ServerType
  <1>5. PagesType
    BY <1>3, Values DEF Init, PagesType
  <1>6. ThreadsType /\ UsedType /\ PastType
    BY Values, UpdateAssumption DEF Init, ThreadsType, UsedType, PastType
  <1>7. OnlyWatcher /\ LockHeld
    BY Values, UpdateAssumption DEF Init, OnlyWatcher, LockHeld, Within, Actors
  <1> QED BY <1>1, <1>4, <1>5, <1>6, <1>7, Parts DEF IInv
----------------------------------------------------------------------------
(* The updater *)

LEMMA SayingIs ==
    ASSUME NEW a \in Actors, upd[a] \in Thread, NEW stage \in Stage
    PROVE  /\ Saying(a, stage) \in Thread
           /\ Saying(a, stage).at = "say" /\ Saying(a, stage).say = stage
  BY DEF Saying, Thread

LEMMA ReadRequestKeeps == ASSUME IInv, ReadRequest PROVE IInv'
  <1> DEFINE tag == IF request # Empty THEN request ELSE IF kind = "sidecar" THEN Blank ELSE Latest
             u == [upd[Watcher] EXCEPT !.at = "remove", !.op = "update", !.tag = tag]
  <1>1. Watcher \in Actors /\ upd[Watcher] \in Thread
    BY DEF Actors, IInv, TypeOK
  <1>2. tag \in Tag
    BY DEF ReadRequest, IInv, TypeOK, Tag
  <1>3. upd' = [upd EXCEPT ![Watcher] = u] /\ UNCHANGED <<kind, lock>>
    BY DEF ReadRequest, Thus
  <1> HIDE DEF tag
  <1>4. u \in Thread /\ ~Within(u)
    BY <1>1, <1>2 DEF Thread, Within
  <1> HIDE DEF u
  <1>5. ThreadsType' /\ OnlyWatcher' /\ LockHeld'
    BY <1>1, <1>3, <1>4, GoesOn
  <1> QED BY <1>5, Parts, PartsThen DEF ReadRequest, IInv, disk, serverVars, pageVars, Normally,
             DiskType, ServerType, PagesType, UsedType, PastType

LEMMA RemoveRequestKeeps == ASSUME IInv, RemoveRequest PROVE IInv'
  <1> DEFINE u == IF kind = "sidecar" THEN Saying(Watcher, "starting")
                  ELSE [upd[Watcher] EXCEPT !.at = "lock"]
  <1>1. Watcher \in Actors /\ upd[Watcher] \in Thread
    BY DEF Actors, IInv, TypeOK
  <1>2. u \in Thread /\ (kind = "daemon" => ~Within(u))
    BY <1>1, SayingIs DEF Thread, Within, Stage, Running
  <1>3. upd' = [upd EXCEPT ![Watcher] = u] /\ UNCHANGED <<kind, lock>>
    BY DEF RemoveRequest, Thus
  <1> HIDE DEF u
  <1>4. ThreadsType' /\ OnlyWatcher' /\ LockHeld'
    BY <1>1, <1>2, <1>3, GoesOn
  <1>5. PagesType'
    <2>1. \A p \in Pages : [ask[p] EXCEPT !.fd = FALSE] \in Ask
      BY DEF IInv, TypeOK, Ask
    <2> QED BY <2>1 DEF RemoveRequest, IInv, TypeOK, PagesType
  <1> QED BY <1>4, <1>5, Parts, PartsThen DEF RemoveRequest, IInv, serverVars, Normally,
             DiskType, ServerType, UsedType, PastType

LEMMA PostKeeps == ASSUME IInv, NEW c \in Callers, Post(c) PROVE IInv'
  <1>1. PICK op \in {"update", "check"} : Thus(c, [NoThread EXCEPT !.at = "lock", !.op = op])
    BY DEF Post
  <1> DEFINE u == [NoThread EXCEPT !.at = "lock", !.op = op]
  <1>2. u \in Thread /\ ~Within(u)
    BY Values DEF Thread, Within, NoThread
  <1>3. upd' = [upd EXCEPT ![c] = u] /\ UNCHANGED <<kind, lock>> /\ kind = "daemon" /\ c \in Actors
    BY <1>1 DEF Post, Thus, Actors
  <1> HIDE DEF u
  <1>4. ThreadsType' /\ OnlyWatcher' /\ LockHeld'
    BY <1>2, <1>3, GoesOn
  <1>5. UsedType'
    BY UpdateAssumption DEF Post, IInv, TypeOK, UsedType
  <1> QED BY <1>4, <1>5, Parts, PartsThen DEF Post, IInv, disk, serverVars, pageVars,
             DiskType, ServerType, PagesType, PastType

LEMMA AcquireKeeps == ASSUME IInv, NEW a \in Actors, Acquire(a) PROVE IInv'
  <1> DEFINE u == Saying(a, IF upd[a].op = "check" THEN "checking" ELSE "starting")
  <1>1. u \in Thread
    BY ThreadKinds, SayingIs DEF Stage, Running
  <1>2. /\ upd' = [upd EXCEPT ![a] = u] /\ kind' = kind /\ lock = NoOne /\ lock' = a
        /\ kind = "sidecar" => a = Watcher
    BY ThreadKinds DEF Acquire, Thus
  <1> HIDE DEF u
  <1>3. ThreadsType' /\ OnlyWatcher' /\ LockHeld'
    BY <1>1, <1>2, GoesOn
  <1> QED BY <1>3, Parts, PartsThen DEF Acquire, IInv, disk, serverVars, pageVars, Normally,
             DiskType, ServerType, PagesType, UsedType, PastType

LEMMA SucceedsKeeps ==
    ASSUME IInv, NEW a \in Actors, NEW u \in Thread, upd[a].at # "idle", Succeeds(a, u),
           kind = "daemon" /\ Within(u) => Within(upd[a]), kind' = kind, UNCHANGED <<ask, chk>>
    PROVE  ThreadsType' /\ OnlyWatcher' /\ LockHeld' /\ PagesType' /\ UsedType'
  <1>1. upd' = [upd EXCEPT ![a] = u] /\ lock' = lock
    BY DEF Succeeds, Thus
  <1>2. ThreadsType' /\ OnlyWatcher' /\ LockHeld'
    BY <1>1, ThreadKinds, GoesOn
  <1>3. PagesType' /\ UsedType'
    BY DEF Succeeds, Normally, IInv, TypeOK, PagesType, UsedType
  <1> QED BY <1>2, <1>3

LEMMA FailsKeeps ==
    ASSUME IInv, NEW a \in Actors, upd[a].at # "idle", Fails(a), kind' = kind, UNCHANGED <<ask, chk>>
    PROVE  ThreadsType' /\ OnlyWatcher' /\ LockHeld' /\ PagesType'
  <1> DEFINE u == Saying(a, "error")
  <1>1. u \in Thread /\ ~Within(u)
    BY ThreadKinds, SayingIs DEF Stage, Running, Within
  <1>2. upd' = [upd EXCEPT ![a] = u] /\ lock' = Freed(a)
    BY DEF Fails, Thus
  <1> HIDE DEF u
  <1>3. ThreadsType' /\ OnlyWatcher' /\ LockHeld'
    BY <1>1, <1>2, ThreadKinds, GoesOn
  <1>4. PagesType
    BY Parts DEF IInv
  <1>5. PagesType'
    <2>1. PICK ends \in SUBSET {"complete", "error", "crash"} : Remember(ends)
      BY DEF Fails
    <2> QED BY <1>4, <2>1, Remembered
  <1> QED BY <1>3, <1>5

LEMMA TruncateKeeps == ASSUME IInv, NEW a \in Actors, Truncate(a) PROVE IInv'
  <1> DEFINE u == [upd[a] EXCEPT !.at = "saying"]
  <1>1. u \in Thread /\ (Within(u) => Within(upd[a]))
    BY ThreadKinds DEF Truncate, Thread, Within
  <1>2. upd' = [upd EXCEPT ![a] = u] /\ UNCHANGED <<kind, lock>> /\ upd[a].at # "idle"
    BY DEF Truncate, Thus
  <1> HIDE DEF u
  <1>3. ThreadsType' /\ OnlyWatcher' /\ LockHeld'
    BY <1>1, <1>2, ThreadKinds, GoesOn
  <1> QED BY <1>3, Parts, PartsThen DEF Truncate, IInv, serverVars, pageVars, Normally,
             DiskType, ServerType, PagesType, UsedType, PastType

LEMMA AfterIs ==
    ASSUME IInv, NEW a \in Actors, upd[a].at = "saying"
    PROVE  /\ After(a) \in Thread
           /\ kind = "daemon" /\ Within(After(a)) =>
                  Within(upd[a]) /\ upd[a].say \notin {"complete", "idle", "error"}
  <1> DEFINE u == upd[a]
  <1>1. u \in Thread /\ u.say \in Stage /\ kind \in {"sidecar", "daemon"} /\ u.at = "saying"
    BY ThreadKinds DEF Thread
  <1>2. CASE u.say = "starting" /\ kind = "daemon"
    <2>1. After(a) = Saying(a, "preparing")
      BY <1>2 DEF After
    <2>2. Saying(a, "preparing") \in Thread
      BY <1>1, SayingIs DEF Stage, Running
    <2>3. Within(upd[a])
      BY <1>1, <1>2 DEF Within, Running
    <2> QED BY <1>2, <2>1, <2>2, <2>3
  <1>3. CASE u.say \in {"starting", "preparing"} /\ ~(u.say = "starting" /\ kind = "daemon")
    BY <1>1, <1>3 DEF After, Thread, Running, Within
  <1>4. CASE u.say \in {"checking", "pulling", "pulled", "recreating"}
    BY <1>1, <1>4 DEF After, Thread, Running, Within
  <1>5. CASE u.say \in {"complete", "error"} /\ kind = "sidecar"
    BY <1>1, <1>5 DEF After, Thread
  <1>6. CASE u.say = "idle" \/ (u.say \in {"complete", "error"} /\ kind = "daemon")
    <2>1. After(a) = Ended(a)
      BY <1>6 DEF After
    <2>2. Ended(a) \in Thread /\ ~Within(Ended(a))
      BY Values DEF Ended, Within
    <2> QED BY <2>1, <2>2
  <1> QED BY <1>1, <1>2, <1>3, <1>4, <1>5, <1>6 DEF Stage, Running

LEMMA WriteStatusKeeps == ASSUME IInv, NEW a \in Actors, WriteStatus(a) PROVE IInv'
  <1>1. /\ upd[a].at = "saying" /\ upd[a] \in Thread /\ upd[a].say \in Stage
        /\ upd' = [upd EXCEPT ![a] = After(a)]
        /\ lock' = IF upd[a].say \in {"complete", "idle"} THEN Freed(a) ELSE lock
    BY ThreadKinds DEF WriteStatus, Thus, Thread
  <1>2. ThreadsType' /\ OnlyWatcher' /\ LockHeld'
    <2>1. kind = "daemon" /\ Within(After(a)) => lock' = a
      BY <1>1, AfterIs, ThreadKinds
    <2>2. lock' \in {lock, Freed(a)}
      BY <1>1
    <2>3. kind' = kind /\ (kind = "sidecar" => a = Watcher) /\ After(a) \in Thread
      BY <1>1, AfterIs, ThreadKinds DEF WriteStatus
    <2> QED BY <1>1, <2>1, <2>2, <2>3, GoesOn
  <1>3. PagesType'
    <2>1. PICK ends \in SUBSET {"complete", "error", "crash"} : Remember(ends)
      BY DEF WriteStatus
    <2>2. PagesType
      BY Parts DEF IInv
    <2> QED BY <2>1, <2>2, Remembered DEF WriteStatus
  <1>4. DiskType' /\ PastType'
    BY <1>1, Parts DEF WriteStatus, IInv, DiskType, PastType
  <1> QED BY <1>2, <1>3, <1>4, Parts, PartsThen DEF WriteStatus, IInv, serverVars, Normally,
             ServerType, UsedType

LEMMA ApplyTagKeeps == ASSUME IInv, NEW a \in Actors, ApplyTag(a) PROVE IInv'
  <1>1. upd[a] \in Thread /\ upd[a].at = "tag" /\ kind' = kind /\ UNCHANGED <<ask, chk>> /\ UsedType
    BY ThreadKinds, Parts DEF ApplyTag, IInv
  <1>2. ThreadsType' /\ OnlyWatcher' /\ LockHeld' /\ PagesType' /\ UsedType'
    <2>1. CASE Succeeds(a, Saying(a, "pulling"))
      BY <1>1, <2>1, SayingIs, SucceedsKeeps DEF Stage, Running, Within
    <2>2. CASE Fault /\ Fails(a)
      BY <1>1, <2>2, FailsKeeps, Faults
    <2> QED BY <2>1, <2>2 DEF ApplyTag
  <1>3. DiskType'
    <2>1. compose' \in {compose, Blank, upd[a].tag}
      BY DEF ApplyTag
    <2> QED BY <1>1, <2>1, Parts DEF ApplyTag, IInv, DiskType, Thread, Tag
  <1> QED BY <1>2, <1>3, Parts, PartsThen DEF ApplyTag, IInv, serverVars, ServerType, PastType

LEMMA ListImagesKeeps == ASSUME IInv, NEW a \in Actors, ListImages(a) PROVE IInv'
  <1> DEFINE u == [upd[a] EXCEPT !.at = "pull"]
  <1>1. upd[a] \in Thread /\ upd[a].at = "list" /\ kind' = kind /\ UNCHANGED <<ask, chk>> /\ UsedType
    BY ThreadKinds, Parts DEF ListImages, IInv
  <1>2. ThreadsType' /\ OnlyWatcher' /\ LockHeld' /\ PagesType' /\ UsedType'
    <2>1. CASE Succeeds(a, u)
      <3>1. u \in Thread /\ Within(upd[a])
        BY <1>1 DEF Thread, Within
      <3> HIDE DEF u
      <3> QED BY <1>1, <2>1, <3>1, SucceedsKeeps
    <2>2. CASE Fault /\ Fails(a)
      BY <1>1, <2>2, FailsKeeps, Faults
    <2> QED BY <2>1, <2>2 DEF ListImages
  <1> QED BY <1>2, Parts, PartsThen DEF ListImages, IInv, disk, serverVars, DiskType, ServerType, PastType

LEMMA ResolvedIs == ASSUME TypeOK, compose # Blank PROVE Resolved(compose) \in Version
  BY DEF TypeOK, Resolved, Tag

LEMMA PullKeeps == ASSUME IInv, NEW a \in Actors, Pull(a) PROVE IInv'
  <1> DEFINE next == IF upd[a].op = "check" THEN "idle"
                     ELSE IF kind = "sidecar" THEN "pulled" ELSE "recreating"
  <1>1. upd[a] \in Thread /\ upd[a].at = "pull" /\ kind' = kind /\ UNCHANGED <<ask, chk>> /\ UsedType
    BY ThreadKinds, Parts DEF Pull, IInv
  <1>2. next \in Stage
    BY DEF Stage, Running
  <1>3. \/ /\ compose # Blank /\ image' = Resolved(compose) /\ Succeeds(a, Saying(a, next))
        \/ (Normally \/ Fault) /\ Fails(a) /\ UNCHANGED image
    BY DEF Pull
  <1> HIDE DEF next
  <1>4. ThreadsType' /\ OnlyWatcher' /\ LockHeld' /\ PagesType' /\ UsedType'
    <2>1. CASE Succeeds(a, Saying(a, next))
      BY <1>1, <1>2, <2>1, SayingIs, SucceedsKeeps DEF Within
    <2>2. CASE (Normally \/ Fault) /\ Fails(a)
      BY <1>1, <2>2, FailsKeeps, Faults DEF Normally, UsedType
    <2> QED BY <1>3, <2>1, <2>2
  <1>5. DiskType'
    <2>1. image' \in Version
      BY <1>3, ResolvedIs DEF IInv, TypeOK
    <2> QED BY <2>1, Parts DEF Pull, IInv, DiskType
  <1> QED BY <1>4, <1>5, Parts, PartsThen DEF Pull, IInv, serverVars, ServerType, PastType

LEMMA Stops ==
    ASSUME PagesType, ServerStops PROVE PagesType' /\ job' = "none"
  <1>1. \A p \in Pages : page[p] \in Page /\ [page[p] EXCEPT !.st = "ready"] \in Page
    BY DEF PagesType, Page
  <1> QED BY <1>1, Values DEF ServerStops, PagesType

LEMMA StopKeeps == ASSUME IInv, NEW a \in Actors, Stop(a) PROVE IInv'
  <1> DEFINE u == [upd[a] EXCEPT !.at = "up"]
  <1>1. u \in Thread /\ (Within(u) => Within(upd[a]))
    BY ThreadKinds DEF Stop, Thread, Within
  <1>2. upd' = [upd EXCEPT ![a] = u] /\ UNCHANGED <<kind, lock>> /\ upd[a].at # "idle"
    BY DEF Stop, Thus
  <1> HIDE DEF u
  <1>3. ThreadsType' /\ OnlyWatcher' /\ LockHeld'
    BY <1>1, <1>2, ThreadKinds, GoesOn
  <1>4. PagesType' /\ ServerType' /\ PastType'
    <2>1. PagesType /\ ServerType /\ PastType
      BY Parts DEF IInv
    <2>2. CASE upd[a].i = 1
      BY <2>1, <2>2, Stops DEF Stop, ServerType, PastType, Torn
    <2>3. CASE upd[a].i # 1
      BY <2>1, <2>3 DEF Stop, pageVars, ServerType, PastType, PagesType
    <2> QED BY <2>2, <2>3
  <1> QED BY <1>3, <1>4, Parts, PartsThen DEF Stop, IInv, disk, Normally, DiskType, UsedType

LEMMA UpKeeps == ASSUME IInv, NEW a \in Actors, Up(a) PROVE IInv'
  <1> DEFINE u == IF upd[a].i < Services THEN [Saying(a, "recreating") EXCEPT !.i = upd[a].i + 1]
                  ELSE Saying(a, "complete")
  <1>1. upd[a] \in Thread /\ upd[a].at = "up" /\ kind' = kind /\ UNCHANGED <<ask, chk>> /\ UsedType
    BY ThreadKinds, Parts DEF Up, IInv
  <1>2. u \in Thread
    <2>1. Saying(a, "recreating") \in Thread /\ Saying(a, "complete") \in Thread
          /\ upd[a].i \in 1 .. Services
      BY <1>1, SayingIs DEF Stage, Running, Thread
    <2> QED BY <2>1, UpdateAssumption DEF Thread
  <1>3. \/ Succeeds(a, u) /\ ((server' = "booting" /\ running' = image) \/ UNCHANGED <<server, running>>)
        \/ Fault /\ Fails(a) /\ UNCHANGED <<server, running>>
    BY DEF Up, Saying
  <1> HIDE DEF u
  <1>4. ThreadsType' /\ OnlyWatcher' /\ LockHeld' /\ PagesType' /\ UsedType'
    <2>1. CASE Succeeds(a, u)
      BY <1>1, <1>2, <2>1, SucceedsKeeps DEF Within
    <2>2. CASE Fault /\ Fails(a)
      BY <1>1, <2>2, FailsKeeps, Faults
    <2> QED BY <1>3, <2>1, <2>2
  <1>5. ServerType'
    BY <1>3, Parts DEF Up, IInv, ServerType, DiskType
  <1> QED BY <1>4, <1>5, Parts, PartsThen DEF Up, IInv, disk, DiskType, PastType

LEMMA LingerKeeps == ASSUME IInv, Linger PROVE IInv'
  <1> DEFINE u == Saying(Watcher, IF upd[Watcher].say = "pulled" THEN "recreating" ELSE "idle")
  <1>1. Watcher \in Actors /\ upd[Watcher] \in Thread /\ upd[Watcher].at = "linger"
    BY DEF Actors, IInv, TypeOK, Linger
  <1>2. u \in Thread /\ (Within(u) => Within(upd[Watcher]))
    BY <1>1, SayingIs DEF Stage, Running, Within
  <1>3. upd' = [upd EXCEPT ![Watcher] = u] /\ UNCHANGED <<kind, lock>>
    BY DEF Linger, Thus
  <1> HIDE DEF u
  <1>4. ThreadsType' /\ OnlyWatcher' /\ LockHeld'
    BY <1>1, <1>2, <1>3, ThreadKinds, GoesOn
  <1> QED BY <1>4, Parts, PartsThen DEF Linger, IInv, disk, serverVars, pageVars, Normally,
             DiskType, ServerType, PagesType, UsedType, PastType

LEMMA RestartedIs ==
    ASSUME UNCHANGED kind, upd' = Restarted, lock' \in Actors \cup {NoOne}
    PROVE  ThreadsType' /\ OnlyWatcher' /\ LockHeld'
  <1>1. [NoThread EXCEPT !.at = "say"] \in Thread /\ ~Within([NoThread EXCEPT !.at = "say"])
        /\ ~Within(NoThread)
    BY Values DEF NoThread, Thread, Within, Running
  <1>2. upd' \in [Actors -> Thread] /\ \A a \in Actors : ~Within(upd'[a])
    BY <1>1, Values DEF Restarted
  <1>3. \A c \in Callers : upd'[c].at = "idle"
    BY Values, UpdateAssumption DEF Restarted, Actors
  <1> QED BY <1>2, <1>3 DEF ThreadsType, OnlyWatcher, LockHeld

LEMMA CrashKeeps == ASSUME IInv, Crash PROVE IInv'
  <1>1. ThreadsType' /\ OnlyWatcher' /\ LockHeld'
    BY RestartedIs DEF Crash
  <1>2. PagesType' /\ UsedType'
    BY Parts, Remembered, Faults DEF Crash, IInv
  <1> QED BY <1>1, <1>2, Parts, PartsThen DEF Crash, IInv, disk, serverVars, DiskType, ServerType, PastType

LEMMA ScriptKeeps == ASSUME IInv, Script PROVE IInv'
  <1>1. ThreadsType' /\ OnlyWatcher' /\ LockHeld'
    <2>1. CASE kind = "sidecar"
      BY <2>1, RestartedIs DEF Script, IInv, TypeOK
    <2>2. CASE kind # "sidecar"
      BY <2>2, OthersGoOn DEF Script
    <2> QED BY <2>1, <2>2
  <1>2. PagesType'
    <2>1. \A p \in Pages : /\ page[p] \in Page /\ [page[p] EXCEPT !.st = "ready"] \in Page
                           /\ [page[p] EXCEPT !.runs = @ \cup {"crash"}] \in Page
      BY DEF IInv, TypeOK, Page
    <2> QED BY <2>1, Values DEF Script, PagesType
  <1>3. UsedType' /\ PastType'
    BY Parts, Faults DEF Script, IInv, PastType, Torn
  <1>4. DiskType' /\ ServerType'
    BY Parts, ResolvedIs DEF Script, IInv, DiskType, ServerType
  <1> QED BY <1>1, <1>2, <1>3, <1>4, Parts, PartsThen DEF Script, IInv
----------------------------------------------------------------------------
(* The server, the pages and the world *)

\* A step that is not the updater's: the parts it leaves alone are given, the rest follows.
LEMMA OthersKeep ==
    ASSUME IInv, UNCHANGED <<kind, disk, upd, lock>>, released' \in Version,
           ServerType', PagesType', UsedType', PastType'
    PROVE  IInv'
  <1>1. ThreadsType' /\ OnlyWatcher' /\ LockHeld'
    BY OthersGoOn
  <1> QED BY <1>1, Parts, PartsThen DEF IInv, disk, DiskType

LEMMA ServerKeeps ==
    ASSUME IInv, Boot \/ Heal \/ JobReads \/ JobWrites PROVE IInv'
  <1>1. ServerType /\ PagesType /\ UsedType /\ PastType
    BY Parts DEF IInv
  <1>2. /\ UNCHANGED <<kind, disk, released, upd, lock, pageVars, past, used, running>>
        /\ server' \in {server, "fresh", "up"} /\ job' \in {"none", "write"}
        /\ kv' \in {kv, [kv EXCEPT !.avail = FALSE]}
    BY <1>1 DEF Boot, Heal, JobReads, JobWrites, Normally, ServerType
  <1>3. ServerType'
    BY <1>1, <1>2 DEF ServerType
  <1>4. PagesType' /\ UsedType' /\ PastType' /\ released' \in Version
    BY <1>1, <1>2 DEF pageVars, PagesType, UsedType, PastType, IInv, TypeOK
  <1> QED BY <1>2, <1>3, <1>4, OthersKeep

LEMMA RequestKeeps ==
    ASSUME IInv, NEW p \in Pages, RequestCheck(p) \/ RequestOpen(p) \/ RequestWrite(p) PROVE IInv'
  <1>1. /\ ServerType /\ PagesType /\ UsedType /\ PastType /\ DiskType
        /\ ask[p] \in Ask /\ page[p] \in Page /\ kv.latest \in 0 .. MaxVersion
    BY Parts DEF IInv, PagesType, ServerType
  <1>2. /\ UNCHANGED <<kind, status, compose, image, serverVars, released, upd, lock, chk, past, used>>
    BY DEF RequestCheck, RequestOpen, RequestWrite, disk, Normally
  <1>3. PagesType' /\ request' \in Tag \cup {NoFile, Empty}
    <2>1. CASE RequestCheck(p)
      <3>1. (IF kv.latest = 0 THEN Latest ELSE kv.latest) \in Tag
        BY <1>1, UpdateAssumption DEF Tag, Version
      <3>2. CASE status \in Busy
        <4>1. [page[p] EXCEPT !.st = IF page[p].st = "updating" THEN "ready" ELSE page[p].st] \in Page
          BY <1>1 DEF Page
        <4>2. PagesType'
          BY <1>1, <2>1, <3>2, <4>1, Values DEF RequestCheck, Refuse, PagesType
        <4> QED BY <1>1, <2>1, <4>2 DEF RequestCheck, disk, DiskType
      <3>3. CASE status \notin Busy
        <4>1. \A t \in Tag : [ask[p] EXCEPT !.at = "open", !.tag = t] \in Ask
          BY <1>1 DEF Ask
        <4>2. PagesType'
          BY <1>1, <2>1, <3>1, <3>3, <4>1 DEF RequestCheck, PagesType
        <4> QED BY <1>1, <2>1, <4>2 DEF RequestCheck, disk, DiskType
      <3> QED BY <3>2, <3>3
    <2>2. CASE RequestOpen(p)
      <3>1. [ask[p] EXCEPT !.at = "write", !.fd = TRUE] \in Ask
        BY <1>1 DEF Ask
      <3> QED BY <1>1, <2>2, <3>1 DEF RequestOpen, PagesType
    <2>3. CASE RequestWrite(p)
      BY <1>1, <2>3, Values DEF RequestWrite, PagesType, Ask, DiskType
    <2> QED BY <2>1, <2>2, <2>3
  <1>4. DiskType'
    BY <1>1, <1>2, <1>3 DEF DiskType
  <1>5. ServerType' /\ UsedType' /\ PastType' /\ released' \in Version
    BY <1>1, <1>2 DEF serverVars, ServerType, UsedType, PastType, IInv, TypeOK
  <1>6. ThreadsType' /\ OnlyWatcher' /\ LockHeld'
    BY <1>2, OthersGoOn
  <1> QED BY <1>2, <1>3, <1>4, <1>5, <1>6, Parts, PartsThen DEF IInv

LEMMA FetchKeeps == ASSUME IInv, NEW p \in Pages, Fetch(p) PROVE IInv'
  <1>1. ServerType /\ PagesType /\ UsedType /\ PastType /\ released \in Version
    BY Parts DEF IInv
  <1>2. PagesType'
    <2>1. [at |-> "avail", got |-> released] \in Check
      BY <1>1 DEF Check
    <2>2. [page[p] EXCEPT !.avail = FALSE] \in Page
      BY <1>1 DEF PagesType, Page
    <2> QED BY <1>1, <2>1, <2>2, Values DEF Fetch, PagesType
  <1>3. UsedType'
    BY <1>1, Faults DEF Fetch, Normally, UsedType
  <1>4. UNCHANGED <<kind, disk, upd, lock>> /\ released' \in Version /\ ServerType' /\ PastType'
    BY <1>1 DEF Fetch, serverVars, ServerType, PastType
  <1> QED BY <1>2, <1>3, <1>4, OthersKeep

LEMMA StoreKeeps == ASSUME IInv, NEW p \in Pages, StoreAvail(p) \/ StoreLatest(p) PROVE IInv'
  <1>1. /\ ServerType /\ PagesType /\ UsedType /\ PastType /\ released \in Version
        /\ chk[p] \in Check /\ page[p] \in Page /\ chk[p].got \in 0 .. MaxVersion
    BY Parts, UpdateAssumption DEF IInv, PagesType, Check, Version
  <1>2. ServerType'
    <2>1. Newer(chk[p].got) \in BOOLEAN
      BY DEF Newer
    <2>2. \A b \in BOOLEAN, v \in 0 .. MaxVersion :
            [kv EXCEPT !.avail = b] \in [avail: BOOLEAN, latest: 0 .. MaxVersion]
            /\ [kv EXCEPT !.latest = v] \in [avail: BOOLEAN, latest: 0 .. MaxVersion]
      BY <1>1 DEF ServerType
    <2>3. kv' \in [avail: BOOLEAN, latest: 0 .. MaxVersion]
      BY <1>1, <2>1, <2>2 DEF StoreAvail, StoreLatest
    <2> QED BY <1>1, <2>3 DEF StoreAvail, StoreLatest, ServerType
  <1>3. PagesType'
    <2>1. CASE StoreAvail(p)
      <3>1. [chk[p] EXCEPT !.at = "latest"] \in Check
        BY <1>1 DEF Check
      <3> QED BY <1>1, <2>1, <3>1 DEF StoreAvail, PagesType
    <2>2. CASE StoreLatest(p)
      <3>1. \A b \in BOOLEAN : [page[p] EXCEPT !.avail = b] \in Page
        BY <1>1 DEF Page
      <3>2. Newer(chk[p].got) \in BOOLEAN
        BY DEF Newer
      <3> QED BY <1>1, <2>2, <3>1, <3>2, Values DEF StoreLatest, PagesType
    <2> QED BY <2>1, <2>2
  <1>4. UNCHANGED <<kind, disk, upd, lock, used>> /\ released' \in Version /\ UsedType' /\ PastType'
    BY <1>1 DEF StoreAvail, StoreLatest, Overlap, PastType, UsedType, Normally
  <1> QED BY <1>2, <1>3, <1>4, OthersKeep

LEMMA PageKeeps ==
    ASSUME IInv, NEW p \in Pages, Start(p) \/ Poll(p) \/ Recheck(p) \/ Reload(p) PROVE IInv'
  <1>1. /\ ServerType /\ PagesType /\ UsedType /\ PastType /\ released \in Version
        /\ chk[p] \in Check /\ page[p] \in Page
    BY Parts DEF IInv, PagesType
  <1>2. UNCHANGED <<kind, disk, serverVars, released, upd, lock, past>>
    BY DEF Start, Poll, Recheck, Reload
  <1>3. PagesType' /\ UsedType'
    <2>1. CASE Start(p)
      <3>1. \A b \in BOOLEAN : [Fresh(TRUE) EXCEPT !.st = "updating", !.stale = b] \in Page
        BY Values DEF Fresh, Page
      <3>2. (status \in Advanced) \in BOOLEAN
        OBVIOUS
      <3>3. [NoAsk EXCEPT !.at = "check"] \in Ask
        BY Values DEF NoAsk, Ask
      <3>4. PagesType'
        BY <1>1, <2>1, <3>1, <3>2, <3>3 DEF Start, PagesType
      <3>5. UsedType'
        BY <1>1, <2>1, UpdateAssumption DEF Start, UsedType
      <3> QED BY <3>4, <3>5
    <2>2. CASE Poll(p)
      <3> DEFINE seen == page[p].seen \/ status \in Advanced
                 told == [page[p] EXCEPT !.seen = seen, !.polled = TRUE]
      <3>1. seen \in BOOLEAN
        BY <1>1 DEF Page
      <3>2. page' \in {[page EXCEPT ![p] = g] : g \in
                {[page[p] EXCEPT !.polled = TRUE], [told EXCEPT !.st = "done"],
                 [told EXCEPT !.st = "ready"], told}}
        BY <2>2 DEF Poll
      <3> HIDE DEF seen
      <3>3. /\ told \in Page /\ [told EXCEPT !.st = "done"] \in Page
            /\ [told EXCEPT !.st = "ready"] \in Page /\ [page[p] EXCEPT !.polled = TRUE] \in Page
        BY <1>1, <3>1 DEF Page
      <3> HIDE DEF told
      <3>4. \A g \in Page : [page EXCEPT ![p] = g] \in [Pages -> Page]
        BY <1>1 DEF PagesType
      <3> QED BY <1>1, <2>2, <3>2, <3>3, <3>4 DEF Poll, PagesType, Normally, UsedType
    <2>3. CASE Recheck(p)
      <3>1. [chk[p] EXCEPT !.at = "fetch"] \in Check
        BY <1>1 DEF Check
      <3>2. UsedType'
        BY <1>1, <2>3, UpdateAssumption DEF Recheck, UsedType
      <3> QED BY <1>1, <2>3, <3>1, <3>2 DEF Recheck, PagesType
    <2>4. CASE Reload(p)
      BY <1>1, <2>4, Values DEF Reload, PagesType, Normally, UsedType, ServerType
    <2> QED BY <2>1, <2>2, <2>3, <2>4
  <1>4. released' \in Version /\ ServerType' /\ PastType'
    BY <1>1, <1>2 DEF serverVars, ServerType, PastType
  <1> QED BY <1>2, <1>3, <1>4, OthersKeep

LEMMA ReleaseKeeps == ASSUME IInv, Release PROVE IInv'
  <1>1. ServerType /\ PagesType /\ UsedType /\ PastType /\ released \in Version
    BY Parts DEF IInv
  <1>2. released' \in Version
    BY <1>1, UpdateAssumption DEF Release, Version
  <1>3. ServerType' /\ PagesType' /\ UsedType' /\ PastType'
    BY <1>1 DEF Release, serverVars, pageVars, Normally, ServerType, PagesType, UsedType, PastType
  <1> QED BY <1>2, <1>3, OthersKeep DEF Release

LEMMA NextKeepsInvariant == IInv /\ [Next]_vars => IInv'
  <1> SUFFICES ASSUME IInv, [Next]_vars PROVE IInv'
      OBVIOUS
  <1>1. CASE ReadRequest \/ RemoveRequest \/ Linger \/ Crash \/ Script
    BY <1>1, ReadRequestKeeps, RemoveRequestKeeps, LingerKeeps, CrashKeeps, ScriptKeeps
  <1>2. CASE \E a \in Actors : Works(a)
    BY <1>2, AcquireKeeps, TruncateKeeps, WriteStatusKeeps, ApplyTagKeeps, ListImagesKeeps,
       PullKeeps, StopKeeps, UpKeeps DEF Works
  <1>3. CASE \E c \in Callers : Post(c)
    BY <1>3, PostKeeps
  <1>4. CASE \E p \in Pages : Answers(p) \/ Start(p) \/ Poll(p) \/ Recheck(p) \/ Reload(p)
    BY <1>4, RequestKeeps, FetchKeeps, StoreKeeps, PageKeeps DEF Answers
  <1>5. CASE Boot \/ Heal \/ JobReads \/ JobWrites \/ Release
    BY <1>5, ServerKeeps, ReleaseKeeps
  <1>6. CASE UNCHANGED vars
    <2>1. ServerType /\ PagesType /\ UsedType /\ PastType /\ released \in Version
      BY Parts DEF IInv
    <2>2. ServerType' /\ PagesType' /\ UsedType' /\ PastType' /\ released' \in Version
      BY <1>6, <2>1 DEF vars, serverVars, pageVars, ServerType, PagesType, UsedType, PastType
    <2> QED BY <1>6, <2>2, OthersKeep DEF vars
  <1> QED BY <1>1, <1>2, <1>3, <1>4, <1>5, <1>6 DEF Next

LEMMA SpecInvariant == Spec => []IInv
  BY InitInvariant, NextKeepsInvariant, PTL DEF Spec

\* With any number of pages, of calls of the daemon, of containers and of releases, every
\* variable of the update keeps its type.
THEOREM UpdateTypeCorrect == Spec => []TypeOK
  <1>1. IInv => TypeOK
    BY DEF IInv
  <1> QED BY <1>1, SpecInvariant, PTL

\* Two updates never edit the compose file and recreate containers side by side, however many
\* calls of the daemon meet the request file, and wherever the updater dies or a step fails.
THEOREM UpdatesDoNotOverlap == Spec => []OneRunAtATime
  <1>1. IInv => OneRunAtATime
    <2> SUFFICES ASSUME IInv, NEW a \in Actors, NEW b \in Actors, Working(a), Working(b)
                 PROVE  a = b
        BY DEF OneRunAtATime
    <2>1. Within(upd[a]) /\ Within(upd[b])
      BY DEF Working, Within
    <2>2. upd[a].at # "idle" /\ upd[b].at # "idle"
      BY <2>1 DEF Within
    <2> QED BY <2>1, <2>2, ThreadKinds
  <1> QED BY <1>1, SpecInvariant, PTL
----------------------------------------------------------------------------
(* What the threads say, and that a running update is shown *)

\* Of a thread: whether it is about to write one of these stages; whether it works on an
\* update, or has one to report as complete.
Says(u, stages) == u.at \in {"say", "saying"} /\ u.say \in stages
AtWork(u) ==
    /\ u.op = "update"
    /\ \/ u.at \in {"tag", "pull", "stop", "up"}
       \/ u.at \in {"say", "linger"} /\ u.say \in Running \ {"starting"}
       \/ u.at = "saying" /\ u.say \in Running
InRun(u) == AtWork(u) \/ Says(u, {"complete"})

\* The operation fits what the thread does, and it pauses only where the side car does.
OpFits(a, u) ==
    /\ u.at = "linger" => u.say \in {"pulled", "complete", "error"}
    /\ a = Watcher => u.op = "update"
    /\ u.at = "list" \/ Says(u, {"checking"}) => u.op = "check"
    /\ u.at \in {"remove", "tag", "stop", "up"} \/ Says(u, Running \cup {"complete"}) => u.op = "update"
OpOK == \A a \in Actors : OpFits(a, upd[a])

\* The daemon reports an end while it holds the lock, but for an error, and for the "idle" of a
\* daemon that starts and serves no call yet.
CallersIdle == \A c \in Callers : upd[c].at = "idle"
EndOK == kind = "daemon" => \A a \in Actors :
    /\ upd[a].at # "linger" /\ ~Says(upd[a], {"pulled"})
    /\ Says(upd[a], {"complete"}) => lock = a
    /\ Says(upd[a], {"idle"}) => lock = a \/ (a = Watcher /\ CallersIdle)

StatusOK == \A a \in Actors : InRun(upd[a]) => status \in Running \cup {"halfway", "error"}

Telling == OpOK /\ EndOK /\ StatusOK /\ RunningIsShown

LEMMA ThreadTells ==
    ASSUME IInv, OpOK, EndOK, NEW a \in Actors, NEW u \in Thread, upd' = [upd EXCEPT ![a] = u],
           kind' = kind, lock' \in {lock, Freed(a)} \/ (lock = NoOne /\ lock' = a), OpFits(a, u),
           upd[a].at = "idle" => ~Says(upd[Watcher], {"idle"}),
           kind = "daemon" =>
              /\ u.at # "linger" /\ ~Says(u, {"pulled"})
              /\ Says(u, {"complete"}) => lock' = a
              /\ Says(u, {"idle"}) => lock' = a \/ (lock' = lock /\ Says(upd[a], {"idle"}))
    PROVE  OpOK' /\ EndOK'
  <1>1. upd'[a] = u /\ \A b \in Actors \ {a} : upd'[b] = upd[b]
    BY DEF IInv, TypeOK
  <1>2. OpOK'
    BY <1>1 DEF OpOK, OpFits, Says
  <1>3. \A b \in Actors \ {a} : lock = b => lock' = b
    BY UpdateAssumption DEF Freed
  <1>4. ASSUME kind = "daemon", a = Watcher, CallersIdle PROVE CallersIdle'
    BY <1>1, <1>4, UpdateAssumption DEF CallersIdle, Actors
  <1>5. ASSUME kind = "daemon", NEW b \in Actors \ {a}, Says(upd[b], {"idle"}) PROVE lock' = b \/ (b = Watcher /\ CallersIdle')
    <2>1. CASE lock = b
      BY <1>3, <2>1
    <2>2. CASE b = Watcher /\ CallersIdle
      <3>1. upd[a].at = "idle"
        BY <2>2 DEF Actors, CallersIdle
      <3> QED BY <1>5, <2>2, <3>1
    <2> QED BY <1>5, <2>1, <2>2 DEF EndOK
  <1>6. ASSUME kind = "daemon", Says(u, {"idle"}) PROVE lock' = a \/ (a = Watcher /\ CallersIdle')
    <2>1. CASE lock' = lock /\ Says(upd[a], {"idle"})
      BY <1>4, <1>6, <2>1 DEF EndOK
    <2> QED BY <1>6, <2>1
  <1>7. EndOK'
    <2> SUFFICES ASSUME kind = "daemon", NEW b \in Actors
                 PROVE  /\ upd'[b].at # "linger" /\ ~Says(upd'[b], {"pulled"})
                        /\ Says(upd'[b], {"complete"}) => lock' = b
                        /\ Says(upd'[b], {"idle"}) => lock' = b \/ (b = Watcher /\ CallersIdle')
        BY DEF EndOK, Says
    <2>1. CASE b = a
      BY <1>1, <1>6, <2>1
    <2>2. CASE b # a
      BY <1>1, <1>3, <1>5, <2>2 DEF EndOK
    <2> QED BY <2>1, <2>2
  <1> QED BY <1>2, <1>7

LEMMA WorkingIs == /\ \A a \in Actors : Working(a) <=> AtWork(upd[a])
                   /\ (\A a \in Actors : Working(a) <=> AtWork(upd[a]))'
  BY DEF Working, AtWork

\* The status file stays as it is, and the thread was in its update before.
LEMMA StatusStays ==
    ASSUME IInv, Telling, NEW a \in Actors, NEW u \in Thread, upd' = [upd EXCEPT ![a] = u],
           status' = status \/ status' = "halfway", past \subseteq past',
           InRun(u) => InRun(upd[a]), AtWork(u) => AtWork(upd[a])
    PROVE  StatusOK' /\ RunningIsShown'
  <1>1. upd'[a] = u /\ \A b \in Actors \ {a} : upd'[b] = upd[b]
    BY DEF IInv, TypeOK
  <1>2. \A b \in Actors : /\ InRun(upd'[b]) => InRun(upd[b])
                          /\ AtWork(upd'[b]) => AtWork(upd[b])
    BY <1>1
  <1>3. StatusOK'
    BY <1>2 DEF Telling, StatusOK, InRun, AtWork, Says
  <1>4. RunningIsShown'
    BY <1>2, WorkingIs DEF Telling, RunningIsShown
  <1> QED BY <1>3, <1>4

LEMMA SayingWhat ==
    ASSUME NEW a \in Actors, upd[a] \in Thread, NEW stage \in Stage
    PROVE  /\ Saying(a, stage) \in Thread /\ Saying(a, stage).op = upd[a].op
           /\ Saying(a, stage).at = "say" /\ Saying(a, stage).say = stage
  BY DEF Saying, Thread

\* A thread that goes on without writing: what it is afterwards decides.
LEMMA GoesOnTelling ==
    ASSUME IInv, Telling, NEW a \in Actors, NEW u \in Thread, upd' = [upd EXCEPT ![a] = u],
           kind' = kind, lock' \in {lock, Freed(a)} \/ (lock = NoOne /\ lock' = a), OpFits(a, u),
           status' = status \/ status' = "halfway", past \subseteq past',
           upd[a].at = "idle" => ~Says(upd[Watcher], {"idle"}),
           InRun(u) => InRun(upd[a]), AtWork(u) => AtWork(upd[a]),
           kind = "daemon" =>
              /\ u.at # "linger" /\ ~Says(u, {"pulled"})
              /\ Says(u, {"complete"}) => lock' = a
              /\ Says(u, {"idle"}) => lock' = a \/ (lock' = lock /\ Says(upd[a], {"idle"}))
    PROVE  Telling'
  <1>1. OpOK' /\ EndOK'
    BY ThreadTells DEF Telling
  <1>2. StatusOK' /\ RunningIsShown'
    BY StatusStays
  <1> QED BY <1>1, <1>2 DEF Telling

LEMMA FailsTells ==
    ASSUME IInv, Telling, NEW a \in Actors, upd[a].at \notin {"idle", "say", "saying"}, Fails(a), kind' = kind,
           UNCHANGED <<status, past>>
    PROVE  Telling'
  <1> DEFINE u == Saying(a, "error")
  <1>1. u \in Thread /\ u.op = upd[a].op /\ u.at = "say" /\ u.say = "error"
    BY ThreadKinds, SayingWhat DEF Stage
  <1>2. upd' = [upd EXCEPT ![a] = u] /\ lock' = Freed(a)
    BY DEF Fails, Thus
  <1> HIDE DEF u
  <1>3. OpFits(a, upd[a])
    BY DEF Telling, OpOK
  <1>4. OpFits(a, u) /\ ~InRun(u) /\ ~AtWork(u) /\ ~Says(u, {"pulled"}) /\ ~Says(u, {"complete"}) /\ ~Says(u, {"idle"})
    BY <1>1, <1>3 DEF OpFits, InRun, AtWork, Says, Running
  <1> QED BY <1>1, <1>2, <1>4, GoesOnTelling

\* An idle thread, or one that waits, says and runs nothing.
LEMMA Quiet ==
    ASSUME NEW u \in Thread, u.at \in {"poll", "remove", "lock", "idle"}
    PROVE  ~InRun(u) /\ ~AtWork(u) /\ \A st \in Stage : ~Says(u, {st})
  BY DEF InRun, AtWork, Says

LEMMA WatcherReads == ASSUME IInv, Telling, ReadRequest \/ RemoveRequest PROVE Telling'
  <1>1. Watcher \in Actors /\ upd[Watcher] \in Thread /\ upd[Watcher].at \in {"poll", "remove"}
    BY DEF Actors, IInv, TypeOK, ReadRequest, RemoveRequest
  <1>2. UNCHANGED <<kind, lock, status, past>>
    BY DEF ReadRequest, RemoveRequest, disk
  <1>3. ASSUME NEW u \in Thread, upd' = [upd EXCEPT ![Watcher] = u], OpFits(Watcher, u), ~InRun(u), ~AtWork(u),
               u.at # "linger" /\ ~Says(u, {"pulled"}) /\ ~Says(u, {"complete"}) /\ ~Says(u, {"idle"})
        PROVE  Telling'
    BY <1>1, <1>2, <1>3, GoesOnTelling
  <1>4. CASE ReadRequest
    <2> DEFINE tag == IF request # Empty THEN request ELSE IF kind = "sidecar" THEN Blank ELSE Latest
               u == [upd[Watcher] EXCEPT !.at = "remove", !.op = "update", !.tag = tag]
    <2>1. tag \in Tag
      BY <1>4 DEF ReadRequest, IInv, TypeOK, Tag
    <2>2. upd' = [upd EXCEPT ![Watcher] = u]
      BY <1>4 DEF ReadRequest, Thus
    <2> HIDE DEF tag
    <2>3. u \in Thread /\ u.at = "remove" /\ u.op = "update"
      BY <1>1, <2>1 DEF Thread
    <2> HIDE DEF u
    <2>4. OpFits(Watcher, u)
      BY <2>3 DEF OpFits, Says
    <2> QED BY <1>3, <2>2, <2>3, <2>4, Quiet DEF Stage, Running
  <1>5. CASE RemoveRequest
    <2> DEFINE u == IF kind = "sidecar" THEN Saying(Watcher, "starting")
                    ELSE [upd[Watcher] EXCEPT !.at = "lock"]
    <2>1. u \in Thread /\ u.op = upd[Watcher].op /\ (u.at = "lock" \/ (u.at = "say" /\ u.say = "starting"))
      BY <1>1, SayingWhat DEF Thread, Stage, Running
    <2>2. upd' = [upd EXCEPT ![Watcher] = u]
      BY <1>5 DEF RemoveRequest, Thus
    <2> HIDE DEF u
    <2>3. upd[Watcher].op = "update"
      BY <1>1 DEF Telling, OpOK, OpFits
    <2>4. OpFits(Watcher, u) /\ ~InRun(u) /\ ~AtWork(u)
          /\ u.at # "linger" /\ ~Says(u, {"pulled"}) /\ ~Says(u, {"complete"}) /\ ~Says(u, {"idle"})
      BY <2>1, <2>3 DEF OpFits, InRun, AtWork, Says
    <2> QED BY <1>3, <2>1, <2>2, <2>4
  <1> QED BY <1>4, <1>5

LEMMA CallsTell ==
    ASSUME IInv, Telling, (\E c \in Callers : Post(c)) \/ (\E a \in Actors : Acquire(a)) PROVE Telling'
  <1>1. CASE \E c \in Callers : Post(c)
    <2>1. PICK c \in Callers : Post(c)
      BY <1>1
    <2>2. PICK op \in {"update", "check"} : Thus(c, [NoThread EXCEPT !.at = "lock", !.op = op])
      BY <2>1 DEF Post
    <2> DEFINE u == [NoThread EXCEPT !.at = "lock", !.op = op]
    <2>3. u \in Thread /\ u.at = "lock"
      BY Values DEF Thread, NoThread
    <2>4. /\ upd' = [upd EXCEPT ![c] = u] /\ UNCHANGED <<kind, lock, status, past>>
          /\ c \in Actors /\ c # Watcher /\ ~Says(upd[Watcher], {"idle"})
      BY <2>1, <2>2, UpdateAssumption DEF Post, Thus, Actors, disk, Says
    <2> HIDE DEF u
    <2>5. OpFits(c, u)
      BY <2>3, <2>4 DEF OpFits, Says
    <2> QED BY <2>3, <2>4, <2>5, Quiet, GoesOnTelling DEF Stage, Running
  <1>2. CASE \E a \in Actors : Acquire(a)
    <2>1. PICK a \in Actors : Acquire(a)
      BY <1>2
    <2> DEFINE stage == IF upd[a].op = "check" THEN "checking" ELSE "starting"
               u == Saying(a, stage)
    <2>2. upd[a] \in Thread /\ upd[a].at = "lock" /\ stage \in {"checking", "starting"}
      BY <2>1, ThreadKinds DEF Acquire
    <2>3. u \in Thread /\ u.op = upd[a].op /\ u.at = "say" /\ u.say = stage
      BY <2>2, SayingWhat DEF Stage, Running
    <2>4. /\ upd' = [upd EXCEPT ![a] = u] /\ UNCHANGED <<kind, status, past>>
          /\ lock = NoOne /\ lock' = a
      BY <2>1 DEF Acquire, Thus, disk
    <2>5. a = Watcher => upd[a].op = "update"
      BY DEF Telling, OpOK, OpFits
    <2>6. OpFits(a, u)
      BY <2>2, <2>3, <2>5 DEF OpFits, Says, Running, Thread
    <2> HIDE DEF stage, u
    <2>7. /\ ~InRun(u) /\ ~AtWork(u) /\ u.at # "linger"
          /\ ~Says(u, {"pulled"}) /\ ~Says(u, {"complete"}) /\ ~Says(u, {"idle"})
      BY <2>2, <2>3 DEF InRun, AtWork, Says, Running
    <2> QED BY <2>2, <2>3, <2>4, <2>6, <2>7, GoesOnTelling
  <1> QED BY <1>1, <1>2

LEMMA TruncateTells == ASSUME IInv, Telling, NEW a \in Actors, Truncate(a) PROVE Telling'
  <1> DEFINE u == [upd[a] EXCEPT !.at = "saying"]
  <1>1. upd[a] \in Thread /\ upd[a].at = "say" /\ OpFits(a, upd[a])
    BY ThreadKinds DEF Truncate, Telling, OpOK
  <1>2. u \in Thread /\ u.op = upd[a].op /\ u.say = upd[a].say /\ u.at = "saying"
    BY <1>1 DEF Thread
  <1>3. upd' = [upd EXCEPT ![a] = u] /\ UNCHANGED <<kind, lock, past>> /\ status' = "halfway"
    BY DEF Truncate, Thus
  <1> HIDE DEF u
  <1>4. OpFits(a, u) /\ \A st \in Stage : Says(u, {st}) <=> Says(upd[a], {st})
    BY <1>1, <1>2 DEF OpFits, Says
  <1>5. OpOK' /\ EndOK'
    BY <1>1, <1>2, <1>3, <1>4, ThreadTells DEF Telling, EndOK, Stage, Running
  <1>6. StatusOK' /\ RunningIsShown'
    BY <1>3 DEF StatusOK, RunningIsShown
  <1> QED BY <1>5, <1>6 DEF Telling

\* What follows a stage that has been written.
LEMMA AfterTells ==
    ASSUME IInv, Telling, NEW a \in Actors, upd[a].at = "saying"
    PROVE  /\ After(a) \in Thread /\ OpFits(a, After(a))
           /\ InRun(After(a)) => upd[a].say \in Running
           /\ AtWork(After(a)) => upd[a].say \in Running
           /\ kind = "daemon" => After(a).at # "linger"
           /\ ~Says(After(a), {"pulled"}) /\ ~Says(After(a), {"complete"}) /\ ~Says(After(a), {"idle"})
           /\ upd[a].op = "update" /\ upd[a].say \in Running => InRun(After(a))
  <1> DEFINE u == upd[a]
             v == After(a)
  <1>1. u \in Thread /\ u.say \in Stage /\ u.op \in {"update", "check"} /\ kind \in {"sidecar", "daemon"}
        /\ u.at = "saying" /\ OpFits(a, u)
    BY ThreadKinds DEF Thread, Telling, OpOK
  <1>2. v \in Thread
    BY AfterIs
  <1>3. u.say \in Running => u.op = "update"
    BY <1>1 DEF OpFits, Says
  <1>4. CASE u.say = "starting" /\ kind = "daemon"
    <2>1. v.at = "say" /\ v.say = "preparing" /\ v.op = u.op
      BY <1>1, <1>4, SayingWhat DEF After, Stage, Running
    <2> QED BY <1>1, <1>2, <1>3, <1>4, <2>1 DEF OpFits, InRun, AtWork, Says, Running
  <1>5. CASE u.say = "preparing" \/ (u.say = "starting" /\ kind = "sidecar")
    <2>1. v = [u EXCEPT !.at = "tag"]
      BY <1>1, <1>5 DEF After
    <2>2. v.at = "tag" /\ v.op = u.op
      BY <1>1, <2>1 DEF Thread
    <2> QED BY <1>1, <1>2, <1>3, <1>5, <2>2 DEF OpFits, InRun, AtWork, Says, Running
  <1>6. CASE u.say = "checking"
    <2>1. v = [u EXCEPT !.at = "list"]
      BY <1>1, <1>6 DEF After
    <2>2. v.at = "list" /\ v.op = u.op
      BY <1>1, <2>1 DEF Thread
    <2> QED BY <1>1, <1>2, <1>6, <2>2 DEF OpFits, InRun, AtWork, Says, Running
  <1>7. CASE u.say = "pulling"
    <2>1. v = [u EXCEPT !.at = "pull"]
      BY <1>1, <1>7 DEF After
    <2>2. v.at = "pull" /\ v.op = u.op
      BY <1>1, <2>1 DEF Thread
    <2> QED BY <1>1, <1>2, <1>3, <1>7, <2>2 DEF OpFits, InRun, AtWork, Says, Running
  <1>8. CASE u.say = "pulled"
    <2>1. v = [u EXCEPT !.at = "linger"]
      BY <1>1, <1>8 DEF After
    <2>2. v.at = "linger" /\ v.op = u.op /\ v.say = u.say
      BY <1>1, <2>1 DEF Thread
    <2>3. kind # "daemon"
      BY <1>1, <1>8 DEF Telling, EndOK, Says
    <2> QED BY <1>1, <1>2, <1>3, <1>8, <2>2, <2>3 DEF OpFits, InRun, AtWork, Says, Running
  <1>9. CASE u.say = "recreating"
    <2>1. v = [u EXCEPT !.at = "stop"]
      BY <1>1, <1>9 DEF After
    <2>2. v.at = "stop" /\ v.op = u.op
      BY <1>1, <2>1 DEF Thread
    <2> QED BY <1>1, <1>2, <1>3, <1>9, <2>2 DEF OpFits, InRun, AtWork, Says, Running
  <1>10. CASE u.say \in {"complete", "error"} /\ kind = "sidecar"
    <2>1. v = [u EXCEPT !.at = "linger"]
      BY <1>1, <1>10 DEF After
    <2>2. v.at = "linger" /\ v.op = u.op /\ v.say = u.say
      BY <1>1, <2>1 DEF Thread
    <2> QED BY <1>1, <1>2, <1>10, <2>2 DEF OpFits, InRun, AtWork, Says, Running
  <1>11. CASE u.say = "idle" \/ (u.say \in {"complete", "error"} /\ kind = "daemon")
    <2>1. v = Ended(a)
      BY <1>1, <1>11 DEF After
    <2>2. v.at \in {"poll", "idle"} /\ v.op = "update"
      BY <2>1 DEF Ended, Polling, NoThread
    <2> QED BY <1>1, <1>2, <1>11, <2>2 DEF OpFits, InRun, AtWork, Says, Running
  <1> QED BY <1>1, <1>4, <1>5, <1>6, <1>7, <1>8, <1>9, <1>10, <1>11 DEF Stage, Running

LEMMA WriteTells == ASSUME IInv, Telling, NEW a \in Actors, WriteStatus(a) PROVE Telling'
  <1> DEFINE u == After(a)
  <1>1. /\ upd[a].at = "saying" /\ upd[a] \in Thread /\ upd[a].say \in Stage /\ OpFits(a, upd[a])
        /\ upd' = [upd EXCEPT ![a] = u] /\ kind' = kind /\ status' = upd[a].say /\ past \subseteq past'
        /\ lock' = (IF upd[a].say \in {"complete", "idle"} THEN Freed(a) ELSE lock)
        /\ upd[a].say = "error" /\ lock # NoOne => "late" \in past'
    BY ThreadKinds DEF WriteStatus, Thus, Thread, Telling, OpOK
  <1>2. OpOK' /\ EndOK'
    <2>1. lock' \in {lock, Freed(a)}
      BY <1>1
    <2> HIDE DEF u
    <2> QED BY <1>1, <2>1, AfterTells, ThreadTells DEF Telling, u
  <1>3. upd'[a] = u /\ \A b \in Actors \ {a} : upd'[b] = upd[b]
    BY <1>1 DEF IInv, TypeOK
  \* Whoever else is in its run holds the lock, and this thread can only report an error.
  <1>4. ASSUME NEW b \in Actors \ {a}, InRun(upd[b]) PROVE upd[a].say = "error" /\ lock # NoOne
    <2>1. upd[a].at # "idle" /\ upd[b].at # "idle"
      BY <1>1, <1>4 DEF InRun, AtWork, Says
    <2>2. kind = "daemon"
      BY <2>1, ThreadKinds
    <2>3. lock = b
      <3>1. CASE AtWork(upd[b])
        <4>1. Within(upd[b])
          BY <3>1 DEF AtWork, Within
        <4> QED BY <2>2, <4>1, ThreadKinds
      <3>2. CASE Says(upd[b], {"complete"})
        BY <2>2, <3>2 DEF Telling, EndOK
      <3> QED BY <1>4, <3>1, <3>2 DEF InRun
    <2>4. ~Within(upd[a])
      BY <2>2, <2>3, ThreadKinds
    <2>5. upd[a].say # "complete"
      BY <1>1, <2>2, <2>3 DEF Telling, EndOK, Says
    <2>6. upd[a].say # "idle"
      <3> SUFFICES ASSUME upd[a].say = "idle" PROVE FALSE
          OBVIOUS
      <3>1. a = Watcher /\ CallersIdle
        BY <1>1, <2>2, <2>3 DEF Telling, EndOK, Says
      <3>2. b \in Callers
        BY <3>1 DEF Actors
      <3> QED BY <2>1, <3>1, <3>2 DEF CallersIdle
    <2> QED BY <1>1, <2>3, <2>4, <2>5, <2>6, UpdateAssumption DEF Within, Stage
  <1>5. StatusOK'
    <2> SUFFICES ASSUME NEW b \in Actors, InRun(upd'[b]) PROVE status' \in Running \cup {"halfway", "error"}
        BY DEF StatusOK, InRun, AtWork, Says
    <2>1. CASE b = a
      BY <1>1, <1>3, <2>1, AfterTells
    <2>2. CASE b # a
      BY <1>1, <1>3, <1>4, <2>2
    <2> QED BY <2>1, <2>2
  <1>6. RunningIsShown'
    <2> SUFFICES ASSUME NEW b \in Actors, AtWork(upd'[b])
                 PROVE  status' \in Running \cup {"halfway"} \/ "late" \in past'
        BY WorkingIs DEF RunningIsShown
    <2>1. CASE b = a
      BY <1>1, <1>3, <2>1, AfterTells
    <2>2. CASE b # a
      BY <1>1, <1>3, <1>4, <2>2 DEF InRun
    <2> QED BY <2>1, <2>2
  <1> QED BY <1>2, <1>5, <1>6 DEF Telling

\* A command of an update or a check succeeds.
LEMMA SucceedsTells ==
    ASSUME IInv, Telling, NEW a \in Actors, NEW u \in Thread, Succeeds(a, u), upd[a].at # "idle",
           UNCHANGED <<kind, status, past>>, OpFits(a, u),
           InRun(u) => InRun(upd[a]), AtWork(u) => AtWork(upd[a]),
           kind = "daemon" =>
              /\ u.at # "linger" /\ ~Says(u, {"pulled"})
              /\ Says(u, {"complete"}) \/ Says(u, {"idle"}) => lock = a
    PROVE  Telling'
  <1>1. upd' = [upd EXCEPT ![a] = u] /\ lock' = lock
    BY DEF Succeeds, Thus
  <1> QED BY <1>1, GoesOnTelling

LEMMA CommandTells ==
    ASSUME IInv, Telling, NEW a \in Actors,
           ApplyTag(a) \/ ListImages(a) \/ Pull(a) \/ Stop(a) \/ Up(a)
    PROVE  Telling'
  <1>1. /\ upd[a] \in Thread /\ OpFits(a, upd[a]) /\ upd[a].at \in {"tag", "list", "pull", "stop", "up"}
        /\ kind = "daemon" => lock = a
        /\ kind \in {"sidecar", "daemon"} /\ upd[a].op \in {"update", "check"}
    BY ThreadKinds DEF Telling, OpOK, ApplyTag, ListImages, Pull, Stop, Up, Within, Thread
  <1>2. UNCHANGED <<kind, status>>
    BY DEF ApplyTag, ListImages, Pull, Stop, Up, disk
  <1>3. ASSUME Fails(a), past' = past PROVE Telling'
    BY <1>1, <1>2, <1>3, FailsTells
  <1>4. CASE ApplyTag(a)
    <2>1. Saying(a, "pulling") \in Thread /\ Saying(a, "pulling").op = upd[a].op
          /\ Saying(a, "pulling").at = "say" /\ Saying(a, "pulling").say = "pulling"
      BY <1>1, SayingWhat DEF Stage, Running
    <2>2. past' = past /\ upd[a].at = "tag" /\ (Succeeds(a, Saying(a, "pulling")) \/ Fails(a))
      BY <1>4 DEF ApplyTag
    <2> DEFINE u == Saying(a, "pulling")
    <2>3. /\ OpFits(a, u) /\ (InRun(u) => InRun(upd[a])) /\ (AtWork(u) => AtWork(upd[a]))
          /\ u.at # "linger" /\ ~Says(u, {"pulled"}) /\ ~Says(u, {"complete"}) /\ ~Says(u, {"idle"})
      BY <1>1, <2>1, <2>2 DEF OpFits, InRun, AtWork, Says, Running
    <2> HIDE DEF u
    <2>4. CASE Succeeds(a, u)
      BY <1>1, <1>2, <2>1, <2>2, <2>3, <2>4, SucceedsTells DEF u
    <2> QED BY <1>3, <2>2, <2>4 DEF u
  <1>5. CASE ListImages(a)
    <2> DEFINE u == [upd[a] EXCEPT !.at = "pull"]
    <2>1. u \in Thread /\ u.at = "pull" /\ u.op = upd[a].op /\ upd[a].at = "list"
      BY <1>1, <1>5 DEF Thread, ListImages
    <2>2. past' = past /\ (Succeeds(a, u) \/ Fails(a))
      BY <1>5 DEF ListImages
    <2> HIDE DEF u
    <2>3. /\ OpFits(a, u) /\ ~InRun(u) /\ ~AtWork(u)
          /\ u.at # "linger" /\ ~Says(u, {"pulled"}) /\ ~Says(u, {"complete"}) /\ ~Says(u, {"idle"})
      BY <1>1, <2>1 DEF OpFits, InRun, AtWork, Says, Running
    <2>4. CASE Succeeds(a, u)
      BY <1>1, <1>2, <2>1, <2>2, <2>3, <2>4, SucceedsTells
    <2> QED BY <1>3, <2>2, <2>4
  <1>6. CASE Pull(a)
    <2> DEFINE stage == IF upd[a].op = "check" THEN "idle"
                        ELSE IF kind = "sidecar" THEN "pulled" ELSE "recreating"
               u == Saying(a, stage)
    <2>1. u \in Thread /\ u.op = upd[a].op /\ u.at = "say" /\ u.say = stage
      BY <1>1, SayingWhat DEF Stage, Running
    <2>2. past' = past /\ upd[a].at = "pull" /\ (Succeeds(a, u) \/ Fails(a))
      BY <1>6 DEF Pull
    <2>3. /\ stage = "idle" => upd[a].op = "check"
          /\ stage \in {"pulled", "recreating"} => upd[a].op = "update"
          /\ stage = "pulled" => kind = "sidecar"
          /\ stage \in {"idle", "pulled", "recreating"}
      BY <1>1
    <2> HIDE DEF stage, u
    <2>4. /\ OpFits(a, u) /\ (InRun(u) => InRun(upd[a])) /\ (AtWork(u) => AtWork(upd[a]))
          /\ u.at # "linger" /\ (kind = "daemon" => ~Says(u, {"pulled"}))
      BY <1>1, <2>1, <2>2, <2>3 DEF OpFits, InRun, AtWork, Says, Running
    <2>5. CASE Succeeds(a, u)
      BY <1>1, <1>2, <2>1, <2>2, <2>4, <2>5, SucceedsTells
    <2> QED BY <1>3, <2>2, <2>5
  <1>7. CASE Stop(a)
    <2> DEFINE u == [upd[a] EXCEPT !.at = "up"]
    <2>1. u \in Thread /\ u.at = "up" /\ u.op = upd[a].op /\ upd[a].at = "stop"
      BY <1>1, <1>7 DEF Thread, Stop
    <2>2. upd' = [upd EXCEPT ![a] = u] /\ lock' = lock /\ past \subseteq past'
      BY <1>7 DEF Stop, Thus
    <2> HIDE DEF u
    <2>3. /\ OpFits(a, u) /\ (InRun(u) => InRun(upd[a])) /\ (AtWork(u) => AtWork(upd[a]))
          /\ u.at # "linger" /\ ~Says(u, {"pulled"}) /\ ~Says(u, {"complete"}) /\ ~Says(u, {"idle"})
      BY <1>1, <2>1 DEF OpFits, InRun, AtWork, Says, Running
    <2> QED BY <1>1, <1>2, <2>1, <2>2, <2>3, GoesOnTelling
  <1>8. CASE Up(a)
    <2> DEFINE u == IF upd[a].i < Services THEN [Saying(a, "recreating") EXCEPT !.i = upd[a].i + 1]
                    ELSE Saying(a, "complete")
    <2>1. /\ u \in Thread /\ u.op = upd[a].op /\ u.at = "say" /\ u.say \in {"recreating", "complete"}
      <3>1. /\ Saying(a, "recreating") \in Thread /\ Saying(a, "complete") \in Thread
            /\ Saying(a, "recreating").op = upd[a].op /\ Saying(a, "complete").op = upd[a].op
            /\ Saying(a, "recreating").at = "say" /\ Saying(a, "complete").at = "say"
            /\ Saying(a, "recreating").say = "recreating" /\ Saying(a, "complete").say = "complete"
            /\ upd[a].i \in 1 .. Services
        BY <1>1, SayingWhat DEF Stage, Running, Thread
      <3> QED BY <3>1, UpdateAssumption DEF Thread
    <2>2. past' = past /\ upd[a].at = "up" /\ (Succeeds(a, u) \/ Fails(a))
      BY <1>8 DEF Up, Saying
    <2> HIDE DEF u
    <2>3. /\ OpFits(a, u) /\ (InRun(u) => InRun(upd[a])) /\ (AtWork(u) => AtWork(upd[a]))
          /\ u.at # "linger" /\ ~Says(u, {"pulled"})
      BY <1>1, <2>1, <2>2 DEF OpFits, InRun, AtWork, Says, Running
    <2>4. CASE Succeeds(a, u)
      BY <1>1, <1>2, <2>1, <2>2, <2>3, <2>4, SucceedsTells
    <2> QED BY <1>3, <2>2, <2>4
  <1> QED BY <1>4, <1>5, <1>6, <1>7, <1>8

LEMMA LingerTells == ASSUME IInv, Telling, Linger PROVE Telling'
  <1> DEFINE stage == IF upd[Watcher].say = "pulled" THEN "recreating" ELSE "idle"
             u == Saying(Watcher, stage)
  <1>1. /\ Watcher \in Actors /\ upd[Watcher] \in Thread /\ upd[Watcher].at = "linger"
        /\ OpFits(Watcher, upd[Watcher]) /\ kind # "daemon"
    BY DEF Actors, IInv, TypeOK, Linger, Telling, OpOK, EndOK
  <1>2. u \in Thread /\ u.op = upd[Watcher].op /\ u.at = "say" /\ u.say = stage
    BY <1>1, SayingWhat DEF Stage, Running
  <1>3. upd' = [upd EXCEPT ![Watcher] = u] /\ UNCHANGED <<kind, lock, status, past>>
    BY DEF Linger, Thus, disk
  <1>4. OpFits(Watcher, u) /\ (InRun(u) => InRun(upd[Watcher])) /\ (AtWork(u) => AtWork(upd[Watcher]))
    BY <1>1, <1>2 DEF OpFits, InRun, AtWork, Says, Running
  <1> HIDE DEF u
  <1> QED BY <1>1, <1>2, <1>3, <1>4, GoesOnTelling

LEMMA RestartTells ==
    ASSUME IInv, upd' = Restarted, kind' = kind PROVE Telling'
  <1>1. \A a \in Actors : /\ upd'[a].op = "update" /\ upd'[a].say = "idle"
                          /\ upd'[a].at \in {"say", "idle"}
                          /\ upd'[a].at = "say" => a = Watcher
    BY DEF Restarted, NoThread
  <1>2. CallersIdle'
    BY <1>1, UpdateAssumption DEF CallersIdle, Actors
  <1>3. \A a \in Actors : ~InRun(upd'[a]) /\ ~AtWork(upd'[a]) /\ OpFits(a, upd'[a])
    BY <1>1 DEF InRun, AtWork, Says, OpFits, Running
  <1>4. OpOK' /\ StatusOK'
    BY <1>3 DEF OpOK, OpFits, StatusOK, InRun, AtWork, Says
  <1>5. EndOK'
    BY <1>1, <1>2 DEF EndOK, Says
  <1>6. RunningIsShown'
    BY <1>3, WorkingIs DEF RunningIsShown
  <1> QED BY <1>4, <1>5, <1>6 DEF Telling

LEMMA OthersTell ==
    ASSUME Telling, UNCHANGED <<kind, status, upd, lock>>, past \subseteq past' PROVE Telling'
  BY DEF Telling, OpOK, OpFits, EndOK, CallersIdle, StatusOK, InRun, AtWork, Says, RunningIsShown, Working

LEMMA TellingKept == ASSUME IInv, Telling, [Next]_vars PROVE Telling'
  <1>1. CASE ReadRequest \/ RemoveRequest \/ Linger
    BY <1>1, WatcherReads, LingerTells
  <1>2. CASE Crash
    BY <1>2, RestartTells DEF Crash
  <1>3. CASE Script
    BY <1>3, RestartTells, OthersTell DEF Script
  <1>4. CASE \E a \in Actors : Works(a)
    BY <1>4, CallsTell, TruncateTells, WriteTells, CommandTells DEF Works
  <1>5. CASE \E c \in Callers : Post(c)
    BY <1>5, CallsTell
  <1>6. CASE \E p \in Pages : Answers(p) \/ Start(p) \/ Poll(p) \/ Recheck(p) \/ Reload(p)
    <2>1. UNCHANGED <<kind, status, upd, lock>> /\ past \subseteq past'
      BY <1>6 DEF Answers, RequestCheck, RequestOpen, RequestWrite, Fetch, StoreAvail, StoreLatest, Overlap,
                  Start, Poll, Recheck, Reload, disk
    <2> QED BY <2>1, OthersTell
  <1>7. CASE Boot \/ Heal \/ JobReads \/ JobWrites \/ Release \/ UNCHANGED vars
    BY <1>7, OthersTell DEF Boot, Heal, JobReads, JobWrites, Release, vars, disk
  <1> QED BY <1>1, <1>2, <1>3, <1>4, <1>5, <1>6, <1>7 DEF Next

LEMMA TellingFirst == Init => Telling
  <1> SUFFICES ASSUME Init PROVE Telling
      OBVIOUS
  <1>1. \A a \in Actors : upd[a].at \in {"poll", "idle"} /\ upd[a].op = "update"
    BY DEF Init, Polling, NoThread
  <1>2. OpOK /\ EndOK /\ StatusOK
    BY <1>1 DEF OpOK, OpFits, EndOK, StatusOK, InRun, AtWork, Says
  <1>3. RunningIsShown
    BY <1>1 DEF RunningIsShown, Working
  <1> QED BY <1>2, <1>3 DEF Telling
----------------------------------------------------------------------------
(* That a page takes no update for complete before the end of a run *)

\* A page that has lived through no end since it asked, and asked when no run was far.
Waits(g) == g.st = "updating" /\ g.runs = {} /\ ~g.stale
SomeRun == \E a \in Actors : InRun(upd[a])

\* What such a page sees of a run is of a run that still goes on.
Waiting == \A p \in Pages : Waits(page[p]) /\ (page[p].seen \/ status \in Advanced) => SomeRun
PagesOK == Waiting /\ CompletionIsOfARun

LEMMA PagesGoOn ==
    ASSUME PagesOK,
           \A p \in Pages : Waits(page'[p]) =>
              \/ status' \notin Advanced /\ ~page'[p].seen
              \/ Waits(page[p]) /\ (page'[p].seen => page[p].seen \/ status \in Advanced),
           \A p \in Pages : page'[p].st = "done" => page'[p].runs # {} \/ page'[p].stale,
           SomeRun => SomeRun' \/ \A p \in Pages : ~Waits(page'[p]),
           status' \in Advanced => status \in Advanced \/ SomeRun' \/ \A p \in Pages : ~Waits(page'[p])
    PROVE  PagesOK'
  <1>1. CompletionIsOfARun'
    BY DEF CompletionIsOfARun
  <1>2. Waiting'
    <2> SUFFICES ASSUME NEW p \in Pages, Waits(page'[p]), page'[p].seen \/ status' \in Advanced
                 PROVE  SomeRun'
        BY DEF Waiting, Waits
    <2>1. Waits(page[p]) /\ (page'[p].seen => page[p].seen \/ status \in Advanced)
      OBVIOUS
    <2>2. CASE page[p].seen \/ status \in Advanced
      BY <2>1, <2>2 DEF PagesOK, Waiting
    <2> QED BY <2>1, <2>2
  <1> QED BY <1>1, <1>2 DEF PagesOK

\* The pages are as before, or remember how a run ended.
PagesAlike == \A p \in Pages :
    /\ Waits(page'[p]) => Waits(page[p]) /\ page'[p].seen = page[p].seen
    /\ page'[p].st = "done" => page'[p] = page[p]

LEMMA RememberedIs ==
    ASSUME IInv, NEW ends, Remember(ends)
    PROVE  /\ PagesAlike
           /\ ends # {} => \A p \in Pages : ~Waits(page'[p])
  <1>1. \A p \in Pages : page[p] \in Page
    BY DEF IInv, TypeOK
  <1>2. ASSUME NEW p \in Pages, page[p].st = "updating"
        PROVE  /\ page'[p].st = "updating" /\ page'[p].runs = page[p].runs \cup ends
               /\ page'[p].stale = page[p].stale /\ page'[p].seen = page[p].seen
    <2>1. page'[p] = [page[p] EXCEPT !.polled = FALSE, !.runs = @ \cup ends]
      BY <1>2 DEF Remember
    <2> QED BY <1>1, <1>2, <2>1 DEF Page
  <1>3. ASSUME NEW p \in Pages, page[p].st # "updating" PROVE page'[p] = page[p]
    BY <1>3 DEF Remember
  <1> QED BY <1>2, <1>3 DEF Waits, PagesAlike

LEMMA StopsAlike == ASSUME IInv, ServerStops PROVE PagesAlike
  <1>1. ASSUME NEW p \in Pages, ask[p].at # "none", page[p].st = "updating" PROVE page'[p].st = "ready"
    <2>1. page[p] \in Page /\ page'[p] = [page[p] EXCEPT !.st = "ready"]
      BY <1>1 DEF IInv, TypeOK, ServerStops
    <2> QED BY <2>1 DEF Page
  <1>2. ASSUME NEW p \in Pages, ~(ask[p].at # "none" /\ page[p].st = "updating") PROVE page'[p] = page[p]
    BY <1>2 DEF ServerStops
  <1> QED BY <1>1, <1>2 DEF PagesAlike, Waits

LEMMA AlikeGoOn ==
    ASSUME PagesOK, PagesAlike,
           SomeRun => SomeRun' \/ \A p \in Pages : ~Waits(page'[p]),
           status' \in Advanced => status \in Advanced \/ SomeRun' \/ \A p \in Pages : ~Waits(page'[p])
    PROVE  PagesOK'
  <1>1. \A p \in Pages : page'[p].st = "done" => page'[p].runs # {} \/ page'[p].stale
    BY DEF PagesAlike, PagesOK, CompletionIsOfARun
  <1> QED BY <1>1, PagesGoOn DEF PagesAlike

LEMMA RunGoesOn ==
    ASSUME IInv, NEW a \in Actors, NEW u, upd' = [upd EXCEPT ![a] = u], InRun(upd[a]) => InRun(u)
    PROVE  SomeRun => SomeRun'
  <1>1. upd'[a] = u /\ \A b \in Actors \ {a} : upd'[b] = upd[b]
    BY DEF IInv, TypeOK
  <1> QED BY <1>1 DEF SomeRun

LEMMA FailsPages ==
    ASSUME IInv, Telling, PagesOK, NEW a \in Actors, upd[a].at \notin {"say", "saying"}, Fails(a), status' = status
    PROVE  PagesOK'
  <1>1. PICK ends : Remember(ends) /\ (upd[a].op = "update" => ends # {})
    BY DEF Fails
  <1>2. PagesAlike /\ (ends # {} => \A p \in Pages : ~Waits(page'[p]))
    BY <1>1, RememberedIs
  <1>3. CASE upd[a].op = "update"
    BY <1>1, <1>2, <1>3, AlikeGoOn
  <1>4. CASE upd[a].op # "update"
    <2>1. ~InRun(upd[a]) /\ upd' = [upd EXCEPT ![a] = Saying(a, "error")]
      BY <1>4 DEF InRun, AtWork, Says, Fails, Thus
    <2>2. SomeRun => SomeRun'
      BY <2>1, RunGoesOn
    <2> QED BY <1>2, <2>2, AlikeGoOn
  <1> QED BY <1>3, <1>4

LEMMA WriteStatusPages == ASSUME IInv, Telling, PagesOK, NEW a \in Actors, WriteStatus(a) PROVE PagesOK'
  <1>1. /\ upd[a].at = "saying" /\ upd[a] \in Thread /\ upd[a].say \in Stage /\ OpFits(a, upd[a])
        /\ upd' = [upd EXCEPT ![a] = After(a)] /\ status' = upd[a].say
    BY ThreadKinds DEF WriteStatus, Thus, Thread, Telling, OpOK
  <1> DEFINE ends == IF upd[a].op = "update" THEN {upd[a].say} \cap {"complete", "error"} ELSE {}
  <1>2. Remember(ends)
    BY DEF WriteStatus
  <1> HIDE DEF ends
  <1>3. PagesAlike /\ (ends # {} => \A p \in Pages : ~Waits(page'[p]))
    BY <1>2, RememberedIs
  <1>4. upd'[a] = After(a)
    BY <1>1 DEF IInv, TypeOK
  <1>5. CASE upd[a].say \in Running
    <2>1. upd[a].op = "update"
      BY <1>1, <1>5 DEF OpFits, Says
    <2>2. InRun(After(a))
      BY <1>1, <1>5, <2>1, AfterTells
    <2>3. SomeRun'
      BY <1>4, <2>2 DEF SomeRun
    <2> QED BY <1>3, <2>3, AlikeGoOn
  <1>6. CASE upd[a].say = "complete"
    <2>1. upd[a].op = "update"
      BY <1>1, <1>6 DEF OpFits, Says
    <2>2. ends # {}
      BY <1>6, <2>1 DEF ends
    <2> QED BY <1>3, <2>2, AlikeGoOn
  <1>7. CASE upd[a].say \notin Running \cup {"complete"}
    <2>1. ~InRun(upd[a])
      BY <1>1, <1>7 DEF InRun, AtWork, Says
    <2>2. SomeRun => SomeRun'
      BY <1>1, <2>1, RunGoesOn
    <2>3. status' \notin Advanced
      BY <1>1, <1>7 DEF Advanced, Running
    <2> QED BY <1>3, <2>2, <2>3, AlikeGoOn
  <1> QED BY <1>5, <1>6, <1>7

\* A thread goes on and no page learns of it.
LEMMA ThreadPages ==
    ASSUME IInv, PagesOK, NEW a \in Actors, NEW u, upd' = [upd EXCEPT ![a] = u],
           InRun(upd[a]) => InRun(u), PagesAlike, status' = status \/ status' = "halfway"
    PROVE  PagesOK'
  <1>1. SomeRun => SomeRun'
    BY RunGoesOn
  <1>2. status' \in Advanced => status \in Advanced
    BY DEF Advanced
  <1> QED BY <1>1, <1>2, AlikeGoOn

LEMMA SameAlike == page' = page => PagesAlike
  BY DEF PagesAlike

LEMMA CallsPages ==
    ASSUME IInv, PagesOK,
           \/ ReadRequest \/ RemoveRequest
           \/ \E a \in Actors : Acquire(a)
           \/ \E c \in Callers : Post(c)
    PROVE  PagesOK'
  <1>1. PICK a \in Actors : /\ \E u : upd' = [upd EXCEPT ![a] = u]
                            /\ status' = status /\ page' = page
                            /\ upd[a].at \in {"poll", "remove", "lock", "idle"}
    <2>1. Watcher \in Actors /\ Callers \subseteq Actors
      BY DEF Actors
    <2>2. CASE ReadRequest
      BY <2>1, <2>2 DEF ReadRequest, Thus, disk, pageVars
    <2>3. CASE RemoveRequest
      BY <2>1, <2>3 DEF RemoveRequest, Thus
    <2>4. CASE \E b \in Actors : Acquire(b)
      BY <2>4 DEF Acquire, Thus, disk, pageVars
    <2>5. CASE \E c \in Callers : Post(c)
      BY <2>1, <2>5 DEF Post, Thus, disk, pageVars
    <2> QED BY <2>2, <2>3, <2>4, <2>5
  <1>2. ~InRun(upd[a])
    BY <1>1 DEF InRun, AtWork, Says
  <1> QED BY <1>1, <1>2, SameAlike, ThreadPages

LEMMA TruncatePages == ASSUME IInv, PagesOK, NEW a \in Actors, Truncate(a) PROVE PagesOK'
  <1> DEFINE u == [upd[a] EXCEPT !.at = "saying"]
  <1>1. upd[a] \in Thread /\ upd[a].at = "say" /\ upd' = [upd EXCEPT ![a] = u]
        /\ status' = "halfway" /\ page' = page
    BY ThreadKinds DEF Truncate, Thus, pageVars
  <1>2. u.at = "saying" /\ u.op = upd[a].op /\ u.say = upd[a].say
    BY <1>1 DEF Thread
  <1> HIDE DEF u
  <1>3. InRun(upd[a]) => InRun(u)
    BY <1>1, <1>2 DEF InRun, AtWork, Says
  <1> QED BY <1>1, <1>3, SameAlike, ThreadPages

\* A command of an update goes on with it, one of a check was in none.
LEMMA CommandPages ==
    ASSUME IInv, Telling, PagesOK, NEW a \in Actors,
           ApplyTag(a) \/ ListImages(a) \/ Pull(a) \/ Stop(a) \/ Up(a)
    PROVE  PagesOK'
  <1>1. upd[a] \in Thread /\ OpFits(a, upd[a]) /\ upd[a].op \in {"update", "check"}
    BY ThreadKinds DEF Telling, OpOK, Thread
  <1>2. status' = status
    BY DEF ApplyTag, ListImages, Pull, Stop, Up, disk
  <1>3. upd[a].at \in {"tag", "list", "pull", "stop", "up"}
    BY DEF ApplyTag, ListImages, Pull, Stop, Up
  <1>4. CASE Fails(a)
    BY <1>2, <1>3, <1>4, FailsPages
  <1>5. ASSUME NEW u, upd' = [upd EXCEPT ![a] = u], InRun(upd[a]) => InRun(u), page' = page
        PROVE  PagesOK'
    BY <1>2, <1>5, SameAlike, ThreadPages
  <1>6. CASE ApplyTag(a) /\ Succeeds(a, Saying(a, "pulling"))
    <2> DEFINE u == Saying(a, "pulling")
    <2>1. u.op = upd[a].op /\ u.at = "say" /\ u.say = "pulling" /\ upd[a].at = "tag"
      BY <1>1, <1>6, SayingWhat DEF Stage, Running, ApplyTag
    <2>2. upd' = [upd EXCEPT ![a] = u] /\ page' = page
      BY <1>6 DEF Succeeds, Thus
    <2> HIDE DEF u
    <2>3. InRun(u)
      BY <1>1, <2>1 DEF OpFits, InRun, AtWork, Running
    <2> QED BY <1>5, <2>2, <2>3
  <1>7. CASE ListImages(a) /\ Succeeds(a, [upd[a] EXCEPT !.at = "pull"])
    <2>1. ~InRun(upd[a])
      BY <1>7 DEF ListImages, InRun, AtWork, Says
    <2>2. upd' = [upd EXCEPT ![a] = [upd[a] EXCEPT !.at = "pull"]] /\ page' = page
      BY <1>7 DEF Succeeds, Thus
    <2> QED BY <1>5, <2>1, <2>2
  <1>8. CASE Pull(a) /\ ~Fails(a)
    <2> DEFINE stage == IF upd[a].op = "check" THEN "idle"
                        ELSE IF kind = "sidecar" THEN "pulled" ELSE "recreating"
               u == Saying(a, stage)
    <2>1. u.op = upd[a].op /\ u.at = "say" /\ u.say = stage /\ upd[a].at = "pull"
      BY <1>1, <1>8, SayingWhat DEF Stage, Running, Pull
    <2>2. upd' = [upd EXCEPT ![a] = u] /\ page' = page
      BY <1>8 DEF Pull, Succeeds, Thus
    <2>3. upd[a].op = "update" => stage \in {"pulled", "recreating"}
      OBVIOUS
    <2> HIDE DEF u, stage
    <2>4. InRun(upd[a]) => InRun(u)
      BY <1>1, <2>1, <2>3 DEF InRun, AtWork, Says, Running
    <2> QED BY <1>5, <2>2, <2>4
  <1>9. CASE Stop(a)
    <2> DEFINE u == [upd[a] EXCEPT !.at = "up"]
    <2>1. u.op = upd[a].op /\ u.at = "up" /\ upd[a].at = "stop" /\ upd' = [upd EXCEPT ![a] = u]
      BY <1>1, <1>9 DEF Thread, Stop, Thus
    <2> HIDE DEF u
    <2>2. InRun(upd[a]) => InRun(u)
      BY <2>1 DEF InRun, AtWork, Says
    <2>3. PagesAlike
      BY <1>9, StopsAlike, SameAlike DEF Stop, pageVars
    <2> QED BY <1>2, <2>1, <2>2, <2>3, ThreadPages
  <1>10. CASE Up(a) /\ ~Fails(a)
    <2> DEFINE u == IF upd[a].i < Services THEN [Saying(a, "recreating") EXCEPT !.i = upd[a].i + 1]
                    ELSE Saying(a, "complete")
    <2>1. u.op = upd[a].op /\ u.at = "say" /\ u.say \in {"recreating", "complete"}
      <3>1. /\ Saying(a, "recreating") \in Thread /\ Saying(a, "complete") \in Thread
            /\ Saying(a, "recreating").op = upd[a].op /\ Saying(a, "complete").op = upd[a].op
            /\ Saying(a, "recreating").at = "say" /\ Saying(a, "complete").at = "say"
            /\ Saying(a, "recreating").say = "recreating" /\ Saying(a, "complete").say = "complete"
        BY <1>1, SayingWhat DEF Stage, Running
      <3> QED BY <3>1 DEF Thread
    <2>2. upd' = [upd EXCEPT ![a] = u] /\ page' = page /\ upd[a].at = "up"
      BY <1>10 DEF Up, Succeeds, Thus, Saying
    <2> HIDE DEF u
    <2>3. InRun(u)
      BY <1>1, <2>1, <2>2 DEF OpFits, InRun, AtWork, Says, Running
    <2> QED BY <1>5, <2>2, <2>3
  <1>11. \/ Fails(a) \/ Stop(a) \/ (Pull(a) /\ ~Fails(a)) \/ (Up(a) /\ ~Fails(a))
         \/ (ApplyTag(a) /\ Succeeds(a, Saying(a, "pulling")))
         \/ (ListImages(a) /\ Succeeds(a, [upd[a] EXCEPT !.at = "pull"]))
    BY DEF ApplyTag, ListImages
  <1> QED BY <1>4, <1>6, <1>7, <1>8, <1>9, <1>10, <1>11

LEMMA LingerPages == ASSUME IInv, Telling, PagesOK, Linger PROVE PagesOK'
  <1> DEFINE stage == IF upd[Watcher].say = "pulled" THEN "recreating" ELSE "idle"
             u == Saying(Watcher, stage)
  <1>1. /\ Watcher \in Actors /\ upd[Watcher] \in Thread /\ upd[Watcher].at = "linger"
        /\ OpFits(Watcher, upd[Watcher])
    BY DEF Actors, IInv, TypeOK, Linger, Telling, OpOK
  <1>2. u.op = upd[Watcher].op /\ u.at = "say" /\ u.say = stage
    BY <1>1, SayingWhat DEF Stage, Running
  <1>3. upd' = [upd EXCEPT ![Watcher] = u] /\ status' = status /\ page' = page
    BY DEF Linger, Thus, disk, pageVars
  <1>4. InRun(upd[Watcher]) => stage = "recreating"
    BY <1>1 DEF OpFits, InRun, AtWork, Says, Running
  <1> HIDE DEF u, stage
  <1>5. InRun(upd[Watcher]) => InRun(u)
    BY <1>1, <1>2, <1>4 DEF InRun, AtWork, Says, Running
  <1> QED BY <1>1, <1>3, <1>5, SameAlike, ThreadPages

LEMMA CrashPages == ASSUME IInv, PagesOK, Crash PROVE PagesOK'
  <1>1. Remember({"crash"})
    BY DEF Crash
  <1>2. PagesAlike /\ \A p \in Pages : ~Waits(page'[p])
    BY <1>1, RememberedIs
  <1> QED BY <1>2, AlikeGoOn

\* After the script no page waits that has lived through no end.
LEMMA ScriptPages == ASSUME IInv, PagesOK, Script PROVE PagesOK'
  <1>1. ASSUME NEW p \in Pages PROVE ~Waits(page'[p]) /\ (page'[p].st = "done" => page'[p] = page[p])
    <2>1. page[p] \in Page
      BY DEF IInv, TypeOK
    <2>2. CASE page[p].st # "updating"
      <3>1. page'[p] = page[p]
        BY <2>2 DEF Script
      <3> QED BY <2>2, <3>1 DEF Waits
    <2>3. CASE page[p].st = "updating" /\ ask[p].at # "none"
      <3>1. page'[p] = [page[p] EXCEPT !.st = "ready"]
        BY <2>3 DEF Script
      <3>2. page'[p].st = "ready"
        BY <2>1, <3>1 DEF Page
      <3> QED BY <3>2 DEF Waits
    <2>4. CASE page[p].st = "updating" /\ ask[p].at = "none"
      <3>1. page'[p] = [page[p] EXCEPT !.runs = @ \cup {"crash"}]
        BY <2>4 DEF Script
      <3>2. "crash" \in page'[p].runs /\ page'[p].st = "updating"
        BY <2>1, <2>4, <3>1 DEF Page
      <3> QED BY <3>2 DEF Waits
    <2> QED BY <2>2, <2>3, <2>4
  <1>2. PagesAlike
    BY <1>1 DEF PagesAlike
  <1> QED BY <1>1, <1>2, AlikeGoOn

\* A step that is not the updater's.
LEMMA QuietPages ==
    ASSUME PagesOK, UNCHANGED <<upd, status>>,
           \A p \in Pages : Waits(page'[p]) =>
              \/ status \notin Advanced /\ ~page'[p].seen
              \/ Waits(page[p]) /\ (page'[p].seen => page[p].seen \/ status \in Advanced),
           \A p \in Pages : page'[p].st = "done" => page'[p].runs # {} \/ page'[p].stale
    PROVE  PagesOK'
  <1>1. SomeRun => SomeRun'
    BY DEF SomeRun
  <1> QED BY <1>1, PagesGoOn

LEMMA QuietAlike == ASSUME PagesOK, UNCHANGED <<upd, status>>, PagesAlike PROVE PagesOK'
  <1>1. SomeRun => SomeRun'
    BY DEF SomeRun
  <1> QED BY <1>1, AlikeGoOn

LEMMA AnswersPages == ASSUME IInv, PagesOK, NEW p \in Pages, Answers(p) PROVE PagesOK'
  <1>1. UNCHANGED <<upd, status>>
    BY DEF Answers, RequestCheck, RequestOpen, RequestWrite, Fetch, StoreAvail, StoreLatest, disk
  <1>2. page[p] \in Page /\ page \in [Pages -> Page]
    BY DEF IInv, TypeOK
  <1>3. \/ page' = page
        \/ \E b : page' = [page EXCEPT ![p].avail = b]
        \/ page' = [page EXCEPT ![p].st = IF page[p].st = "updating" THEN "ready" ELSE page[p].st]
    BY DEF Answers, RequestCheck, Refuse, RequestOpen, RequestWrite, Fetch, StoreAvail, StoreLatest
  <1>4. CASE page' = page
    BY <1>1, <1>4, SameAlike, QuietAlike
  <1>5. ASSUME NEW b, page' = [page EXCEPT ![p].avail = b] PROVE PagesOK'
    <2>1. \A q \in Pages \ {p} : page'[q] = page[q]
      BY <1>2, <1>5
    <2>2. page'[p].st = page[p].st /\ page'[p].seen = page[p].seen /\ page'[p].runs = page[p].runs
          /\ page'[p].stale = page[p].stale
      BY <1>2, <1>5 DEF Page
    <2>3. \A q \in Pages : /\ page'[q].st = page[q].st /\ page'[q].seen = page[q].seen
                           /\ page'[q].runs = page[q].runs /\ page'[q].stale = page[q].stale
      BY <2>1, <2>2
    <2> QED BY <1>1, <2>3, QuietPages DEF PagesOK, CompletionIsOfARun, Waits
  <1>6. CASE page' = [page EXCEPT ![p].st = IF page[p].st = "updating" THEN "ready" ELSE page[p].st]
    <2>1. \A q \in Pages \ {p} : page'[q] = page[q]
      BY <1>2, <1>6
    <2>2. CASE page[p].st = "updating"
      <3>1. page'[p].st = "ready"
        BY <1>2, <1>6, <2>2 DEF Page
      <3>2. PagesAlike
        BY <2>1, <3>1 DEF PagesAlike, Waits
      <3> QED BY <1>1, <3>2, QuietAlike
    <2>3. CASE page[p].st # "updating"
      <3>1. page'[p] = page[p]
        BY <1>2, <1>6, <2>3 DEF Page
      <3>2. PagesAlike
        BY <2>1, <3>1 DEF PagesAlike
      <3> QED BY <1>1, <3>2, QuietAlike
    <2> QED BY <2>2, <2>3
  <1> QED BY <1>3, <1>4, <1>5, <1>6

LEMMA StartPages == ASSUME IInv, PagesOK, NEW p \in Pages, Start(p) PROVE PagesOK'
  <1> DEFINE g == [Fresh(TRUE) EXCEPT !.st = "updating", !.stale = status \in Advanced]
  <1>1. UNCHANGED <<upd, status>> /\ page' = [page EXCEPT ![p] = g]
    BY DEF Start, disk
  <1>2. g.st = "updating" /\ ~g.seen /\ (g.stale <=> status \in Advanced)
    BY DEF Fresh
  <1> HIDE DEF g
  <1>3. page'[p] = g /\ \A q \in Pages \ {p} : page'[q] = page[q]
    BY <1>1 DEF IInv, TypeOK
  <1>4. Waits(page'[p]) => status \notin Advanced /\ ~page'[p].seen
    BY <1>2, <1>3 DEF Waits
  <1>5. page'[p].st # "done"
    BY <1>2, <1>3
  <1>6. \A q \in Pages : page'[q].st = "done" => page'[q].runs # {} \/ page'[q].stale
    BY <1>3, <1>5 DEF PagesOK, CompletionIsOfARun
  <1>7. \A q \in Pages : Waits(page'[q]) =>
           \/ status \notin Advanced /\ ~page'[q].seen
           \/ Waits(page[q]) /\ (page'[q].seen => page[q].seen \/ status \in Advanced)
    BY <1>3, <1>4
  <1> QED BY <1>1, <1>6, <1>7, QuietPages

\* A poll that ends a page's wait: were there no end of a run, the run would still go on, and
\* its status would neither be "complete" nor "idle".
LEMMA PollPages == ASSUME IInv, Telling, PagesOK, NEW p \in Pages, Poll(p) PROVE PagesOK'
  <1> DEFINE seen == page[p].seen \/ status \in Advanced
             told == [page[p] EXCEPT !.seen = seen, !.polled = TRUE]
             ends == status = "complete" \/ (status = "idle" /\ seen)
             g == IF ~Serving \/ status = "halfway" THEN [page[p] EXCEPT !.polled = TRUE]
                  ELSE IF ends THEN [told EXCEPT !.st = "done"]
                  ELSE IF status = "error" THEN [told EXCEPT !.st = "ready"]
                  ELSE told
  <1>1. UNCHANGED <<upd, status>> /\ page' = [page EXCEPT ![p] = g] /\ page[p].st = "updating"
    BY DEF Poll, disk
  <1>2. page[p] \in Page
    BY DEF IInv, TypeOK
  <1>3. g.runs = page[p].runs /\ g.stale = page[p].stale /\ (g.seen => seen)
    BY <1>2 DEF Page
  <1>4. g.st = "done" => ends
    BY <1>1, <1>2 DEF Page
  <1> HIDE DEF g
  <1>5. page'[p] = g /\ \A q \in Pages \ {p} : page'[q] = page[q]
    BY <1>1 DEF IInv, TypeOK
  <1>6. ASSUME g.st = "done", page[p].runs = {}, ~page[p].stale PROVE FALSE
    <2>1. seen /\ status \in {"complete", "idle"}
      BY <1>4, <1>6 DEF Advanced
    <2>2. SomeRun
      BY <1>1, <1>6, <2>1 DEF PagesOK, Waiting, Waits
    <2>3. status \in Running \cup {"halfway", "error"}
      BY <2>2 DEF SomeRun, Telling, StatusOK
    <2> QED BY <2>1, <2>3 DEF Running
  <1>7. \A q \in Pages : page'[q].st = "done" => page'[q].runs # {} \/ page'[q].stale
    BY <1>3, <1>5, <1>6 DEF PagesOK, CompletionIsOfARun
  <1>8. \A q \in Pages : Waits(page'[q]) =>
           Waits(page[q]) /\ (page'[q].seen => page[q].seen \/ status \in Advanced)
    BY <1>1, <1>3, <1>5 DEF Waits
  <1> QED BY <1>1, <1>7, <1>8, QuietPages

LEMMA ReloadPages == ASSUME IInv, PagesOK, NEW p \in Pages, Reload(p) PROVE PagesOK'
  <1>1. UNCHANGED <<upd, status>> /\ page' = [page EXCEPT ![p] = Fresh(kv.avail)]
    BY DEF Reload, disk
  <1>2. page'[p].st = "ready" /\ \A q \in Pages \ {p} : page'[q] = page[q]
    BY <1>1 DEF IInv, TypeOK, Fresh
  <1>3. PagesAlike
    BY <1>2 DEF PagesAlike, Waits
  <1> QED BY <1>1, <1>3, QuietAlike

LEMMA PagesKept == ASSUME IInv, Telling, PagesOK, [Next]_vars PROVE PagesOK'
  <1>1. CASE ReadRequest \/ RemoveRequest \/ Linger \/ Crash \/ Script
    BY <1>1, CallsPages, LingerPages, CrashPages, ScriptPages
  <1>2. CASE \E a \in Actors : Works(a)
    BY <1>2, CallsPages, TruncatePages, WriteStatusPages, CommandPages DEF Works
  <1>3. CASE \E c \in Callers : Post(c)
    BY <1>3, CallsPages
  <1>4. CASE \E p \in Pages : Answers(p) \/ Start(p) \/ Poll(p) \/ Reload(p)
    BY <1>4, AnswersPages, StartPages, PollPages, ReloadPages
  <1>5. CASE (\E p \in Pages : Recheck(p)) \/ Boot \/ Heal \/ JobReads \/ JobWrites \/ Release \/ UNCHANGED vars
    <2>1. UNCHANGED <<upd, status, page>>
      BY <1>5 DEF Recheck, Boot, Heal, JobReads, JobWrites, Release, vars, disk, pageVars
    <2> QED BY <2>1, SameAlike, QuietAlike
  <1> QED BY <1>1, <1>2, <1>3, <1>4, <1>5 DEF Next

LEMMA PagesFirst == Init => PagesOK
  <1> SUFFICES ASSUME Init PROVE PagesOK
      OBVIOUS
  <1>1. \A p \in Pages : page[p].st = "ready"
    BY DEF Init, Fresh
  <1> QED BY <1>1 DEF PagesOK, Waiting, Waits, CompletionIsOfARun

----------------------------------------------------------------------------
(* That what is offered is newer *)

Looking(p) == chk[p].at = "latest"
Missed == past \cap {"overlap", "torn"} # {}

\* A release between its two writes is newer if it is offered, and so is the one on record where
\* none is, once the server has healed itself.
Looked == kv.avail => \A p \in Pages : Looking(p) => Newer(chk[p].got)
Stored == kv.avail /\ (\A p \in Pages : ~Looking(p)) => kv.latest # 0 /\ (server = "up" => Newer(kv.latest))
Offered == Missed \/ (Looked /\ Stored)

\* A server that is down looks for no release, and one that an operator has started again runs what
\* the update in progress would start.
DownAlone == server = "down" => \A p \in Pages : chk[p].at = "none"
UpSame == \A a \in Actors : upd[a].at = "up" /\ upd[a].i = 1 => server = "down" \/ running = image
OffersOK == Offered /\ DownAlone /\ UpSame

LEMMA OffersStay ==
    ASSUME Offered, DownAlone, UNCHANGED <<server, running, kv, chk>>, past \subseteq past'
    PROVE  Offered' /\ DownAlone'
  <1>1. Missed => Missed'
    BY DEF Missed
  <1>2. Looked => Looked'
    BY DEF Looked, Looking, Newer
  <1>3. Stored => Stored'
    BY DEF Stored, Looking, Newer
  <1>4. DownAlone'
    BY DEF DownAlone
  <1> QED BY <1>1, <1>2, <1>3, <1>4 DEF Offered

\* Without a release between its two writes, what is stored decides.
LEMMA NobodyLooks ==
    ASSUME \A p \in Pages : ~Looking(p)', Stored' PROVE Offered'
  BY DEF Offered, Looked

LEMMA UpStays ==
    ASSUME IInv, UpSame, UNCHANGED <<server, running, image>>,
           \A b \in Actors : upd'[b] = upd[b] \/ upd'[b].at # "up"
    PROVE  UpSame'
  BY DEF UpSame

\* No two threads are within an update or a check.
LEMMA OneWithin ==
    ASSUME IInv, NEW a \in Actors, NEW b \in Actors, Within(upd[a]), Within(upd[b]) PROVE a = b
  <1>1. upd[a].at # "idle" /\ upd[b].at # "idle"
    BY DEF Within
  <1> QED BY <1>1, ThreadKinds

\* A thread goes on and leaves the server and the image alone.
LEMMA ThreadOffers ==
    ASSUME IInv, OffersOK, NEW a \in Actors, NEW u, upd' = [upd EXCEPT ![a] = u], u.at # "up",
           UNCHANGED <<server, running, kv, chk, image>>, past \subseteq past'
    PROVE  OffersOK'
  <1>1. \A b \in Actors : upd'[b] = upd[b] \/ upd'[b].at # "up"
    BY DEF IInv, TypeOK
  <1> QED BY <1>1, OffersStay, UpStays DEF OffersOK

LEMMA WatcherOffers ==
    ASSUME IInv, OffersOK, ReadRequest \/ RemoveRequest \/ Linger PROVE OffersOK'
  <1>1. Watcher \in Actors /\ upd[Watcher] \in Thread /\ \A s \in Stage : Saying(Watcher, s).at # "up"
    BY SayingIs DEF Actors, IInv, TypeOK
  <1>2. CASE ReadRequest
    <2> DEFINE u == [upd[Watcher] EXCEPT !.at = "remove", !.op = "update",
          !.tag = IF request # Empty THEN request
                  ELSE IF kind = "sidecar" THEN Blank ELSE Latest]
    <2>1. upd' = [upd EXCEPT ![Watcher] = u] /\ UNCHANGED <<server, running, kv, chk, image, past>>
      BY <1>2 DEF ReadRequest, Thus, disk, serverVars, pageVars
    <2>2. u.at = "remove"
      BY <1>1 DEF Thread
    <2> HIDE DEF u
    <2> QED BY <1>1, <2>1, <2>2, ThreadOffers
  <1>3. CASE RemoveRequest
    <2> DEFINE u == IF kind = "sidecar" THEN Saying(Watcher, "starting")
                    ELSE [upd[Watcher] EXCEPT !.at = "lock"]
    <2>1. upd' = [upd EXCEPT ![Watcher] = u] /\ UNCHANGED <<server, running, kv, chk, image, past>>
      BY <1>3 DEF RemoveRequest, Thus, serverVars
    <2>2. u.at # "up"
      BY <1>1 DEF Thread, Stage, Running
    <2> HIDE DEF u
    <2> QED BY <1>1, <2>1, <2>2, ThreadOffers
  <1>4. CASE Linger
    <2> DEFINE u == Saying(Watcher, IF upd[Watcher].say = "pulled" THEN "recreating" ELSE "idle")
    <2>1. upd' = [upd EXCEPT ![Watcher] = u] /\ UNCHANGED <<server, running, kv, chk, image, past>>
      BY <1>4 DEF Linger, Thus, disk, serverVars, pageVars
    <2>2. u.at # "up"
      BY <1>1 DEF Stage, Running
    <2> HIDE DEF u
    <2> QED BY <1>1, <2>1, <2>2, ThreadOffers
  <1> QED BY <1>2, <1>3, <1>4

LEMMA CallOffers ==
    ASSUME IInv, OffersOK, NEW a \in Actors, (a \in Callers /\ Post(a)) \/ Acquire(a) \/ Truncate(a) \/ WriteStatus(a)
    PROVE  OffersOK'
  <1>1. upd[a] \in Thread /\ \A s \in Stage : Saying(a, s).at # "up"
    BY SayingIs DEF IInv, TypeOK
  <1>2. CASE a \in Callers /\ Post(a)
    <2>1. PICK op \in {"update", "check"} : Thus(a, [NoThread EXCEPT !.at = "lock", !.op = op])
      BY <1>2 DEF Post
    <2> DEFINE u == [NoThread EXCEPT !.at = "lock", !.op = op]
    <2>2. u.at # "up" /\ upd' = [upd EXCEPT ![a] = u]
      BY <2>1 DEF NoThread, Thus
    <2> HIDE DEF u
    <2> QED BY <1>2, <2>2, ThreadOffers DEF Post, disk, serverVars, pageVars
  <1>3. CASE Acquire(a)
    <2> DEFINE u == Saying(a, IF upd[a].op = "check" THEN "checking" ELSE "starting")
    <2>1. u.at # "up" /\ upd' = [upd EXCEPT ![a] = u]
      BY <1>1, <1>3 DEF Acquire, Thus, Stage, Running
    <2> HIDE DEF u
    <2> QED BY <1>3, <2>1, ThreadOffers DEF Acquire, disk, serverVars, pageVars
  <1>4. CASE Truncate(a)
    <2> DEFINE u == [upd[a] EXCEPT !.at = "saying"]
    <2>1. u.at # "up" /\ upd' = [upd EXCEPT ![a] = u]
      BY <1>1, <1>4 DEF Truncate, Thus, Thread
    <2> HIDE DEF u
    <2> QED BY <1>4, <2>1, ThreadOffers DEF Truncate, serverVars, pageVars
  <1>5. CASE WriteStatus(a)
    <2>1. After(a).at # "up"
      <3>1. upd[a] \in Thread /\ Saying(a, "preparing").at = "say" /\ Ended(a).at \in {"poll", "idle"}
        BY <1>1, SayingIs, Values DEF Ended, Stage, Running
      <3> QED BY <3>1, <1>5 DEF After, Thread, WriteStatus
    <2>2. upd' = [upd EXCEPT ![a] = After(a)] /\ past \subseteq past'
      BY <1>5 DEF WriteStatus, Thus
    <2> QED BY <1>5, <2>1, <2>2, ThreadOffers DEF WriteStatus, serverVars
  <1> QED BY <1>2, <1>3, <1>4, <1>5

LEMMA FailsOffers ==
    ASSUME IInv, OffersOK, NEW a \in Actors, Fails(a),
           UNCHANGED <<server, running, kv, chk, image>>, past \subseteq past'
    PROVE  OffersOK'
  <1>1. upd' = [upd EXCEPT ![a] = Saying(a, "error")] /\ Saying(a, "error").at # "up"
    BY SayingIs DEF Fails, Thus, Stage, IInv, TypeOK
  <1> QED BY <1>1, ThreadOffers

\* The image changes under a thread that pulls, so under no thread that recreates a container.
LEMMA PullOffers ==
    ASSUME IInv, OffersOK, NEW a \in Actors, ApplyTag(a) \/ ListImages(a) \/ Pull(a) PROVE OffersOK'
  <1>1. upd[a] \in Thread /\ \A s \in Stage : Saying(a, s).at # "up"
    BY SayingIs DEF IInv, TypeOK
  <1>2. UNCHANGED <<server, running, kv, chk, past>>
    BY DEF ApplyTag, ListImages, Pull, serverVars
  <1>3. CASE ApplyTag(a)
    <2>1. image' = image
      BY <1>3 DEF ApplyTag
    <2>2. CASE Succeeds(a, Saying(a, "pulling"))
      <3>1. upd' = [upd EXCEPT ![a] = Saying(a, "pulling")] /\ Saying(a, "pulling").at # "up"
        BY <1>1, <2>2 DEF Succeeds, Thus, Stage, Running
      <3> QED BY <1>2, <2>1, <3>1, ThreadOffers
    <2> QED BY <1>2, <1>3, <2>1, <2>2, FailsOffers DEF ApplyTag
  <1>4. CASE ListImages(a)
    <2> DEFINE u == [upd[a] EXCEPT !.at = "pull"]
    <2>1. image' = image
      BY <1>4 DEF ListImages, disk
    <2>2. CASE Succeeds(a, u)
      <3>1. upd' = [upd EXCEPT ![a] = u] /\ u.at # "up"
        BY <1>1, <2>2 DEF Succeeds, Thus, Thread
      <3> HIDE DEF u
      <3> QED BY <1>2, <2>1, <3>1, ThreadOffers
    <2> QED BY <1>2, <1>4, <2>1, <2>2, FailsOffers DEF ListImages
  <1>5. CASE Pull(a)
    <2>1. upd[a].at = "pull"
      BY <1>5 DEF Pull
    <2>2. PICK u : upd' = [upd EXCEPT ![a] = u] /\ u.at # "up"
      <3>1. \E s \in Stage : upd' = [upd EXCEPT ![a] = Saying(a, s)]
        BY <1>5 DEF Pull, Succeeds, Fails, Thus, Stage, Running
      <3> QED BY <1>1, <3>1
    <2>3. \A b \in Actors : upd'[b].at = "up" => b # a /\ upd[b].at = "up"
      BY <2>2 DEF IInv, TypeOK
    <2>4. \A b \in Actors : upd'[b].at # "up"
      BY <2>1, <2>3, OneWithin DEF Within
    <2> QED BY <1>2, <2>4, OffersStay DEF OffersOK, UpSame
  <1> QED BY <1>3, <1>4, <1>5

\* A server that goes has stored both halves of what it looked for, or left its mark.
LEMMA GoneOffers ==
    ASSUME OffersOK, UNCHANGED kv, \A p \in Pages : chk'[p].at = "none", server' # "up",
           past' = past \cup Torn \/ past' = past \cup Torn \cup {"crash"}
    PROVE  Offered' /\ DownAlone'
  <1>1. DownAlone'
    BY DEF DownAlone
  <1>2. CASE Missed \/ \E p \in Pages : Looking(p)
    <2>1. Missed'
      BY <1>2 DEF Missed, Torn, Looking
    <2> QED BY <1>1, <2>1 DEF Offered
  <1>3. CASE ~Missed /\ \A p \in Pages : ~Looking(p)
    <2>1. kv.avail => kv.latest # 0
      BY <1>3 DEF OffersOK, Offered, Stored
    <2>2. Stored' /\ \A p \in Pages : ~Looking(p)'
      BY <2>1 DEF Stored, Looking
    <2> QED BY <1>1, <2>2, NobodyLooks
  <1> QED BY <1>2, <1>3

LEMMA StopOffers == ASSUME IInv, OffersOK, NEW a \in Actors, Stop(a) PROVE OffersOK'
  <1> DEFINE u == [upd[a] EXCEPT !.at = "up"]
  <1>1. upd[a] \in Thread /\ upd' = [upd EXCEPT ![a] = u] /\ UNCHANGED <<running, kv, image>>
    BY ThreadKinds DEF Stop, Thus, disk
  <1>2. u.i = upd[a].i
    BY <1>1 DEF Thread
  <1> HIDE DEF u
  <1>3. upd'[a] = u /\ \A b \in Actors \ {a} : upd'[b] = upd[b]
    BY <1>1 DEF IInv, TypeOK
  <1>4. CASE upd[a].i = 1
    <2>1. server' = "down" /\ past' = past \cup Torn /\ \A p \in Pages : chk'[p].at = "none"
      BY <1>4 DEF Stop, ServerStops, NoCheck
    <2>2. Offered' /\ DownAlone'
      BY <1>1, <2>1, GoneOffers
    <2> QED BY <2>1, <2>2 DEF OffersOK, UpSame
  <1>5. CASE upd[a].i # 1
    <2>1. UNCHANGED <<server, chk, past>>
      BY <1>5 DEF Stop, pageVars
    <2>2. UpSame'
      BY <1>1, <1>2, <1>3, <1>5, <2>1 DEF OffersOK, UpSame
    <2> QED BY <1>1, <2>1, <2>2, OffersStay DEF OffersOK
  <1> QED BY <1>4, <1>5

LEMMA UpOffers == ASSUME IInv, OffersOK, NEW a \in Actors, Up(a) PROVE OffersOK'
  <1>1. upd[a] \in Thread /\ upd[a].at = "up" /\ UNCHANGED <<kv, chk, image, past>>
    BY ThreadKinds DEF Up, disk
  <1>2. PICK u : upd' = [upd EXCEPT ![a] = u] /\ u.at # "up"
    <2>1. /\ Saying(a, "recreating") \in Thread /\ Saying(a, "recreating").at = "say"
          /\ Saying(a, "complete").at = "say" /\ Saying(a, "error").at = "say"
      BY <1>1, SayingIs DEF Stage, Running
    <2> DEFINE more == [Saying(a, "recreating") EXCEPT !.i = @ + 1]
    <2>2. more.at # "up"
      BY <2>1 DEF Thread
    <2> HIDE DEF more
    <2>3. \E v \in {more, Saying(a, "complete"), Saying(a, "error")} : upd' = [upd EXCEPT ![a] = v]
      BY DEF Up, Succeeds, Fails, Thus, more
    <2> QED BY <2>1, <2>2, <2>3
  <1>3. \A b \in Actors : upd'[b].at # "up"
    <2>1. \A b \in Actors : upd'[b].at = "up" => b # a /\ upd[b].at = "up"
      BY <1>2 DEF IInv, TypeOK
    <2> QED BY <1>1, <2>1, OneWithin DEF Within
  <1>4. UpSame'
    BY <1>3 DEF UpSame
  <1>5. CASE UNCHANGED <<server, running>>
    BY <1>1, <1>4, <1>5, OffersStay DEF OffersOK
  <1>6. CASE upd[a].i = 1 /\ server' = "booting" /\ running' = image
    <2>1. DownAlone'
      BY <1>6 DEF DownAlone
    <2>2. CASE server = "down"
      <3>1. \A p \in Pages : ~Looking(p)
        BY <2>2 DEF OffersOK, DownAlone, Looking
      <3>2. Missed => Offered'
        BY <1>1 DEF Missed, Offered
      <3>3. ~Missed => Stored' /\ \A p \in Pages : ~Looking(p)'
        BY <1>1, <1>6, <3>1 DEF OffersOK, Offered, Stored, Looking
      <3> QED BY <1>4, <2>1, <3>2, <3>3, NobodyLooks DEF OffersOK
    <2>3. CASE server # "down"
      <3>1. running' = running
        BY <1>1, <1>6, <2>3 DEF OffersOK, UpSame
      <3>2. Offered'
        BY <1>1, <1>6, <3>1 DEF OffersOK, Offered, Missed, Looked, Stored, Looking, Newer
      <3> QED BY <1>4, <2>1, <3>2 DEF OffersOK
    <2> QED BY <2>2, <2>3
  <1>7. UNCHANGED <<server, running>> \/ (upd[a].i = 1 /\ server' = "booting" /\ running' = image)
    BY DEF Up
  <1> QED BY <1>5, <1>6, <1>7

LEMMA CrashOffers == ASSUME IInv, OffersOK, Crash PROVE OffersOK'
  <1>1. \A a \in Actors : upd'[a].at # "up"
    BY DEF Crash, Restarted, NoThread
  <1>2. UNCHANGED <<server, running, kv, chk>> /\ past \subseteq past'
    BY DEF Crash, serverVars
  <1> QED BY <1>1, <1>2, OffersStay DEF OffersOK, UpSame

LEMMA ScriptOffers == ASSUME IInv, OffersOK, Script PROVE OffersOK'
  <1>1. /\ UNCHANGED kv /\ server' = "booting" /\ running' = image'
        /\ past' = past \cup Torn \cup {"crash"} /\ \A p \in Pages : chk'[p].at = "none"
    BY DEF Script, NoCheck
  <1>2. UpSame'
    BY <1>1 DEF UpSame
  <1> QED BY <1>1, <1>2, GoneOffers DEF OffersOK

\* What neither touches the updater nor replaces the server.
LEMMA QuietUp ==
    ASSUME UpSame, UNCHANGED <<upd, running, image>>, server = "down" => server' = "down" PROVE UpSame'
  BY DEF UpSame

LEMMA ServerOffers ==
    ASSUME IInv, OffersOK, Boot \/ Heal \/ JobReads \/ JobWrites \/ Release \/ UNCHANGED vars
    PROVE  OffersOK'
  <1>1. UNCHANGED <<upd, running, image, chk, past>> /\ (server = "down" => server' = "down")
    BY DEF Boot, Heal, JobReads, JobWrites, Release, vars, disk, serverVars, pageVars
  <1>2. UpSame'
    BY <1>1, QuietUp DEF OffersOK
  <1>3. DownAlone'
    BY <1>1 DEF OffersOK, DownAlone, Boot, Heal, JobReads, JobWrites, Release, vars, serverVars
  <1>4. kv \in [avail: BOOLEAN, latest: 0 .. MaxVersion]
    BY DEF IInv, TypeOK
  <1>5. CASE UNCHANGED <<server, kv>>
    BY <1>1, <1>2, <1>5, OffersStay DEF OffersOK
  <1>6. CASE Boot
    <2>1. kv' = kv /\ server' = "fresh"
      BY <1>6 DEF Boot
    <2>2. Offered'
      BY <1>1, <2>1 DEF OffersOK, Offered, Missed, Looked, Stored, Looking, Newer
    <2> QED BY <1>2, <1>3, <2>2 DEF OffersOK
  <1>7. CASE Heal \/ JobWrites
    <2>1. CASE ~kv'.avail
      BY <1>1, <1>2, <1>3, <2>1 DEF OffersOK, Offered, Missed, Looked, Stored
    <2>2. CASE kv'.avail
      <3>1. Heal /\ kv' = kv /\ (kv.latest # 0 => Newer(kv.latest))
        BY <1>4, <1>7, <2>2 DEF Heal, JobWrites
      <3>2. Offered'
        BY <1>1, <3>1 DEF OffersOK, Offered, Missed, Looked, Stored, Looking, Newer
      <3> QED BY <1>2, <1>3, <3>2 DEF OffersOK
    <2> QED BY <2>1, <2>2
  <1>8. UNCHANGED <<server, kv>> \/ Boot \/ Heal \/ JobWrites
    BY DEF JobReads, Release, vars, serverVars
  <1> QED BY <1>5, <1>6, <1>7, <1>8

LEMMA PageOffers ==
    ASSUME IInv, OffersOK, NEW p \in Pages,
           RequestCheck(p) \/ RequestOpen(p) \/ RequestWrite(p) \/ Start(p) \/ Poll(p) \/ Reload(p)
    PROVE  OffersOK'
  <1>1. UNCHANGED <<upd, server, running, kv, chk, image, past>>
    BY DEF RequestCheck, RequestOpen, RequestWrite, Start, Poll, Reload, disk, serverVars
  <1> QED BY <1>1, OffersStay, QuietUp DEF OffersOK

LEMMA LookOffers ==
    ASSUME IInv, OffersOK, NEW p \in Pages, Recheck(p) \/ Fetch(p) PROVE OffersOK'
  <1>1. UNCHANGED <<upd, server, running, kv, image, past>> /\ chk \in [Pages -> Check]
    BY DEF Recheck, Fetch, disk, serverVars, IInv, TypeOK
  <1>2. /\ chk'[p].at \in {"none", "fetch", "avail"} /\ \A q \in Pages \ {p} : chk'[q] = chk[q]
        /\ ~Looking(p) /\ server # "down"
    <2>1. CASE Recheck(p)
      BY <1>1, <2>1 DEF Recheck, Serving, Looking, Check
    <2>2. CASE Fetch(p)
      BY <1>1, <2>2 DEF Fetch, Looking, Check, NoCheck, OffersOK, DownAlone
    <2> QED BY <2>1, <2>2
  <1>3. \A q \in Pages : Looking(q)' <=> Looking(q)
    BY <1>2 DEF Looking
  <1>4. \A q \in Pages : Looking(q) => chk'[q] = chk[q]
    BY <1>2
  <1>5. Offered'
    BY <1>1, <1>3, <1>4 DEF OffersOK, Offered, Missed, Looked, Stored, Newer
  <1>6. DownAlone'
    BY <1>1, <1>2 DEF DownAlone
  <1> QED BY <1>1, <1>5, <1>6, QuietUp DEF OffersOK

LEMMA StoreOffers ==
    ASSUME IInv, OffersOK, NEW p \in Pages, StoreAvail(p) \/ StoreLatest(p) PROVE OffersOK'
  <1>1. /\ UNCHANGED <<upd, server, running, image>> /\ past' = Overlap(p)
        /\ chk \in [Pages -> Check] /\ kv \in [avail: BOOLEAN, latest: 0 .. MaxVersion]
        /\ chk[p].got \in Version
    BY DEF StoreAvail, StoreLatest, disk, IInv, TypeOK, Check
  <1>2. server # "down"
    BY DEF StoreAvail, StoreLatest, OffersOK, DownAlone
  <1>3. DownAlone' /\ UpSame'
    BY <1>1, <1>2, QuietUp DEF OffersOK, DownAlone
  <1>4. CASE Missed \/ \E q \in Pages \ {p} : chk[q].at \in {"avail", "latest"}
    BY <1>1, <1>3, <1>4 DEF Overlap, Missed, OffersOK, Offered
  <1>5. CASE ~Missed /\ \A q \in Pages \ {p} : chk[q].at \notin {"avail", "latest"}
    <2>1. \A q \in Pages \ {p} : chk'[q] = chk[q] /\ ~Looking(q)'
      BY <1>1, <1>5 DEF StoreAvail, StoreLatest, Looking
    <2>2. CASE StoreAvail(p)
      <3>1. Looking(p)' /\ chk'[p].got = chk[p].got /\ (kv'.avail => Newer(chk[p].got))
        BY <1>1, <2>2 DEF StoreAvail, Looking, Check
      <3>2. Looked' /\ Stored'
        BY <1>1, <2>1, <3>1 DEF Looked, Stored, Newer
      <3> QED BY <1>3, <3>2 DEF OffersOK, Offered
    <2>3. CASE StoreLatest(p)
      <3>1. ~Looking(p)' /\ kv'.avail = kv.avail /\ kv'.latest = chk[p].got /\ Looking(p)
        BY <1>1, <2>3 DEF StoreLatest, Looking, NoCheck
      <3>2. kv'.latest # 0
        BY <1>1, <3>1, UpdateAssumption DEF Version
      <3>3. kv'.avail => Newer(kv'.latest)
        BY <1>5, <3>1 DEF OffersOK, Offered, Looked
      <3>4. Stored'
        BY <1>1, <3>2, <3>3 DEF Stored, Newer
      <3>5. \A q \in Pages : ~Looking(q)'
        BY <2>1, <3>1
      <3> QED BY <1>3, <3>4, <3>5, NobodyLooks DEF OffersOK
    <2> QED BY <2>2, <2>3
  <1> QED BY <1>4, <1>5

LEMMA OffersKept == ASSUME IInv, OffersOK, [Next]_vars PROVE OffersOK'
  <1>1. CASE ReadRequest \/ RemoveRequest \/ Linger \/ Crash \/ Script
    BY <1>1, WatcherOffers, CrashOffers, ScriptOffers
  <1>2. CASE \E a \in Actors : Works(a)
    BY <1>2, CallOffers, PullOffers, StopOffers, UpOffers DEF Works
  <1>3. CASE \E c \in Callers : Post(c)
    BY <1>3, CallOffers DEF Actors
  <1>4. CASE \E p \in Pages : Answers(p) \/ Start(p) \/ Poll(p) \/ Recheck(p) \/ Reload(p)
    BY <1>4, PageOffers, LookOffers, StoreOffers DEF Answers
  <1>5. CASE Boot \/ Heal \/ JobReads \/ JobWrites \/ Release \/ UNCHANGED vars
    BY <1>5, ServerOffers
  <1> QED BY <1>1, <1>2, <1>3, <1>4, <1>5 DEF Next

LEMMA OffersFirst == Init => OffersOK
  <1> SUFFICES ASSUME Init PROVE OffersOK
      OBVIOUS
  <1>1. PICK v \in {0, released} : kv = [avail |-> v > 1, latest |-> v]
    BY DEF Init
  <1>2. kv.avail => kv.latest # 0 /\ Newer(kv.latest)
    <2>1. kv.avail = (v > 1) /\ kv.latest = v
      BY <1>1
    <2>2. v \in Nat /\ running = 1
      BY UpdateAssumption DEF Init, Version
    <2>3. v > 1 => v # 0 /\ v > running
      BY <2>2
    <2> QED BY <2>1, <2>3 DEF Newer
  <1>3. \A p \in Pages : ~Looking(p)
    BY DEF Init, Looking, NoCheck
  <1>4. Offered
    BY <1>2, <1>3 DEF Offered, Looked, Stored
  <1>5. DownAlone /\ UpSame
    BY DEF Init, DownAlone, UpSame, Polling, NoThread
  <1> QED BY <1>4, <1>5 DEF OffersOK
----------------------------------------------------------------------------
\* What is shown and offered is so, for any number of pages, of calls of the daemon, of containers
\* and of releases: an update in progress is in the status file, a page takes its update for
\* complete only after a run has ended, and a release on offer is newer than the server.
THEOREM UpdateTellsTruth == Spec => []StatusTellsTruth
  <1> DEFINE Inv == Telling /\ PagesOK /\ OffersOK
  <1>1. Init => Inv
    BY TellingFirst, PagesFirst, OffersFirst
  <1>2. IInv /\ Inv /\ [Next]_vars => Inv'
    BY TellingKept, PagesKept, OffersKept
  <1>3. Inv => StatusTellsTruth
    <2> SUFFICES ASSUME Inv PROVE StatusTellsTruth
        OBVIOUS
    <2>1. OfferIsNewer
      BY DEF OffersOK, Offered, Missed, Stored, Looking, OfferIsNewer
    <2> QED BY <2>1 DEF Telling, PagesOK, StatusTellsTruth
  <1> HIDE DEF Inv
  <1> QED BY <1>1, <1>2, <1>3, SpecInvariant, PTL DEF Spec
==============================================================================
