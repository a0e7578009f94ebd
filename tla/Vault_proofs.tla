------------------------------ MODULE Vault_proofs ------------------------------
(****************************************************************************)
(* Proofs about the vault. A number of a save that nobody is writing any    *)
(* more is past: no file will get it again. What is embedded, listed or     *)
(* indexed has such a number only, so that a file that still has it is the  *)
(* file that was read.                                                      *)
(****************************************************************************)
EXTENDS Vault, TLAPS

\* A save that has ended, or been cut off.
Past(v) ==
    /\ v \in 0 .. used.saves
    /\ \A d \in Callers : call[d].at = "writing" => call[d].v # v

\* A vector of this model that was made of the text of its version, if the file still has it.
Sound(e, m) == e.model = m /\ Past(e.v) /\ (disk[e.name].v = e.v => e.text = e.v)

WritersOK ==
    \A c \in Callers : call[c].at = "writing" =>
        /\ call[c].name \in Names /\ call[c].v \in 1 .. used.saves
        /\ \A d \in Callers : call[d].at = "writing" /\ d # c => call[d].v # call[c].v

DiskOK ==
    \A n \in Names :
        /\ disk[n].v <= used.saves
        /\ disk[n].is # "absent" => disk[n].v >= 1
        /\ disk[n].is \in {"text", "empty", "plain"} => Past(disk[n].v)

IndexOK == \A e \in index.entries : Sound(e, index.model)

\* What a call has that is handled, r being what is known of it.
Fit(r) ==
    /\ r.at # "writing"
    /\ \A e \in r.entries : Sound(e, r.model)
    /\ \A f \in r.listed : Past(f[2])
    /\ r.at \in {"usable", "match", "sync", "list", "embed", "written", "reread", "rank"} =>
           r.model \in Embedders
    /\ r.at \in {"usable", "match", "reread", "rank", "keyword"} => r.kind \in {"semantic", "ask", "query"}
    /\ r.at \in {"sync", "list", "embed", "written"} => r.kind # "save"
    /\ r.at = "chat" => r.kind \in {"ask", "query"}
    /\ r.at # "idle" /\ ~AllWhole => r.broken
    /\ r.result = "failed" /\ r.kind \in {"semantic", "ask"} => r.broken

\* One that writes has nothing else.
Blank(r) == r.at = "writing" /\ r.entries = {} /\ r.listed = {} /\ r.result = "none"

CallsOK == \A c \in Callers : Fit(call[c]) \/ Blank(call[c])

IInv == TypeOK /\ WritersOK /\ DiskOK /\ IndexOK /\ CallsOK

\* The same call, but for what is remembered of it.
Alike(r, s) ==
    /\ r.at = s.at /\ r.kind = s.kind /\ r.model = s.model /\ r.name = s.name /\ r.v = s.v
    /\ r.listed = s.listed /\ r.entries = s.entries /\ r.result = s.result
    /\ s.broken => r.broken
----------------------------------------------------------------------------
LEMMA InitInvariant == Init => IInv
  <1> SUFFICES ASSUME Init PROVE IInv
      OBVIOUS
  <1> USE VaultAssumption
  <1>1. Idle \in Call
    BY DEF Idle, Call, Places, Kinds
  <1>2. TypeOK
    BY <1>1 DEF Init, TypeOK, Absent, NoIndex
  <1>3. WritersOK /\ CallsOK
    BY DEF Init, WritersOK, CallsOK, Fit, Idle
  <1>4. DiskOK
    BY DEF Init, DiskOK, Absent
  <1>5. IndexOK
    BY DEF Init, IndexOK, NoIndex
  <1> QED BY <1>2, <1>3, <1>4, <1>5 DEF IInv

\* A step of one call that leaves the files alone: what it has now fits, and so does the index.
LEMMA CallStep ==
    ASSUME IInv, NEW c \in Callers,
           disk' = disk, used'.saves = used.saves,
           now' \in 0 .. 1, up' \in BOOLEAN,
           used' \in [saves: 0 .. MaxSaves, faults: 0 .. MaxFaults, calls: 0 .. MaxCalls],
           index' \in {NoIndex} \cup [model: Embedders, entries: SUBSET Entry],
           \A e \in index'.entries : Sound(e, index'.model),
           call' \in [Callers -> Call], Fit(call'[c]),
           \A d \in Callers \ {c} : Alike(call'[d], call[d])
    PROVE  IInv'
  <1>1. \A v : Past(v) => Past(v)'
    BY DEF Past, Fit, Alike
  <1>2. \A e, m : Sound(e, m) => Sound(e, m)'
    BY <1>1 DEF Sound
  <1>3. TypeOK'
    BY DEF IInv, TypeOK
  <1>4. WritersOK'
    BY DEF IInv, WritersOK, Fit, Alike
  <1>5. DiskOK'
    BY <1>1 DEF IInv, DiskOK
  <1>6. IndexOK'
    BY <1>2 DEF IndexOK
  <1>7. AllWhole' = AllWhole
    BY DEF AllWhole, Files, Whole
  <1>8. CallsOK'
    <2> SUFFICES ASSUME NEW d \in Callers PROVE (Fit(call[d]) \/ Blank(call[d]))'
        BY DEF CallsOK
    <2>1. CASE d = c
      BY <2>1, <1>1, <1>2, <1>7 DEF Fit
    <2>2. CASE d # c
      <3>1. Alike(call'[d], call[d])
        BY <2>2
      <3>2. CASE Blank(call[d])
        BY <3>1, <3>2 DEF Alike, Blank
      <3>3. CASE Fit(call[d])
        BY <3>1, <3>3, <1>1, <1>2, <1>7 DEF Alike, Fit
      <3> QED BY <3>2, <3>3 DEF IInv, CallsOK
    <2> QED BY <2>1, <2>2
  <1> QED BY <1>3, <1>4, <1>5, <1>6, <1>8 DEF IInv

\* ... when the index stays as well, and nothing is counted.
LEMMA Becomes ==
    ASSUME IInv, NEW c \in Callers, NEW r \in Call, Fit(r), Unsaved, index' = index,
           call' = [call EXCEPT ![c] = r]
    PROVE  IInv'
  <1>1. call' \in [Callers -> Call] /\ call'[c] = r /\ \A d \in Callers \ {c} : call'[d] = call[d]
    BY DEF IInv, TypeOK
  <1>2. \A d \in Callers \ {c} : Alike(call'[d], call[d])
    BY <1>1 DEF Alike
  <1> QED BY <1>1, <1>2, CallStep DEF IInv, TypeOK, IndexOK, Unsaved

LEMMA IdleFits == Idle \in Call /\ Fit(Idle)
  BY VaultAssumption DEF Idle, Call, Places, Kinds, Fit

\* A call that handles a request, and what is known of it.
LEMMA Handled ==
    ASSUME IInv, NEW c \in Callers, call[c].at \notin {"writing"}
    PROVE  call[c] \in Call /\ Fit(call[c])
  BY DEF IInv, TypeOK, CallsOK, Blank

LEMMA DoneFits ==
    ASSUME IInv, NEW c \in Callers, Fit(call[c]),
           NEW result \in {"none", "answered", "empty", "failed"},
           result = "failed" => call[c].broken \/ call[c].kind \notin {"semantic", "ask"}
    PROVE  Done(c, result) \in Call /\ Fit(Done(c, result))
  <1>1. call[c].kind \in Kinds /\ call[c].broken \in BOOLEAN
    BY DEF IInv, TypeOK, Call
  <1>2. Idle \in Call
    BY IdleFits
  <1> DEFINE r == Done(c, result)
  <1>3. /\ r = [Idle EXCEPT !.kind = call[c].kind, !.result = result, !.broken = call[c].broken]
        /\ r.at = "idle" /\ r.entries = {} /\ r.listed = {} /\ r.kind = call[c].kind
        /\ r.result = result /\ r.broken = call[c].broken
    BY DEF Done, Idle
  <1>4. r \in Call
    BY <1>1, <1>2, <1>3 DEF Call, Idle
  <1> HIDE DEF r
  <1>5. Fit(r)
    BY <1>3 DEF Fit
  <1> QED BY <1>4, <1>5 DEF r

LEMMA Answers ==
    ASSUME IInv, NEW c \in Callers, Fit(call[c]), Unsaved, index' = index,
           NEW result \in {"none", "answered", "empty", "failed"},
           result = "failed" => call[c].broken \/ call[c].kind \notin {"semantic", "ask"},
           Answer(c, result)
    PROVE  IInv'
  BY DoneFits, Becomes DEF Answer

LEMMA GoesBeyond ==
    ASSUME IInv, NEW c \in Callers, Fit(call[c]), Unsaved, index' = index,
           call[c].at # "idle", NEW place \in {"keyword", "chat"},
           call[c].kind \in {"ask", "query"} \/ (place = "keyword" /\ call[c].kind = "semantic"),
           Beyond(c, place)
    PROVE  IInv'
  <1> DEFINE r == [Done(c, "none") EXCEPT !.at = place]
  <1>1. Done(c, "none") \in Call
    BY DoneFits
  <1>2. /\ r.at = place /\ r.entries = {} /\ r.listed = {} /\ r.kind = call[c].kind
        /\ r.result = "none" /\ r.broken = call[c].broken
    BY DEF Done, Idle
  <1>3. r \in Call
    BY <1>1 DEF Call, Places
  <1>4. call' = [call EXCEPT ![c] = r]
    BY DEF Beyond
  <1> HIDE DEF r
  <1>5. Fit(r)
    BY <1>2 DEF Fit
  <1> QED BY <1>3, <1>4, <1>5, Becomes

\* What is thrown ends an indexing, and makes a search go on with the words.
LEMMA ThrowsKeeps ==
    ASSUME IInv, NEW c \in Callers, Fit(call[c]), Unsaved, index' = index,
           call[c].at # "idle", call[c].kind \in {"index", "semantic", "ask", "query"}, Throws(c)
    PROVE  IInv'
  <1>1. CASE call[c].kind = "index"
    BY <1>1, Answers DEF Throws
  <1>2. CASE call[c].kind # "index"
    BY <1>2, GoesBeyond DEF Throws
  <1> QED BY <1>1, <1>2

LEMMA SourcesKeeps ==
    ASSUME IInv, NEW c \in Callers, Fit(call[c]), Unsaved, index' = index,
           call[c].at # "idle", call[c].kind \in {"semantic", "ask", "query"}, NEW found,
           Sources(c, found)
    PROVE  IInv'
  <1>1. CASE call[c].kind = "query"
    BY <1>1, GoesBeyond DEF Sources
  <1>2. CASE call[c].kind # "query" /\ found = {}
    BY <1>2, Answers DEF Sources
  <1>3. CASE call[c].kind = "semantic" /\ found # {}
    BY <1>3, Answers DEF Sources
  <1>4. CASE call[c].kind = "ask" /\ found # {}
    BY <1>4, GoesBeyond DEF Sources
  <1> QED BY <1>1, <1>2, <1>3, <1>4
----------------------------------------------------------------------------
(* Requests begin, and handle the index *)

LEMMA BeginKeeps ==
    ASSUME IInv, NEW c \in Callers, NEW k \in Kinds \ {"save"}, NEW m \in Embedders,
           NEW force \in BOOLEAN, NEW place \in {"usable", "sync", "chat"},
           place = "usable" => k # "index", place = "chat" => k \in {"ask", "query"},
           Begin(c, k, m, force, place)
    PROVE  IInv'
  <1> DEFINE r == [Idle EXCEPT !.at = place, !.kind = k, !.model = m, !.force = force,
                               !.seen = IF place = "usable" THEN Seen ELSE {},
                               !.broken = ~AllWhole]
  <1>1. Seen \subseteq Version
    <2>1. \A n \in Names : disk[n].v \in 0 .. MaxSaves /\ (disk[n].is = "text" => disk[n].v >= 1)
      BY DEF IInv, TypeOK, DiskOK
    <2> QED BY <2>1, VaultAssumption DEF Seen, Version, Files
  <1>2. r \in Call
    BY <1>1, IdleFits, ZenonT(40) DEF Call, Places, AllWhole
  <1>3. /\ r.at = place /\ r.entries = {} /\ r.listed = {} /\ r.kind = k /\ r.model = m
        /\ r.result = "none" /\ (~AllWhole => r.broken)
    BY DEF Idle
  <1>4. call' = [call EXCEPT ![c] = r] /\ UNCHANGED <<now, disk, index, up>>
        /\ used' = [used EXCEPT !.calls = @ + 1] /\ used.calls < MaxCalls
    BY DEF Begin
  <1> HIDE DEF r
  <1>5. Fit(r)
    BY <1>3 DEF Fit, Kinds
  <1>6. used'.saves = used.saves
        /\ used' \in [saves: 0 .. MaxSaves, faults: 0 .. MaxFaults, calls: 0 .. MaxCalls]
    BY <1>4, VaultAssumption DEF IInv, TypeOK
  <1>7. call' \in [Callers -> Call] /\ call'[c] = r /\ \A d \in Callers \ {c} : call'[d] = call[d]
    BY <1>2, <1>4 DEF IInv, TypeOK
  <1>8. \A d \in Callers \ {c} : Alike(call'[d], call[d])
    BY <1>7 DEF Alike
  <1> QED BY <1>4, <1>5, <1>6, <1>7, <1>8, CallStep DEF IInv, TypeOK, IndexOK

\* What is read of the index for a model is of this model.
LEMMA IndexOfModel ==
    ASSUME IInv, NEW m \in Embedders, Usable(m)
    PROVE  index.entries \subseteq Entry /\ \A e \in index.entries : Sound(e, m)
  BY VaultAssumption DEF IInv, TypeOK, IndexOK, Usable, NoIndex

LEMMA ReadUsableKeeps == ASSUME IInv, NEW c \in Callers, ReadUsable(c) PROVE IInv'
  <1>1. call[c] \in Call /\ Fit(call[c]) /\ call[c].at = "usable"
    BY Handled DEF ReadUsable, At
  <1>2. call[c].model \in Embedders
    BY <1>1 DEF Fit
  <1> DEFINE fresh == Usable(call[c].model) /\ ~call[c].force
             E == IF fresh THEN index.entries ELSE {}
             r == [call[c] EXCEPT !.at = "match", !.entries = E, !.cached = fresh]
  <1>3. E \in SUBSET Entry /\ \A e \in E : Sound(e, call[c].model)
    BY <1>1, <1>2, IndexOfModel DEF Call
  <1>4. fresh \in BOOLEAN
    BY <1>1 DEF Call, Usable
  <1>5. call' = [call EXCEPT ![c] = r] /\ Unsaved /\ index' = index
    BY <1>1 DEF ReadUsable, Call, IInv, TypeOK
  <1> HIDE DEF E, fresh
  <1>6. /\ r.at = "match" /\ r.entries = E /\ r.model = call[c].model /\ r.listed = call[c].listed
        /\ r.kind = call[c].kind /\ r.result = call[c].result /\ r.broken = call[c].broken
    BY <1>1 DEF Call
  <1>7. r \in Call
    BY <1>1, <1>3, <1>4 DEF Call, Places
  <1> HIDE DEF r
  <1>8. Fit(r)
    BY <1>1, <1>3, <1>6 DEF Fit
  <1> QED BY <1>1, <1>5, <1>7, <1>8, Becomes

LEMMA MatchKeeps == ASSUME IInv, NEW c \in Callers, Match(c) PROVE IInv'
  <1>1. call[c] \in Call /\ Fit(call[c]) /\ call[c].at = "match" /\ Unsaved /\ index' = index
    BY Handled DEF Match, At
  <1>2. call[c].kind \in {"semantic", "ask", "query"} /\ call[c].model \in Embedders
    BY <1>1 DEF Fit
  <1>3. CASE Throws(c)
    BY <1>1, <1>2, <1>3, ThrowsKeeps
  <1>4. CASE To(c, "rank")
    <2> DEFINE r == [call[c] EXCEPT !.at = "rank"]
    <2>1. r \in Call /\ Fit(r)
      BY <1>1, <1>2 DEF Call, Places, Fit
    <2>2. call' = [call EXCEPT ![c] = r]
      BY <1>4 DEF To
    <2> HIDE DEF r
    <2> QED BY <1>1, <2>1, <2>2, Becomes
  <1>5. CASE call' = [call EXCEPT ![c].at = "sync", ![c].entries = {}, ![c].cached = FALSE]
    <2> DEFINE r == [call[c] EXCEPT !.at = "sync", !.entries = {}, !.cached = FALSE]
    <2>1. r \in Call /\ Fit(r)
      BY <1>1, <1>2 DEF Call, Places, Fit
    <2>2. call' = [call EXCEPT ![c] = r]
      BY <1>5 DEF IInv, TypeOK, Call
    <2> HIDE DEF r
    <2> QED BY <1>1, <2>1, <2>2, Becomes
  <1> QED BY <1>3, <1>4, <1>5 DEF Match

LEMMA SyncReadKeeps == ASSUME IInv, NEW c \in Callers, SyncRead(c) PROVE IInv'
  <1>1. call[c] \in Call /\ Fit(call[c]) /\ call[c].at = "sync"
    BY Handled DEF SyncRead, At
  <1>2. call[c].model \in Embedders
    BY <1>1 DEF Fit
  <1> DEFINE fresh == Usable(call[c].model) /\ ~call[c].force
             r == [call[c] EXCEPT !.at = "list", !.entries = IF fresh THEN index.entries ELSE {}]
  <1>3. r.entries \subseteq Entry /\ \A e \in r.entries : Sound(e, call[c].model)
    BY <1>1, <1>2, IndexOfModel DEF Call
  <1>4. r \in Call
    BY <1>1, <1>3 DEF Call, Places
  <1>5. /\ r.at = "list" /\ r.model = call[c].model /\ r.listed = call[c].listed
        /\ r.kind = call[c].kind /\ r.result = call[c].result /\ r.broken = call[c].broken
    BY <1>1 DEF Call
  <1>6. call' = [call EXCEPT ![c] = r] /\ Unsaved /\ index' = index
    BY <1>1 DEF SyncRead, Call, IInv, TypeOK
  <1> HIDE DEF r
  <1>7. Fit(r)
    BY <1>1, <1>3, <1>5 DEF Fit
  <1> QED BY <1>4, <1>6, <1>7, Becomes

\* When every note can be read, the versions that are listed have been written to their end.
LEMMA ListingPast ==
    ASSUME IInv, AllWhole PROVE Listing \subseteq Version /\ \A f \in Listing : Past(f[2])
  <1>1. \A n \in Files : /\ disk[n].v \in 1 .. MaxSaves /\ Past(disk[n].v)
    BY DEF IInv, TypeOK, DiskOK, AllWhole, Whole, Files
  <1>2. Files \subseteq Names
    BY DEF Files
  <1> QED BY <1>1, <1>2 DEF Listing, Version

LEMMA SyncListKeeps == ASSUME IInv, NEW c \in Callers, SyncList(c) PROVE IInv'
  <1>1. /\ call[c] \in Call /\ Fit(call[c]) /\ call[c].at = "list" /\ Unsaved /\ index' = index
    BY Handled DEF SyncList, At
  <1>2. call[c].kind # "save" /\ call[c].kind \in Kinds /\ call[c].model \in Embedders
    BY <1>1 DEF Fit, Call
  <1>3. CASE ~AllWhole
    BY <1>1, <1>2, <1>3, ThrowsKeeps DEF SyncList, Kinds
  <1>4. CASE AllWhole
    <2> DEFINE cached == Cached(call[c].entries, Listing)
               r == [call[c] EXCEPT !.at = "embed", !.entries = cached,
                        !.listed = {f \in Listing : \A e \in cached : e.name # f[1]}]
    <2>1. cached \subseteq call[c].entries
      BY DEF Cached
    <2>2. r.listed \subseteq Listing
      BY <1>1 DEF Call
    <2>3. r \in Call
      BY <1>1, <1>4, <2>1, <2>2, ListingPast DEF Call, Places
    <2>4. /\ r.at = "embed" /\ r.model = call[c].model /\ r.entries \subseteq call[c].entries
          /\ r.kind = call[c].kind /\ r.result = call[c].result /\ r.broken = call[c].broken
      BY <1>1, <2>1 DEF Call
    <2>5. call' = [call EXCEPT ![c] = r]
      BY <1>1, <1>4 DEF SyncList, Call, IInv, TypeOK
    <2> HIDE DEF r
    <2>6. Fit(r)
      BY <1>1, <1>2, <1>4, <2>2, <2>4, ListingPast DEF Fit
    <2> QED BY <1>1, <2>3, <2>5, <2>6, Becomes
  <1> QED BY <1>3, <1>4

LEMMA EmbedKeeps == ASSUME IInv, NEW c \in Callers, Embed(c) PROVE IInv'
  <1>1. call[c] \in Call /\ Fit(call[c]) /\ call[c].at = "embed" /\ Unsaved /\ index' = index
    BY Handled DEF Embed, At
  <1>2. call[c].kind # "save" /\ call[c].kind \in Kinds /\ call[c].model \in Embedders
    BY <1>1 DEF Fit, Call
  <1>3. PICK f \in call[c].listed :
          IF ~Whole(f[1]) \/ (disk[f[1]].is = "text" /\ ~up) THEN Throws(c)
          ELSE call' = [call EXCEPT
                 ![c].listed = @ \ {f},
                 ![c].entries = @ \cup IF disk[f[1]].is = "empty" THEN {}
                                       ELSE {[name |-> f[1], v |-> f[2], text |-> disk[f[1]].v,
                                              model |-> call[c].model]}]
    BY DEF Embed
  <1>4. CASE Throws(c)
    BY <1>1, <1>2, <1>4, ThrowsKeeps DEF Kinds
  <1>5. CASE ~Throws(c)
    <2> DEFINE e == [name |-> f[1], v |-> f[2], text |-> disk[f[1]].v, model |-> call[c].model]
               new == IF disk[f[1]].is = "empty" THEN {} ELSE {e}
               r == [call[c] EXCEPT !.listed = call[c].listed \ {f}, !.entries = call[c].entries \cup new]
    <2>1. f \in Version /\ Past(f[2]) /\ Whole(f[1])
      BY <1>1, <1>3, <1>5 DEF Call, Fit
    <2>2. f[1] \in Names /\ f[2] \in 1 .. MaxSaves
      BY <2>1 DEF Version
    <2>3. disk[f[1]].is # "empty" => disk[f[1]].v \in 1 .. MaxSaves
      BY <2>1, <2>2 DEF IInv, TypeOK, DiskOK, Whole
    <2>4. new \subseteq Entry
      BY <1>2, <2>2, <2>3 DEF Entry
    <2>5. \A x \in new : Sound(x, call[c].model)
      BY <2>1 DEF Sound
    <2>6. call' = [call EXCEPT ![c] = r]
      BY <1>1, <1>3, <1>5 DEF Call, IInv, TypeOK
    <2> HIDE DEF new
    <2>7. r \in Call
      BY <1>1, <2>4 DEF Call
    <2>8. /\ r.at = "embed" /\ r.model = call[c].model /\ r.listed \subseteq call[c].listed
          /\ r.entries = call[c].entries \cup new
          /\ r.kind = call[c].kind /\ r.result = call[c].result /\ r.broken = call[c].broken
      BY <1>1 DEF Call
    <2> HIDE DEF r
    <2>9. Fit(r)
      BY <1>1, <1>2, <2>5, <2>8 DEF Fit
    <2> QED BY <1>1, <2>6, <2>7, <2>9, Becomes
  <1> QED BY <1>4, <1>5

\* What the writer of the index does to the others is remembered of them only.
LEMMA Interfered ==
    ASSUME IInv, NEW c \in Callers
    PROVE  Interferes(c) \in [Callers -> Call] /\ Interferes(c)[c] = call[c]
           /\ \A d \in Callers \ {c} : Alike(Interferes(c)[d], call[d])
  <1>1. \A d \in Callers : call[d] \in Call
    BY DEF IInv, TypeOK
  <1>2. \A d \in Callers :
          [call[d] EXCEPT !.alone = FALSE, !.seen = {}] \in Call
          /\ Alike([call[d] EXCEPT !.alone = FALSE, !.seen = {}], call[d])
    BY <1>1 DEF Call, Alike
  <1> QED BY <1>1, <1>2 DEF Interferes, Alike

LEMMA WriteIndexKeeps == ASSUME IInv, NEW c \in Callers, WriteIndex(c) PROVE IInv'
  <1>1. /\ call[c] \in Call /\ Fit(call[c]) /\ call[c].at = "embed" /\ Unsaved /\ index' = NoIndex
        /\ call' = [Interferes(c) EXCEPT ![c].at = "written"]
    BY Handled DEF WriteIndex, At
  <1> DEFINE r == [call[c] EXCEPT !.at = "written"]
  <1>2. r \in Call /\ Fit(r)
    BY <1>1 DEF Call, Places, Fit
  <1>3. /\ call' \in [Callers -> Call] /\ call'[c] = r
        /\ \A d \in Callers \ {c} : Alike(call'[d], call[d])
    BY <1>1, <1>2, Interfered
  <1>4. \A e \in index'.entries : Sound(e, index'.model)
    BY <1>1 DEF NoIndex
  <1> HIDE DEF r
  <1> QED BY <1>1, <1>2, <1>3, <1>4, CallStep DEF IInv, TypeOK, Unsaved

LEMMA WrittenKeeps == ASSUME IInv, NEW c \in Callers, Written(c) PROVE IInv'
  <1>1. /\ call[c] \in Call /\ Fit(call[c]) /\ call[c].at = "written" /\ Unsaved
        /\ index' = [model |-> call[c].model, entries |-> call[c].entries]
    BY Handled DEF Written, At
  <1>2. /\ call[c].kind # "save" /\ call[c].kind \in Kinds /\ call[c].model \in Embedders
        /\ call[c].entries \subseteq Entry
    BY <1>1 DEF Fit, Call
  <1>3. /\ index' \in [model: Embedders, entries: SUBSET Entry]
        /\ \A e \in index'.entries : Sound(e, index'.model)
    BY <1>1, <1>2 DEF Fit
  <1> DEFINE r == IF call[c].kind = "index" THEN Done(c, "answered")
                  ELSE [call[c] EXCEPT !.at = "reread", !.entries = {}]
  <1>4. r \in Call /\ Fit(r)
    <2>1. CASE call[c].kind = "index"
      BY <1>1, <2>1, DoneFits
    <2>2. CASE call[c].kind # "index"
      BY <1>1, <1>2, <2>2 DEF Call, Places, Kinds, Fit
    <2> QED BY <2>1, <2>2
  <1>5. call' = [Interferes(c) EXCEPT ![c] = r]
    <2>1. CASE call[c].kind = "index"
      BY <2>1 DEF Written
    <2>2. CASE call[c].kind # "index"
      BY <1>1, <2>2, Interfered DEF Written, Call
    <2> QED BY <2>1, <2>2
  <1> HIDE DEF r
  <1>6. /\ call' \in [Callers -> Call] /\ call'[c] = r
        /\ \A d \in Callers \ {c} : Alike(call'[d], call[d])
    BY <1>4, <1>5, Interfered
  <1> QED BY <1>1, <1>3, <1>4, <1>6, CallStep DEF IInv, TypeOK, Unsaved

LEMMA RereadKeeps == ASSUME IInv, NEW c \in Callers, Reread(c) PROVE IInv'
  <1>1. call[c] \in Call /\ Fit(call[c]) /\ call[c].at = "reread" /\ Unsaved /\ index' = index
    BY Handled DEF Reread, At
  <1>2. call[c].kind \in {"semantic", "ask", "query"} /\ call[c].model \in Embedders
    BY <1>1 DEF Fit
  <1>3. CASE ~Usable(call[c].model)
    BY <1>1, <1>2, <1>3, ThrowsKeeps DEF Reread
  <1>4. CASE Usable(call[c].model)
    <2> DEFINE r == [call[c] EXCEPT !.at = "rank", !.entries = index.entries]
    <2>1. index.entries \subseteq Entry /\ \A e \in index.entries : Sound(e, call[c].model)
      BY <1>2, <1>4, IndexOfModel
    <2>2. r \in Call
      BY <1>1, <2>1 DEF Call, Places
    <2>3. call' = [call EXCEPT ![c] = r]
      BY <1>1, <1>4 DEF Reread, Call, IInv, TypeOK
    <2>4. /\ r.at = "rank" /\ r.model = call[c].model /\ r.listed = call[c].listed
          /\ r.entries = index.entries
          /\ r.kind = call[c].kind /\ r.result = call[c].result /\ r.broken = call[c].broken
      BY <1>1 DEF Call
    <2> HIDE DEF r
    <2>5. Fit(r)
      BY <1>1, <1>2, <2>1, <2>4 DEF Fit
    <2> QED BY <1>1, <2>2, <2>3, <2>5, Becomes
  <1> QED BY <1>3, <1>4

LEMMA AnsweringKeeps ==
    ASSUME IInv, NEW c \in Callers, Rank(c) \/ Keyword(c) \/ Chat(c) PROVE IInv'
  <1>1. call[c] \in Call /\ Fit(call[c]) /\ call[c].at # "idle" /\ Unsaved /\ index' = index
    BY Handled DEF Rank, Keyword, Chat, At
  <1>2. CASE Rank(c)
    <2>1. call[c].kind \in {"semantic", "ask", "query"}
      BY <1>1, <1>2 DEF Rank, At, Fit
    <2>2. \/ Throws(c)
          \/ Beyond(c, "keyword")
          \/ Sources(c, call[c].entries)
      BY <1>2 DEF Rank
    <2> QED BY <1>1, <2>1, <2>2, ThrowsKeeps, GoesBeyond, SourcesKeeps
  <1>3. CASE Keyword(c)
    <2>1. call[c].kind \in {"semantic", "ask", "query"}
      BY <1>1, <1>3 DEF Keyword, At, Fit
    <2>2. \/ Sources(c, {n \in Files : disk[n].is = "text"})
          \/ Sources(c, {})
          \/ ~AllWhole /\ Answer(c, "failed")
      BY <1>3 DEF Keyword
    <2>3. ~AllWhole => call[c].broken
      BY <1>1 DEF Fit
    <2> QED BY <1>1, <2>1, <2>2, <2>3, SourcesKeeps, Answers
  <1>4. CASE Chat(c)
    <2>1. call[c].kind \in {"ask", "query"}
      BY <1>1, <1>4 DEF Chat, At, Fit
    <2>2. Answer(c, "answered") \/ (call[c].kind = "query" /\ Answer(c, "failed"))
      BY <1>4, <2>1 DEF Chat
    <2> QED BY <1>1, <2>2, Answers
  <1> QED BY <1>2, <1>3, <1>4
----------------------------------------------------------------------------
(* The files change *)

LEMMA Breaks ==
    ASSUME IInv, NEW d \in Callers
    PROVE  /\ Broken(d) \in Call /\ Alike(Broken(d), call[d])
           /\ Broken(d).at # "idle" => Broken(d).broken
  <1>1. call[d] \in Call
    BY DEF IInv, TypeOK
  <1> QED BY <1>1 DEF Broken, Call, Alike, At

\* What is known of a call stays known when the files change, if it remembers that a note broke.
LEMMA Carried ==
    ASSUME IInv, NEW d \in Callers,
           \A v : Past(v) => Past(v)',
           \A e \in Entry : \A m : Sound(e, m) => Sound(e, m)',
           Alike(call'[d], call[d]),
           call'[d].at # "idle" /\ ~AllWhole' => call'[d].broken \/ ~AllWhole
    PROVE  (Fit(call[d]) \/ Blank(call[d]))'
  <1>1. call[d].entries \subseteq Entry
    BY DEF IInv, TypeOK, Call
  <1>2. CASE Blank(call[d])
    BY <1>2 DEF Blank, Alike
  <1>3. CASE Fit(call[d])
    BY <1>1, <1>3 DEF Fit, Alike
  <1> QED BY <1>2, <1>3 DEF IInv, CallsOK

LEMMA SaveKeeps ==
    ASSUME IInv, NEW c \in Callers, NEW t \in Titles, SaveMarkdown(c, t) PROVE IInv'
  <1> DEFINE v == used.saves + 1
             name == <<now, t>>
             r == [Idle EXCEPT !.at = "writing", !.name = name, !.v = v]
  <1>1. /\ used.saves \in Nat /\ used.saves < MaxSaves /\ used'.saves = v /\ v \in 1 .. MaxSaves
        /\ used' \in [saves: 0 .. MaxSaves, faults: 0 .. MaxFaults, calls: 0 .. MaxCalls]
    BY VaultAssumption DEF SaveMarkdown, IInv, TypeOK
  <1>2. name \in Names
    BY DEF IInv, TypeOK, Names
  <1>3. /\ disk' = [disk EXCEPT ![name] = [v |-> v, is |-> "torn"]]
        /\ UNCHANGED <<now, index, up>> /\ call[c].at = "idle"
    BY DEF SaveMarkdown, At
  <1>4. /\ r \in Call /\ Blank(r) /\ r.name = name /\ r.v = v /\ r.at = "writing"
    BY <1>1, <1>2, IdleFits DEF Call, Places, Blank, Idle
  <1>5. call' = [d \in Callers |-> IF d = c THEN r ELSE Broken(d)]
    BY DEF SaveMarkdown
  <1> HIDE DEF r
  <1>6. /\ call' \in [Callers -> Call] /\ call'[c] = r
        /\ \A d \in Callers \ {c} : /\ Alike(call'[d], call[d])
                                    /\ call'[d].at # "idle" => call'[d].broken
    BY <1>4, <1>5, Breaks
  <1>7. TypeOK'
    BY <1>1, <1>2, <1>3, <1>6 DEF IInv, TypeOK
  <1>8. \A n \in Names : /\ n = name => disk'[n].v = v /\ disk'[n].is = "torn"
                         /\ n # name => disk'[n] = disk[n]
    BY <1>2, <1>3 DEF IInv, TypeOK
  <1> HIDE DEF v, name
  <1>9. \A w : Past(w) => w # v
    BY <1>1 DEF Past, v
  <1>10. \A w \in 0 .. used.saves : w \in 0 .. used'.saves
    BY <1>1 DEF v
  <1>11. WritersOK'
    <2> SUFFICES ASSUME NEW d \in Callers, call'[d].at = "writing"
                 PROVE  /\ call'[d].name \in Names /\ call'[d].v \in 1 .. used'.saves
                        /\ \A x \in Callers : call'[x].at = "writing" /\ x # d => call'[x].v # call'[d].v
        BY DEF WritersOK, Names
    <2>1. \A x \in Callers \ {c} : call'[x].at = "writing" =>
              /\ call'[x].at = call[x].at /\ call'[x].v = call[x].v /\ call'[x].name = call[x].name
              /\ call[x].name \in Names /\ call[x].v \in 1 .. used.saves
      BY <1>6 DEF Alike, IInv, WritersOK
    <2>2. \A x \in Callers \ {c} : call'[x].at = "writing" =>
              call'[x].v \in 1 .. used'.saves /\ call'[x].v # v
      BY <2>1, <1>1 DEF v
    <2>3. CASE d = c
      BY <2>2, <2>3, <1>1, <1>2, <1>4, <1>6 DEF v
    <2>4. CASE d # c
      BY <2>1, <2>2, <2>4, <1>4, <1>6 DEF IInv, WritersOK
    <2> QED BY <2>3, <2>4
  <1>12. \A w : Past(w) => Past(w)'
    BY <1>4, <1>6, <1>9, <1>10 DEF Past, Alike
  <1>13. \A e \in Entry : \A m : Sound(e, m) => Sound(e, m)'
    <2> SUFFICES ASSUME NEW e \in Entry, NEW m, Sound(e, m) PROVE Sound(e, m)'
        OBVIOUS
    <2>1. e.name \in Names
      BY DEF Entry
    <2>2. disk'[e.name].v = e.v => disk[e.name].v = e.v
      BY <1>8, <1>9, <2>1 DEF Sound
    <2> QED BY <1>12, <2>2 DEF Sound
  <1>14. DiskOK'
    <2> SUFFICES ASSUME NEW n \in Names
                 PROVE  /\ disk'[n].v <= used'.saves
                        /\ disk'[n].is # "absent" => disk'[n].v >= 1
                        /\ disk'[n].is \in {"text", "empty", "plain"} => Past(disk[n].v)'
        BY DEF DiskOK, Names
    <2>1. CASE n = name
      BY <1>1, <1>8, <2>1
    <2>2. CASE n # name
      <3>1. disk'[n] = disk[n] /\ disk[n].v \in 0 .. MaxSaves /\ disk[n].v <= used.saves
        BY <1>8, <2>2 DEF IInv, TypeOK, DiskOK
      <3>2. disk[n].v <= used'.saves
        BY <1>1, <3>1 DEF v
      <3> QED BY <1>12, <3>1, <3>2 DEF IInv, DiskOK
    <2> QED BY <2>1, <2>2
  <1>15. IndexOK'
    <2>1. index.entries \subseteq Entry
      BY DEF IInv, TypeOK, NoIndex
    <2> QED BY <1>3, <1>13, <2>1 DEF IInv, IndexOK
  <1>16. CallsOK'
    <2> SUFFICES ASSUME NEW d \in Callers PROVE (Fit(call[d]) \/ Blank(call[d]))'
        BY DEF CallsOK
    <2>1. CASE d = c
      BY <1>4, <1>6, <2>1 DEF Blank
    <2>2. CASE d # c
      BY <1>6, <1>12, <1>13, <2>2, Carried
    <2> QED BY <2>1, <2>2
  <1> QED BY <1>7, <1>11, <1>14, <1>15, <1>16 DEF IInv

LEMMA SavedKeeps == ASSUME IInv, NEW c \in Callers, Saved(c) PROVE IInv'
  <1> DEFINE name == call[c].name
             v == call[c].v
  <1>1. /\ call[c].at = "writing" /\ UNCHANGED <<now, index, up, used>>
        /\ name \in Names /\ v \in 1 .. used.saves
        /\ \A d \in Callers : call[d].at = "writing" /\ d # c => call[d].v # v
    BY DEF Saved, At, IInv, WritersOK
  <1>2. PICK body \in {"text", "empty", "torn"} :
          /\ disk' = [disk EXCEPT ![name] = [v |-> v, is |-> body]]
          /\ call' = [d \in Callers |-> IF d = c THEN Idle
                                        ELSE IF body = "torn" THEN Broken(d) ELSE call[d]]
    BY DEF Saved
  <1>3. /\ call' \in [Callers -> Call] /\ call'[c] = Idle
        /\ \A d \in Callers \ {c} : /\ Alike(call'[d], call[d])
                                    /\ call'[d].at # "idle" /\ body = "torn" => call'[d].broken
    BY <1>2, Breaks, IdleFits DEF IInv, TypeOK, Alike
  <1>4. \A n \in Names : /\ n = name => disk'[n].v = v /\ disk'[n].is = body
                         /\ n # name => disk'[n] = disk[n]
    BY <1>1, <1>2 DEF IInv, TypeOK
  <1>5. used.saves \in 0 .. MaxSaves /\ v \in 1 .. MaxSaves
    BY <1>1, VaultAssumption DEF IInv, TypeOK
  <1>6. TypeOK'
    BY <1>1, <1>2, <1>3, <1>5 DEF IInv, TypeOK
  <1> HIDE DEF v, name
  <1>7. Idle.at = "idle"
    BY DEF Idle
  <1>8. \A w : Past(w) => Past(w)' /\ w # v
    BY <1>1, <1>3, <1>7 DEF Past, Alike, v
  <1>9. ASSUME NEW w, w = v
        PROVE  w \in 0 .. used'.saves /\ \A d \in Callers : call'[d].at = "writing" => call'[d].v # w
    BY <1>1, <1>3, <1>7, <1>9 DEF Alike
  <1>10. WritersOK'
    BY <1>1, <1>3, <1>7 DEF IInv, WritersOK, Alike
  <1>11. \A e \in Entry : \A m : Sound(e, m) => Sound(e, m)'
    <2> SUFFICES ASSUME NEW e \in Entry, NEW m, Sound(e, m) PROVE Sound(e, m)'
        OBVIOUS
    <2>1. e.name \in Names
      BY DEF Entry
    <2>2. disk'[e.name].v = e.v => disk[e.name].v = e.v
      BY <1>4, <1>8, <2>1 DEF Sound
    <2> QED BY <1>8, <2>2 DEF Sound
  <1>12. DiskOK'
    <2> SUFFICES ASSUME NEW n \in Names
                 PROVE  /\ disk'[n].v <= used'.saves
                        /\ disk'[n].is # "absent" => disk'[n].v >= 1
                        /\ disk'[n].is \in {"text", "empty", "plain"} => Past(disk[n].v)'
        BY DEF DiskOK, Names
    <2>1. CASE n = name
      <3>1. disk'[n].v = v
        BY <1>4, <2>1
      <3>2. Past(disk[n].v)'
        BY <1>9, <3>1 DEF Past
      <3> QED BY <1>1, <3>1, <3>2
    <2>2. CASE n # name
      <3>1. disk'[n] = disk[n]
        BY <1>4, <2>2
      <3> QED BY <1>1, <1>8, <3>1 DEF IInv, DiskOK
    <2> QED BY <2>1, <2>2
  <1>13. IndexOK'
    <2>1. index.entries \subseteq Entry
      BY DEF IInv, TypeOK, NoIndex
    <2> QED BY <1>1, <1>11, <2>1 DEF IInv, IndexOK
  <1>14. body # "torn" /\ ~AllWhole' => ~AllWhole
    BY <1>4 DEF AllWhole, Files, Whole, Names
  <1>15. CallsOK'
    <2> SUFFICES ASSUME NEW d \in Callers PROVE (Fit(call[d]) \/ Blank(call[d]))'
        BY DEF CallsOK
    <2>1. CASE d = c
      BY <1>3, <2>1 DEF Fit, Idle
    <2>2. CASE d # c
      BY <1>3, <1>8, <1>11, <1>14, <2>2, Carried
    <2> QED BY <2>1, <2>2
  <1> QED BY <1>6, <1>10, <1>12, <1>13, <1>15 DEF IInv

LEMMA EditedKeeps == ASSUME IInv, NEW n \in Names, Edited(n) PROVE IInv'
  <1>1. /\ disk[n].is \in {"text", "empty"} /\ UNCHANGED <<now, index, up>>
        /\ disk' = [disk EXCEPT ![n].is = "plain"]
        /\ call' = [c \in Callers |-> Broken(c)]
        /\ used' = [used EXCEPT !.faults = @ + 1] /\ used.faults < MaxFaults
    BY DEF Edited, Fault
  <1>2. /\ used'.saves = used.saves
        /\ used' \in [saves: 0 .. MaxSaves, faults: 0 .. MaxFaults, calls: 0 .. MaxCalls]
    BY <1>1, VaultAssumption DEF IInv, TypeOK
  <1>3. /\ call' \in [Callers -> Call]
        /\ \A d \in Callers : /\ Alike(call'[d], call[d])
                              /\ call'[d].at # "idle" => call'[d].broken
    BY <1>1, Breaks
  <1>4. /\ disk' \in [Names -> [v: 0 .. MaxSaves, is: {"absent", "text", "empty", "torn", "plain"}]]
        /\ \A x \in Names : disk'[x].v = disk[x].v
        /\ \A x \in Names \ {n} : disk'[x] = disk[x]
    BY <1>1 DEF IInv, TypeOK
  <1>5. TypeOK'
    BY <1>1, <1>2, <1>3, <1>4 DEF IInv, TypeOK
  <1>6. \A w : Past(w) => Past(w)'
    BY <1>2, <1>3 DEF Past, Alike
  <1>7. \A e \in Entry : \A m : Sound(e, m) => Sound(e, m)'
    <2> SUFFICES ASSUME NEW e \in Entry, NEW m, Sound(e, m) PROVE Sound(e, m)'
        OBVIOUS
    <2>1. e.name \in Names
      BY DEF Entry
    <2> QED BY <1>4, <1>6, <2>1 DEF Sound
  <1>8. WritersOK'
    BY <1>2, <1>3 DEF IInv, WritersOK, Alike
  <1>9. DiskOK'
    <2> SUFFICES ASSUME NEW x \in Names
                 PROVE  /\ disk'[x].v <= used'.saves
                        /\ disk'[x].is # "absent" => disk'[x].v >= 1
                        /\ disk'[x].is \in {"text", "empty", "plain"} => Past(disk[x].v)'
        BY DEF DiskOK, Names
    <2>1. disk'[x].v = disk[x].v
      BY <1>4
    <2>2. Past(disk[x].v) => Past(disk[x].v)'
      BY <1>6, <2>1 DEF Past
    <2> QED BY <1>1, <1>2, <1>4, <2>1, <2>2 DEF IInv, DiskOK
  <1>10. IndexOK'
    <2>1. index.entries \subseteq Entry
      BY DEF IInv, TypeOK, NoIndex
    <2> QED BY <1>1, <1>7, <2>1 DEF IInv, IndexOK
  <1>11. CallsOK'
    <2> SUFFICES ASSUME NEW d \in Callers PROVE (Fit(call[d]) \/ Blank(call[d]))'
        BY DEF CallsOK
    <2> QED BY <1>3, <1>6, <1>7, Carried
  <1> QED BY <1>5, <1>8, <1>9, <1>10, <1>11 DEF IInv
----------------------------------------------------------------------------
(* The rest of the world, and the theorems *)

LEMMA RestartKeeps == ASSUME IInv, Restart PROVE IInv'
  <1>1. /\ UNCHANGED <<now, disk, index, up>> /\ call' = [c \in Callers |-> Idle]
        /\ used' = [used EXCEPT !.faults = @ + 1] /\ used.faults < MaxFaults
    BY DEF Restart, Fault
  <1>2. /\ used'.saves = used.saves
        /\ used' \in [saves: 0 .. MaxSaves, faults: 0 .. MaxFaults, calls: 0 .. MaxCalls]
    BY <1>1, VaultAssumption DEF IInv, TypeOK
  <1>3. \A c \in Callers : call'[c] = Idle /\ call'[c].at = "idle"
    BY <1>1 DEF Idle
  <1>4. TypeOK'
    BY <1>1, <1>2, IdleFits DEF IInv, TypeOK
  <1>5. \A w : Past(w) => Past(w)'
    BY <1>2, <1>3 DEF Past
  <1>6. WritersOK'
    BY <1>3 DEF WritersOK
  <1>7. DiskOK' /\ IndexOK'
    BY <1>1, <1>2, <1>5 DEF IInv, DiskOK, IndexOK, Sound
  <1>8. CallsOK'
    BY <1>3 DEF CallsOK, Fit, Idle
  <1> QED BY <1>4, <1>6, <1>7, <1>8 DEF IInv

LEMMA StutterKeeps ==
    ASSUME IInv, UNCHANGED <<disk, index, call>>, now' \in 0 .. 1, up' \in BOOLEAN,
           used'.saves = used.saves,
           used' \in [saves: 0 .. MaxSaves, faults: 0 .. MaxFaults, calls: 0 .. MaxCalls]
    PROVE  IInv'
  <1>1. TypeOK'
    BY DEF IInv, TypeOK
  <1>2. \A w : Past(w) => Past(w)'
    BY DEF Past
  <1>3. WritersOK' /\ DiskOK' /\ IndexOK'
    BY <1>2 DEF IInv, WritersOK, DiskOK, IndexOK, Sound
  <1>4. CallsOK'
    BY <1>2 DEF IInv, CallsOK, Fit, Blank, Sound, AllWhole, Files, Whole
  <1> QED BY <1>1, <1>3, <1>4 DEF IInv

LEMMA RequestKeeps == ASSUME IInv, NEW c \in Callers, Request(c) PROVE IInv'
  <1>1. CASE \E t \in Titles : SaveMarkdown(c, t)
    BY <1>1, SaveKeeps
  <1>2. CASE \E m \in Embedders, force \in BOOLEAN : Index(c, m, force)
    BY <1>2, BeginKeeps DEF Index, Kinds
  <1>3. CASE \E m \in Embedders, force \in BOOLEAN : SemanticSearch(c, m, force)
    BY <1>3, BeginKeeps DEF SemanticSearch, Kinds
  <1>4. CASE \E m \in Embedders : AskVault(c, m)
    BY <1>4, BeginKeeps DEF AskVault, Kinds
  <1>5. CASE \E m \in Embedders, route \in Routes : Query(c, m, route)
    <2>1. Routes \subseteq {"usable", "chat"}
      BY DEF Routes
    <2> QED BY <1>5, <2>1, BeginKeeps DEF Query, Kinds
  <1> QED BY <1>1, <1>2, <1>3, <1>4, <1>5 DEF Request

LEMMA HandleKeeps == ASSUME IInv, NEW c \in Callers, Handle(c) PROVE IInv'
  BY SavedKeeps, ReadUsableKeeps, MatchKeeps, SyncReadKeeps, SyncListKeeps, EmbedKeeps,
     WriteIndexKeeps, WrittenKeeps, RereadKeeps, AnsweringKeeps DEF Handle

LEMMA NextKeepsInvariant == IInv /\ [Next]_vars => IInv'
  <1> SUFFICES ASSUME IInv, [Next]_vars PROVE IInv'
      OBVIOUS
  <1>1. CASE \E c \in Callers : Request(c) \/ Handle(c)
    BY <1>1, RequestKeeps, HandleKeeps
  <1>2. CASE Tick
    BY <1>2, StutterKeeps DEF Tick, IInv, TypeOK
  <1>3. CASE Ollama
    <2>1. UNCHANGED used \/ (used' = [used EXCEPT !.faults = @ + 1] /\ used.faults < MaxFaults)
      BY <1>3 DEF Ollama, Fault
    <2>2. /\ used'.saves = used.saves
          /\ used' \in [saves: 0 .. MaxSaves, faults: 0 .. MaxFaults, calls: 0 .. MaxCalls]
      BY <2>1, VaultAssumption DEF IInv, TypeOK
    <2>3. up' \in BOOLEAN /\ UNCHANGED <<now, disk, index, call>>
      BY <1>3 DEF Ollama
    <2> QED BY <2>2, <2>3, StutterKeeps DEF IInv, TypeOK
  <1>4. CASE Restart
    BY <1>4, RestartKeeps
  <1>5. CASE \E n \in Names : Edited(n)
    BY <1>5, EditedKeeps
  <1>6. CASE UNCHANGED vars
    BY <1>6, StutterKeeps DEF vars, IInv, TypeOK
  <1> QED BY <1>1, <1>2, <1>3, <1>4, <1>5, <1>6 DEF Next

LEMMA SpecInvariant == Spec => []IInv
  BY InitInvariant, NextKeepsInvariant, PTL DEF Spec

\* Whatever the notes, the models, the callers and their number: every variable keeps its type.
THEOREM VaultTypeCorrect == Spec => []TypeOK
  <1>1. IInv => TypeOK
    BY DEF IInv
  <1> QED BY <1>1, SpecInvariant, PTL

\* A prompt is given a reason that fits the model it goes to (select_model and model_reason).
LEMMA ReasonsFit == ReasonTellsModel
  <1> SUFFICES ASSUME NEW p \in Prompts
               PROVE  /\ ModelReason(p) = "coder" <=> SelectModel(p) \in {"deepseek-coder-v2", "qwen2.5-coder:7b"}
                      /\ ModelReason(p) = "deep" <=> SelectModel(p) = "llama3.1"
                      /\ ModelReason(p) = "fast" <=> SelectModel(p) = "mistral"
      BY DEF ReasonTellsModel
  <1> DEFINE code == "CODE" \in Classify(p)
             deep == "architecture" \in p
             chat == Classify(p) = {"CHAT"}
  <1>1. deep => "REASONING" \in Classify(p)
    BY DEF Classify
  <1>2. chat => ~code
    OBVIOUS
  <1>3. chat => ~deep
    BY <1>1
  <1>4. CASE code
    <2>1. SelectModel(p) \in {"deepseek-coder-v2", "qwen2.5-coder:7b"}
      BY <1>4 DEF SelectModel
    <2> QED BY <1>4, <2>1 DEF ModelReason
  <1>5. CASE ~code /\ deep
    <2>1. SelectModel(p) = "llama3.1"
      BY <1>3, <1>5 DEF SelectModel
    <2>2. ModelReason(p) = "deep"
      BY <1>1, <1>5, <2>1 DEF ModelReason
    <2> QED BY <2>1, <2>2
  <1>6. CASE ~code /\ ~deep
    <2>1. CASE Classify(p) = {"CHAT"} /\ "quick" \in p
      <3>1. SelectModel(p) = "mistral"
        BY <1>6, <2>1 DEF SelectModel
      <3> QED BY <1>6, <3>1 DEF ModelReason
    <2>2. CASE ~(Classify(p) = {"CHAT"} /\ "quick" \in p)
      <3>1. SelectModel(p) = "qwen2.5:7b"
        BY <1>6, <2>2 DEF SelectModel
      <3> QED BY <1>6, <3>1 DEF ModelReason
    <2> QED BY <2>1, <2>2
  <1> QED BY <1>4, <1>5, <1>6

\* At every time, whoever saves, edits, indexes and searches at once, and wherever the server goes
\* down: vectors.json has vectors of its own model only, and a file it takes to be unchanged has
\* the text that was embedded; only a note that could not be read made a search or a question
\* about the vault fail; and the reason that is given fits the model.
THEOREM VaultAnswersTrue == Spec => []AnswersAreTrue
  <1>1. IInv => VectorsAreTrue
    BY DEF IInv, IndexOK, Sound, VectorsAreTrue
  <1>2. IInv => OnlyBrokenNotesFail
    BY DEF IInv, CallsOK, Fit, Blank, OnlyBrokenNotesFail
  <1>3. IInv => AnswersAreTrue
    BY <1>1, <1>2, ReasonsFit DEF AnswersAreTrue
  <1> QED BY <1>3, SpecInvariant, PTL
----------------------------------------------------------------------------
(* A search sees the vault *)

\* A file is still what a request saw of it, and a vector was made of that.
Held(f) == disk[f[1]].v = f[2]
Covered(f, entries) == \E e \in entries : e.name = f[1] /\ e.text = f[2]

\* Of each note that a request saw as it began and that is as it was: whatever is listed has been
\* embedded or is going to be, and what is written is what will be read again.
SeesNow(r, f) ==
    Held(f) =>
        /\ disk[f[1]].is \in {"text", "plain"}
        /\ r.at = "embed" => f \in r.listed \/ Covered(f, r.entries)
        /\ r.at \in {"written", "rank"} => Covered(f, r.entries)
        /\ r.at = "reread" => Covered(f, index.entries)
Sees(r) == \A f \in r.seen : Past(f[2]) /\ SeesNow(r, f)
SeesOK == \A c \in Callers : Sees(call[c])

\* A step of one call that leaves the files alone.
LEMMA SeesStep ==
    ASSUME SeesOK, NEW c \in Callers, disk' = disk, used'.saves = used.saves,
           call'[c].at # "writing",
           \A f \in call'[c].seen : Past(f[2]) /\ SeesNow(call[c], f)',
           \A d \in Callers \ {c} :
               /\ call'[d].at = call[d].at /\ call'[d].v = call[d].v
               /\ \/ call'[d].seen = {}
                  \/ call'[d] = call[d] /\ (index' = index \/ call[d].at # "reread")
    PROVE  SeesOK'
  <1>1. \A v : Past(v) => Past(v)'
    BY DEF Past
  <1>2. Sees(call[c])'
    BY <1>1 DEF Sees
  <1>3. ASSUME NEW d \in Callers \ {c}
        PROVE  Sees(call[d])'
    <2>1. CASE call'[d].seen = {}
      BY <2>1 DEF Sees
    <2>2. CASE call'[d] = call[d] /\ (index' = index \/ call[d].at # "reread")
      <3>1. Sees(call[d])
        BY DEF SeesOK
      <3> QED BY <1>1, <2>2, <3>1 DEF Sees, SeesNow, Held
    <2> QED BY <2>1, <2>2
  <1> QED BY <1>2, <1>3 DEF SeesOK

\* ... when the index stays as well.
LEMMA SeesBecomes ==
    ASSUME IInv, SeesOK, NEW c \in Callers, NEW r, Unsaved, index' = index,
           call' = [call EXCEPT ![c] = r], r.at # "writing",
           \A f \in r.seen : Past(f[2]) /\ SeesNow(r, f)
    PROVE  SeesOK'
  <1>1. call'[c] = r /\ \A d \in Callers \ {c} : call'[d] = call[d]
    BY DEF IInv, TypeOK
  <1>2. \A f \in call'[c].seen : Past(f[2]) /\ SeesNow(call[c], f)'
    BY <1>1 DEF SeesNow, Held, Unsaved
  <1> QED BY <1>1, <1>2, SeesStep DEF Unsaved

\* A request that has done with the vectors has forgotten what it saw.
LEMMA Forgets ==
    ASSUME IInv, SeesOK, NEW c \in Callers, Unsaved, index' = index,
           \/ Throws(c)
           \/ \E found : Sources(c, found)
           \/ \E result : Answer(c, result)
           \/ \E place \in {"keyword", "chat"} : Beyond(c, place)
    PROVE  SeesOK'
  <1>1. \/ \E result : call' = [call EXCEPT ![c] = Done(c, result)]
        \/ \E place \in {"keyword", "chat"} :
              call' = [call EXCEPT ![c] = [Done(c, "none") EXCEPT !.at = place]]
    BY DEF Throws, Sources, Answer, Beyond
  <1>2. \A result : Done(c, result).at = "idle" /\ Done(c, result).seen = {}
    BY DEF Done, Idle
  <1>3. ASSUME NEW place \in {"keyword", "chat"}
        PROVE  /\ [Done(c, "none") EXCEPT !.at = place].at = place
               /\ [Done(c, "none") EXCEPT !.at = place].seen = {}
    BY DEF Done, Idle
  <1> QED BY <1>1, <1>2, <1>3, SeesBecomes

LEMMA BeginSees ==
    ASSUME IInv, SeesOK, NEW c \in Callers, NEW k, NEW m, NEW force, NEW place \in {"usable", "sync", "chat"},
           Begin(c, k, m, force, place)
    PROVE  SeesOK'
  <1> DEFINE r == [Idle EXCEPT !.at = place, !.kind = k, !.model = m, !.force = force,
                               !.seen = IF place = "usable" THEN Seen ELSE {},
                               !.broken = ~AllWhole]
  <1>1. r.at = place /\ r.seen \subseteq Seen
    BY DEF Idle
  <1>2. /\ call' = [call EXCEPT ![c] = r] /\ UNCHANGED <<now, disk, index, up>>
        /\ used'.saves = used.saves
    BY DEF Begin, IInv, TypeOK
  <1>3. \A f \in Seen : /\ disk[f[1]].is = "text" /\ Past(f[2])
    BY DEF Seen, Files, IInv, DiskOK
  <1> HIDE DEF r
  <1>4. call'[c] = r /\ \A d \in Callers \ {c} : call'[d] = call[d]
    BY <1>2 DEF IInv, TypeOK
  <1>5. \A f \in call'[c].seen : Past(f[2]) /\ SeesNow(call[c], f)'
    BY <1>1, <1>2, <1>3, <1>4 DEF SeesNow
  <1> QED BY <1>1, <1>2, <1>4, <1>5, SeesStep

\* Of a call that handles a request: what it is, what is known of it, and what it saw.
LEMMA SeesKnown ==
    ASSUME IInv, SeesOK, NEW c \in Callers, call[c].at # "writing"
    PROVE  /\ call[c] \in Call /\ Fit(call[c])
           /\ call[c].seen \subseteq Version
           /\ \A f \in call[c].seen : Past(f[2]) /\ SeesNow(call[c], f)
  BY Handled DEF SeesOK, Sees, Call

\* A note that is as it was is listed.
LEMMA HeldIsListed ==
    ASSUME IInv, NEW f \in Version, Held(f), disk[f[1]].is \in {"text", "plain"}
    PROVE  f \in Listing
  <1>1. f[1] \in Names /\ f = <<f[1], f[2]>>
    BY DEF Version
  <1> QED BY <1>1 DEF Held, Listing, Files

\* A vector of a listed note is of the text that the note has.
LEMMA ListedIsCovered ==
    ASSUME NEW entries, NEW m, \A e \in entries : Sound(e, m),
           NEW f, Held(f), NEW e \in entries, e.name = f[1], e.v = f[2]
    PROVE  Covered(f, entries)
  BY DEF Sound, Held, Covered

LEMMA ReadUsableSees == ASSUME IInv, SeesOK, NEW c \in Callers, ReadUsable(c) PROVE SeesOK'
  <1>1. /\ call[c] \in Call /\ Unsaved /\ index' = index
        /\ \A f \in call[c].seen : Past(f[2]) /\ SeesNow(call[c], f)
    BY SeesKnown DEF ReadUsable, At
  <1>2. PICK E, b : call' = [call EXCEPT ![c] = [call[c] EXCEPT !.at = "match", !.entries = E, !.cached = b]]
    BY <1>1 DEF ReadUsable, Call, IInv, TypeOK
  <1> DEFINE r == [call[c] EXCEPT !.at = "match", !.entries = E, !.cached = b]
  <1>3. r.at = "match" /\ r.seen = call[c].seen
    BY <1>1 DEF Call
  <1>4. call' = [call EXCEPT ![c] = r]
    BY <1>2
  <1> HIDE DEF r
  <1>5. \A f \in r.seen : Past(f[2]) /\ SeesNow(r, f)
    BY <1>1, <1>3 DEF SeesNow
  <1> QED BY <1>1, <1>3, <1>4, <1>5, SeesBecomes

LEMMA MatchSees == ASSUME IInv, SeesOK, NEW c \in Callers, Match(c) PROVE SeesOK'
  <1>1. /\ call[c] \in Call /\ Fit(call[c]) /\ Unsaved /\ index' = index
        /\ call[c].seen \subseteq Version
        /\ \A f \in call[c].seen : Past(f[2]) /\ SeesNow(call[c], f)
    BY SeesKnown DEF Match, At
  <1>2. CASE Throws(c)
    BY <1>1, <1>2, Forgets
  <1>3. CASE To(c, "rank") /\ IndexMatchesFiles(call[c].entries, Listing)
    <2> DEFINE r == [call[c] EXCEPT !.at = "rank"]
    <2>1. r.at = "rank" /\ r.seen = call[c].seen /\ r.entries = call[c].entries
      BY <1>1 DEF Call
    <2>2. call' = [call EXCEPT ![c] = r]
      BY <1>3 DEF To
    <2> HIDE DEF r
    <2>3. ASSUME NEW f \in r.seen, Held(f)
          PROVE  disk[f[1]].is \in {"text", "plain"} /\ Covered(f, call[c].entries)
      <3>1. disk[f[1]].is \in {"text", "plain"} /\ f \in Version
        BY <1>1, <2>1, <2>3 DEF SeesNow
      <3>2. f \in Listing
        BY <2>3, <3>1, HeldIsListed
      <3>3. PICK e \in call[c].entries : f = <<e.name, e.v>>
        BY <1>3, <3>2 DEF IndexMatchesFiles
      <3>4. \A x \in call[c].entries : Sound(x, call[c].model)
        BY <1>1 DEF Fit
      <3> QED BY <2>3, <3>1, <3>3, <3>4, ListedIsCovered
    <2>4. \A f \in r.seen : Past(f[2]) /\ SeesNow(r, f)
      BY <1>1, <2>1, <2>3 DEF SeesNow
    <2> QED BY <1>1, <2>1, <2>2, <2>4, SeesBecomes
  <1>4. CASE call' = [call EXCEPT ![c].at = "sync", ![c].entries = {}, ![c].cached = FALSE]
    <2> DEFINE r == [call[c] EXCEPT !.at = "sync", !.entries = {}, !.cached = FALSE]
    <2>1. r.at = "sync" /\ r.seen = call[c].seen
      BY <1>1 DEF Call
    <2>2. call' = [call EXCEPT ![c] = r]
      BY <1>4 DEF IInv, TypeOK, Call
    <2> HIDE DEF r
    <2>3. \A f \in r.seen : Past(f[2]) /\ SeesNow(r, f)
      BY <1>1, <2>1 DEF SeesNow
    <2> QED BY <1>1, <2>1, <2>2, <2>3, SeesBecomes
  <1> QED BY <1>2, <1>3, <1>4 DEF Match

LEMMA SyncReadSees == ASSUME IInv, SeesOK, NEW c \in Callers, SyncRead(c) PROVE SeesOK'
  <1>1. /\ call[c] \in Call /\ Unsaved /\ index' = index
        /\ \A f \in call[c].seen : Past(f[2]) /\ SeesNow(call[c], f)
    BY SeesKnown DEF SyncRead, At
  <1>2. PICK E : call' = [call EXCEPT ![c] = [call[c] EXCEPT !.at = "list", !.entries = E]]
    BY <1>1 DEF SyncRead, Call, IInv, TypeOK
  <1> DEFINE r == [call[c] EXCEPT !.at = "list", !.entries = E]
  <1>3. r.at = "list" /\ r.seen = call[c].seen
    BY <1>1 DEF Call
  <1>4. call' = [call EXCEPT ![c] = r]
    BY <1>2
  <1> HIDE DEF r
  <1>5. \A f \in r.seen : Past(f[2]) /\ SeesNow(r, f)
    BY <1>1, <1>3 DEF SeesNow
  <1> QED BY <1>1, <1>3, <1>4, <1>5, SeesBecomes

\* What is listed is covered by a vector taken over, or listed to be embedded.
LEMMA SyncListSees == ASSUME IInv, SeesOK, NEW c \in Callers, SyncList(c) PROVE SeesOK'
  <1>1. /\ call[c] \in Call /\ Fit(call[c]) /\ Unsaved /\ index' = index
        /\ call[c].seen \subseteq Version
        /\ \A f \in call[c].seen : Past(f[2]) /\ SeesNow(call[c], f)
    BY SeesKnown DEF SyncList, At
  <1>2. CASE Throws(c)
    BY <1>1, <1>2, Forgets
  <1>3. CASE ~Throws(c)
    <2> DEFINE cached == Cached(call[c].entries, Listing)
               todo == {f \in Listing : \A e \in cached : e.name # f[1]}
               r == [call[c] EXCEPT !.at = "embed", !.entries = cached, !.listed = todo]
    <2>1. r.at = "embed" /\ r.seen = call[c].seen /\ r.entries = cached /\ r.listed = todo
      BY <1>1 DEF Call
    <2>2. call' = [call EXCEPT ![c] = r]
      BY <1>1, <1>3 DEF SyncList, Call, IInv, TypeOK
    <2>3. \A e \in cached : Sound(e, call[c].model) /\ <<e.name, e.v>> \in Listing
      BY <1>1 DEF Cached, Fit
    <2> HIDE DEF r, cached
    <2>4. ASSUME NEW f \in r.seen, Held(f)
          PROVE  /\ disk[f[1]].is \in {"text", "plain"}
                 /\ f \in todo \/ Covered(f, cached)
      <3>1. disk[f[1]].is \in {"text", "plain"} /\ f \in Version
        BY <1>1, <2>1, <2>4 DEF SeesNow
      <3>2. f \in Listing
        BY <2>4, <3>1, HeldIsListed
      <3>3. ASSUME NEW e \in cached, e.name = f[1]
            PROVE  e.v = f[2]
        BY <2>3, <2>4, <3>3 DEF Listing, Held
      <3>4. CASE \A e \in cached : e.name # f[1]
        BY <3>1, <3>2, <3>4
      <3>5. CASE \E e \in cached : e.name = f[1]
        BY <2>3, <2>4, <3>1, <3>3, <3>5, ListedIsCovered
      <3> QED BY <3>4, <3>5
    <2>5. \A f \in r.seen : Past(f[2]) /\ SeesNow(r, f)
      BY <1>1, <2>1, <2>4 DEF SeesNow
    <2> QED BY <1>1, <2>1, <2>2, <2>5, SeesBecomes
  <1> QED BY <1>2, <1>3

\* The note that is read and embedded is the one that was seen, if it is as it was.
LEMMA EmbedSees == ASSUME IInv, SeesOK, NEW c \in Callers, Embed(c) PROVE SeesOK'
  <1>1. /\ call[c] \in Call /\ Fit(call[c]) /\ Unsaved /\ index' = index /\ call[c].at = "embed"
        /\ call[c].seen \subseteq Version
        /\ \A f \in call[c].seen : Past(f[2]) /\ SeesNow(call[c], f)
    BY SeesKnown DEF Embed, At
  <1>2. PICK g \in call[c].listed :
          IF ~Whole(g[1]) \/ (disk[g[1]].is = "text" /\ ~up) THEN Throws(c)
          ELSE call' = [call EXCEPT
                 ![c].listed = @ \ {g},
                 ![c].entries = @ \cup IF disk[g[1]].is = "empty" THEN {}
                                       ELSE {[name |-> g[1], v |-> g[2], text |-> disk[g[1]].v,
                                              model |-> call[c].model]}]
    BY DEF Embed
  <1>3. CASE Throws(c)
    BY <1>1, <1>3, Forgets
  <1>4. CASE ~Throws(c)
    <2> DEFINE x == [name |-> g[1], v |-> g[2], text |-> disk[g[1]].v, model |-> call[c].model]
               new == IF disk[g[1]].is = "empty" THEN {} ELSE {x}
               r == [call[c] EXCEPT !.listed = call[c].listed \ {g}, !.entries = call[c].entries \cup new]
    <2>1. call' = [call EXCEPT ![c] = r] /\ Whole(g[1])
      BY <1>1, <1>2, <1>4 DEF Call, IInv, TypeOK
    <2>2. disk[g[1]].is = "text" => x \in new /\ x.name = g[1] /\ x.text = disk[g[1]].v
      OBVIOUS
    <2> HIDE DEF new, x
    <2>3. /\ r.at = "embed" /\ r.seen = call[c].seen /\ r.listed = call[c].listed \ {g}
          /\ r.entries = call[c].entries \cup new
      BY <1>1 DEF Call
    <2> HIDE DEF r
    <2>4. ASSUME NEW f \in r.seen, Held(f)
          PROVE  /\ disk[f[1]].is \in {"text", "plain"}
                 /\ f \in r.listed \/ Covered(f, r.entries)
      <3>1. /\ disk[f[1]].is \in {"text", "plain"}
            /\ f \in call[c].listed \/ Covered(f, call[c].entries)
        BY <1>1, <2>3, <2>4 DEF SeesNow
      <3>2. CASE f = g
        <4>1. disk[g[1]].is = "text"
          BY <2>1, <3>1, <3>2 DEF Whole
        <4>2. x \in r.entries /\ x.name = f[1] /\ x.text = f[2]
          BY <2>2, <2>3, <2>4, <3>2, <4>1 DEF Held
        <4> QED BY <3>1, <4>2 DEF Covered
      <3>3. CASE f # g
        BY <2>3, <3>1, <3>3 DEF Covered
      <3> QED BY <3>2, <3>3
    <2>5. \A f \in r.seen : Past(f[2]) /\ SeesNow(r, f)
      BY <1>1, <2>3, <2>4 DEF SeesNow
    <2> QED BY <1>1, <2>1, <2>3, <2>5, SeesBecomes
  <1> QED BY <1>3, <1>4

\* The writer of the index makes the others forget what they saw.
LEMMA InterferedForget ==
    ASSUME IInv, NEW c \in Callers
    PROVE  /\ Interferes(c)[c] = call[c] /\ Interferes(c) \in [Callers -> Call]
           /\ \A d \in Callers \ {c} : /\ Interferes(c)[d].at = call[d].at /\ Interferes(c)[d].v = call[d].v
                                       /\ call[d].at # "idle" => Interferes(c)[d].seen = {}
                                       /\ call[d].at = "idle" => Interferes(c)[d] = call[d]
  <1>1. \A d \in Callers : call[d] \in Call
    BY DEF IInv, TypeOK
  <1>2. \A d \in Callers :
          /\ [call[d] EXCEPT !.alone = FALSE, !.seen = {}].at = call[d].at
          /\ [call[d] EXCEPT !.alone = FALSE, !.seen = {}].v = call[d].v
          /\ [call[d] EXCEPT !.alone = FALSE, !.seen = {}].seen = {}
    BY <1>1 DEF Call
  <1> QED BY <1>1, <1>2, Interfered DEF Interferes, At

LEMMA WriteIndexSees == ASSUME IInv, SeesOK, NEW c \in Callers, WriteIndex(c) PROVE SeesOK'
  <1>1. /\ call[c] \in Call /\ call[c].at = "embed" /\ call[c].listed = {} /\ Unsaved
        /\ call' = [Interferes(c) EXCEPT ![c] = [Interferes(c)[c] EXCEPT !.at = "written"]]
        /\ \A f \in call[c].seen : Past(f[2]) /\ SeesNow(call[c], f)
    BY SeesKnown DEF WriteIndex, At
  <1> DEFINE r == [call[c] EXCEPT !.at = "written"]
  <1>2. r.at = "written" /\ r.seen = call[c].seen /\ r.entries = call[c].entries
    BY <1>1 DEF Call
  <1>3. call'[c] = r /\ \A d \in Callers \ {c} : call'[d] = Interferes(c)[d]
    BY <1>1, InterferedForget
  <1> HIDE DEF r
  <1>4. \A f \in call'[c].seen : Past(f[2]) /\ SeesNow(call[c], f)'
    BY <1>1, <1>2, <1>3 DEF SeesNow, Held, Unsaved
  <1>5. \A d \in Callers \ {c} :
          /\ call'[d].at = call[d].at /\ call'[d].v = call[d].v
          /\ \/ call'[d].seen = {}
             \/ call'[d] = call[d] /\ (index' = index \/ call[d].at # "reread")
    BY <1>3, InterferedForget
  <1> QED BY <1>1, <1>2, <1>3, <1>4, <1>5, SeesStep DEF Unsaved

LEMMA WrittenSees == ASSUME IInv, SeesOK, NEW c \in Callers, Written(c) PROVE SeesOK'
  <1>1. /\ call[c] \in Call /\ call[c].at = "written" /\ Unsaved
        /\ index' = [model |-> call[c].model, entries |-> call[c].entries]
        /\ \A f \in call[c].seen : Past(f[2]) /\ SeesNow(call[c], f)
    BY SeesKnown DEF Written, At
  <1> DEFINE r == IF call[c].kind = "index" THEN Done(c, "answered")
                  ELSE [call[c] EXCEPT !.at = "reread", !.entries = {}]
  <1>2. /\ r.at \in {"idle", "reread"} /\ r.seen \subseteq call[c].seen
    BY <1>1 DEF Call, Done, Idle
  <1>3. call'[c] = r /\ \A d \in Callers \ {c} : call'[d] = Interferes(c)[d]
    BY <1>1, InterferedForget DEF Written, Call
  <1> HIDE DEF r
  <1>4. index'.entries = call[c].entries
    BY <1>1
  <1>5. ASSUME NEW f \in call'[c].seen, Held(f)'
        PROVE  disk[f[1]].is \in {"text", "plain"} /\ Covered(f, call[c].entries)
    BY <1>1, <1>2, <1>3, <1>5 DEF SeesNow, Held, Unsaved
  <1>6. \A f \in call'[c].seen : Past(f[2]) /\ SeesNow(call[c], f)'
    BY <1>1, <1>2, <1>3, <1>4, <1>5 DEF SeesNow, Unsaved, Covered
  <1>7. \A d \in Callers \ {c} :
          /\ call'[d].at = call[d].at /\ call'[d].v = call[d].v
          /\ \/ call'[d].seen = {}
             \/ call'[d] = call[d] /\ (index' = index \/ call[d].at # "reread")
    BY <1>3, InterferedForget
  <1> QED BY <1>1, <1>2, <1>3, <1>6, <1>7, SeesStep DEF Unsaved

LEMMA RereadSees == ASSUME IInv, SeesOK, NEW c \in Callers, Reread(c) PROVE SeesOK'
  <1>1. /\ call[c] \in Call /\ Unsaved /\ index' = index /\ call[c].at = "reread"
        /\ \A f \in call[c].seen : Past(f[2]) /\ SeesNow(call[c], f)
    BY SeesKnown DEF Reread, At
  <1>2. CASE Throws(c)
    BY <1>1, <1>2, Forgets
  <1>3. CASE ~Throws(c)
    <2> DEFINE r == [call[c] EXCEPT !.at = "rank", !.entries = index.entries]
    <2>1. r.at = "rank" /\ r.seen = call[c].seen /\ r.entries = index.entries
      BY <1>1 DEF Call
    <2>2. call' = [call EXCEPT ![c] = r]
      BY <1>1, <1>3 DEF Reread, Call, IInv, TypeOK
    <2> HIDE DEF r
    <2>3. \A f \in r.seen : Past(f[2]) /\ SeesNow(r, f)
      BY <1>1, <2>1 DEF SeesNow
    <2> QED BY <1>1, <2>1, <2>2, <2>3, SeesBecomes
  <1> QED BY <1>2, <1>3

LEMMA AnsweringSees ==
    ASSUME IInv, SeesOK, NEW c \in Callers, Rank(c) \/ Keyword(c) \/ Chat(c) PROVE SeesOK'
  <1>1. Unsaved /\ index' = index
    BY DEF Rank, Keyword, Chat
  <1>2. \/ Throws(c)
        \/ \E found : Sources(c, found)
        \/ \E result : Answer(c, result)
        \/ \E place \in {"keyword", "chat"} : Beyond(c, place)
    BY DEF Rank, Keyword, Chat
  <1> QED BY <1>1, <1>2, Forgets

\* The files change: no note gets a number that a request saw.
LEMMA FilesSee ==
    ASSUME IInv, SeesOK, index' = index,
           \A v : Past(v) => Past(v)',
           \A f \in Version : Past(f[2]) /\ Held(f)' =>
               Held(f) /\ (disk'[f[1]].is = disk[f[1]].is \/ disk'[f[1]].is = "plain"),
           \A d \in Callers : \/ call'[d].seen = {}
                              \/ /\ call'[d].seen = call[d].seen /\ call'[d].at = call[d].at
                                 /\ call'[d].listed = call[d].listed /\ call'[d].entries = call[d].entries
    PROVE  SeesOK'
  <1> SUFFICES ASSUME NEW d \in Callers, NEW f \in call'[d].seen
               PROVE  Past(f[2])' /\ SeesNow(call[d], f)'
      BY DEF SeesOK, Sees
  <1>1. /\ call'[d].seen = call[d].seen /\ call'[d].at = call[d].at
        /\ call'[d].listed = call[d].listed /\ call'[d].entries = call[d].entries
    OBVIOUS
  <1>2. f \in Version /\ Past(f[2]) /\ SeesNow(call[d], f)
    BY <1>1 DEF IInv, TypeOK, Call, SeesOK, Sees
  <1>3. Held(f)' => Held(f) /\ (disk'[f[1]].is = disk[f[1]].is \/ disk'[f[1]].is = "plain")
    BY <1>2
  <1> QED BY <1>1, <1>2, <1>3 DEF SeesNow

LEMMA BrokenSees ==
    ASSUME IInv, NEW d \in Callers
    PROVE  /\ Broken(d).seen = call[d].seen /\ Broken(d).at = call[d].at /\ Broken(d).v = call[d].v
           /\ Broken(d).listed = call[d].listed /\ Broken(d).entries = call[d].entries
  <1>1. call[d] \in Call
    BY DEF IInv, TypeOK
  <1> QED BY <1>1 DEF Broken, Call

LEMMA SaveSees ==
    ASSUME IInv, SeesOK, NEW c \in Callers, NEW t \in Titles, SaveMarkdown(c, t) PROVE SeesOK'
  <1> DEFINE v == used.saves + 1
             name == <<now, t>>
             r == [Idle EXCEPT !.at = "writing", !.name = name, !.v = v]
  <1>1. /\ used.saves \in Nat /\ used'.saves = v /\ v \notin 0 .. used.saves
        /\ \A w \in 0 .. used.saves : w \in 0 .. v
    BY VaultAssumption DEF SaveMarkdown, IInv, TypeOK
  <1>2. disk' = [disk EXCEPT ![name] = [v |-> v, is |-> "torn"]] /\ index' = index
    BY DEF SaveMarkdown
  <1>3. r.seen = {} /\ r.v = v
    BY DEF Idle
  <1>4. call' = [d \in Callers |-> IF d = c THEN r ELSE Broken(d)]
    BY DEF SaveMarkdown
  <1>5. \A n \in Names : /\ n = name => disk'[n].v = v
                         /\ n # name => disk'[n] = disk[n]
    BY <1>2 DEF IInv, TypeOK
  <1> HIDE DEF v, name, r
  <1>6. \A w : Past(w) => w # v /\ Past(w)'
    BY <1>1, <1>3, <1>4, BrokenSees DEF Past
  <1>7. \A f \in Version : Past(f[2]) /\ Held(f)' => Held(f) /\ disk'[f[1]].is = disk[f[1]].is
    <2>1. \A f \in Version : f[1] \in Names
      BY DEF Version
    <2> QED BY <1>5, <1>6, <2>1 DEF Held
  <1> QED BY <1>2, <1>3, <1>4, <1>6, <1>7, BrokenSees, FilesSee

LEMMA SavedSees == ASSUME IInv, SeesOK, NEW c \in Callers, Saved(c) PROVE SeesOK'
  <1> DEFINE name == call[c].name
             v == call[c].v
  <1>1. call[c].at = "writing" /\ UNCHANGED <<now, index, up, used>>
    BY DEF Saved, At
  <1>2. PICK body \in {"text", "empty", "torn"} :
          /\ disk' = [disk EXCEPT ![name] = [v |-> v, is |-> body]]
          /\ call' = [d \in Callers |-> IF d = c THEN Idle
                                        ELSE IF body = "torn" THEN Broken(d) ELSE call[d]]
    BY DEF Saved
  <1>3. \A n \in Names : /\ n = name => disk'[n].v = v
                         /\ n # name => disk'[n] = disk[n]
    BY <1>2 DEF IInv, TypeOK
  <1>4. Idle.seen = {} /\ Idle.at = "idle"
    BY DEF Idle
  <1> HIDE DEF v, name
  <1>5. \A w : Past(w) => w # v /\ Past(w)'
    BY <1>1, <1>2, <1>4, BrokenSees DEF Past, v
  <1>6. \A f \in Version : Past(f[2]) /\ Held(f)' => Held(f) /\ disk'[f[1]].is = disk[f[1]].is
    <2>1. \A f \in Version : f[1] \in Names
      BY DEF Version
    <2> QED BY <1>3, <1>5, <2>1 DEF Held
  <1> QED BY <1>1, <1>2, <1>4, <1>5, <1>6, BrokenSees, FilesSee

LEMMA EditedSees == ASSUME IInv, SeesOK, NEW n \in Names, Edited(n) PROVE SeesOK'
  <1>1. /\ disk' = [disk EXCEPT ![n].is = "plain"] /\ index' = index
        /\ call' = [c \in Callers |-> Broken(c)] /\ used'.saves = used.saves
    BY DEF Edited, Fault, IInv, TypeOK
  <1>2. \A w : Past(w) => Past(w)'
    BY <1>1, BrokenSees DEF Past
  <1>3. \A f \in Version : Past(f[2]) /\ Held(f)' =>
            Held(f) /\ (disk'[f[1]].is = disk[f[1]].is \/ disk'[f[1]].is = "plain")
    <2>1. \A x \in Names : /\ disk'[x].v = disk[x].v
                           /\ x = n => disk'[x].is = "plain"
                           /\ x # n => disk'[x] = disk[x]
      BY <1>1 DEF IInv, TypeOK
    <2>2. \A f \in Version : f[1] \in Names
      BY DEF Version
    <2> QED BY <2>1, <2>2 DEF Held
  <1> QED BY <1>1, <1>2, <1>3, BrokenSees, FilesSee

LEMMA NextSees == IInv /\ SeesOK /\ [Next]_vars => SeesOK'
  <1> SUFFICES ASSUME IInv, SeesOK, [Next]_vars PROVE SeesOK'
      OBVIOUS
  <1>1. CASE \E c \in Callers : Handle(c)
    BY <1>1, SavedSees, ReadUsableSees, MatchSees, SyncReadSees, SyncListSees, EmbedSees,
       WriteIndexSees, WrittenSees, RereadSees, AnsweringSees DEF Handle
  <1>2. CASE \E c \in Callers : Request(c)
    <2>1. Routes \subseteq {"usable", "chat"}
      BY DEF Routes
    <2> QED BY <1>2, <2>1, SaveSees, BeginSees DEF Request, Index, SemanticSearch, AskVault, Query
  <1>3. CASE UNCHANGED <<disk, index, call>> /\ used'.saves = used.saves
    BY <1>3 DEF SeesOK, Sees, SeesNow, Past, Held
  <1>4. CASE Tick \/ Ollama \/ UNCHANGED vars
    <2>1. UNCHANGED <<disk, index, call>> /\ used'.saves = used.saves
      BY <1>4 DEF Tick, Ollama, Fault, vars, IInv, TypeOK
    <2> QED BY <1>3, <2>1
  <1>5. CASE Restart
    BY <1>5 DEF Restart, Idle, SeesOK, Sees
  <1>6. CASE \E n \in Names : Edited(n)
    BY <1>6, EditedSees
  <1> QED BY <1>1, <1>2, <1>4, <1>5, <1>6 DEF Next

\* However many notes, models and requests there are, whoever saves and edits meanwhile: a search by
\* meaning that no other request writes the index beside compares the question with every note that
\* was there when it began and is as it was (vault.ensureUsableIndex, syncIndex, semanticSearch).
THEOREM VaultIsSeen == Spec => SearchSeesTheVault
  <1>1. Init => SeesOK
    BY DEF Init, Idle, SeesOK, Sees
  <1>2. SeesOK => [\A c \in Callers :
          call[c].at = "rank" /\ call[c].alone /\ call'[c].at # "rank" =>
              \A f \in call[c].seen :
                  disk[f[1]].v = f[2] => \E e \in call[c].entries : e.name = f[1] /\ e.text = f[2]]_vars
    BY DEF SeesOK, Sees, SeesNow, Held, Covered
  <1> QED BY <1>1, <1>2, SpecInvariant, NextSees, PTL DEF Spec, SearchSeesTheVault
=============================================================================
