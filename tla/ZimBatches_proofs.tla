--------------------------- MODULE ZimBatches_proofs ---------------------------
(****************************************************************************)
(* Proofs about ZimBatches, for all archives, batch sizes and errors.       *)
(****************************************************************************)
EXTENDS ZimBatches, FiniteSetTheorems, TLAPS

(* Counting articles *)

Before(p) == {i \in Entries : i < p /\ IsArticle(i)}

LEMMA BeforeFinite ==
  ASSUME archive \in Seq(Kinds), NEW p \in Nat
  PROVE  IsFiniteSet(Before(p)) /\ ArticlesBefore(p) \in Nat
         /\ ArticlesBefore(p) = Cardinality(Before(p))
  <1>1. Len(archive) \in Nat
    OBVIOUS
  <1>2. IsFiniteSet(Entries)
    BY <1>1, FS_Interval DEF Entries
  <1>3. IsFiniteSet(Before(p))
    BY <1>2, FS_Subset DEF Before
  <1> QED
    BY <1>3, FS_CardinalityType DEF ArticlesBefore, Before

LEMMA CountNone ==
  ASSUME archive \in Seq(Kinds)
  PROVE  ArticlesBefore(1) = 0
  <1>1. Before(1) = {}
    BY DEF Before, Entries
  <1> QED
    BY <1>1, FS_EmptySet DEF ArticlesBefore, Before

LEMMA CountNext ==
  ASSUME archive \in Seq(Kinds), NEW p \in Entries
  PROVE  ArticlesBefore(p + 1) = IF IsArticle(p) THEN ArticlesBefore(p) + 1
                                 ELSE ArticlesBefore(p)
  <1>1. p \in Nat /\ p + 1 \in Nat
    BY DEF Entries
  <1>2. CASE IsArticle(p)
    <2>1. Before(p + 1) = Before(p) \cup {p} /\ p \notin Before(p)
      BY <1>1, <1>2 DEF Before, Entries
    <2>2. Cardinality(Before(p) \cup {p}) = Cardinality(Before(p)) + 1
      BY <1>1, <2>1, BeforeFinite, FS_AddElement
    <2> QED
      BY <1>1, <1>2, <2>1, <2>2, BeforeFinite
  <1>3. CASE ~IsArticle(p)
    <2>1. Before(p + 1) = Before(p)
      BY <1>1, <1>3 DEF Before, Entries
    <2> QED
      BY <1>1, <1>3, <2>1, BeforeFinite
  <1> QED
    BY <1>2, <1>3

LEMMA CountMonotone ==
  ASSUME archive \in Seq(Kinds), NEW p \in Nat, NEW q \in Nat, p <= q
  PROVE  ArticlesBefore(p) <= ArticlesBefore(q)
  <1>1. Before(p) \subseteq Before(q)
    BY DEF Before, Entries
  <1> QED
    BY <1>1, BeforeFinite, FS_Subset

LEMMA CountStrict ==
  ASSUME archive \in Seq(Kinds), NEW p \in Entries, NEW q \in Nat, p < q, IsArticle(p)
  PROVE  ArticlesBefore(p) < ArticlesBefore(q)
  <1>1. p \in Nat /\ p + 1 \in Nat /\ p + 1 <= q
    BY DEF Entries
  <1>2. ArticlesBefore(p + 1) = ArticlesBefore(p) + 1
    BY CountNext
  <1>3. ArticlesBefore(p + 1) <= ArticlesBefore(q)
    BY <1>1, CountMonotone
  <1> QED
    BY <1>1, <1>2, <1>3, BeforeFinite

LEMMA CountRigid ==
  ASSUME archive' = archive
  PROVE  \A p : ArticlesBefore(p)' = ArticlesBefore(p)
  BY DEF ArticlesBefore, Entries, IsArticle
----------------------------------------------------------------------------
(* The inductive invariant *)

NoBlanks == \A p \in Entries : archive[p] # "blank"
Embedded(p) == copies[p] > 0 \/ p \in dropped

\* Where the walk is: it has passed the articles it skipped and those it counted, and
\* found the ones with text among the latter.
WalkOK ==
    pc \in {"walk", "embed"} =>
        /\ ArticlesBefore(pos) = skipped + processed
        /\ skipped < offset => processed = 0
        /\ \A p \in Entries :
              p \in found <=> p < pos /\ archive[p] = "text" /\ ArticlesBefore(p) >= offset
        /\ IsFiniteSet(found)
        /\ Cardinality(found) <= processed
        /\ NoBlanks => Cardinality(found) = processed

\* A batch is embedded only when its walk has ended, and what is no longer left of it
\* has been embedded.
EmbedOK ==
    /\ pc = "walk" => left = found
    /\ pc = "embed" =>
          /\ pos \notin Entries \/ (skipped = offset /\ processed = BatchSize)
          /\ \A p \in found \ left : Embedded(p)

\* Articles that this run of the batch has not embedded were stored at most once for
\* every run that failed.
OnceOK ==
    /\ StoredOnce
    /\ \A p \in Entries :
          /\ IsArticle(p) /\ ArticlesBefore(p) >= offset
          /\ pc \in {"idle", "walk"} \/ (pc = "embed" /\ (p \in left \/ p \notin found))
          => copies[p] <= faults

IInv == TypeOK /\ WalkOK /\ EmbedOK /\ NothingSkipped /\ OnceOK /\ CompleteWithoutBlanks

LEMMA ZimInit == Init => IInv
  <1> SUFFICES ASSUME Init PROVE IInv
    OBVIOUS
  <1>0. archive \in Seq(Kinds) /\ Len(archive) \in Nat
    BY ZimBatchesAssumption DEF Init
  <1>1. TypeOK
    BY <1>0, ZimBatchesAssumption DEF Init, TypeOK, Entries
  <1>2. WalkOK /\ EmbedOK /\ CompleteWithoutBlanks
    BY DEF Init, WalkOK, EmbedOK, CompleteWithoutBlanks
  <1>3. NothingSkipped
    <2>1. \A p \in Entries : ~(ArticlesBefore(p) < 0)
      BY <1>0, BeforeFinite DEF Entries
    <2> QED
      BY <2>1 DEF Init, NothingSkipped
  <1>4. OnceOK
    BY DEF Init, OnceOK, StoredOnce, Entries
  <1> QED
    BY <1>1, <1>2, <1>3, <1>4 DEF IInv

LEMMA ZimNext == IInv /\ [Next]_vars => IInv'
  <1> SUFFICES ASSUME IInv, [Next]_vars
               PROVE  IInv'
    OBVIOUS
  <1>0. /\ archive \in Seq(Kinds) /\ Len(archive) \in Nat
        /\ offset \in Nat /\ pos \in Nat /\ skipped \in Nat /\ processed \in Nat
        /\ BatchSize \in Nat \ {0}
        /\ processed + skipped \in Nat
        /\ \A p \in Entries : p \in Nat /\ ~(p < 1)
    BY ZimBatchesAssumption DEF IInv, TypeOK, Entries
  <1>a. \A p \in Nat : ArticlesBefore(p) \in Nat
    BY <1>0, BeforeFinite
  <1>b. archive' = archive => \A p : ArticlesBefore(p)' = ArticlesBefore(p)
    BY CountRigid
  <1>1. CASE Open
    <2>1. /\ archive' = archive /\ Entries' = Entries
          /\ UNCHANGED <<offset, copies, dropped, batches, faults>>
          /\ pc = "idle" /\ pc' = "walk"
          /\ pos' = 1 /\ skipped' = 0 /\ processed' = 0 /\ found' = {} /\ left' = {}
      BY <1>1 DEF Open, Entries
    <2>2. TypeOK'
      BY <1>0, <2>1 DEF IInv, TypeOK
    <2>3. WalkOK'
      <3>1. ArticlesBefore(1) = 0
        BY <1>0, CountNone
      <3>2. IsFiniteSet({}) /\ Cardinality({}) = 0
        BY FS_EmptySet
      <3> QED
        BY <1>0, <1>b, <2>1, <3>1, <3>2 DEF WalkOK
    <2>4. EmbedOK' /\ CompleteWithoutBlanks'
      BY <2>1 DEF EmbedOK, CompleteWithoutBlanks
    <2>5. NothingSkipped'
      BY <1>b, <2>1 DEF IInv, NothingSkipped
    <2>6. OnceOK'
      BY <1>b, <2>1 DEF IInv, OnceOK, StoredOnce, IsArticle
    <2> QED
      BY <2>2, <2>3, <2>4, <2>5, <2>6 DEF IInv
  <1>2. CASE Skip
    <2>1. /\ archive' = archive /\ Entries' = Entries
          /\ UNCHANGED <<pc, offset, processed, found, left, copies, dropped, batches, faults>>
          /\ pc = "walk" /\ pos \in Entries /\ skipped < offset /\ pos' = pos + 1
          /\ skipped' = IF IsArticle(pos) THEN skipped + 1 ELSE skipped
      BY <1>2 DEF Skip, Entries
    <2>2. TypeOK'
      BY <1>0, <2>1 DEF IInv, TypeOK, Entries
    <2>3. WalkOK'
      <3>0. /\ ArticlesBefore(pos) = skipped + processed /\ processed = 0
            /\ ArticlesBefore(pos + 1) = IF IsArticle(pos) THEN ArticlesBefore(pos) + 1
                                         ELSE ArticlesBefore(pos)
        BY <1>0, <2>1, CountNext DEF IInv, WalkOK
      <3>1. ArticlesBefore(pos + 1) = skipped' + processed
        BY <1>0, <2>1, <3>0
      <3>2. ArticlesBefore(pos) < offset
        BY <1>0, <2>1 DEF IInv, WalkOK
      <3>3. \A p \in Entries : p < pos + 1 <=> p < pos \/ p = pos
        BY <1>0
      <3>5. ~(ArticlesBefore(pos) >= offset)
        BY <1>0, <1>a, <3>2
      <3>4. \A p \in Entries : p \in found <=> p < pos + 1 /\ archive[p] = "text"
                                                /\ ArticlesBefore(p) >= offset
        BY <2>1, <3>3, <3>5 DEF IInv, WalkOK
      <3> QED
        BY <1>b, <2>1, <3>1, <3>4 DEF IInv, WalkOK, NoBlanks
    <2>4. EmbedOK' /\ CompleteWithoutBlanks'
      BY <2>1 DEF IInv, EmbedOK, CompleteWithoutBlanks
    <2>5. NothingSkipped'
      BY <1>b, <2>1 DEF IInv, NothingSkipped
    <2>6. OnceOK'
      BY <1>b, <2>1 DEF IInv, OnceOK, StoredOnce, IsArticle
    <2> QED
      BY <2>2, <2>3, <2>4, <2>5, <2>6 DEF IInv
  <1>3. CASE Collect
    <2>1. /\ archive' = archive /\ Entries' = Entries
          /\ UNCHANGED <<pc, offset, skipped, copies, dropped, batches, faults>>
          /\ pc = "walk" /\ pos \in Entries /\ skipped = offset /\ pos' = pos + 1
          /\ processed < BatchSize
          /\ processed' = IF IsArticle(pos) THEN processed + 1 ELSE processed
          /\ found' = IF archive[pos] = "text" THEN found \cup {pos} ELSE found
          /\ left' = found'
      BY <1>3 DEF Collect, Entries
    <2>2. TypeOK'
      BY <1>0, <2>1 DEF IInv, TypeOK, Entries
    <2>3. WalkOK'
      <3>0. /\ ArticlesBefore(pos) = skipped + processed
            /\ ArticlesBefore(pos + 1) = IF IsArticle(pos) THEN ArticlesBefore(pos) + 1
                                         ELSE ArticlesBefore(pos)
        BY <1>0, <2>1, CountNext DEF IInv, WalkOK
      <3>1. ArticlesBefore(pos + 1) = skipped + processed'
        BY <1>0, <2>1, <3>0
      <3>2. ArticlesBefore(pos) >= offset
        BY <1>0, <2>1 DEF IInv, WalkOK
      <3>3. \A p \in Entries : p < pos + 1 <=> p < pos \/ p = pos
        BY <1>0
      <3>4. \A p \in Entries : p \in found' <=> p < pos + 1 /\ archive[p] = "text"
                                                 /\ ArticlesBefore(p) >= offset
        BY <1>0, <2>1, <3>2, <3>3 DEF IInv, WalkOK
      <3>5. /\ IsFiniteSet(found) /\ Cardinality(found) \in Nat
            /\ Cardinality(found) <= processed
            /\ NoBlanks => Cardinality(found) = processed
        BY <2>1, FS_CardinalityType DEF IInv, WalkOK
      <3>6. pos \notin found
        BY <1>0, <2>1 DEF IInv, WalkOK
      <3>7. /\ IsFiniteSet(found \cup {pos})
            /\ Cardinality(found \cup {pos}) = Cardinality(found) + 1
        BY <3>5, <3>6, FS_AddElement
      <3>8. archive[pos] = "text" => IsArticle(pos)
        BY DEF IsArticle
      <3>9. NoBlanks /\ IsArticle(pos) => archive[pos] = "text"
        BY <1>0, <2>1 DEF NoBlanks, IsArticle, Kinds, Entries
      <3>10. /\ IsFiniteSet(found')
             /\ Cardinality(found') <= processed'
             /\ NoBlanks => Cardinality(found') = processed'
        BY <1>0, <2>1, <3>5, <3>7, <3>8, <3>9
      <3> QED
        BY <1>0, <1>b, <2>1, <3>1, <3>4, <3>10 DEF IInv, WalkOK, NoBlanks
    <2>4. EmbedOK' /\ CompleteWithoutBlanks'
      BY <2>1 DEF IInv, EmbedOK, CompleteWithoutBlanks
    <2>5. NothingSkipped'
      BY <1>b, <2>1 DEF IInv, NothingSkipped
    <2>6. OnceOK'
      BY <1>b, <2>1 DEF IInv, OnceOK, StoredOnce, IsArticle
    <2> QED
      BY <2>2, <2>3, <2>4, <2>5, <2>6 DEF IInv
  <1>4. CASE WalkEnds
    <2>1. /\ archive' = archive /\ Entries' = Entries
          /\ UNCHANGED <<offset, pos, skipped, processed, found, left, copies, dropped,
                         batches, faults>>
          /\ pc = "walk" /\ pc' = "embed"
          /\ pos \notin Entries \/ (skipped = offset /\ processed = BatchSize)
      BY <1>4 DEF WalkEnds, Entries
    <2>2. TypeOK'
      BY <2>1 DEF IInv, TypeOK
    <2>3. WalkOK'
      BY <1>b, <2>1 DEF IInv, WalkOK, NoBlanks
    <2>4. EmbedOK' /\ CompleteWithoutBlanks'
      BY <2>1 DEF IInv, EmbedOK, CompleteWithoutBlanks
    <2>5. NothingSkipped'
      BY <1>b, <2>1 DEF IInv, NothingSkipped
    <2>6. OnceOK'
      BY <1>b, <2>1 DEF IInv, OnceOK, StoredOnce, IsArticle
    <2> QED
      BY <2>2, <2>3, <2>4, <2>5, <2>6 DEF IInv
  <1>5. CASE Embed
    <2>1. PICK p \in left :
            /\ left' = left \ {p}
            /\ \/ copies' = [copies EXCEPT ![p] = copies[p] + 1] /\ UNCHANGED <<dropped, faults>>
               \/ /\ faults < MaxFaults /\ faults' = faults + 1
                  /\ dropped' = dropped \cup {p}
                  /\ UNCHANGED copies
      BY <1>5 DEF Embed
    <2>2. /\ archive' = archive /\ Entries' = Entries
          /\ UNCHANGED <<pc, offset, pos, skipped, processed, found, batches>>
          /\ pc = "embed"
      BY <1>5 DEF Embed, Entries
    <2>3. /\ p \in found /\ p \in Entries /\ copies \in [Entries -> Nat]
          /\ faults \in Nat /\ MaxFaults \in Nat /\ \A q \in Entries : copies[q] \in Nat
      BY <2>1, ZimBatchesAssumption DEF IInv, TypeOK
    <2>4. /\ \A q \in Entries : copies'[q] \in Nat /\ copies'[q] >= copies[q]
          /\ dropped \subseteq dropped' /\ faults' >= faults /\ faults' \in Nat
          /\ copies'[p] > 0 \/ p \in dropped'
          /\ \A q \in Entries \ {p} : copies'[q] = copies[q]
      BY <2>1, <2>3
    <2>5. TypeOK'
      BY <2>1, <2>2, <2>3 DEF IInv, TypeOK
    <2>6. WalkOK'
      BY <1>b, <2>2 DEF IInv, WalkOK, NoBlanks
    <2>7. \A q \in Entries : Embedded(q) => Embedded(q)'
      BY <2>3, <2>4 DEF Embedded
    <2>8. EmbedOK'
      <3>1. found \subseteq Entries
        BY DEF IInv, TypeOK
      <3> QED
        BY <2>1, <2>2, <2>4, <2>7, <3>1 DEF IInv, EmbedOK, Embedded
    <2>9. NothingSkipped'
      BY <1>b, <2>2, <2>7 DEF IInv, NothingSkipped, Embedded
    <2>10. CompleteWithoutBlanks'
      BY <2>2 DEF CompleteWithoutBlanks
    <2>11. OnceOK'
      <3>1. IsArticle(p) /\ ArticlesBefore(p) >= offset
        BY <2>2, <2>3 DEF IInv, WalkOK, IsArticle
      <3>2. copies[p] <= faults
        BY <2>1, <2>2, <2>3, <3>1 DEF IInv, OnceOK
      <3>3. StoredOnce'
        BY <2>1, <2>2, <2>3, <3>2 DEF IInv, OnceOK, StoredOnce
      <3>4. \A q \in Entries :
              q # p /\ IsArticle(q) /\ ArticlesBefore(q) >= offset
              /\ (q \in left \/ q \notin found) => copies'[q] <= faults'
        BY <2>2, <2>3, <2>4 DEF IInv, OnceOK
      <3> QED
        BY <1>b, <2>1, <2>2, <2>3, <3>3, <3>4 DEF OnceOK, IsArticle
    <2> QED
      BY <2>5, <2>6, <2>8, <2>9, <2>10, <2>11 DEF IInv
  <1>6. CASE BatchEnds
    <2> DEFINE more == Cardinality(found) >= BatchSize
    <2>1. /\ archive' = archive /\ Entries' = Entries
          /\ UNCHANGED <<pos, skipped, processed, found, left, copies, dropped, faults>>
          /\ pc = "embed" /\ left = {} /\ batches' = batches + 1
          /\ offset' = IF more THEN offset + Cardinality(found) ELSE offset
          /\ pc' = IF more THEN "idle" ELSE "done"
      BY <1>6 DEF BatchEnds, EndsWith, Entries
    <2>2. /\ IsFiniteSet(found) /\ Cardinality(found) \in Nat
          /\ Cardinality(found) <= processed /\ processed <= BatchSize
          /\ ArticlesBefore(pos) = skipped + processed
          /\ skipped < offset => processed = 0
          /\ skipped <= offset
      BY <1>0, <2>1, FS_CardinalityType DEF IInv, WalkOK, TypeOK
    <2>3. more => ArticlesBefore(pos) = offset'
      BY <1>0, <2>1, <2>2
    <2>4. \A p \in Entries : p \in found => Embedded(p)
      BY <2>1 DEF IInv, EmbedOK
    <2>5. \A p \in Entries : archive[p] = "text" /\ ArticlesBefore(p) < ArticlesBefore(pos)
                             => Embedded(p)
      <3> SUFFICES ASSUME NEW p \in Entries, archive[p] = "text",
                          ArticlesBefore(p) < ArticlesBefore(pos)
                   PROVE  Embedded(p)
        OBVIOUS
      <3>1. p < pos
        <4>1. SUFFICES ASSUME pos <= p PROVE FALSE
          BY <1>0
        <4>2. ArticlesBefore(pos) <= ArticlesBefore(p)
          BY <1>0, <4>1, CountMonotone
        <4> QED
          BY <1>0, <1>a, <4>2
      <3>2. CASE ArticlesBefore(p) < offset
        BY <3>2 DEF IInv, NothingSkipped, Embedded
      <3>3. CASE ArticlesBefore(p) >= offset
        BY <2>1, <2>4, <3>1, <3>3 DEF IInv, WalkOK
      <3> QED
        BY <1>0, <1>a, <3>2, <3>3
    <2>6. TypeOK'
      BY <1>0, <2>1, <2>2 DEF IInv, TypeOK
    <2>7. WalkOK' /\ EmbedOK'
      BY <2>1 DEF WalkOK, EmbedOK
    <2>8. NothingSkipped'
      BY <1>b, <2>1, <2>3, <2>5 DEF IInv, NothingSkipped, Embedded
    <2>9. CompleteWithoutBlanks'
      <3> SUFFICES ASSUME ~more, NoBlanks, NEW p \in Entries, archive[p] = "text"
                   PROVE  Embedded(p)
        BY <2>1 DEF CompleteWithoutBlanks, NoBlanks, Embedded
      <3>1. Cardinality(found) = processed
        BY <2>1 DEF IInv, WalkOK
      <3>2. pos \notin Entries
        BY <1>0, <2>1, <2>2, <3>1 DEF IInv, EmbedOK
      <3>3. p < pos
        BY <1>0, <3>2 DEF IInv, TypeOK, Entries
      <3>4. ArticlesBefore(p) < ArticlesBefore(pos)
        BY <1>0, <3>3, CountStrict DEF IsArticle
      <3> QED
        BY <2>5, <3>4
    <2>10. OnceOK'
      <3>1. StoredOnce'
        BY <2>1 DEF IInv, OnceOK, StoredOnce
      <3>2. ASSUME NEW p \in Entries, IsArticle(p), ArticlesBefore(p) >= offset', more
            PROVE  copies[p] <= faults
        <4>1. ~(p < pos)
          <5>1. SUFFICES ASSUME p < pos PROVE FALSE
            OBVIOUS
          <5>2. ArticlesBefore(p) < ArticlesBefore(pos)
            BY <1>0, <3>2, <5>1, CountStrict
          <5> QED
            BY <1>0, <1>a, <2>3, <3>2, <5>2
        <4>2. p \notin found
          BY <2>1, <4>1 DEF IInv, WalkOK
        <4>4. ArticlesBefore(p) \in Nat
          BY <1>0, <1>a
        <4>3. ArticlesBefore(p) >= offset
          BY <1>0, <2>1, <2>2, <3>2, <4>4
        <4> QED
          BY <2>1, <3>2, <4>2, <4>3 DEF IInv, OnceOK
      <3> QED
        BY <1>b, <2>1, <3>1, <3>2 DEF OnceOK, IsArticle
    <2> QED
      BY <2>6, <2>7, <2>8, <2>9, <2>10 DEF IInv
  <1>7. CASE Fail
    <2>1. /\ archive' = archive /\ Entries' = Entries
          /\ UNCHANGED <<offset, pos, skipped, processed, found, left, copies, dropped, batches>>
          /\ pc' = "idle" /\ faults' = faults + 1 /\ faults < MaxFaults
      BY <1>7 DEF Fail, Entries
    <2>2. TypeOK'
      BY <2>1, ZimBatchesAssumption DEF IInv, TypeOK
    <2>3. WalkOK' /\ EmbedOK' /\ CompleteWithoutBlanks'
      BY <2>1 DEF WalkOK, EmbedOK, CompleteWithoutBlanks
    <2>4. NothingSkipped'
      BY <1>b, <2>1 DEF IInv, NothingSkipped
    <2>5. faults \in Nat /\ \A p \in Entries : copies[p] \in Nat
      BY ZimBatchesAssumption DEF IInv, TypeOK
    <2>6. OnceOK'
      BY <1>b, <2>1, <2>5 DEF IInv, OnceOK, StoredOnce, IsArticle
    <2> QED
      BY <2>2, <2>3, <2>4, <2>6 DEF IInv
  <1>8. CASE UNCHANGED vars
    <2>1. /\ archive' = archive /\ Entries' = Entries
          /\ UNCHANGED <<pc, offset, pos, skipped, processed, found, left, copies, dropped,
                         batches, faults>>
      BY <1>8 DEF vars, Entries
    <2> QED
      BY <1>b, <2>1 DEF IInv, TypeOK, WalkOK, NoBlanks, EmbedOK, Embedded, NothingSkipped,
        OnceOK, StoredOnce, IsArticle, CompleteWithoutBlanks
  <1> QED
    BY <1>1, <1>2, <1>3, <1>4, <1>5, <1>6, <1>7, <1>8 DEF Next, Step

LEMMA ZimInductive == Spec => []IInv
  BY ZimInit, ZimNext, PTL DEF Spec

\* The walk and the counters of extractZIMContent stay within their bounds.
THEOREM ZimTypeCorrect == Spec => []TypeOK
  <1>1. IInv => TypeOK
    BY DEF IInv
  <1> QED
    BY <1>1, ZimInductive, PTL

\* For every archive, batch size and error: although offsets are counted in documents
\* that gave chunks and skipped in articles, no article is jumped over.
THEOREM NoArticleSkipped == Spec => []NothingSkipped
  <1>1. IInv => NothingSkipped
    BY DEF IInv
  <1> QED
    BY <1>1, ZimInductive, PTL

\* Successive batches of processZIMFile do not overlap: an article is stored again only
\* when a batch failed and was retried.
THEOREM NoArticleTwice == Spec => []StoredOnce
  <1>1. IInv => StoredOnce
    BY DEF IInv, OnceOK
  <1> QED
    BY <1>1, ZimInductive, PTL

\* When every article has text, hasMoreBatches is false only at the end of the archive.
THEOREM ArchiveCompleted == Spec => []CompleteWithoutBlanks
  <1>1. IInv => CompleteWithoutBlanks
    BY DEF IInv
  <1> QED
    BY <1>1, ZimInductive, PTL
----------------------------------------------------------------------------
(* An archive is a chain of batches, run in order *)

\* Counting full batches by position.
LEMMA FullIsCounted ==
  ASSUME archive \in Seq(Kinds), NEW n \in Nat
  PROVE  FullBatches(archive, n) <=>
            \E p \in 1 .. Len(archive) + 1 :
                /\ ArticlesBefore(p) = n * BatchSize
                /\ \A i \in Entries : i < p => archive[i] # "blank"
  <1>0. Len(archive) \in Nat
    OBVIOUS
  <1>1. ASSUME NEW p \in 1 .. Len(archive) + 1
        PROVE  {i \in 1 .. p - 1 : archive[i] # "other"} = Before(p)
    BY <1>0 DEF Before, Entries, IsArticle
  <1>2. ASSUME NEW p \in 1 .. Len(archive) + 1
        PROVE  Cardinality({i \in 1 .. p - 1 : archive[i] # "other"}) = ArticlesBefore(p)
    BY <1>1 DEF ArticlesBefore, Before
  <1>3. ASSUME NEW p \in 1 .. Len(archive) + 1
        PROVE  (\A i \in 1 .. p - 1 : archive[i] # "blank")
               <=> (\A i \in Entries : i < p => archive[i] # "blank")
    BY <1>0 DEF Entries
  <1> QED
    BY <1>2, <1>3 DEF FullBatches

\* Arithmetic of batch numbers.
LEMMA Multiples ==
  ASSUME NEW m \in Nat, NEW n \in Nat, BatchSize \in Nat
  PROVE  /\ m * BatchSize \in Nat /\ (m + 1) * BatchSize = m * BatchSize + BatchSize
         /\ m <= n => m * BatchSize <= n * BatchSize
  OBVIOUS

LEMMA Times ==
  ASSUME NEW n \in Nat, NEW k \in Nat, k >= 1
  PROVE  n <= n * k
  <1>1. PICK j \in Nat : k = 1 + j
    <2>1. k - 1 \in Nat /\ k = 1 + (k - 1)
      OBVIOUS
    <2> QED
      BY <2>1
  <1>2. n * (1 + j) = n + n * j /\ n * j \in Nat
    OBVIOUS
  <1> QED
    BY <1>1, <1>2

\* The articles behind an offset have text, unless the archive is over; a batch has fewer
\* documents than articles exactly when it has one without text; the offset stands at the end
\* of the full batches that were run.
NoBlankBehind == \A p \in Entries : ArticlesBefore(p) < offset => archive[p] # "blank"
NoBlankHere == \A p \in Entries : p < pos /\ ArticlesBefore(p) >= offset => archive[p] # "blank"
CountOK == pc \in {"walk", "embed"} => (Cardinality(found) = processed <=> NoBlankHere)
FullSoFar ==
    pc # "done" => /\ offset = batches * BatchSize
                   /\ \A n \in 1 .. batches : FullBatches(archive, n)
ChainIsRun == pc = "done" => batches = NumBatchesOf(archive)
ChainOK == NoBlankBehind /\ CountOK /\ FullSoFar /\ ChainIsRun

\* The numbers that a state has.
LEMMA Numbers ==
  ASSUME IInv
  PROVE  /\ archive \in Seq(Kinds) /\ Len(archive) \in Nat
         /\ offset \in Nat /\ pos \in Nat /\ skipped \in Nat /\ processed \in Nat
         /\ batches \in Nat /\ BatchSize \in Nat /\ BatchSize >= 1
         /\ \A p \in Entries : p \in Nat
         /\ \A p \in Nat : ArticlesBefore(p) \in Nat
  <1>1. archive \in Seq(Kinds)
    BY ZimBatchesAssumption DEF IInv, TypeOK
  <1>2. \A p \in Nat : ArticlesBefore(p) \in Nat
    BY <1>1, BeforeFinite
  <1>3. Len(archive) \in Nat
    BY <1>1
  <1>4. BatchSize \in Nat /\ BatchSize >= 1
    BY ZimBatchesAssumption
  <1>5. offset \in Nat /\ pos \in Nat /\ batches \in Nat
    BY <1>3 DEF IInv, TypeOK
  <1>6. skipped \in Nat /\ processed \in Nat
    BY <1>4, <1>5 DEF IInv, TypeOK
  <1>7. \A p \in Entries : p \in Nat
    BY <1>3 DEF Entries
  <1> QED
    BY <1>1, <1>2, <1>3, <1>4, <1>5, <1>6, <1>7

\* A batch is full when it has as many documents as it may have articles: then all before
\* where the walk stands has text.
LEMMA FullBatchEnds ==
  ASSUME IInv, ChainOK, pc = "embed", Cardinality(found) >= BatchSize
  PROVE  /\ offset + Cardinality(found) = (batches + 1) * BatchSize
         /\ ArticlesBefore(pos) = (batches + 1) * BatchSize
         /\ FullBatches(archive, batches + 1)
         /\ \A p \in Entries : ArticlesBefore(p) < ArticlesBefore(pos) => archive[p] # "blank"
  <1>0. offset = batches * BatchSize
    BY DEF ChainOK, FullSoFar
  <1>1. /\ IsFiniteSet(found) /\ Cardinality(found) \in Nat
        /\ Cardinality(found) <= processed /\ processed <= BatchSize
        /\ ArticlesBefore(pos) = skipped + processed
        /\ skipped < offset => processed = 0
        /\ skipped <= offset
        /\ BatchSize \in Nat /\ BatchSize >= 1 /\ offset \in Nat /\ skipped \in Nat
        /\ processed \in Nat
    BY Numbers, FS_CardinalityType DEF IInv, WalkOK, TypeOK
  <1>2. Cardinality(found) = processed /\ processed = BatchSize /\ skipped = offset
    BY <1>1
  <1>3. NoBlankHere
    BY <1>2 DEF ChainOK, CountOK
  <1>4. (batches + 1) * BatchSize = offset + BatchSize
    BY <1>0, Numbers, Multiples
  <1>5. ArticlesBefore(pos) = (batches + 1) * BatchSize
    BY <1>1, <1>2, <1>4, Numbers
  <1>6. ASSUME NEW p \in Entries, p < pos PROVE archive[p] # "blank"
    <2>1. p \in Nat /\ ArticlesBefore(p) \in Nat
      BY Numbers
    <2> QED
      BY <1>3, <1>6, <2>1, Numbers DEF ChainOK, NoBlankBehind, NoBlankHere
  <1>7. pos \in 1 .. Len(archive) + 1
    BY DEF IInv, TypeOK
  <1>8. FullBatches(archive, batches + 1)
    BY <1>5, <1>6, <1>7, Numbers, FullIsCounted
  <1>9. ASSUME NEW p \in Entries, ArticlesBefore(p) < ArticlesBefore(pos) PROVE p < pos
    <2>1. SUFFICES ASSUME pos <= p PROVE FALSE
      BY Numbers
    <2>2. ArticlesBefore(pos) <= ArticlesBefore(p)
      BY <2>1, Numbers, CountMonotone
    <2> QED
      BY <1>9, <2>2, Numbers
  <1> QED
    BY <1>1, <1>2, <1>4, <1>5, <1>6, <1>8, <1>9

\* There are no more full batches than entries.
LEMMA FullNeedsEntries ==
  ASSUME IInv, NEW n \in Nat, FullBatches(archive, n)
  PROVE  n <= Len(archive)
  <1>1. PICK p \in 1 .. Len(archive) + 1 : ArticlesBefore(p) = n * BatchSize
    BY Numbers, FullIsCounted
  <1>2. p \in Nat
    BY Numbers
  <1>3. Before(p) \subseteq Entries
    BY DEF Before
  <1>4. IsFiniteSet(Entries) /\ Cardinality(Entries) = Len(archive)
    <2>1. Len(archive) \in Nat
      BY Numbers
    <2>2. Entries = 1 .. Len(archive)
      BY DEF Entries
    <2> QED
      <3> DEFINE n1 == Len(archive)
      <3>1. n1 \in Nat /\ Entries = 1 .. n1
        BY <2>1, <2>2
      <3> HIDE DEF n1
      <3>2. IsFiniteSet(1 .. n1) /\ Cardinality(1 .. n1) = n1
        BY <3>1, FS_Interval
      <3> QED
        BY <3>1, <3>2 DEF n1
  <1>5. ArticlesBefore(p) = Cardinality(Before(p))
    BY <1>2, Numbers, BeforeFinite
  <1>6. n * BatchSize <= Len(archive)
    BY <1>1, <1>3, <1>4, <1>5, FS_Subset
  <1>7. n <= n * BatchSize
    <2>1. BatchSize \in Nat /\ BatchSize >= 1
      BY Numbers
    <2> QED
      BY <2>1, Times
  <1>8. n * BatchSize \in Nat /\ Len(archive) \in Nat
    BY Numbers, Multiples
  <1> QED
    BY <1>6, <1>7, <1>8

\* A batch that is not full is the last: there are no more full ones.
LEMMA LastBatchEnds ==
  ASSUME IInv, ChainOK, pc = "embed", Cardinality(found) < BatchSize
  PROVE  NumBatchesOf(archive) = batches + 1
  <1>0. /\ offset = batches * BatchSize
        /\ \A n \in 1 .. batches : FullBatches(archive, n)
    BY DEF ChainOK, FullSoFar
  <1>1. /\ IsFiniteSet(found) /\ Cardinality(found) \in Nat
        /\ Cardinality(found) <= processed /\ processed <= BatchSize
        /\ ArticlesBefore(pos) = skipped + processed
        /\ skipped <= offset
    BY Numbers, FS_CardinalityType DEF IInv, WalkOK, TypeOK
  <1>6. batches \in Nat /\ BatchSize \in Nat
    BY Numbers
  <1>a. (batches + 1) * BatchSize = offset + BatchSize
    BY <1>0, Numbers, Multiples
  <1>2. ASSUME NEW n \in Nat, n >= batches + 1, FullBatches(archive, n) PROVE FALSE
    <2>1. PICK p \in 1 .. Len(archive) + 1 :
            /\ ArticlesBefore(p) = n * BatchSize
            /\ \A i \in Entries : i < p => archive[i] # "blank"
      BY <1>2, Numbers, FullIsCounted
    <2>2. p \in Nat
      BY Numbers
    <2>3. n * BatchSize >= (batches + 1) * BatchSize
      <3>1. batches + 1 \in Nat /\ BatchSize \in Nat /\ batches + 1 <= n
        BY <1>2, <1>6
      <3> QED
        BY <3>1, Multiples
    <2>4. ArticlesBefore(p) >= offset + BatchSize
      BY <1>a, <2>1, <2>3
    <2>7. /\ ArticlesBefore(p) \in Nat /\ ArticlesBefore(pos) \in Nat
          /\ BatchSize \in Nat /\ offset \in Nat /\ skipped \in Nat /\ processed \in Nat
      BY <2>2, Numbers
    <2>5. CASE pos \notin Entries
      <3>1. p <= pos
        BY <2>5, Numbers DEF IInv, TypeOK, Entries
      <3>2. ArticlesBefore(p) <= ArticlesBefore(pos)
        BY <2>2, <3>1, Numbers, CountMonotone
      <3>3. processed = BatchSize /\ skipped = offset /\ ArticlesBefore(p) = ArticlesBefore(pos)
        BY <1>1, <2>4, <2>7, <3>2
      <3>4. ASSUME NEW i \in Entries, i < pos, archive[i] = "blank" PROVE FALSE
        <4>1. ~(i < p)
          BY <2>1, <3>4
        <4>2. ArticlesBefore(p) <= ArticlesBefore(i)
          BY <2>2, <4>1, Numbers, CountMonotone
        <4>3. ArticlesBefore(i) < ArticlesBefore(pos)
          BY <3>4, Numbers, CountStrict DEF IsArticle
        <4>4. ArticlesBefore(i) \in Nat
          BY Numbers
        <4> QED
          BY <2>7, <3>3, <4>2, <4>3, <4>4
      <3>5. Cardinality(found) = processed
        BY <3>4 DEF ChainOK, CountOK, NoBlankHere
      <3> QED
        BY <3>3, <3>5, Numbers
    <2>6. CASE skipped = offset /\ processed = BatchSize
      <3>1. ArticlesBefore(pos) <= ArticlesBefore(p)
        BY <1>1, <2>4, <2>6, <2>7
      <3>2. ASSUME NEW i \in Entries, i < pos, archive[i] = "blank" PROVE FALSE
        <4>1. ~(i < p)
          BY <2>1, <3>2
        <4>2. ArticlesBefore(p) <= ArticlesBefore(i)
          BY <2>2, <4>1, Numbers, CountMonotone
        <4>3. ArticlesBefore(i) < ArticlesBefore(pos)
          BY <3>2, Numbers, CountStrict DEF IsArticle
        <4>4. ArticlesBefore(i) \in Nat
          BY Numbers
        <4> QED
          BY <2>7, <3>1, <4>2, <4>3, <4>4
      <3>3. Cardinality(found) = processed
        BY <3>2 DEF ChainOK, CountOK, NoBlankHere
      <3> QED
        BY <2>6, <3>3, Numbers
    <2> QED
      BY <2>5, <2>6 DEF IInv, EmbedOK
  <1>3. batches <= Len(archive)
    <2>1. CASE batches = 0
      BY <2>1, Numbers
    <2>2. CASE batches # 0
      <3>1. batches \in 1 .. batches
        BY <1>6, <2>2
      <3> QED
        BY <1>0, <3>1, Numbers, FullNeedsEntries
    <2> QED
      BY <2>1, <2>2
  <1>4. {n \in 1 .. Len(archive) : FullBatches(archive, n)} = 1 .. batches
    <2>1. ASSUME NEW n \in 1 .. Len(archive), FullBatches(archive, n) PROVE n \in 1 .. batches
      BY <1>2, <2>1, Numbers
    <2>2. ASSUME NEW n \in 1 .. batches PROVE n \in 1 .. Len(archive) /\ FullBatches(archive, n)
      BY <1>0, <1>3, Numbers
    <2> QED
      BY <2>1, <2>2
  <1>5. Cardinality(1 .. batches) = batches
    BY Numbers, FS_Interval
  <1>7. NumBatchesOf(archive) = 1 + Cardinality(1 .. batches)
    BY <1>4 DEF NumBatchesOf
  <1> QED
    BY <1>5, <1>6, <1>7

\* A full batch is not the last of the archive.
LEMMA MoreToCome ==
  ASSUME IInv, ChainOK, pc = "embed", Cardinality(found) >= BatchSize
  PROVE  NumBatchesOf(archive) \in Nat /\ NumBatchesOf(archive) # batches + 1
  <1> DEFINE Full == {n \in 1 .. Len(archive) : FullBatches(archive, n)}
  <1>1. \A n \in 1 .. batches + 1 : FullBatches(archive, n)
    <2>1. FullBatches(archive, batches + 1)
      BY FullBatchEnds
    <2>2. \A n \in 1 .. batches : FullBatches(archive, n)
      BY DEF ChainOK, FullSoFar
    <2>3. \A n \in 1 .. batches + 1 : n \in 1 .. batches \/ n = batches + 1
      <3>1. batches \in Nat
        BY Numbers
      <3> QED
        BY <3>1
    <2> QED
      BY <2>1, <2>2, <2>3
  <1>2. batches + 1 <= Len(archive)
    BY FullBatchEnds, FullNeedsEntries, Numbers
  <1>3. 1 .. batches + 1 \subseteq Full
    BY <1>1, <1>2, Numbers
  <1>4. IsFiniteSet(Full) /\ Cardinality(Full) \in Nat
    <2>1. IsFiniteSet(1 .. Len(archive)) /\ Full \subseteq 1 .. Len(archive)
      BY Numbers, FS_Interval
    <2> QED
      BY <2>1, FS_Subset, FS_CardinalityType
  <1>5. Cardinality(1 .. batches + 1) = batches + 1
    BY Numbers, FS_Interval
  <1>6. batches \in Nat
    BY Numbers
  <1>7. NumBatchesOf(archive) = 1 + Cardinality(Full)
    BY DEF NumBatchesOf
  <1> HIDE DEF Full
  <1>8. Cardinality(1 .. batches + 1) <= Cardinality(Full)
    BY <1>3, <1>4, FS_Subset
  <1> QED
    BY <1>4, <1>5, <1>6, <1>7, <1>8

\* The invariant of the chain: it begins, and every step keeps it.
LEMMA ChainInit == Init => ChainOK
  <1> SUFFICES ASSUME Init PROVE ChainOK
    OBVIOUS
  <1>1. archive \in Seq(Kinds) /\ offset = 0 /\ batches = 0 /\ pc = "idle"
    BY ZimBatchesAssumption DEF Init
  <1>2. \A p \in Entries : ~(ArticlesBefore(p) < 0)
    BY <1>1, BeforeFinite DEF Entries
  <1>3. NoBlankBehind
    BY <1>1, <1>2 DEF NoBlankBehind
  <1>4. 0 = 0 * BatchSize
    BY ZimBatchesAssumption
  <1>5. 1 .. batches = {}
    BY <1>1
  <1> QED
    BY <1>1, <1>3, <1>4, <1>5 DEF ChainOK, CountOK, FullSoFar, ChainIsRun

\* Collecting an entry keeps the count, be it an article with text, one without, or none.
LEMMA CollectCounts ==
  ASSUME IInv, ChainOK, Collect
  PROVE  CountOK'
  <1>1. /\ archive' = archive /\ Entries' = Entries /\ offset' = offset /\ skipped = offset
        /\ pc = "walk" /\ pc' = "walk" /\ pos \in Entries /\ pos' = pos + 1
        /\ processed' = IF IsArticle(pos) THEN processed + 1 ELSE processed
        /\ found' = IF archive[pos] = "text" THEN found \cup {pos} ELSE found
    BY DEF Collect, Entries
  <1>2. \A p : ArticlesBefore(p)' = ArticlesBefore(p)
    BY <1>1, CountRigid
  <1>3. /\ IsFiniteSet(found) /\ Cardinality(found) \in Nat /\ Cardinality(found) <= processed
        /\ ArticlesBefore(pos) = skipped + processed
        /\ pos \notin found
    BY <1>1, Numbers, FS_CardinalityType DEF IInv, WalkOK
  <1>4. Cardinality(found \cup {pos}) = Cardinality(found) + 1
    BY <1>3, FS_AddElement
  <1>5. ArticlesBefore(pos) >= offset
    BY <1>1, <1>3, Numbers
  <1>6. \A p \in Entries : p < pos + 1 <=> p < pos \/ p = pos
    <2>1. pos \in Nat /\ \A p \in Entries : p \in Nat
      BY Numbers
    <2> QED
      BY <2>1
  <1>7. NoBlankHere' <=> NoBlankHere /\ archive[pos] # "blank"
    BY <1>1, <1>2, <1>5, <1>6 DEF NoBlankHere
  <1>8. Cardinality(found) = processed <=> NoBlankHere
    BY <1>1 DEF ChainOK, CountOK
  <1>9. archive[pos] \in Kinds /\ processed \in Nat
    BY <1>1, Numbers DEF Entries
  <1>10. CASE archive[pos] = "text"
    BY <1>1, <1>3, <1>4, <1>7, <1>8, <1>9, <1>10 DEF CountOK, IsArticle
  <1>11. CASE archive[pos] = "blank"
    BY <1>1, <1>3, <1>7, <1>9, <1>11 DEF CountOK, IsArticle
  <1>12. CASE archive[pos] = "other"
    BY <1>1, <1>7, <1>8, <1>12 DEF CountOK, IsArticle
  <1> QED
    BY <1>9, <1>10, <1>11, <1>12 DEF Kinds

LEMMA ChainNext == IInv /\ ChainOK /\ [Next]_vars => ChainOK'
  <1> SUFFICES ASSUME IInv, ChainOK, [Next]_vars PROVE ChainOK'
    OBVIOUS
  <1>a. archive' = archive => /\ Entries' = Entries /\ \A p : ArticlesBefore(p)' = ArticlesBefore(p)
                              /\ \A n : FullBatches(archive, n)' = FullBatches(archive, n)
                              /\ NumBatchesOf(archive)' = NumBatchesOf(archive)
    BY CountRigid DEF Entries, FullBatches, NumBatchesOf
  <1>1. CASE Open
    <2>1. /\ archive' = archive /\ UNCHANGED <<offset, batches>> /\ pc = "idle" /\ pc' = "walk"
          /\ pos' = 1 /\ processed' = 0 /\ found' = {}
      BY <1>1 DEF Open
    <2>2. Cardinality({}) = 0 /\ \A p \in Entries : ~(p < 1)
      BY FS_EmptySet, Numbers DEF Entries
    <2>3. CountOK'
      BY <1>a, <2>1, <2>2 DEF CountOK, NoBlankHere
    <2> QED
      BY <1>a, <2>1, <2>3 DEF ChainOK, NoBlankBehind, FullSoFar, ChainIsRun
  <1>2. CASE Skip
    <2>1. /\ archive' = archive /\ UNCHANGED <<pc, offset, batches, processed, found>>
          /\ pc = "walk" /\ pos \in Entries /\ skipped < offset /\ pos' = pos + 1
      BY <1>2 DEF Skip
    <2>2. ArticlesBefore(pos) = skipped + processed /\ processed = 0
      BY <2>1 DEF IInv, WalkOK
    <2>3. ~(ArticlesBefore(pos) >= offset)
      BY <2>1, <2>2, Numbers
    <2>4. \A p \in Entries : p < pos + 1 <=> p < pos \/ p = pos
      <3>1. pos \in Nat /\ \A p \in Entries : p \in Nat
        BY Numbers
      <3> QED
        BY <3>1
    <2>5. NoBlankHere' <=> NoBlankHere
      BY <1>a, <2>1, <2>3, <2>4 DEF NoBlankHere
    <2> QED
      BY <1>a, <2>1, <2>5 DEF ChainOK, CountOK, NoBlankBehind, FullSoFar, ChainIsRun
  <1>3. CASE Collect
    <2>1. archive' = archive /\ UNCHANGED <<pc, offset, batches>> /\ pc = "walk"
      BY <1>3 DEF Collect
    <2> QED
      BY <1>3, <1>a, <2>1, CollectCounts DEF ChainOK, NoBlankBehind, FullSoFar, ChainIsRun
  <1>4. CASE WalkEnds \/ Embed
    <2>1. /\ archive' = archive /\ UNCHANGED <<offset, batches, pos, processed, found>>
          /\ pc \in {"walk", "embed"} /\ pc' = "embed"
      BY <1>4 DEF WalkEnds, Embed
    <2> QED
      BY <1>a, <2>1 DEF ChainOK, CountOK, NoBlankHere, NoBlankBehind, FullSoFar, ChainIsRun
  <1>5. CASE BatchEnds
    <2> DEFINE more == Cardinality(found) >= BatchSize
    <2>1. /\ archive' = archive /\ pc = "embed" /\ batches' = batches + 1
          /\ offset' = IF more THEN offset + Cardinality(found) ELSE offset
          /\ pc' = IF more THEN "idle" ELSE "done"
      BY <1>5 DEF BatchEnds, EndsWith
    <2>2. CASE more
      <3>1. /\ offset' = ArticlesBefore(pos) /\ offset' = (batches + 1) * BatchSize
            /\ FullBatches(archive, batches + 1)
            /\ \A p \in Entries : ArticlesBefore(p) < ArticlesBefore(pos) => archive[p] # "blank"
        BY <2>1, <2>2, FullBatchEnds
      <3>2. \A n \in 1 .. batches + 1 : FullBatches(archive, n)
        <4>1. \A n \in 1 .. batches : FullBatches(archive, n)
          BY <2>1 DEF ChainOK, FullSoFar
        <4>2. batches \in Nat
          BY Numbers
        <4>3. \A n \in 1 .. batches + 1 : n \in 1 .. batches \/ n = batches + 1
          BY <4>2
        <4> QED
          BY <3>1, <4>1, <4>3
      <3>3. NoBlankBehind'
        BY <1>a, <2>1, <3>1 DEF NoBlankBehind
      <3> QED
        BY <1>a, <2>1, <2>2, <3>1, <3>2, <3>3 DEF ChainOK, CountOK, FullSoFar, ChainIsRun
    <2>3. CASE ~more
      <3>1. Cardinality(found) \in Nat /\ BatchSize \in Nat
        BY <2>1, Numbers, FS_CardinalityType DEF IInv, WalkOK
      <3>2. Cardinality(found) < BatchSize
        BY <2>3, <3>1
      <3>3. NumBatchesOf(archive) = batches + 1
        BY <2>1, <3>2, LastBatchEnds
      <3> QED
        BY <1>a, <2>1, <2>3, <3>3 DEF ChainOK, CountOK, NoBlankBehind, FullSoFar, ChainIsRun
    <2> QED
      BY <2>2, <2>3
  <1>6. CASE Fail
    <2>1. /\ archive' = archive /\ UNCHANGED <<offset, batches>>
          /\ pc \in {"walk", "embed"} /\ pc' = "idle"
      BY <1>6 DEF Fail
    <2> QED
      BY <1>a, <2>1 DEF ChainOK, CountOK, NoBlankBehind, FullSoFar, ChainIsRun
  <1>7. CASE UNCHANGED vars
    BY <1>a, <1>7 DEF vars, ChainOK, CountOK, NoBlankHere, NoBlankBehind, FullSoFar, ChainIsRun
  <1> QED
    BY <1>1, <1>2, <1>3, <1>4, <1>5, <1>6, <1>7 DEF Next, Step

\* A step of the archive is the end of a batch of the chain, or the chain sees nothing of it.
LEMMA ChainStep ==
  ASSUME IInv, ChainOK, [Next]_vars
  PROVE  [Chain!EndBatch]_(Chain!chainVars)
  <1>a. archive' = archive => NumBatchesOf(archive)' = NumBatchesOf(archive)
    BY DEF FullBatches, NumBatchesOf
  <1>1. CASE BatchEnds
    <2>1. /\ archive' = archive /\ pc = "embed" /\ batches' = batches + 1
          /\ pc' = IF Cardinality(found) >= BatchSize THEN "idle" ELSE "done"
      BY <1>1 DEF BatchEnds, EndsWith
    <2>2. Cardinality(found) \in Nat /\ BatchSize \in Nat
      BY <2>1, Numbers, FS_CardinalityType DEF IInv, WalkOK
    <2>3. CASE Cardinality(found) >= BatchSize
      <3>1. NumBatchesOf(archive) # batches + 1
        BY <2>1, <2>3, MoreToCome
      <3> QED
        BY <1>a, <2>1, <2>3, <3>1 DEF Chain!EndBatch
    <2>4. CASE Cardinality(found) < BatchSize
      <3>1. NumBatchesOf(archive) = batches + 1
        BY <2>1, <2>4, LastBatchEnds
      <3> QED
        BY <1>a, <2>1, <2>2, <2>4, <3>1 DEF Chain!EndBatch
    <2> QED
      BY <2>2, <2>3, <2>4
  <1>2. CASE Open \/ Skip \/ Collect \/ WalkEnds \/ Embed \/ Fail \/ UNCHANGED vars
    <2>1. archive' = archive /\ batches' = batches /\ (pc' = "done" <=> pc = "done")
      BY <1>2 DEF Open, Skip, Collect, WalkEnds, Embed, Fail, vars
    <2> QED
      BY <1>a, <2>1 DEF Chain!chainVars
  <1> QED
    BY <1>1, <1>2 DEF Next, Step

\* For every archive, batch size and errors, the extraction does what EmbedQueue takes it to do: an
\* archive has a number of batches that is known before the first, which are run in order, each
\* once, and the last of which ends the archive (zim_extraction_service.ts, rag_service.ts).
THEOREM ArchiveIsAChain == Spec => RunsItsBatches
  <1>1. Init => Chain!Init
    <2> SUFFICES ASSUME Init PROVE NumBatchesOf(archive) \in Nat \ {0} /\ Chain!Init
      OBVIOUS
    <2> DEFINE Full == {n \in 1 .. Len(archive) : FullBatches(archive, n)}
    <2>1. Len(archive) \in Nat
      BY ZimBatchesAssumption DEF Init
    <2>2. IsFiniteSet(1 .. Len(archive)) /\ Full \subseteq 1 .. Len(archive)
      BY <2>1, FS_Interval
    <2>3. NumBatchesOf(archive) = 1 + Cardinality(Full)
      BY DEF NumBatchesOf
    <2> HIDE DEF Full
    <2>4. Cardinality(Full) \in Nat
      BY <2>2, FS_Subset, FS_CardinalityType
    <2>5. NumBatchesOf(archive) \in Nat \ {0}
      BY <2>3, <2>4
    <2> QED
      BY <2>5 DEF Init, Chain!Init
  <1>2. IInv /\ ChainOK /\ [Next]_vars => [Chain!EndBatch]_(Chain!chainVars)
    BY ChainStep
  <1> QED
    BY <1>1, <1>2, ChainInit, ChainNext, ZimInductive, PTL DEF Spec, RunsItsBatches, Chain!Spec
=============================================================================
