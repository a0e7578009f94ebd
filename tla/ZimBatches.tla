------------------------------- MODULE ZimBatches -------------------------------
(****************************************************************************)
(* How an archive is cut into batches.  ZIMExtractionService walks the      *)
(* entries by path, skips the articles that earlier batches handled and     *)
(* collects the next ZIM_BATCH_SIZE; RagService.processZIMFile embeds them  *)
(* and decides from their number whether the archive has more; EmbedFileJob *)
(* moves the offset on by the same number.                                  *)
(****************************************************************************)
EXTENDS Naturals, Sequences, FiniteSets

CONSTANTS
    Archives,       \* the archives considered: sequences of kinds of entries
    BatchSize,      \* ZIM_BATCH_SIZE
    MaxFaults       \* BOUND: errors in one behaviour

\* An entry is an article with text, an article without, or no article (a redirect,
\* an image, a style sheet).
Kinds == {"text", "blank", "other"}

ASSUME ZimBatchesAssumption ==
    /\ Archives \subseteq Seq(Kinds)
    /\ BatchSize \in Nat \ {0}
    /\ MaxFaults \in Nat

VARIABLES
    archive,    \* the archive being embedded
    pc,         \* where the job of the current batch is
    offset,     \* batchOffset of that job
    pos,        \* next entry of archive.iterByPath()
    skipped,    \* articlesSkipped
    processed,  \* articlesProcessed
    found,      \* articles that contributed chunks to this batch
    left,       \* those of them still to be embedded
    copies,     \* entry -> times its chunks were stored
    dropped,    \* history: articles whose embedding returned null
    batches,    \* batches that have ended
    faults      \* errors so far

vars == <<archive, pc, offset, pos, skipped, processed, found, left, copies, dropped,
          batches, faults>>

Entries == 1 .. Len(archive)
IsArticle(p) == archive[p] # "other"
ArticlesBefore(p) == Cardinality({i \in Entries : i < p /\ IsArticle(i)})

TypeOK ==
    /\ archive \in Archives
    /\ pc \in {"idle", "walk", "embed", "done"}
    /\ offset \in Nat
    /\ pos \in 1 .. Len(archive) + 1
    /\ skipped \in 0 .. offset
    /\ processed \in 0 .. BatchSize
    /\ found \subseteq Entries
    /\ left \subseteq found
    /\ copies \in [Entries -> Nat]
    /\ dropped \subseteq Entries
    /\ batches \in Nat
    /\ faults \in 0 .. MaxFaults

Init ==
    /\ archive \in Archives
    /\ pc = "idle"
    /\ offset = 0
    /\ pos = 1 /\ skipped = 0 /\ processed = 0 /\ found = {} /\ left = {}
    /\ copies = [p \in Entries |-> 0]
    /\ dropped = {}
    /\ batches = 0
    /\ faults = 0
----------------------------------------------------------------------------
\* A job opens the archive for the batch at its offset.
Open ==
    /\ pc = "idle"
    /\ pc' = "walk"
    /\ pos' = 1 /\ skipped' = 0 /\ processed' = 0 /\ found' = {} /\ left' = {}
    /\ UNCHANGED <<archive, offset, copies, dropped, batches, faults>>

\* MUTANT of Skip: every entry counts, not only articles.
Skip_AllEntries ==
    /\ pc = "walk" /\ pos \in Entries /\ skipped < offset
    /\ skipped' = skipped + 1
    /\ pos' = pos + 1
    /\ UNCHANGED <<archive, pc, offset, processed, found, left, copies, dropped, batches,
                   faults>>

\* Until startOffset articles have gone by.
Skip ==
    /\ pc = "walk" /\ pos \in Entries /\ skipped < offset
    /\ skipped' = IF IsArticle(pos) THEN skipped + 1 ELSE skipped
    /\ pos' = pos + 1
    /\ UNCHANGED <<archive, pc, offset, processed, found, left, copies, dropped, batches,
                   faults>>

\* MUTANT of Collect: the batch has no limit.
Collect_NoLimit ==
    /\ pc = "walk" /\ pos \in Entries /\ skipped = offset
    /\ processed' = IF IsArticle(pos) THEN processed + 1 ELSE processed
    /\ found' = IF archive[pos] = "text" THEN found \cup {pos} ELSE found
    /\ left' = found'
    /\ pos' = pos + 1
    /\ UNCHANGED <<archive, pc, offset, skipped, copies, dropped, batches, faults>>

\* Articles count whether or not they have text; only text makes chunks.
Collect ==
    /\ pc = "walk" /\ pos \in Entries /\ skipped = offset
    /\ processed < BatchSize
    /\ processed' = IF IsArticle(pos) THEN processed + 1 ELSE processed
    /\ found' = IF archive[pos] = "text" THEN found \cup {pos} ELSE found
    /\ left' = found'
    /\ pos' = pos + 1
    /\ UNCHANGED <<archive, pc, offset, skipped, copies, dropped, batches, faults>>

WalkEnds ==
    /\ pc = "walk"
    /\ pos \notin Entries \/ (skipped = offset /\ processed = BatchSize)
    /\ pc' = "embed"
    /\ UNCHANGED <<archive, offset, pos, skipped, processed, found, left, copies, dropped,
                   batches, faults>>

\* embedAndStoreText, in order; null leaves the article out without an error.
Embed ==
    /\ pc = "embed"
    /\ \E p \in left :
         /\ \A q \in left : p <= q
         /\ left' = left \ {p}
         /\ \/ copies' = [copies EXCEPT ![p] = @ + 1] /\ UNCHANGED <<dropped, faults>>
            \/ /\ faults < MaxFaults /\ faults' = faults + 1
               /\ dropped' = dropped \cup {p}
               /\ UNCHANGED copies
    /\ UNCHANGED <<archive, pc, offset, pos, skipped, processed, found, batches>>

\* The archive cannot be read, Qdrant fails or the worker dies: the job is run again
\* with the offset it has.
Fail ==
    /\ pc \in {"walk", "embed"}
    /\ faults < MaxFaults
    /\ faults' = faults + 1
    /\ pc' = "idle"
    /\ UNCHANGED <<archive, offset, pos, skipped, processed, found, left, copies, dropped,
                   batches>>

\* What the end of a batch does when n is taken for the number of its articles.
EndsWith(n, more) ==
    /\ pc = "embed" /\ left = {}
    /\ batches' = batches + 1
    /\ offset' = IF more THEN offset + n ELSE offset
    /\ pc' = IF more THEN "idle" ELSE "done"
    /\ UNCHANGED <<archive, pos, skipped, processed, found, left, copies, dropped, faults>>

\* MUTANTS of BatchEnds: every article counts with two sections; a full batch is taken
\* for the last; the next batch is refused as a duplicate of the one that enqueues it.
BatchEnds_Sections == EndsWith(2 * Cardinality(found), 2 * Cardinality(found) >= BatchSize)
BatchEnds_Strict == EndsWith(Cardinality(found), Cardinality(found) > BatchSize)
BatchEnds_Duplicate == Cardinality(found) < BatchSize /\ EndsWith(Cardinality(found), FALSE)

\* articlesInBatch is the number of documents among the chunks.
BatchEnds == EndsWith(Cardinality(found), Cardinality(found) >= BatchSize)

Step == Open \/ Skip \/ Collect \/ WalkEnds \/ Embed \/ BatchEnds
Next == Step \/ Fail

Spec == Init /\ [][Next]_vars

\* The worker goes on with a job it holds.
FairSpec == Spec /\ WF_vars(Step)
----------------------------------------------------------------------------
(* Properties *)

\* Offsets are counted in found documents and skipped in articles, and the two agree:
\* every article with text among the first offset articles has been embedded, or its
\* embedding was dropped.
NothingSkipped ==
    \A p \in Entries :
        archive[p] = "text" /\ ArticlesBefore(p) < offset =>
            copies[p] > 0 \/ p \in dropped

\* The batches do not overlap: an article is stored more than once only because a
\* batch failed and was run again.
StoredOnce == \A p \in Entries : copies[p] <= 1 + faults

\* An archive all of whose articles have text is embedded to its end.
CompleteWithoutBlanks ==
    pc = "done" /\ (\A p \in Entries : archive[p] # "blank") =>
        \A p \in Entries : archive[p] = "text" => copies[p] > 0 \/ p \in dropped

\* Whatever the archive and the errors, the chain of batches comes to an end.
ChainEnds == <>(pc = "done")

\* The batches an archive has for the queue: one for every full batch of articles
\* with text from its beginning, and one more, which may be empty.
FullBatches(a, n) ==
    \E p \in 1 .. Len(a) + 1 :
        /\ Cardinality({i \in 1 .. p - 1 : a[i] # "other"}) = n * BatchSize
        /\ \A i \in 1 .. p - 1 : a[i] # "blank"
NumBatchesOf(a) == 1 + Cardinality({n \in 1 .. Len(a) : FullBatches(a, n)})

Chain == INSTANCE BatchChain WITH total <- NumBatchesOf(archive), over <- pc = "done"

\* EmbedQueue gives every archive a fixed number of batches, run in order; retries
\* and dropped embeddings do not change it.
RunsItsBatches == Chain!Spec

\* rag_service.ts:598-601 counts the "unique articles processed in this batch" and lets
\* that count decide whether there are more, so that a real archive is not cut off:
\* when the archive is reported as finished all of its articles have been embedded.
AllArticlesEmbedded ==
    pc = "done" =>
        \A p \in Entries : archive[p] = "text" => copies[p] > 0 \/ p \in dropped
============================================================================
