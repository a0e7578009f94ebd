------------------------------- MODULE ThinkTags -------------------------------
(****************************************************************************)
(* chatStream: what a model thinks comes between tags inside its answer,    *)
(* and the answer comes in chunks that may cut a tag anywhere. The parser   *)
(* holds back what may be the beginning of a tag.                           *)
(****************************************************************************)
EXTENDS Naturals, Sequences, FiniteSetsExt

CONSTANTS
    Symbol,         \* what a text is made of
    Open, Close,    \* the tags, texts that are not empty
    MaxStream,      \* BOUND: length of an answer
    MaxChunk        \* BOUND: length of a chunk

VARIABLES
    stream,         \* what has arrived
    tagBuffer, inThink, \* the state of the parser
    content, thinking   \* what it has passed on
vars == <<stream, tagBuffer, inThink, content, thinking>>

\* The tag that ends a part of the answer.
Tag(think) == IF think THEN Close ELSE Open

TypeOK ==
    /\ stream \in Seq(Symbol) /\ Len(stream) <= MaxStream
    /\ tagBuffer \in Seq(Symbol) /\ Len(tagBuffer) < Len(Tag(inThink))
    /\ inThink \in BOOLEAN /\ content \in Seq(Symbol) /\ thinking \in Seq(Symbol)

Init == stream = <<>> /\ tagBuffer = <<>> /\ inThink = FALSE /\ content = <<>> /\ thinking = <<>>

\* A tag fits at a place of a text, as far as the text goes, or is there as a whole.
Fits(tag, text, i) == \A k \in DOMAIN tag : i + k - 1 \in DOMAIN text => text[i + k - 1] = tag[k]
Begins(tag, text, i) == i + Len(tag) - 1 <= Len(text) /\ Fits(tag, text, i)

\* The first place where a tag begins, 0 if there is none.
IndexOf(tag, text) ==
    LET at == {i \in DOMAIN text : Begins(tag, text, i)} IN IF at = {} THEN 0 ELSE Min(at)

\* Mutant: a tag is not expected to be cut.
PartialTagSuffix_None(tag, text) == 0

\* How many symbols at the end of a text may be the beginning of a tag: the most.
PartialTagSuffix(tag, text) ==
    Max({n \in 0 .. Len(tag) - 1 : n <= Len(text) /\ Fits(tag, text, Len(text) + 1 - n)})

\* The loop body: up to the tag that ends the current part; without one, all but what is held.
Pass(p) ==
    LET tag == Tag(p.think)
        at == IndexOf(tag, p.buffer)
        n == IF at # 0 THEN at - 1 ELSE Len(p.buffer) - PartialTagSuffix(tag, p.buffer)
        part == SubSeq(p.buffer, 1, n)
        next == IF at # 0 THEN at + Len(tag) ELSE n + 1
    IN IF ~p.more THEN p
       ELSE [more |-> at # 0, think |-> IF at # 0 THEN ~p.think ELSE p.think,
             buffer |-> SubSeq(p.buffer, next, Len(p.buffer)),
             said |-> IF p.think THEN p.said ELSE p.said \o part,
             thought |-> IF p.think THEN p.thought \o part ELSE p.thought]

\* The loop: a pass that is not the last takes a tag away, so that a text has more symbols
\* than such passes.
Parse(p) ==
    LET after[k \in 0 .. Len(p.buffer) + 1] == IF k = 0 THEN p ELSE Pass(after[k - 1])
    IN after[Len(p.buffer) + 1]

Chunk(c) ==
    LET next == Parse([buffer |-> tagBuffer \o c, think |-> inThink, said |-> content,
                       thought |-> thinking, more |-> TRUE]) IN
    /\ Len(stream) + Len(c) <= MaxStream /\ stream' = stream \o c
    /\ tagBuffer' = next.buffer /\ inThink' = next.think
    /\ content' = next.said /\ thinking' = next.thought

Next == \E n \in 1 .. MaxChunk : \E c \in [1 .. n -> Symbol] : Chunk(c)
Spec == Init /\ [][Next]_vars
----------------------------------------------------------------------------
(* Properties *)

\* What the symbol at a place of a text adds to what was read before it: it is part of a tag
\* that has begun, a tag begins, or it is said or thought.
Read(text, i, before) ==
    IF before.skip > 0 THEN [before EXCEPT !.skip = @ - 1]
    ELSE IF Begins(Tag(before.think), text, i)
         THEN [before EXCEPT !.think = ~@, !.skip = Len(Tag(before.think)) - 1]
    ELSE IF before.think THEN [before EXCEPT !.thought = Append(@, text[i])]
    ELSE [before EXCEPT !.said = Append(@, text[i])]

\* A text as it is read from its beginning, without chunks.
Reading(text) ==
    LET state[i \in 0 .. Len(text)] ==
            IF i = 0 THEN [think |-> FALSE, skip |-> 0, said |-> <<>>, thought |-> <<>>]
            ELSE Read(text, i, state[i - 1])
    IN state[Len(text)]

\* What is passed on does not depend on how the answer was cut: it is the text without its
\* tags, thoughts apart, but for what is held back, and nothing is held that is no tag.
ChunksDoNotMatter ==
    LET whole == Reading(stream) IN
    /\ whole.said = content \o (IF inThink THEN <<>> ELSE tagBuffer)
    /\ whole.thought = thinking \o (IF inThink THEN tagBuffer ELSE <<>>)
    /\ Fits(Tag(inThink), tagBuffer, 1)
=============================================================================
