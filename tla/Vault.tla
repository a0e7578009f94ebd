--------------------------------- MODULE Vault ---------------------------------
(****************************************************************************)
(* The vault: Markdown notes in files, and a cache of their vectors in one  *)
(* more file, which a search brings up to date before it is used. Nothing   *)
(* locks either: requests interleave at every await, and the server may go  *)
(* down in the middle of a write, which truncates first.                    *)
(****************************************************************************)
EXTENDS Naturals, FiniteSets

CONSTANTS
    Titles,         \* names that notes are saved under
    Embedders,      \* embedding models
    Callers,        \* requests that are handled at the same time
    MaxSaves,       \* BOUND: notes saved, each by its number
    MaxFaults,      \* BOUND: restarts, notes edited elsewhere, times the local AI goes
    MaxCalls        \* BOUND: requests

ASSUME VaultAssumption ==
    {MaxSaves, MaxFaults, MaxCalls} \subseteq Nat /\ "none" \notin Embedders

VARIABLES
    now,            \* the second
    disk,           \* what each file of the vault is
    index,          \* what vectors.json holds, NoIndex where it cannot be read
    up,             \* the local AI answers
    call,           \* what each caller is doing
    used
vars == <<now, disk, index, up, call, used>>

Names == (0 .. 1) \X Titles
Absent == [v |-> 0, is |-> "absent"]
NoIndex == [model |-> "none", entries |-> {}]
Entry == [name: Names, v: 1 .. MaxSaves, text: 1 .. MaxSaves, model: Embedders]

Kinds == {"save", "index", "semantic", "ask", "query"}
Places == {"idle", "writing", "usable", "match", "sync", "list", "embed", "written", "reread",
           "rank", "keyword", "chat"}
Version == Names \X (1 .. MaxSaves)
Call == [at: Places, kind: Kinds, model: Embedders \cup {"none"}, force: BOOLEAN,
         name: Names \cup {<<>>}, v: 0 .. MaxSaves, listed: SUBSET Version,
         entries: SUBSET Entry, cached: BOOLEAN,
         result: {"none", "answered", "empty", "failed"}, seen: SUBSET Version,
         alone: BOOLEAN, broken: BOOLEAN]
Idle == [at |-> "idle", kind |-> "save", model |-> "none", force |-> FALSE, name |-> <<>>, v |-> 0,
         listed |-> {}, entries |-> {}, cached |-> FALSE, result |-> "none",
         seen |-> {}, alone |-> TRUE, broken |-> FALSE]

TypeOK ==
    /\ now \in 0 .. 1 /\ up \in BOOLEAN
    /\ disk \in [Names -> [v: 0 .. MaxSaves, is: {"absent", "text", "empty", "torn", "plain"}]]
    /\ index \in {NoIndex} \cup [model: Embedders, entries: SUBSET Entry]
    /\ call \in [Callers -> Call]
    /\ used \in [saves: 0 .. MaxSaves, faults: 0 .. MaxFaults, calls: 0 .. MaxCalls]

Init ==
    /\ now = 0 /\ disk = [n \in Names |-> Absent] /\ index = NoIndex /\ up = TRUE
    /\ call = [c \in Callers |-> Idle]
    /\ used = [saves |-> 0, faults |-> 0, calls |-> 0]

Files == {n \in Names : disk[n].is # "absent"}

\* Mutant: a name is listed of which there is no file.
Listing_Names == {<<n, disk[n].v>> : n \in Names}

\* The paths of the notes, with their time and size.
Listing == {<<n, disk[n].v>> : n \in Files}

\* A file that was not written to its end, or not by this server, cannot be decrypted.
Whole(n) == disk[n].is \in {"text", "empty"}
AllWhole == \A n \in Files : Whole(n)
Usable(m) == index.model = m
----------------------------------------------------------------------------
(* The assistant: what a prompt is about, and which model it goes to *)

\* A prompt, by the words in it that one of the patterns is about.
Prompts == SUBSET {"code", "bug", "notes", "search", "run", "why", "architecture", "quick"}

Classify(p) ==
    LET found == (IF p \cap {"code", "bug"} # {} THEN {"CODE"} ELSE {})
                 \cup (IF "notes" \in p THEN {"MEMORY"} ELSE {})
                 \cup (IF "search" \in p THEN {"RETRIEVAL"} ELSE {})
                 \cup (IF "run" \in p THEN {"TOOL"} ELSE {})
                 \cup (IF p \cap {"why", "architecture"} # {} THEN {"REASONING"} ELSE {})
    IN  IF found = {} THEN {"CHAT"} ELSE found

SelectModel(p) ==
    CASE "CODE" \in Classify(p) /\ p \cap {"bug", "architecture"} # {} -> "deepseek-coder-v2"
      [] "CODE" \in Classify(p) /\ p \cap {"bug", "architecture"} = {} -> "qwen2.5-coder:7b"
      [] "CODE" \notin Classify(p) /\ "architecture" \in p -> "llama3.1"
      [] Classify(p) = {"CHAT"} /\ "quick" \in p -> "mistral"
      [] OTHER -> "qwen2.5:7b"

ModelReason(p) ==
    CASE "CODE" \in Classify(p) -> "coder"
      [] "CODE" \notin Classify(p) /\ "REASONING" \in Classify(p) /\ SelectModel(p) = "llama3.1" -> "deep"
      [] SelectModel(p) = "mistral" -> "fast"
      [] OTHER -> "default"

ShouldRetrieve(p) == Classify(p) \cap {"MEMORY", "RETRIEVAL"} # {}
----------------------------------------------------------------------------
(* Requests begin and end *)

At(c, place) == call[c].at = place
To(c, place) == call' = [call EXCEPT ![c].at = place]
Unsaved == UNCHANGED <<now, disk, up, used>>

Seen == {<<n, disk[n].v>> : n \in {n \in Files : disk[n].is = "text"}}

Begin(c, k, m, force, place) ==
    /\ At(c, "idle") /\ used.calls < MaxCalls
    /\ call' = [call EXCEPT ![c] = [Idle EXCEPT !.at = place, !.kind = k, !.model = m, !.force = force,
                                                !.seen = IF place = "usable" THEN Seen ELSE {},
                                                !.broken = ~AllWhole]]
    /\ used' = [used EXCEPT !.calls = @ + 1]
    /\ UNCHANGED <<now, disk, index, up>>

Index(c, m, force) == Begin(c, "index", m, force, "sync")
SemanticSearch(c, m, force) == Begin(c, "semantic", m, force, "usable")
AskVault(c, m) == Begin(c, "ask", m, FALSE, "usable")

\* route: the memory is looked into for prompts that are about it, unless the request disables it.
Routes == {IF ShouldRetrieve(p) /\ ~disableMemory THEN "usable" ELSE "chat" : p \in Prompts, disableMemory \in BOOLEAN}
Query(c, m, route) == Begin(c, "query", m, FALSE, route)

\* What is left of an answered request, for the properties.
Done(c, result) == [Idle EXCEPT !.kind = call[c].kind, !.result = result, !.broken = call[c].broken]
Answer(c, result) == call' = [call EXCEPT ![c] = Done(c, result)]

\* The vectors have been done with.
Beyond(c, place) == call' = [call EXCEPT ![c] = [Done(c, "none") EXCEPT !.at = place]]

\* What is thrown on the way to the vectors ends an indexing; a search goes on with the words.
Throws(c) ==
    IF call[c].kind = "index" THEN Answer(c, "failed")
    ELSE Beyond(c, "keyword")
----------------------------------------------------------------------------
(* Saving a note: named after the second and the title, truncated and then written *)

Broken(c) == IF At(c, "idle") THEN call[c] ELSE [call[c] EXCEPT !.broken = TRUE]

SaveMarkdown(c, t) ==
    /\ At(c, "idle") /\ used.saves < MaxSaves
    /\ used' = [used EXCEPT !.saves = @ + 1]
    /\ disk' = [disk EXCEPT ![<<now, t>>] = [v |-> used.saves + 1, is |-> "torn"]]
    /\ call' = [d \in Callers |->
                  IF d = c THEN [Idle EXCEPT !.at = "writing", !.name = <<now, t>>, !.v = used.saves + 1]
                  ELSE Broken(d)]
    /\ UNCHANGED <<now, index, up>>

\* Of two writers of one file, which write in place, either may leave a mix that cannot be
\* read: the one that ends while the other writes, and the one that ends after it.
Meets(c) ==
    \/ \E d \in Callers \ {c} : At(d, "writing") /\ call[d].name = call[c].name
    \/ disk[call[c].name].v # call[c].v

Saved(c) ==
    /\ At(c, "writing")
    /\ \E body \in {"text", "empty"} \cup (IF Meets(c) THEN {"torn"} ELSE {}) :
        /\ disk' = [disk EXCEPT ![call[c].name] = [v |-> call[c].v, is |-> body]]
        /\ call' = [d \in Callers |-> IF d = c THEN Idle
                                      ELSE IF body = "torn" THEN Broken(d) ELSE call[d]]
    /\ UNCHANGED <<now, index, up, used>>
----------------------------------------------------------------------------
(* ensureUsableIndex and syncIndex *)

\* A cached index that is to be used, if there is one for the model.
ReadUsable(c) ==
    /\ At(c, "usable")
    /\ call' = [call EXCEPT ![c].at = "match",
                            ![c].entries = IF Usable(call[c].model) /\ ~call[c].force THEN index.entries ELSE {},
                            ![c].cached = Usable(call[c].model) /\ ~call[c].force]
    /\ UNCHANGED index /\ Unsaved

IndexMatchesFiles(entries, files) == {<<e.name, e.v>> : e \in entries} = files

\* The files are listed and read; the index is used as it was read if it has just these.
Match(c) ==
    /\ At(c, "match")
    /\ IF ~AllWhole THEN Throws(c)
       ELSE IF call[c].cached
               /\ IndexMatchesFiles(call[c].entries, Listing)
       THEN To(c, "rank")
       ELSE call' = [call EXCEPT ![c].at = "sync", ![c].entries = {}, ![c].cached = FALSE]
    /\ UNCHANGED index /\ Unsaved

\* Mutant: the vectors of another model are taken over.
SyncRead_AnyModel(c) ==
    /\ At(c, "sync")
    /\ call' = [call EXCEPT ![c].at = "list", ![c].entries = IF ~call[c].force THEN index.entries ELSE {}]
    /\ UNCHANGED index /\ Unsaved

SyncRead(c) ==
    /\ At(c, "sync")
    /\ call' = [call EXCEPT ![c].at = "list",
                            ![c].entries = IF Usable(call[c].model) /\ ~call[c].force THEN index.entries ELSE {}]
    /\ UNCHANGED index /\ Unsaved

\* Mutant: a cached entry is found by its file alone.
Cached_ByName(entries, files) == {e \in entries : \E f \in files : e.name = f[1]}

\* Vectors are taken over for a file with the same path, time and size.
Cached(entries, files) == {e \in entries : <<e.name, e.v>> \in files}

SyncList(c) ==
    /\ At(c, "list")
    /\ LET cached == Cached(call[c].entries, Listing)
       IN  IF ~AllWhole THEN Throws(c)
           ELSE call' = [call EXCEPT ![c].at = "embed", ![c].entries = cached,
                                     ![c].listed = {f \in Listing : \A e \in cached : e.name # f[1]}]
    /\ UNCHANGED index /\ Unsaved

\* The next file is read again, and embedded; a note without text has no vectors.
Embed(c) ==
    /\ At(c, "embed") /\ call[c].listed # {}
    /\ \E f \in call[c].listed :
        IF ~Whole(f[1]) \/ (disk[f[1]].is = "text" /\ ~up) THEN Throws(c)
        ELSE call' = [call EXCEPT
               ![c].listed = @ \ {f},
               ![c].entries = @ \cup IF disk[f[1]].is = "empty" THEN {}
                                     ELSE {[name |-> f[1], v |-> f[2], text |-> disk[f[1]].v,
                                            model |-> call[c].model]}]
    /\ UNCHANGED index /\ Unsaved

Interferes(c) == [d \in Callers |-> IF d = c \/ At(d, "idle") THEN call[d] ELSE [call[d] EXCEPT !.alone = FALSE, !.seen = {}]]

WriteIndex(c) ==
    /\ At(c, "embed") /\ call[c].listed = {}
    /\ index' = NoIndex /\ call' = [Interferes(c) EXCEPT ![c].at = "written"] /\ Unsaved

Written(c) ==
    /\ At(c, "written")
    /\ index' = [model |-> call[c].model, entries |-> call[c].entries]
    /\ call' = IF call[c].kind = "index" THEN [Interferes(c) EXCEPT ![c] = Done(c, "answered")]
               ELSE [Interferes(c) EXCEPT ![c].at = "reread", ![c].entries = {}]
    /\ Unsaved

\* A search uses what the file holds by now, whoever wrote it.
Reread(c) ==
    /\ At(c, "reread")
    /\ IF ~Usable(call[c].model) THEN Throws(c)
       ELSE call' = [call EXCEPT ![c].at = "rank", ![c].entries = index.entries]
    /\ UNCHANGED index /\ Unsaved
----------------------------------------------------------------------------
(* Answers *)

\* Mutant: what is found by words is not looked for.
Sources_NoFallback(c, found) ==
    Answer(c, IF found = {} THEN "empty" ELSE "failed")

\* What was found, by meaning or by words: the answer of a search, the context of an assistant.
\* Asked about the vault, the assistant says so when there is nothing.
Sources(c, found) ==
    IF call[c].kind = "query" THEN Beyond(c, "chat")
    ELSE IF found = {} THEN Answer(c, "empty")
    ELSE IF call[c].kind = "semantic" THEN Answer(c, "answered")
    ELSE Beyond(c, "chat")

\* The query is embedded and compared with every entry; nothing to compare with needs no embedding.
Rank(c) ==
    /\ At(c, "rank")
    /\ IF call[c].entries # {} /\ ~up THEN Throws(c)
       ELSE IF call[c].entries = {} /\ call[c].kind = "query" THEN Beyond(c, "keyword")
       ELSE Sources(c, call[c].entries)
    /\ UNCHANGED index /\ Unsaved

\* Every note is read again, now for the words. The assistant goes on without what cannot be read.
Keyword(c) ==
    /\ At(c, "keyword")
    /\ IF AllWhole THEN Sources(c, {n \in Files : disk[n].is = "text"})
       ELSE IF call[c].kind = "query" THEN Sources(c, {})
       ELSE Answer(c, "failed")
    /\ UNCHANGED index /\ Unsaved

\* The assistant answers; asked about the vault it gives the notes alone when there is no model.
Chat(c) ==
    /\ At(c, "chat")
    /\ Answer(c, IF up \/ call[c].kind = "ask" THEN "answered" ELSE "failed")
    /\ UNCHANGED index /\ Unsaved
----------------------------------------------------------------------------
(* The world *)

Fault == used.faults < MaxFaults /\ used' = [used EXCEPT !.faults = @ + 1]

Tick == now < 1 /\ now' = now + 1 /\ UNCHANGED <<disk, index, up, call, used>>

Ollama ==
    /\ IF up THEN Fault ELSE UNCHANGED used
    /\ up' = ~up /\ UNCHANGED <<now, disk, index, call>>

\* What was being written stays as it is.
Restart ==
    /\ Fault /\ \E c \in Callers : ~At(c, "idle")
    /\ call' = [c \in Callers |-> Idle] /\ UNCHANGED <<now, disk, index, up>>

\* A note is edited in Obsidian, which stores it as it is.
Edited(n) ==
    /\ Fault /\ disk[n].is \in {"text", "empty"}
    /\ disk' = [disk EXCEPT ![n].is = "plain"]
    /\ call' = [c \in Callers |-> Broken(c)]
    /\ UNCHANGED <<now, index, up>>

Request(c) ==
    \/ \E t \in Titles : SaveMarkdown(c, t)
    \/ \E m \in Embedders :
        \/ \E force \in BOOLEAN : Index(c, m, force) \/ SemanticSearch(c, m, force)
        \/ AskVault(c, m)
        \/ \E route \in Routes : Query(c, m, route)

Handle(c) ==
    \/ Saved(c) \/ ReadUsable(c) \/ Match(c) \/ SyncRead(c) \/ SyncList(c) \/ Embed(c)
    \/ WriteIndex(c) \/ Written(c) \/ Reread(c) \/ Rank(c) \/ Keyword(c) \/ Chat(c)

Next ==
    \/ \E c \in Callers : Request(c) \/ Handle(c)
    \/ Tick \/ Ollama \/ Restart \/ \E n \in Names : Edited(n)

Spec == Init /\ [][Next]_vars
----------------------------------------------------------------------------
(* Properties *)

\* The index holds vectors of its own model only, and a file that it takes to be unchanged has
\* the text that was embedded.
VectorsAreTrue ==
    \A e \in index.entries :
        /\ e.model = index.model
        /\ disk[e.name].v = e.v => e.text = e.v

\* A search by meaning that no other request interferes with sees every note that was there when
\* it began and is as it was.
SearchSeesTheVault ==
    [][\A c \in Callers :
        call[c].at = "rank" /\ call[c].alone /\ call'[c].at # "rank" =>
            \A f \in call[c].seen :
                disk[f[1]].v = f[2] => \E e \in call[c].entries : e.name = f[1] /\ e.text = f[2]]_vars

\* Only a note that cannot be read, at some time while the question is handled, makes a search or
\* a question about the vault fail: without the local AI it answers from the words.
OnlyBrokenNotesFail ==
    \A c \in Callers :
        call[c].result = "failed" /\ call[c].kind \in {"semantic", "ask"} => call[c].broken

\* The reason that is given fits the model that is selected.
ReasonTellsModel ==
    \A p \in Prompts :
        /\ ModelReason(p) = "coder" <=> SelectModel(p) \in {"deepseek-coder-v2", "qwen2.5-coder:7b"}
        /\ ModelReason(p) = "deep" <=> SelectModel(p) = "llama3.1"
        /\ ModelReason(p) = "fast" <=> SelectModel(p) = "mistral"

\* What the index, an answer and a reason say is so.
AnswersAreTrue == VectorsAreTrue /\ OnlyBrokenNotesFail /\ ReasonTellsModel
=============================================================================
