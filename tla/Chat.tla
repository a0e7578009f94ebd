--------------------------------- MODULE Chat ---------------------------------
(****************************************************************************)
(* The chat: a page that shows one session at a time, the server that       *)
(* stores what is said and asks the model, and the models that the AI host  *)
(* keeps in memory. The page goes on while an answer streams: it may send,  *)
(* change the session or the model, and a chunk goes to what is shown.      *)
(****************************************************************************)
EXTENDS Naturals, Sequences, FiniteSets, SequencesExt

CONSTANTS
    Names,          \* chat models that are installed
    Largest,        \* the largest of them
    MaxSessions,    \* BOUND: sessions
    MaxSends,       \* BOUND: messages that are sent
    MaxMoves,       \* BOUND: changes of session or model, and suggestions
    MaxFaults       \* BOUND: failures and servers that die

VARIABLES
    session,    \* the table of sessions: "none", "there" or "gone"
    stored,     \* the table of messages of each session
    titled,     \* sessions that have a title of their own
    req,        \* what was sent
    page,       \* the page
    loads,      \* sessions whose messages are on their way to the page, each with the model
                \* that the page had when it asked for them
    loaded, leaving, hints, \* models in memory, those to be dropped, and requests to do so
    failed,     \* history: what was sent and not answered as a whole
    mixed,      \* history: the session was changed while something was under way
    used
vars == <<session, stored, titled, req, page, loads, loaded, leaving, hints, failed, mixed, used>>
memory == <<loaded, leaving, hints>>
tables == <<session, stored, titled>>

Sessions == 1 .. MaxSessions
Sends == 1 .. MaxSends
Message == {"user", "assistant", "error"} \X Sends
NoReq == [at |-> "none", sid |-> 0, ctx |-> {}, model |-> Largest]

TypeOK ==
    /\ session \in [Sessions -> {"none", "there", "gone"}] /\ titled \subseteq Sessions
    /\ \A s \in Sessions : stored[s] \in Seq(Message)
    /\ req \in [Sends -> [at: {"none", "create", "ask", "save", "model", "stream", "close", "title", "over"},
                          sid: 0 .. MaxSessions, ctx: SUBSET Sends, model: Names]]
    /\ page \in [active: 0 .. MaxSessions, shown: Seq(Message), waits: BOOLEAN,
                 blank: BOOLEAN, model: Names, pending: SUBSET Names]
    /\ loads \subseteq Sessions \X Names /\ loaded \subseteq Names /\ leaving \subseteq loaded
    /\ hints \subseteq Names /\ failed \subseteq Sends /\ mixed \in BOOLEAN
    /\ used \in [moves: 0 .. MaxMoves, faults: 0 .. MaxFaults]

\* The page has come up with a model, and asks to drop every other. That it is blank is
\* history: the messages of its session did not come.
Init ==
    /\ session = [s \in Sessions |-> "none"] /\ stored = [s \in Sessions |-> <<>>] /\ titled = {}
    /\ req = [r \in Sends |-> NoReq] /\ loads = {}
    /\ \E m \in Names :
          /\ page = [active |-> 0, shown |-> <<>>, waits |-> FALSE, blank |-> FALSE, model |-> m,
                      pending |-> {}]
          /\ hints = {m}
    /\ loaded = {} /\ leaving = {} /\ failed = {} /\ mixed = FALSE
    /\ used = [moves |-> 0, faults |-> 0]

Moves == used.moves < MaxMoves /\ used' = [used EXCEPT !.moves = @ + 1]
Fault == used.faults < MaxFaults /\ used' = [used EXCEPT !.faults = @ + 1]
Normally == UNCHANGED used

UnderWay == {r \in Sends : req[r].at \notin {"none", "title", "over"}}
Busy == UnderWay # {} \/ loads # {}
Changes == mixed' = (mixed \/ Busy)

\* The host loads a model that is asked, and takes back that it was to be dropped.
Asks(m) == loaded' = loaded \cup {m} /\ leaving' = leaving \ {m} /\ UNCHANGED hints

To(r, at) == req' = [req EXCEPT ![r].at = at]
Shows(m) == page' = [page EXCEPT !.shown = Append(@, m)]
----------------------------------------------------------------------------
(* The page sends *)

NewSession == IF \E s \in Sessions : session[s] = "none"
              THEN CHOOSE s \in Sessions : session[s] = "none" /\ \A t \in 1 .. s - 1 : session[t] # "none"
              ELSE 0

\* The form takes nothing while an answer has yet to begin.
Askable == ~page.waits

\* handleSendMessage: what is shown goes with the
\* message; without a session one is made first.
Send(r) ==
    /\ req[r].at = "none" /\ \A q \in 1 .. r - 1 : req[q].at # "none"
    /\ Askable
    /\ LET e == [at |-> "ask", sid |-> page.active, model |-> page.model,
                 ctx |-> {page.shown[i][2] : i \in DOMAIN page.shown}] IN
       IF page.active # 0
       THEN /\ req' = [req EXCEPT ![r] = e]
            /\ page' = [page EXCEPT !.shown = Append(@, <<"user", r>>), !.waits = TRUE]
       ELSE req' = [req EXCEPT ![r] = [e EXCEPT !.at = "create"]] /\ UNCHANGED page
    /\ mixed' = (mixed \/ loads # {} \/ \E q \in Sends : req[q].at = "create")
    /\ UNCHANGED <<tables, loads, memory, failed, used>>

\* The session is there, with the model of the page; the page goes to it.
Created(r) ==
    /\ req[r].at = "create"
    /\ \/ /\ NewSession # 0 /\ session' = [session EXCEPT ![NewSession] = "there"]
          /\ req' = [req EXCEPT ![r].at = "ask", ![r].sid = NewSession]
          /\ page' = [page EXCEPT !.active = NewSession, !.waits = TRUE,
                                  !.shown = Append(@, <<"user", r>>)]
          /\ UNCHANGED failed /\ Normally
       \/ /\ To(r, "over") /\ failed' = failed \cup {r} /\ Fault
          /\ UNCHANGED <<session, page>>
    /\ UNCHANGED <<stored, titled, loads, memory, mixed>>
----------------------------------------------------------------------------
(* The server answers *)

\* Mutant: an error leaves the page waiting.
Error_Waits(r) ==
    /\ To(r, "over") /\ failed' = failed \cup {r}
    /\ page' = [page EXCEPT
          !.shown = IF Contains(@, <<"assistant", r>>) THEN @ ELSE Append(@, <<"error", r>>)]

\* A request that fails is answered by an error; what has been shown of the answer stays,
\* and no answer is waited for, not even another.
Error(r) ==
    /\ To(r, "over") /\ failed' = failed \cup {r}
    /\ page' = [page EXCEPT !.waits = FALSE,
          !.shown = IF Contains(@, <<"assistant", r>>) THEN @ ELSE Append(@, <<"error", r>>)]

\* From the second turn on the model is asked to rewrite the question.
Rewrites(m) == Asks(m) \/ UNCHANGED memory

\* Documents are searched for it, and go into the prompt as far as the model has room.
Rewrite(r) ==
    /\ req[r].at = "ask" /\ To(r, "save") /\ Rewrites(req[r].model)
    /\ UNCHANGED <<tables, page, loads, failed, mixed>> /\ Normally

Stores(r, role) == stored' = [stored EXCEPT ![req[r].sid] = Append(@, <<role, r>>)]

\* Mutant: the message is stored when its answer has begun.
SaveUser_Later(r) ==
    /\ req[r].at = "save"
    /\ IF session[req[r].sid] = "there" THEN To(r, "model") /\ UNCHANGED <<stored, page, failed>>
       ELSE Error(r) /\ UNCHANGED stored
    /\ UNCHANGED <<session, titled, loads, memory, mixed>> /\ Normally

\* The message is stored, if its session is still there.
SaveUser(r) ==
    /\ req[r].at = "save"
    /\ IF session[req[r].sid] = "there"
       THEN To(r, "model") /\ Stores(r, "user") /\ UNCHANGED <<page, failed>>
       ELSE Error(r) /\ UNCHANGED stored
    /\ UNCHANGED <<session, titled, loads, memory, mixed>> /\ Normally

\* The first chunk is a message of what is shown, whichever session that is.
FirstChunk(r) ==
    /\ req[r].at = "model" /\ Asks(req[r].model)
    /\ To(r, "stream")
    /\ page' = [page EXCEPT !.shown = Append(@, <<"assistant", r>>), !.waits = FALSE]
    /\ UNCHANGED <<tables, loads, failed, mixed>> /\ Normally

ModelFails(r) ==
    /\ req[r].at \in {"model", "stream"} /\ Error(r) /\ Fault
    /\ UNCHANGED <<tables, loads, memory, mixed>>

EndStream(r) ==
    /\ req[r].at = "stream" /\ To(r, "close")
    /\ page' = [page EXCEPT !.waits = FALSE]
    /\ UNCHANGED <<tables, loads, memory, failed, mixed>> /\ Normally

\* The answer is stored after the page has it, unless it has no content or no session;
\* the first of a session brings it a title.
SaveAnswer(r) ==
    LET s == req[r].sid IN
    /\ req[r].at = "close"
    /\ \/ /\ session[s] = "there" /\ Stores(r, "assistant") /\ UNCHANGED failed
          /\ To(r, IF Len(stored[s]) + 1 <= 2 THEN "title" ELSE "over") /\ Normally
       \/ /\ session[s] # "there" /\ To(r, "over") /\ failed' = failed \cup {r}
          /\ UNCHANGED stored /\ Normally
       \/ /\ To(r, "over") /\ failed' = failed \cup {r} /\ UNCHANGED stored /\ Fault
    /\ UNCHANGED <<session, titled, page, loads, memory, mixed>>

\* generateTitle asks the model, or takes the beginning of the message.
Title(r) ==
    /\ req[r].at = "title" /\ To(r, "over") /\ Asks(req[r].model)
    /\ titled' = IF session[req[r].sid] = "there" THEN titled \cup {req[r].sid} ELSE titled
    /\ UNCHANGED <<session, stored, page, loads, failed, mixed>> /\ Normally

\* The server dies: the page sees the streams break off, and the messages that were on their
\* way do not come, which also takes away the errors shown before.
ServerDies ==
    LET broken == {<<"error", r>> : r \in {q \in UnderWay : req[q].at \in {"ask", "save", "model"}}} IN
    /\ Fault
    /\ req' = [r \in Sends |-> IF req[r].at \in {"none", "over"} THEN req[r] ELSE [req[r] EXCEPT !.at = "over"]]
    /\ failed' = failed \cup UnderWay
    /\ IF loads = {} THEN page' = [page EXCEPT !.waits = FALSE, !.shown = @ \o SetToSeq(broken)]
       ELSE \E errors \in SUBSET broken :
               page' = [page EXCEPT !.waits = FALSE, !.shown = SetToSeq(errors), !.blank = TRUE]
    /\ loads' = {} /\ hints' = hints \cup {l[2] : l \in loads}
    /\ UNCHANGED <<tables, loaded, leaving, mixed>>
----------------------------------------------------------------------------
(* The page moves *)

\* Mutant: the messages of the session before stay where they are.
Cleared_Keeps == [page EXCEPT !.active = 0, !.blank = FALSE]

\* handleNewChat: no session, and nothing shown.
Cleared == [page EXCEPT !.active = 0, !.shown = <<>>, !.blank = FALSE]

NewChat ==
    /\ Moves /\ page.active # 0 /\ page' = Cleared /\ Changes
    /\ UNCHANGED <<tables, req, loads, memory, failed>>

\* The list of sessions may be older than they are.
Selectable(s) == session[s] # "none" /\ s # page.active

\* handleSessionSelect: the session is active at once, its messages come later ...
Select(s) ==
    /\ Moves /\ Selectable(s)
    /\ page' = [page EXCEPT !.active = s] /\ loads' = loads \cup {<<s, page.model>>} /\ Changes
    /\ UNCHANGED <<tables, req, memory, failed>>

\* The model of a session is the one it was made with.
ModelOf(s) == LET r == CHOOSE r \in Sends : req[r].sid = s /\ \A q \in 1 .. r - 1 : req[q].sid # s
              IN req[r].model

\* ... and are shown when they do, whichever session that is; every model but that of the
\* session is to be dropped. Without an answer, or without the session, nothing is shown, the
\* session stays active, and the page goes by the model it had.
Loaded(l) ==
    /\ l \in loads /\ loads' = loads \ {l}
    /\ \/ /\ session[l[1]] = "there" /\ Normally
          /\ LET m == ModelOf(l[1]) IN
             /\ page' = [page EXCEPT !.shown = stored[l[1]], !.blank = FALSE, !.model = m]
             /\ hints' = hints \cup {m}
       \/ /\ \/ session[l[1]] # "there" /\ Normally
             \/ Fault
          /\ page' = [page EXCEPT !.shown = <<>>, !.blank = TRUE] /\ hints' = hints \cup {l[2]}
    /\ UNCHANGED <<tables, req, loaded, leaving, failed, mixed>>

\* A session is deleted with its messages, and with it every other.
DeleteAll ==
    /\ Moves /\ \E s \in Sessions : session[s] = "there"
    /\ session' = [s \in Sessions |-> IF session[s] = "there" THEN "gone" ELSE session[s]]
    /\ stored' = [s \in Sessions |-> <<>>] /\ page' = Cleared /\ Changes
    /\ UNCHANGED <<titled, req, loads, memory, failed>>

\* handleUserSelectedModel: at once without a session, after a question with one.
PickModel(m) ==
    /\ Moves /\ m # page.model
    /\ page' = IF page.active = 0 THEN [page EXCEPT !.model = m] ELSE [page EXCEPT !.pending = {m}]
    /\ UNCHANGED <<tables, req, loads, memory, failed, mixed>>

ConfirmSwitch ==
    /\ page.pending # {}
    /\ \E m \in page.pending :
          page' = [Cleared EXCEPT !.model = m, !.pending = {}] /\ hints' = hints \cup {m}
    /\ Changes
    /\ UNCHANGED <<tables, req, loads, loaded, leaving, failed>> /\ Normally

CancelSwitch ==
    /\ page.pending # {} /\ page' = [page EXCEPT !.pending = {}]
    /\ UNCHANGED <<tables, req, loads, memory, failed, mixed>> /\ Normally

\* Suggestions are made by the largest model.
Suggest ==
    /\ Moves /\ page.active = 0 /\ Asks(Largest)
    /\ UNCHANGED <<tables, req, page, loads, failed, mixed>>
----------------------------------------------------------------------------
(* Models in memory *)

\* Mutant: every model is to be dropped, in memory or not.
Unload_All(m) ==
    /\ m \in hints /\ hints' = hints \ {m} /\ leaving' = leaving \cup (Names \ {m})
    /\ UNCHANGED <<tables, req, page, loads, loaded, failed, mixed>> /\ Normally

\* unloadAllChatModelsExcept: what the host has loaded is to be dropped, but for one ...
Unload(m) ==
    /\ m \in hints /\ hints' = hints \ {m} /\ leaving' = leaving \cup (loaded \ {m})
    /\ UNCHANGED <<tables, req, page, loads, loaded, failed, mixed>> /\ Normally

\* ... and is, once nothing asks it any more. That it goes anyway, after minutes in which
\* nothing did, is left out.
Evict(m) ==
    /\ m \in leaving /\ \A r \in UnderWay : req[r].model # m
    /\ loaded' = loaded \ {m} /\ leaving' = leaving \ {m}
    /\ UNCHANGED <<tables, req, page, loads, hints, failed, mixed>> /\ Normally

Answers(r) ==
    \/ Created(r) \/ Rewrite(r) \/ SaveUser(r) \/ FirstChunk(r) \/ ModelFails(r) \/ EndStream(r)
    \/ SaveAnswer(r) \/ Title(r)

Next ==
    \/ \E r \in Sends : Send(r) \/ Answers(r)
    \/ (\E s \in Sessions : Select(s)) \/ (\E l \in loads : Loaded(l))
    \/ \E m \in Names : PickModel(m) \/ Unload(m) \/ Evict(m)
    \/ NewChat \/ DeleteAll \/ ConfirmSwitch \/ CancelSwitch \/ Suggest \/ ServerDies

\* A request goes on to its end.
Fairness == \A r \in Sends : WF_vars(Answers(r))
Spec == Init /\ [][Next]_vars
FairSpec == Spec /\ Fairness
----------------------------------------------------------------------------
(* Properties *)

\* When nothing is under way the page shows nothing that is not stored of its session, and all
\* that is if its messages came, through failures, deletions and overlapping answers; unless
\* the session was changed while something was under way.
ShownIsStored ==
    ~Busy /\ ~mixed /\ page.active # 0 =>
        LET Whole(ms) == {m \in ToSet(ms) : m[2] \notin failed}
        IN /\ Whole(page.shown) \subseteq Whole(stored[page.active])
           /\ ~page.blank => Whole(page.shown) = Whole(stored[page.active])

\* A stored answer comes after its question, in the same session.
AnswersFollowQuestions ==
    \A s \in Sessions : \A i \in DOMAIN stored[s] : stored[s][i][1] = "assistant" =>
        \E j \in 1 .. i - 1 : stored[s][j] = <<"user", stored[s][i][2]>>

\* What is sent to the model is of the session it is sent for.
ContextIsOwn ==
    ~mixed => \A r \in Sends : req[r].at \notin {"none", "create"} =>
                 \A q \in req[r].ctx : req[q].sid = req[r].sid

\* What has to end: the page waits for an answer to begin.
Unsettled == page.waits
=============================================================================
