----------------------------- MODULE MCAssistant -----------------------------
(* The assistant: its host and models, the chat, the tags in an answer, and the *)
(* wizard that sets it up. The parts share nothing, so that a behaviour is of   *)
(* one of them, chosen at the start.                                            *)
EXTENDS Naturals, Sequences
CONSTANTS
    Parts, MaxFaults,
    HostModels, Admins, Attempts, MaxWork, ModelsAsked,
    ChatModels, Largest, ChatSessions, ChatSends, ChatMoves,
    Tiers, SetupModels, SetupClicks,
    Symbol, Open, Close, MaxStream, MaxChunk

\* What the parts take for granted: bounds are numbers, the largest chat model is one, the lists
\* of the wizard do not share names, and a tag is a text.
ASSUME MCAssistantAssumption ==
    /\ {MaxFaults, Attempts, MaxWork, ModelsAsked, ChatSessions, ChatSends, ChatMoves, SetupClicks,
        MaxStream, MaxChunk} \subseteq Nat
    /\ Largest \in ChatModels
    /\ Tiers \cap SetupModels = {}
    /\ (Tiers \cup SetupModels) \cap {"kiwix", "ollama", "kolibri", "map", "nothing", "none", "full"} = {}
    /\ {Open, Close} \subseteq Seq(Symbol) \ {<<>>}

\* Tags of two and three symbols stand for those of seven and eight: they begin alike.
MCOpen == <<"<", "t">>
MCClose == <<"<", "/", "t">>

VARIABLES
    part,       \* the part whose behaviour this is
    o_env, o_store, o_local, o_remote, o_installed, o_conf, o_job, o_work, o_key, o_cancel,
    o_row, o_timer, o_seen, o_used, o_excused,
    c_session, c_stored, c_titled, c_req, c_page, c_loads, c_loaded, c_leaving, c_hints,
    c_failed, c_mixed, c_used,
    s_installed, s_online, s_currentStep, s_services, s_maps, s_tier, s_wiki, s_models,
    s_policy, s_remote, s_current, s_finish, s_asked, s_kv, s_done, s_used,
    t_stream, t_tagBuffer, t_inThink, t_content, t_thinking

O == INSTANCE Models WITH
    Names <- HostModels, MaxAsked <- ModelsAsked,
    env <- o_env, store <- o_store, local <- o_local, remote <- o_remote, installed <- o_installed,
    conf <- o_conf, job <- o_job, work <- o_work, key <- o_key, cancel <- o_cancel,
    row <- o_row, timer <- o_timer, seen <- o_seen, used <- o_used, excused <- o_excused
C == INSTANCE Chat WITH
    Names <- ChatModels, MaxSessions <- ChatSessions,
    MaxSends <- ChatSends, MaxMoves <- ChatMoves,
    session <- c_session, stored <- c_stored, titled <- c_titled, req <- c_req,
    page <- c_page, loads <- c_loads, loaded <- c_loaded, leaving <- c_leaving,
    hints <- c_hints, failed <- c_failed, mixed <- c_mixed, used <- c_used
S == INSTANCE EasySetup WITH
    Models <- SetupModels, MaxClicks <- SetupClicks,
    installed <- s_installed, online <- s_online, currentStep <- s_currentStep,
    services <- s_services, maps <- s_maps, tier <- s_tier, wiki <- s_wiki,
    models <- s_models, policy <- s_policy, remote <- s_remote, current <- s_current,
    finish <- s_finish, asked <- s_asked, kv <- s_kv, done <- s_done, used <- s_used
T == INSTANCE ThinkTags WITH
    stream <- t_stream, tagBuffer <- t_tagBuffer, inThink <- t_inThink,
    content <- t_content, thinking <- t_thinking

models == <<o_env, o_store, o_local, o_remote, o_installed, o_conf, o_job, o_work, o_key,
    o_cancel, o_row, o_timer, o_seen, o_used, o_excused>>
chat == <<c_session, c_stored, c_titled, c_req, c_page, c_loads, c_loaded, c_leaving,
    c_hints, c_failed, c_mixed, c_used>>
easySetup == <<s_installed, s_online, s_currentStep, s_services, s_maps, s_tier, s_wiki,
    s_models, s_policy, s_remote, s_current, s_finish, s_asked, s_kv, s_done, s_used>>
thinkTags == <<t_stream, t_tagBuffer, t_inThink, t_content, t_thinking>>
vars == <<part, models, chat, easySetup, thinkTags>>

\* The other parts stay at the first of their initial states.
Init ==
    /\ part \in Parts
    /\ O!Init /\ C!Init /\ S!Init /\ T!Init
    /\ part # "models" => o_local = "none" /\ ~o_env.set /\ ~o_env.offline
    /\ part # "chat" => c_page.model = Largest
    /\ part # "setup" => s_installed = {} /\ ~s_remote.on /\ s_current = "nothing"

Only(p) ==
    /\ part = p /\ UNCHANGED part
    /\ IF p = "models" THEN TRUE ELSE UNCHANGED models
    /\ IF p = "chat" THEN TRUE ELSE UNCHANGED chat
    /\ IF p = "setup" THEN TRUE ELSE UNCHANGED easySetup
    /\ IF p = "think" THEN TRUE ELSE UNCHANGED thinkTags

Next ==
    \/ Only("models") /\ O!Next
    \/ Only("chat") /\ C!Next
    \/ Only("setup") /\ S!Next
    \/ Only("think") /\ T!Next

\* The fairness of each part.
Fairness ==
    /\ \A m \in HostModels : WF_models(part = "models" /\ O!Works(m))
    /\ \A m \in HostModels : WF_models(part = "models" /\ O!TimeOut(m))
    /\ \A r \in 1 .. ChatSends : WF_chat(part = "chat" /\ C!Answers(r))
    /\ WF_easySetup(part = "setup" /\ S!Finish)

Spec == Init /\ [][Next]_vars
FairSpec == Spec /\ Fairness
----------------------------------------------------------------------------
(* Properties *)

\* Every part keeps its types.
TypesOK ==
    /\ part = "models" => O!TypeOK
    /\ part = "chat" => C!TypeOK
    /\ part = "setup" => S!TypeOK
    /\ part = "think" => T!TypeOK

\* What is shown or asked for fits what there is: an installed assistant has a host that is
\* named, or a container; of a conversation only what is stored is shown, and all of it if its
\* messages came, with its own answers and context; an answer does not depend on where its
\* chunks are cut; and the wizard asks for what it showed, in its order.
ShownIsSo ==
    /\ part = "models" => O!InstalledIsReachable
    /\ part = "chat" => C!ShownIsStored /\ C!AnswersFollowQuestions /\ C!ContextIsOwn
    /\ part = "think" => T!ChunksDoNotMatter
    /\ part = "setup" =>
          S!StepIsListed /\ S!ModelsNeedAi /\ S!OneAssistant /\ S!PolicyFirst /\ S!NothingForgotten


Waiting ==
    \/ part = "models" /\ \E m \in HostModels : O!Unsettled(m)
    \/ part = "chat" /\ C!Unsettled
    \/ part = "setup" /\ S!Unsettled

\* What is waited for comes to an end, and a cancelled download of a model is not tried again:
\* the download, the answer to a question, the wizard that processes.
Settles ==
    /\ O!CancelledIsNotRetried
    /\ Waiting ~> ~Waiting
=============================================================================
