------------------------------- MODULE EasySetup -------------------------------
(****************************************************************************)
(* The setup wizard: apps, maps, content, the assistant, a review. The step *)
(* of the assistant is there only while the assistant is part of the setup, *)
(* and what is chosen on one step lives on while another one is shown.      *)
(* "Complete Setup" sends the choices to the server, one group after the    *)
(* other.                                                                   *)
(****************************************************************************)
EXTENDS Naturals, FiniteSets

CONSTANTS
    Tiers,          \* tiers of the category
    Models,         \* models that are recommended
    MaxClicks,      \* BOUND: clicks on choices
    MaxFaults       \* BOUND: requests that fail, and times the connection goes

VARIABLES
    installed,      \* apps that were installed when the page was loaded
    online,
    currentStep,
    services,       \* apps that are chosen
    maps, tier, wiki, \* content that is chosen
    models, policy, \* choices of the step of the assistant
    remote,         \* whether a remote host is to be used, and whether its address is given
    current,        \* the Wikipedia package that the server has
    finish,         \* where handleFinish is
    asked,          \* what the server has been asked for by this run of handleFinish
    kv,             \* what it has stored
    done,           \* the success message has been shown
    used
choices == <<services, maps, tier, wiki, models, policy, remote>>
vars == <<installed, online, currentStep, choices, current, finish, asked, kv, done, used>>

Services == {"kiwix", "ollama", "kolibri"}
NoTier == "none"

TypeOK ==
    /\ installed \subseteq Services /\ online \in BOOLEAN /\ currentStep \in 1 .. 5
    /\ services \subseteq Services \ installed /\ maps \in BOOLEAN /\ tier \in Tiers \cup {NoTier}
    /\ wiki \in {"nothing", "none", "full"} /\ models \subseteq Models /\ policy \in {"Always", "Manual"}
    /\ remote \in [on: BOOLEAN, url: BOOLEAN] /\ current \in {"nothing", "full"}
    /\ finish \in {"no", "policy", "remote", "install", "download", "wikipedia"}
    /\ asked \subseteq Services \cup Tiers \cup Models \cup {"map", "none", "full"}
    /\ kv \in [policy: {"unset", "Always", "Manual"}, remote: BOOLEAN] /\ done \in BOOLEAN
    /\ used \in [clicks: 0 .. MaxClicks, faults: 0 .. MaxFaults]

Init ==
    /\ installed \in SUBSET {"kiwix", "ollama"} /\ online = TRUE /\ currentStep = 1
    /\ services = {} /\ maps = FALSE /\ tier = NoTier /\ wiki = "nothing"
    /\ models = {} /\ policy = "Always"
    /\ remote \in {[on |-> b, url |-> b] : b \in BOOLEAN} /\ current \in {"nothing", "full"}
    /\ finish = "no" /\ asked = {} /\ kv = [policy |-> "unset", remote |-> remote.on] /\ done = FALSE
    /\ used = [clicks |-> 0, faults |-> 0]

Clicked == used.clicks < MaxClicks /\ used' = [used EXCEPT !.clicks = @ + 1]
Fault == used.faults < MaxFaults /\ used' = [used EXCEPT !.faults = @ + 1]
Normally == UNCHANGED used
Elsewhere == UNCHANGED <<installed, current, asked, kv, done, finish>>

\* isAiInSetup, the one predicate for it.
IsAiInSetup == "ollama" \in services \cup installed \/ remote.on
FinalStep == IF IsAiInSetup THEN 5 ELSE 4
Steps == IF IsAiInSetup THEN 1 .. 5 ELSE {1, 2, 3, 5}
----------------------------------------------------------------------------
(* The steps *)

\* Mutant: the step of the assistant is left out on the way back only; on the way there it comes.
NextStep_All == currentStep + 1

NextStep == IF currentStep = 3 /\ ~IsAiInSetup THEN 5 ELSE currentStep + 1

\* The buttons below every step: nothing while the setup is being completed.
NextOffered == online /\ finish = "no" /\ currentStep < FinalStep

HandleNext ==
    /\ NextOffered /\ currentStep' = NextStep
    /\ UNCHANGED <<online, choices>> /\ Elsewhere /\ Normally

HandleBack ==
    /\ finish = "no" /\ currentStep > 1
    /\ currentStep' = IF currentStep = 5 /\ ~IsAiInSetup THEN 3 ELSE currentStep - 1
    /\ UNCHANGED <<online, choices>> /\ Elsewhere /\ Normally
----------------------------------------------------------------------------
(* The choices of each step *)

Choosing(step) == currentStep = step /\ Clicked /\ UNCHANGED <<online, currentStep>> /\ Elsewhere

\* Mutant: without the assistant its choices stay.
ToggleCapability_Keeps(s) ==
    /\ Choosing(1) /\ s \notin installed
    /\ services' = IF s \in services THEN services \ {s} ELSE services \cup {s}
    /\ UNCHANGED <<maps, tier, wiki, models, policy, remote>>

\* toggleCapability: what is installed cannot be chosen; without the assistant its choices go,
\* after a confirmation.
ToggleCapability(s) ==
    /\ Choosing(1) /\ s \notin installed
    /\ services' = IF s \in services THEN services \ {s} ELSE services \cup {s}
    /\ IF s = "ollama" /\ s \in services
       THEN models' = {} /\ policy' = "Always" /\ remote' = [on |-> FALSE, url |-> FALSE]
       ELSE UNCHANGED <<models, policy, remote>>
    /\ UNCHANGED <<maps, tier, wiki>>

\* The remote host is offered below the card of the assistant, if that is chosen here.
ToggleRemote ==
    /\ Choosing(1) /\ "ollama" \in services /\ remote' = [remote EXCEPT !.on = ~@]
    /\ UNCHANGED <<services, maps, tier, wiki, models, policy>>
TypeUrl ==
    /\ Choosing(1) /\ "ollama" \in services /\ remote.on /\ remote' = [remote EXCEPT !.url = ~@]
    /\ UNCHANGED <<services, maps, tier, wiki, models, policy>>

ToggleMapCollection ==
    /\ Choosing(2) /\ online /\ maps' = ~maps
    /\ UNCHANGED <<services, tier, wiki, models, policy, remote>>

\* The content is shown while Kiwix is chosen or installed, but what was chosen stays chosen.
IsInformationSelected == "kiwix" \in services \cup installed

HandleTierSelect(t) ==
    /\ Choosing(3) /\ online /\ IsInformationSelected /\ tier' = IF tier = t THEN NoTier ELSE t
    /\ UNCHANGED <<services, maps, wiki, models, policy, remote>>

SelectWikipedia(o) ==
    /\ Choosing(3) /\ online /\ IsInformationSelected /\ wiki # o /\ wiki' = o
    /\ UNCHANGED <<services, maps, tier, models, policy, remote>>

\* The models are not shown while a remote host is to be used.
ToggleAiModel(m) ==
    /\ Choosing(4) /\ IsAiInSetup /\ online /\ ~(remote.on /\ remote.url)
    /\ models' = IF m \in models THEN models \ {m} ELSE models \cup {m}
    /\ UNCHANGED <<services, maps, tier, wiki, policy, remote>>

SetIngestPolicy(p) ==
    /\ Choosing(4) /\ IsAiInSetup /\ policy # p /\ policy' = p
    /\ UNCHANGED <<services, maps, tier, wiki, models, remote>>

\* The connection goes, or is back.
Connection ==
    /\ IF online THEN Fault ELSE Normally
    /\ online' = ~online /\ UNCHANGED <<currentStep, choices>> /\ Elsewhere
----------------------------------------------------------------------------
(* Complete Setup *)

AnySelectionMade ==
    services # {} \/ maps \/ tier # NoTier \/ models # {} \/ wiki = "full"

\* What the last step shows for review.
Reviewed ==
    services \cup (IF maps THEN {"map"} ELSE {}) \cup ({tier} \ {NoTier}) \cup models
        \cup ({wiki} \ {"nothing", "none"})

\* handleFinish: the policy first, if the assistant is part of the setup.
HandleFinish ==
    /\ finish = "no" /\ ~done /\ currentStep >= FinalStep /\ online /\ AnySelectionMade
    /\ finish' = IF IsAiInSetup THEN "policy" ELSE "remote"
    /\ asked' = {}
    /\ UNCHANGED <<installed, online, currentStep, choices, current, kv, done>> /\ Normally

Finishing(at, then) == finish = at /\ finish' = then /\ UNCHANGED <<installed, online, choices>>

\* A policy that could not be stored does not stop the rest.
StorePolicy ==
    /\ Finishing("policy", "remote")
    /\ \/ kv' = [kv EXCEPT !.policy = policy] /\ Normally
       \/ UNCHANGED kv /\ Fault
    /\ UNCHANGED <<currentStep, current, asked, done>>

\* A remote host that does not answer leads back to the first step.
ConfigureRemote ==
    /\ finish = "remote"
    /\ IF remote.on /\ remote.url
       THEN \/ /\ kv' = [kv EXCEPT !.remote = TRUE] /\ finish' = "install" /\ UNCHANGED currentStep /\ Normally
            \/ /\ UNCHANGED kv /\ finish' = "no" /\ currentStep' = 1 /\ Fault
       ELSE finish' = "install" /\ UNCHANGED <<kv, currentStep>> /\ Normally
    /\ UNCHANGED <<installed, online, choices, current, asked, done>>

\* Requests of one group are sent together; one that fails is only a notification.
Sent(things) ==
    \/ asked' = asked \cup things /\ Normally
    \/ \E x \in things : asked' = asked \cup (things \ {x}) /\ Fault

\* Mutant: the assistant is installed here beside the remote host.
ServicesToInstall_All == services

ServicesToInstall == IF remote.on THEN services \ {"ollama"} ELSE services

InstallServices ==
    /\ Finishing("install", "download") /\ Sent(ServicesToInstall)
    /\ UNCHANGED <<currentStep, current, kv, done>>

Download ==
    /\ Finishing("download", "wikipedia")
    /\ Sent((IF maps THEN {"map"} ELSE {}) \cup ({tier} \ {NoTier}) \cup models)
    /\ UNCHANGED <<currentStep, current, kv, done>>

\* The package, if it is not the one that the server has; then the wizard is left.
FinishWikipedia ==
    /\ Finishing("wikipedia", "no")
    /\ Sent(IF wiki \notin {"nothing", current} THEN {wiki} ELSE {}) /\ done' = TRUE
    /\ UNCHANGED <<currentStep, current, kv>>

Finish == StorePolicy \/ ConfigureRemote \/ InstallServices \/ Download \/ FinishWikipedia

\* The wizard has been left for the page that shows the activity.
Left == done /\ UNCHANGED vars

Choose ==
    \/ \E s \in Services : ToggleCapability(s)
    \/ ToggleRemote \/ TypeUrl \/ ToggleMapCollection
    \/ \E t \in Tiers : HandleTierSelect(t)
    \/ \E o \in {"none", "full"} : SelectWikipedia(o)
    \/ \E m \in Models : ToggleAiModel(m)
    \/ \E p \in {"Always", "Manual"} : SetIngestPolicy(p)

Next ==
    \/ ~done /\ (HandleNext \/ HandleBack \/ Choose \/ Connection \/ HandleFinish)
    \/ Finish \/ Left

Spec == Init /\ [][Next]_vars

\* The server answers every request.
FairSpec == Spec /\ WF_vars(Finish)
----------------------------------------------------------------------------
(* Properties *)

\* The page never shows a step that its own list of steps does not have: that of the assistant
\* is left before the assistant can leave the setup.
StepIsListed == currentStep \in Steps

\* Models are asked for only where there will be an assistant that can have them.
ModelsNeedAi == asked \cap Models # {} => IsAiInSetup

\* No assistant is installed here when a remote one is used.
OneAssistant == "ollama" \in asked => ~remote.on

\* Content is asked for after the policy that is to apply to it, or after that failed.
PolicyFirst ==
    asked # {} /\ IsAiInSetup => kv.policy = policy \/ used.faults > 0

\* The wizard says that it has completed only when all it showed for review was asked for, but
\* for the assistant that is elsewhere, the package that is there, and requests that failed.
NothingForgotten ==
    done => \/ used.faults > 0
            \/ asked \ {"none"} = Reviewed \ ((IF remote.on THEN {"ollama"} ELSE {}) \cup {current})

\* What has to end: the wizard processes.
Unsettled == finish # "no"
=============================================================================
