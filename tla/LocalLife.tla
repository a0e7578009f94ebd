------------------------------- MODULE LocalLife -------------------------------
(****************************************************************************)
(* The pages of local life: notes, services, reminders and documents. Each  *)
(* button sends a request at once, whatever is still under way; what comes  *)
(* back empties the form and loads the list again. A document is a file, a  *)
(* row and, for a client that asks for it, a copy in the vault.             *)
(****************************************************************************)
EXTENDS Naturals, FiniteSets

CONSTANTS
    Texts,          \* what is typed
    Pages,          \* "notes" and "services", pages that do the same
    MaxCalls,       \* BOUND: requests that are sent
    MaxClicks,      \* BOUND: clicks that send nothing
    MaxFaults       \* BOUND: requests that fail, and restarts of the server

VARIABLES
    rows,           \* the tables of notes and services
    reminders,      \* the table of reminders
    docs,           \* the documents: file, row and copy
    form,           \* the form of each page: the row that is edited, 0 for a new one, and the text
    list,           \* the rows that each page shows
    shown,          \* the reminders that the dashboard shows
    uploading,      \* the button of the upload turns
    calls,          \* the requests, by number
    typed,          \* what was typed for each row, for the properties
    used
vars == <<rows, reminders, docs, form, list, shown, uploading, calls, typed, used>>

\* Row 1 of a table may be there from the start.
Ids == 1 .. MaxCalls + 1
None == "none"
\* `also`: the document is to be copied; the row to be deleted is the one that the form has.
NoCall == [op |-> "idle", at |-> "sent", page |-> "notes", id |-> 0, text |-> None, also |-> FALSE]
EmptyForm == [id |-> 0, text |-> None]

TypeOK ==
    /\ rows \in [Pages -> [Ids -> Texts \cup {None}]]
    /\ reminders \in [Ids -> {None, "open", "done"}]
    /\ docs \in [Ids -> [file: {"new", "stored", "gone"}, row: BOOLEAN, copy: BOOLEAN]]
    /\ form \in [Pages -> [id: 0 .. MaxCalls + 1, text: Texts \cup {None}]]
    /\ list \in [Pages -> [Ids -> Texts \cup {None}]]
    /\ shown \subseteq Ids /\ uploading \in BOOLEAN
    /\ calls \in [1 .. MaxCalls ->
                    [op: {"idle", "create", "update", "delete", "load", "remind", "toggle", "dashboard",
                          "upload", "remove"},
                     at: {"sent", "file", "row", "copied", "done", "failed"}, page: Pages \cup {"dashboard", "api"},
                     id: 0 .. MaxCalls + 1, text: Texts \cup {None, "open", "done"}, also: BOOLEAN]]
    /\ typed \in [Pages -> [Ids -> SUBSET Texts]]
    /\ used \in [calls: 0 .. MaxCalls, clicks: 0 .. MaxClicks, faults: 0 .. MaxFaults]

Init ==
    /\ \E t \in Texts \cup {None} :
        /\ rows = [p \in Pages |-> [i \in Ids |-> IF i = 1 THEN t ELSE None]]
        /\ typed = [p \in Pages |-> [i \in Ids |-> {rows[p][i]} \ {None}]]
        /\ reminders = [i \in Ids |-> IF i = 1 /\ t # None THEN "open" ELSE None]
        /\ docs = [i \in Ids |-> IF i = 1 /\ t # None THEN [file |-> "stored", row |-> TRUE, copy |-> FALSE]
                                 ELSE [file |-> "new", row |-> FALSE, copy |-> FALSE]]
    /\ form = [p \in Pages |-> EmptyForm] /\ list = rows
    /\ shown = {i \in Ids : reminders[i] = "open"}
    /\ uploading = FALSE /\ calls = [c \in 1 .. MaxCalls |-> NoCall]
    /\ used = [calls |-> 0, clicks |-> 0, faults |-> 0]

Server == <<rows, reminders, docs, typed>>
Page == <<form, list, shown, uploading>>

Clicked == used.clicks < MaxClicks /\ used' = [used EXCEPT !.clicks = @ + 1]
Fault == used.faults < MaxFaults /\ used' = [used EXCEPT !.faults = @ + 1]

Send(call) ==
    /\ used.calls < MaxCalls /\ used' = [used EXCEPT !.calls = @ + 1]
    /\ calls' = [calls EXCEPT ![used.calls + 1] = call]
----------------------------------------------------------------------------
(* The pages of notes and services: one form for a new row and for an old one *)

\* Mutant: the row is taken, and what the form has stays.
Edit_KeepsText(p, i) ==
    /\ list[p][i] # None
    /\ form' = [form EXCEPT ![p].id = i]
    /\ UNCHANGED <<Server, list, shown, uploading, calls, used>>

\* editNote and editService: the row as the page shows it.
Edit(p, i) ==
    /\ list[p][i] # None
    /\ form' = [form EXCEPT ![p] = [id |-> i, text |-> list[p][i]]]
    /\ UNCHANGED <<Server, list, shown, uploading, calls, used>>

New(p) ==
    /\ form[p] # EmptyForm /\ form' = [form EXCEPT ![p] = EmptyForm]
    /\ UNCHANGED <<Server, list, shown, uploading, calls, used>>

Type(p, t) ==
    /\ form[p].text # t /\ Clicked /\ form' = [form EXCEPT ![p].text = t]
    /\ typed' = IF form[p].id = 0 THEN typed ELSE [typed EXCEPT ![p][form[p].id] = @ \cup {t}]
    /\ UNCHANGED <<rows, reminders, docs, list, shown, uploading, calls>>

\* saveNote and saveService: what the form has now.
Save(p) ==
    /\ form[p].text # None
    /\ Send([NoCall EXCEPT !.op = IF form[p].id > 0 THEN "update" ELSE "create", !.page = p,
                           !.id = form[p].id, !.text = form[p].text])
    /\ UNCHANGED <<Server, Page>>

\* A confirmed deletion of a row that is shown.
Delete(p, i) ==
    /\ list[p][i] # None /\ Send([NoCall EXCEPT !.op = "delete", !.page = p, !.id = i,
                                                     !.also = form[p].id = i])
    /\ UNCHANGED <<Server, Page>>

\* A search, or another category: the list is loaded again.
Load(p) == Send([NoCall EXCEPT !.op = "load", !.page = p]) /\ UNCHANGED <<Server, Page>>

\* A note of the dashboard.
QuickNote(t) ==
    /\ Send([NoCall EXCEPT !.op = "create", !.page = "dashboard", !.text = t])
    /\ UNCHANGED <<Server, Page>>
\* A client of the API may ask for a copy of a note in the vault; the pages do not.
CreateWithCopy(t) ==
    /\ Send([NoCall EXCEPT !.op = "create", !.page = "api", !.text = t, !.also = TRUE])
    /\ UNCHANGED <<Server, Page>>
----------------------------------------------------------------------------
(* The dashboard *)

CreateReminder ==
    Send([NoCall EXCEPT !.op = "remind", !.page = "dashboard"]) /\ UNCHANGED <<Server, Page>>

\* The opposite of what is shown, and only open ones are shown.
ToggleReminder(i) ==
    /\ i \in shown /\ Send([NoCall EXCEPT !.op = "toggle", !.page = "dashboard", !.id = i, !.text = "done"])
    /\ UNCHANGED <<Server, Page>>
----------------------------------------------------------------------------
(* Documents *)

\* A client of the API may ask for a copy in the vault; the page does not.
Upload ==
    /\ ~uploading /\ uploading' = TRUE /\ Send([NoCall EXCEPT !.op = "upload"])
    /\ UNCHANGED <<Server, form, list, shown>>
UploadWithCopy == Send([NoCall EXCEPT !.op = "upload", !.also = TRUE]) /\ UNCHANGED <<Server, Page>>

Remove(d) ==
    /\ docs[d].file # "new" /\ Send([NoCall EXCEPT !.op = "remove", !.id = d]) /\ UNCHANGED <<Server, Page>>
----------------------------------------------------------------------------
(* The server handles a request *)

\* Numbers are not used again.
Lowest(i, free) == i \in free /\ \A j \in free : i <= j
Sent(c, op) == calls[c].op = op /\ calls[c].at = "sent"
Reply(c, at) == calls' = [calls EXCEPT ![c].at = at] /\ UNCHANGED <<Page, used>>
Table(c) == IF calls[c].page \in Pages THEN calls[c].page ELSE "notes"

CreateRow(c) ==
    /\ Sent(c, "create")
    /\ \E i \in Ids :
           /\ Lowest(i, {j \in Ids : typed[Table(c)][j] = {}})
           /\ rows' = [rows EXCEPT ![Table(c)][i] = calls[c].text]
           /\ typed' = [typed EXCEPT ![Table(c)][i] = {calls[c].text}]
    /\ Reply(c, IF calls[c].also THEN "row" ELSE "done") /\ UNCHANGED <<reminders, docs>>

\* saveMarkdown, for the copy; its path goes into the row.
CopyRow(c) ==
    /\ calls[c].op = "create" /\ calls[c].at = "row" /\ Reply(c, "done") /\ UNCHANGED Server

\* A row that is gone is answered with an error.
UpdateRow(c) ==
    /\ Sent(c, "update")
    /\ IF rows[calls[c].page][calls[c].id] = None THEN Reply(c, "failed") /\ UNCHANGED rows
       ELSE rows' = [rows EXCEPT ![calls[c].page][calls[c].id] = calls[c].text] /\ Reply(c, "done")
    /\ UNCHANGED <<reminders, docs, typed>>

DeleteRow(c) ==
    /\ Sent(c, "delete")
    /\ IF rows[calls[c].page][calls[c].id] = None THEN Reply(c, "failed") /\ UNCHANGED rows
       ELSE rows' = [rows EXCEPT ![calls[c].page][calls[c].id] = None] /\ Reply(c, "done")
    /\ UNCHANGED <<reminders, docs, typed>>

CreateReminderRow(c) ==
    /\ Sent(c, "remind")
    /\ \E i \in Ids :
           /\ Lowest(i, {j \in Ids : reminders[j] = None})
           /\ reminders' = [reminders EXCEPT ![i] = "open"]
    /\ Reply(c, "done") /\ UNCHANGED <<rows, docs, typed>>

\* Mutant: the server turns the reminder over.
UpdateReminder_Flips(c) ==
    /\ Sent(c, "toggle")
    /\ reminders' = [reminders EXCEPT ![calls[c].id] = IF @ = "open" THEN "done" ELSE "open"]
    /\ Reply(c, "done") /\ UNCHANGED <<rows, docs, typed>>

UpdateReminder(c) ==
    /\ Sent(c, "toggle") /\ reminders' = [reminders EXCEPT ![calls[c].id] = calls[c].text]
    /\ Reply(c, "done") /\ UNCHANGED <<rows, docs, typed>>

\* uploadDocument, in the order of its awaits.
StoreFile(c) ==
    /\ Sent(c, "upload")
    /\ \E d \in Ids :
        /\ docs[d].file = "new" /\ \A e \in 1 .. d - 1 : docs[e].file # "new"
        /\ docs' = [docs EXCEPT ![d].file = "stored"]
        /\ calls' = [calls EXCEPT ![c].at = "file", ![c].id = d]
    /\ UNCHANGED <<rows, reminders, typed, Page, used>>

CreateDocument(c) ==
    /\ calls[c].op = "upload" /\ calls[c].at = "file"
    /\ docs' = [docs EXCEPT ![calls[c].id].row = TRUE]
    /\ Reply(c, IF calls[c].also THEN "row" ELSE "done") /\ UNCHANGED <<rows, reminders, typed>>

\* The copy is made of the stored file; a document that has been removed meanwhile fails here.
MirrorDocument(c) ==
    /\ calls[c].op = "upload" /\ calls[c].at = "row"
    /\ IF docs[calls[c].id].file = "stored"
       THEN docs' = [docs EXCEPT ![calls[c].id].copy = TRUE] /\ Reply(c, "done")
       ELSE UNCHANGED docs /\ Reply(c, "failed")
    /\ UNCHANGED <<rows, reminders, typed>>

\* Mutant: the row goes first.
RemoveFile_Last(c) ==
    /\ Sent(c, "remove")
    /\ docs' = [docs EXCEPT ![calls[c].id].row = FALSE] /\ Reply(c, "file")
    /\ UNCHANGED <<rows, reminders, typed>>

\* deleteDocument: the file, then the row.
RemoveFile(c) ==
    /\ Sent(c, "remove")
    /\ IF docs[calls[c].id].row
       THEN docs' = [docs EXCEPT ![calls[c].id].file = "gone"] /\ Reply(c, "file")
       ELSE UNCHANGED docs /\ Reply(c, "failed")
    /\ UNCHANGED <<rows, reminders, typed>>

RemoveRow(c) ==
    /\ calls[c].op = "remove" /\ calls[c].at = "file"
    /\ docs' = [docs EXCEPT ![calls[c].id].row = FALSE]
    /\ Reply(c, "done") /\ UNCHANGED <<rows, reminders, typed>>

\* A request that does not get through, or fails before it has changed anything.
Fails(c) ==
    /\ calls[c].op # "idle" /\ calls[c].at = "sent" /\ Fault
    /\ calls' = [calls EXCEPT ![c].at = "failed"] /\ UNCHANGED <<Server, Page>>

\* The copy cannot be written: the row is there, and the request fails.
MirrorFails(c) ==
    /\ calls[c].at = "row" /\ Fault
    /\ calls' = [calls EXCEPT ![c].at = "failed"] /\ UNCHANGED <<Server, Page>>

\* The server goes down: the requests it was at are cut where they are.
Restart ==
    /\ Fault /\ \E c \in 1 .. MaxCalls : calls[c].at \in {"file", "row"}
    /\ calls' = [c \in 1 .. MaxCalls |-> IF calls[c].at \in {"file", "row"} \/ (calls[c].op # "idle" /\ calls[c].at = "sent")
                                         THEN [calls[c] EXCEPT !.at = "failed"] ELSE calls[c]]
    /\ UNCHANGED <<Server, Page>>
----------------------------------------------------------------------------
(* The page gets the answer *)

Idle(c) == calls' = [calls EXCEPT ![c] = NoCall]
Answered(c, op) == calls[c].op = op /\ calls[c].at = "done"

\* A form is emptied whatever it has by now; then the list is loaded.
SavedRow(c) ==
    /\ calls[c].op \in {"create", "update"} /\ calls[c].at = "done"
    /\ IF calls[c].page = "api" THEN UNCHANGED form /\ Idle(c)
       ELSE IF calls[c].page = "dashboard"
       THEN UNCHANGED form /\ calls' = [calls EXCEPT ![c] = [NoCall EXCEPT !.op = "dashboard", !.page = "dashboard"]]
       ELSE /\ form' = [form EXCEPT ![calls[c].page] = EmptyForm]
            /\ calls' = [calls EXCEPT ![c] = [NoCall EXCEPT !.op = "load", !.page = calls[c].page]]
    /\ UNCHANGED <<Server, list, shown, uploading, used>>

\* After a deletion, the form is emptied if it had that row when the button was clicked.
DeletedRow(c) ==
    /\ Answered(c, "delete")
    /\ form' = IF calls[c].also THEN [form EXCEPT ![calls[c].page] = EmptyForm] ELSE form
    /\ calls' = [calls EXCEPT ![c] = [NoCall EXCEPT !.op = "load", !.page = calls[c].page]]
    /\ UNCHANGED <<Server, list, shown, uploading, used>>

\* The server reads the table when it answers; answers do not wait for one another.
Loaded(c) ==
    /\ Sent(c, "load") /\ list' = [list EXCEPT ![calls[c].page] = rows[calls[c].page]] /\ Idle(c)
    /\ UNCHANGED <<Server, form, shown, uploading, used>>

Reminded(c) ==
    /\ calls[c].op \in {"remind", "toggle"} /\ calls[c].at = "done"
    /\ calls' = [calls EXCEPT ![c] = [NoCall EXCEPT !.op = "dashboard", !.page = "dashboard"]]
    /\ UNCHANGED <<Server, Page, used>>

\* The dashboard shows reminders that are not completed.
LoadedDashboard(c) ==
    /\ Sent(c, "dashboard") /\ shown' = {i \in Ids : reminders[i] = "open"} /\ Idle(c)
    /\ UNCHANGED <<Server, form, list, uploading, used>>

\* Mutant: the button is given back after a success only.
Uploaded_Only(c) ==
    /\ calls[c].op = "upload" /\ calls[c].at \in {"done", "failed"} /\ Idle(c)
    /\ uploading' = IF calls[c].also \/ calls[c].at = "failed" THEN uploading ELSE FALSE
    /\ UNCHANGED <<Server, form, list, shown, used>>

Uploaded(c) ==
    /\ calls[c].op = "upload" /\ calls[c].at \in {"done", "failed"} /\ Idle(c)
    /\ uploading' = IF calls[c].also THEN uploading ELSE FALSE
    /\ UNCHANGED <<Server, form, list, shown, used>>

Removed(c) == Answered(c, "remove") /\ Idle(c) /\ UNCHANGED <<Server, Page, used>>

\* An error is a notification.
Notified(c) ==
    /\ calls[c].op \notin {"idle", "upload"} /\ calls[c].at = "failed" /\ Idle(c)
    /\ UNCHANGED <<Server, Page, used>>

\* What can be clicked on each page.
RowPage(p) ==
    /\ p \in Pages
    /\ \/ New(p) \/ Save(p) \/ Load(p)
       \/ \E i \in Ids : Edit(p, i) \/ Delete(p, i)
       \/ \E t \in Texts : Type(p, t)
NotesPage == RowPage("notes")
ServicesPage == RowPage("services")
DashboardPage == CreateReminder \/ (\E t \in Texts : QuickNote(t)) \/ \E i \in Ids : ToggleReminder(i)
DocumentsPage == Upload \/ \E i \in Ids : Remove(i)
Api == UploadWithCopy \/ \E t \in Texts : CreateWithCopy(t)

Click == NotesPage \/ ServicesPage \/ DashboardPage \/ DocumentsPage \/ Api

Handle(c) ==
    \/ CreateRow(c) \/ CopyRow(c) \/ UpdateRow(c) \/ DeleteRow(c) \/ CreateReminderRow(c) \/ UpdateReminder(c)
    \/ StoreFile(c) \/ CreateDocument(c) \/ MirrorDocument(c) \/ RemoveFile(c) \/ RemoveRow(c)
    \/ SavedRow(c) \/ DeletedRow(c) \/ Loaded(c) \/ Reminded(c) \/ LoadedDashboard(c)
    \/ Uploaded(c) \/ Removed(c) \/ Notified(c)

Next == Click \/ Restart \/ \E c \in 1 .. MaxCalls : Handle(c) \/ Fails(c) \/ MirrorFails(c)

Spec == Init /\ [][Next]_vars

\* Every request is answered.
FairSpec == Spec /\ \A c \in 1 .. MaxCalls : WF_vars(Handle(c))
----------------------------------------------------------------------------
(* Properties *)

\* A row has a text that it was created with, or that was typed while the form had this row:
\* nothing that was typed for another one gets into it, whatever is under way meanwhile.
RowsKeepTheirText == \A p \in Pages, i \in Ids : rows[p][i] \in typed[p][i] \cup {None}

\* A reminder that was completed stays so, however often it is clicked, and on however old a list.
ReminderStaysDone == [][\A i \in Ids : reminders[i] = "done" => reminders'[i] = "done"]_reminders

\* A document is listed exactly while its file is stored, but for one that is being uploaded or
\* removed, and for one that a restart has cut there.
RowHasFile ==
    \A d \in Ids :
        docs[d].row # (docs[d].file = "stored") =>
            used.faults > 0 \/ \E c \in 1 .. MaxCalls :
                calls[c].op \in {"upload", "remove"} /\ calls[c].at = "file" /\ calls[c].id = d

\* What has to end: the button of the upload turns.
Unsettled == uploading
=============================================================================
