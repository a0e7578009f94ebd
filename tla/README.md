# MONAD, formally

TLA+ models of MONAD (Modular Offline Network for Advanced Decision-making), with the
TLC runs that check them and the proofs that TLAPS checks. All paths below are relative
to the root of the repository.

## 1. The system

MONAD is an AdonisJS server (`admin/`) that installs and runs containers (Ollama, Qdrant,
Kiwix, ...), downloads content (ZIM archives, maps, models), and embeds that content into a
vector database for its AI assistant. A queue worker (`admin/commands/queue/work.ts`) runs
BullMQ jobs out of Redis in a process of its own; a database keeps the rows both processes
write; a side car or a host daemon updates the installation itself.

| component | state it keeps | operations | talks to |
|---|---|---|---|
| embedding queue (`embed_file_job.ts`, `work.ts`) | Redis entries, Qdrant points, `kb_ingest_state` | dispatch, handle, retry, stalled check, retention | RagService in the worker, Ollama, Qdrant |
| knowledge-base requests (`rag_service.ts`, `rag_controller.ts`) | the same, `rag.*` keys of the KV store, files in storage | upload, scan, embed, re-embed all, reset, delete, cleanup, docs discovery | the queue, Qdrant, the disk |
| ZIM extraction (`zim_extraction_service.ts`, `processZIMFile`) | none between batches: the offset travels in the job | extract a batch, embed it, decide if there is more | the archive, Qdrant |
| service status (`docker_service.ts`, `system_service.ts`) | `services` rows (and a cache that lives as long as one request) | list, sync rows with containers | Docker |
| container life cycle (`docker_service.ts`, `check_service_updates_job.ts`) | containers, `services` rows | install, force reinstall, update with rollback, start/stop, nightly check | Docker, registry |
| downloads (`run_download_job.ts`, `downloads.ts`, `download_service.ts`) | Redis entries, cancel keys, partial and final files, `installed_resources` | dispatch, resume, cancel, complete | network, disk, the embedding queue |
| ZIM library (`zim_service.ts`, `kiwix_library_service.ts`, `remote-explorer.tsx`) | library XML, `wikipedia_selection`, the list of remote packages | list, select, on-complete, cancel, delete, rebuild | downloads, Kiwix container |
| system update (`system_update_service.ts`, `update-watcher.sh`, `monad_updater_daemon.py`, `update.tsx`) | request and status file in a shared directory, the newest release in the KV store | request, poll, run stages, look for a release | the updater, GitHub |
| maps (`map_service.ts`, `run_extract_pmtiles_job.ts`) | files, rows, the map of the world | download, extract, cancel, delete, serve a style | downloads, a child process |
| models (`ollama_service.ts`, `ollama_controller.ts`, `download_model_job.ts`) | the models of a host, which host it is, jobs, rows of a page | configure, install, cancel, delete | Ollama here or elsewhere |
| chat (`chat_service.ts`, `components/chat`) | sessions, messages, what a page shows, models in memory | send, stream, store, change session or model | Ollama, Qdrant |
| benchmarks (`benchmark_service.ts`, `run_benchmark_job.ts`, `benchmark.tsx`) | results, the containers of the tests | run, show, share | Docker, Ollama, the community's repository |
| vault (`vault_service.ts`, `vault_intelligence_service.ts`, `ai_orchestrator_service.ts`) | encrypted notes, `vectors.json` | save, list, search, index, ask | Ollama |
| local life (`local_life_controller.ts`, its pages) | notes, services, reminders, documents | create, edit, delete, upload | the vault, for copies |
| set-up wizard (`easy-setup/index.tsx`) | what is chosen, step by step | choose, go on and back, finish | every service above |
| collections (`collection_*_service.ts`) | cached manifests, `installed_resources` | fetch, diff, reconcile | downloads |

What is hard here, component by component:

* **Embedding.** An archive is a chain of jobs in which each link enqueues the next while it
  is itself active. Ids decide idempotence, but Redis forgets completed entries; jobs are
  retried, stall, are recovered or die without their handler being called; deletes and bulk
  operations touch the points and rows of files whose jobs are running; the scan compares
  a facet of Qdrant with rows it reads one await later.
* **ZIM batches.** What a batch skipped, extracted and embedded is counted in three
  different ways, and the count decides whether the archive is finished.
* **Service status.** The rows of the database are corrected from a list of containers made
  earlier, which is empty when Docker failed, while installations write the same rows.
* **Containers.** Install and update are sequences of Docker calls, each of which may fail,
  with rollbacks that differ by the call that failed. The guards meant to keep two of them
  apart live in an object every request has for itself.
* **Downloads.** A cancel races with completion; executions outlive their jobs; two versions of
  a resource complete side by side; the server reconciles the record while the worker writes it.
* **System update.** Two processes speak through files that are not written atomically, and one of
  them takes the other down half way through.
* **Maps, models, Wikipedia.** Each has a job of its own beside the generic download, a cancel that
  reaches it in steps, a row or a page that has to hear of its end, and a worker that dies.
* **Chat.** A page goes on while an answer streams: chunks, loaded sessions and new questions meet
  on whatever it shows by then. The stream itself is cut anywhere, also inside a tag.
* **Vault.** Nothing locks the notes or their index; requests interleave at every await, writing
  truncates first, and one note that cannot be read is read by every search.
* **Pages.** Buttons send at once, whatever is under way; lists are older than the tables.

What makes each of them correct is the subject of sections 3 to 6 for the modelled ones, and
of the plan in section 7 for the others.

## 2. Modules

| module | kind | models |
|---|---|---|
| `EmbedQueue` | component | the BullMQ queue `file-embeddings`, its worker and `EmbedFileJob.handle` |
| `KbIngest` | composition | `EmbedQueue` with the requests of the admin server, the specification and its properties |
| `MCKbIngest` | instances | constants for TLC |
| `KbIngest_proofs` | proofs | theorems about `KbIngest` for all values of the constants |
| `BatchChain` | abstract specification | what the queue takes an archive to be: a fixed number of batches, run in order |
| `ZimBatches` | component | the walk over an archive, the batch cut out of it, the offset and the end; refines `BatchChain` |
| `MCZimBatches` | instances | all archives up to a length |
| `ZimBatches_proofs` | proofs | theorems about `ZimBatches` |
| `ServiceContainers` | component | one service: its row, its containers, the requests and the nightly job that change them |
| `MCServiceContainers` | instances | all operations, requests alike |
| `ServiceContainers_proofs` | proofs | theorems about `ServiceContainers`: the row, what is always left of the containers, and what a request that reports success leaves behind |
| `Downloads` | component | the versions of one ZIM archive: queue entries, executions of `RunDownloadJob`, files, record, library and the requests that change them |
| `MCDownloads` | instances | two versions, two executions, requests alike |
| `Downloads_proofs` | proofs | theorems about `Downloads` |
| `SystemUpdate` | component | the request and status files between pages, server and updater (side car or daemon), and what is stored of the newest release |
| `MCSystemUpdate`, `SystemUpdate_proofs` | instances, proofs | one page and one caller beside the watcher; theorems |
| `Vault` | component | notes, the index of their vectors, searches and questions, the choice of a model |
| `MCVault`, `Vault_proofs` | instances, proofs | two callers, two models; theorems |
| `MapLibrary` | component | map files and their rows, extracts by a job, the map of the world |
| `Wikipedia` | component | the selected package: its row, job, events and cancel |
| `ZimExplorer` | component | the endless list of remote packages and the downloads started from it |
| `LocalLife` | component | notes, services, reminders and documents with their pages |
| `Benchmarks` | component | runs, their containers, results and the sharing of these |
| `MCLibrary` | composition, instances | the five above, one per behaviour |
| `MCLibrary_proofs` | proofs | theorems about the five parts for all values of the constants |
| `Models` | component | the host of the AI and the jobs that fetch models |
| `Chat` | component | sessions, messages, a page and the models in memory |
| `ThinkTags` | algorithm | `chatStream`: how a stream is split into thinking and answer, against a reading of the whole text |
| `EasySetup` | component | the wizard |
| `MCAssistant` | composition, instances | the four above, one per behaviour |
| `MCAssistant_proofs` | proofs | theorems about the four parts for all values of the constants |

`KbIngest` composes the queue with the requests. `ZimBatches` looks into one step of the queue,
`EmbedBatch`: the queue assumes that an archive has a number of batches, which `ZimBatches`
shows to be what the walk and its counting amount to, faults and retries included.
`ServiceContainers` shares no state with the others. `Downloads` ends where `KbIngest` begins: the
file its callback hands over (`handed`) is a file whose first job `KbIngest` dispatches. The parts
of `MCLibrary`, and those of `MCAssistant`, share no state in the code either (the wizard only sends
what other components receive), so a behaviour of the composition is one of one part, chosen in
`Init`: the others keep still, and what a run shows of a part it shows of that part alone.

## 3. State and actions

### 3.1 The knowledge base (`EmbedQueue`, `KbIngest`)

`job` maps an id to what Redis holds under it. The id of a first job is derived from the file
path (`EmbedFileJob.getJobId`), so the model uses the file itself as the id; continuations and
forced jobs take the next of `AutoIds`. An entry records its state, file, batch (`off`), the
place in `handle` (`ph`), attempts used, stalls, the `failed` status the catch block writes, the
chunks it carries, and its `age` among the entries of its terminal state, which is what
`removeOnComplete` and `removeOnFail` count. `points` counts the copies of the chunks of each
batch in Qdrant, `row` is the `kb_ingest_state` row, `disk` the files in storage.
`ran`, `gaveUp` and `lost` are history: no guard reads them.

| action | code |
|---|---|
| `Start`, `Complete`, `Promote`, `RecoverStalled`, `Crash`, `Retire`, `Remove` | BullMQ as `work.ts` configures it: concurrency 2, a lock that expires, `maxStalledCount` 1 |
| `CheckServices`, `ServicesDown` | `embed_file_job.ts:54-100` and the catch block: an `UnrecoverableError` fails the job at once |
| `EmbedBatch`, `EmbedFails` | `processAndEmbedFile`; a batch of an archive may succeed with nothing stored |
| `Continue`, `ContinueFails` | the dispatch of the next batch from within the job |
| `Finish`, `MarkIndexed`, `RecordFails` | the final batch: progress in the job, then the row |
| `Retry` | the end of the catch block: delayed until `attempts` are used up, then failed |

The requests are sequences of steps of a client, one per await that lies between two accesses
to shared state. `req[c]` holds where the request is and the data it has read: `ScanFacet` keeps
what was found in Qdrant, `ScanRows` decides against it (`decideScanAction` is
`kb_ingest_decision.ts`), `ScanCreate` and `ScanDispatch` act on the decisions. `ReembedDelete`
and `ReembedForce` alternate file by file, as `reembedAll` does; `ResetDrop` clears the
collection before the documents and the files are dispatched. Where the code catches an error
and goes on, the action has an alternative with `Fault`; where the error ends the request, the
alternative is `Done`.

Abstractions. A batch is one unit of chunks: it is stored whole or not at all. Reading a file,
extracting text, chunking and embedding are the one step `EmbedBatch`; how the batches of an
archive are counted is a question of its own (`ZimBatches`). Time is abstract: a
backoff ends at any moment, the stalled check runs at any moment after a crash. The progress
percentages, logs and search are left out.

### 3.2 Batches of an archive (`ZimBatches`)

An archive is a sequence of entries, each an article with text, an article without, or no
article. `offset` is `batchOffset` in the data of the job, `pos`, `skipped` and `processed` are
the local counters of `extractZIMContent`, `found` the articles whose chunks it returned.

| action | code |
|---|---|
| `Open`, `Skip`, `Collect`, `WalkEnds` | `zim_extraction_service.ts:47-172`: skipping counts articles, collecting counts articles with or without text, only text makes chunks |
| `Embed` | `rag_service.ts:556-596`: one article after the other, a null answer drops it without an error |
| `BatchEnds` | `rag_service.ts:598-631` and `embed_file_job.ts:140-165`: documents among the chunks are counted, compared with the batch size and added to the offset |
| `Fail` | the job fails or the worker dies, and the batch is run again from its offset |

How an article is cut into chunks is left out; that the chunks of an article carry one
document id of their own is what makes counting documents count articles.

### 3.3 A service and its containers (`ServiceContainers`)

`row` is the service's row: `installed`, `status` (`installation_status`), `image` (the tag of
`container_image`) and `avail` (`available_update_version`). `docker` maps an id to a container
with a name (`main` is the name of the service, `old` that name with `_old`), whether it runs,
and its image. `req` is what every request in progress holds: its operation, the step it is
at, the copy of the row it loaded, the container it listed (`seen`) and created (`made`).

AdonisJS builds a `DockerService` for every request (`@inject` without a singleton binding), so
`activeInstallations`, which is checked at `docker_service.ts:294`, `357` and `1231`, never holds
what another request put in. The model therefore has no such guard between requests, and no
status cache: both live in an object that only one request sees. They meet in the row and in
Docker. `Saved` is Lucid's `save()`: only columns that differ from the loaded copy are written;
MySQL returns `installed` as 0 or 1, so that assigning a boolean always counts as a difference
(`ReinstallUnset`).

| action | code |
|---|---|
| `Arrive` | the controller's checks: `createContainerPreflight`, `forceReinstall`, `updateContainer`, `affectContainer`, and the jobs |
| `Mark` | `installation_status = 'installing'` |
| `ReinstallFind` .. `ReinstallUnset` | `forceReinstall`: stop, remove, uninstall; errors on the way are logged |
| `InstallCreate`, `InstallBoot`, `InstallRecord` | `_createContainer` |
| `CleanMark`, `CleanFind`, `CleanRemove` | `_cleanupFailedInstallation`, once in the catch of `_createContainer` and once more in its caller (`again`) |
| `UpdatePull` .. `UpdateRestart` | `updateContainer`, one action per Docker call, its two rollbacks and the errors that are not rolled back (`Abandons`) |
| `AffectFind`, `AffectAct` | `affectContainer` |
| `ReadList`, `ReadSync` | `_fetchServicesStatus` and `_syncContainersWithDatabase` |
| `CheckOffer` | `CheckServiceUpdatesJob.handle` |
| `Dies`, `RemovedByHand`, `Shutdown` | a container exits, an operator removes it, the server stops |

`met` and `past` are history: what ran beside a request, and whether a container was cleared
away on purpose or the server stopped. No guard reads them; properties use them to say under
which company a request must keep its promise.

### 3.4 Downloads (`Downloads`)

`Files` are the versions of one resource: each has a url, hence an id in the queue, and a file
name, and all share one row of `installed_resources`. `job[f]` is the entry of a version, with
the execution that holds its lock as `owner`; `run[w]` is an execution, the step it is at, the
version it read from the row (`old`) and the directory listing it works from. `temp` and `disk`
are the versions whose `.tmp` and final file exist, `key` those whose cancel key is in Redis.
`cancelled` and `past` are history: what a promise may except.

An execution may be without its job: BullMQ gives the job of a lost lock to another execution
and refuses what the first one reports (`Settles`), but the first goes on. In the same way a
cancel that arrives after the last byte fails the job while the callback continues (`over`).

| action | code |
|---|---|
| `Take`, `Promote`, `RecoverStalled`, `LoseLock`, `Crash` | BullMQ as `work.ts` configures it: concurrency, backoff, a lock of five minutes |
| `Head`, `Fetch`, `FetchFails`, `Place` | `doResumableDownload`: a fresh `.tmp` file, the transfer, the rename and what it does without a `.tmp` file |
| `Poll`, `KeyExpires` | the interval that looks for the cancel key, and its five minutes |
| `Look`, `Save`, `Wipe` | `onComplete`: the row is read and replaced, the file of the other version deleted |
| `List`, `Write`, `Record`, `Hand`, `CallbackFails` | `downloadRemoteSuccessCallback`, `rebuildFromDisk` and the hand-over to the embedding queue |
| `LookDownload`, `Clear`, `Dispatch` | `ZimService.downloadRemote` with `getActiveByUrl` |
| `LookUpdate`, `Dispatch` | `CollectionUpdateService.applyUpdate`, which clears nothing |
| `Signal`, `RemoveJob`, `DeleteFile`, `DeleteTemp` | `DownloadService.cancelJob`; `RemoveJob` alone is `removeFailedJob` |
| `Unlink`, `ReadLibrary`, `WriteLibrary`, `DropRow` | `ZimService.delete` |
| `Restart`, `Scan`, `Adopt` | the server starts, its requests are gone, `reconcileFromFilesystem` runs while it serves |

Left out: what a half written file contains and what two writers of one `.tmp` file leave in it;
resuming, because only the world map is downloaded without `forceNew`; archives of Wikipedia, whose
record is a table of its own (`Wikipedia`); the progress. An Ollama that is offline is a `CallbackFails`.

### 3.5 The update of MONAD (`SystemUpdate`)

`kind` says which updater is installed and never changes. `upd[a]` is a thread of it: the watcher,
and for the daemon one per HTTP call. A thread that is to write a status is at `say`; `Truncate` and
`WriteStatus` are the two halves of `write_status`, between which the file is "halfway" for whoever
reads it. The server's `requestUpdate` is three steps (`RequestCheck`, `RequestOpen`,
`RequestWrite`); `fd` says that the file it has open still has its name. `page` is
`update.tsx`: `seen` is `seenAdvancedStageRef`; `polled`, `stale` and `runs` are history.

| action | code |
|---|---|
| `ReadRequest`, `RemoveRequest`, `Linger` | the loops of `update-watcher.sh` and `watch_request_file` |
| `Post`, `Acquire` | `do_POST` of the daemon and its lock |
| `ApplyTag`, `ListImages`, `Pull`, `Stop`, `Up` | `perform_update` and `run_update`, one action per command that may fail; recreating container 1 takes the server down |
| `Crash`, `Script` | the updater dies and is started again; `update_monad.sh` recreates everything |
| `Boot`, `Heal` | the server starts; `version_check_provider.ts` withdraws an offer it has caught up with |
| `Fetch`, `StoreAvail`, `StoreLatest`, `JobReads`, `JobWrites` | `checkLatestVersion` with its two writes, and `CheckUpdateJob` |
| `Start`, `Poll`, `Recheck`, `Reload` | the page |

Left out: the log file, which is only shown; caches of the releases; early access.

### 3.6 The vault (`Vault`)

A note is a file named by second and title (`Names`); `disk[n]` is the number of the save it is of
and whether it can be read: `text`, `empty` (frontmatter only, which has no vectors), `torn` (a write
that has truncated and not ended) or `plain` (stored by Obsidian, not encrypted, which the server
refuses to decrypt). The number stands for modification time and size. An index entry has the number it
is filed under, the number of the text that was embedded, and the model. `call[c]` is a request and
what it holds between its awaits; `seen`, `alone` and `broken` are history for the properties.

| action | code |
|---|---|
| `SaveMarkdown`, `Saved` | `saveMarkdown`: truncate, write; two writers of one name write in place, and either may leave a mix that cannot be read |
| `Index`, `SemanticSearch`, `AskVault`, `Query` | the requests; `Routes` are the ways `route` of the orchestrator takes for the prompts |
| `ReadUsable`, `Match` | `ensureUsableIndex` with `indexMatchesFiles` |
| `SyncRead`, `SyncList`, `Embed`, `WriteIndex`, `Written`, `Reread` | `syncIndex`: the cached vectors, the files that need new ones, each read and embedded, the index truncated and written, then read again |
| `Rank`, `Keyword`, `Chat` | the search by meaning, by words, and the answer; `Throws` is where a search goes on without vectors |
| `Edited`, `Ollama`, `Restart` | a note edited elsewhere, the local AI, the server |

`Classify`, `SelectModel` and `ModelReason` are the pure functions of the orchestrator over prompts
that are sets of the words its patterns are about. Left out: folders, the other tools of the
orchestrator, encryption itself (a file can be decrypted or not).

### 3.7 Library: maps, Wikipedia, packages, local life, benchmarks (`MCLibrary`)

The constants of all parts are those of `MCLibrary`, and `MCLibraryAssumption` says what they may be: bounds
are numbers, curated files, global maps and regions have different names, a version is not 0 and one
of them is the newest, no option, tag or text is called like the value that stands for its absence,
the shell, the job, the dashboard and the API are no pages, and the worker tries a job at least once.

* `MapLibrary`: `disk` is the state of each file, `temp` the `.tmp` files, `row` the version the table names
  per region, `queue` the jobs and `run` the executions of the worker. An execution goes on when its job has
  been removed (`gone`) or failed by a late cancel (`over`). `Begin`, `Arrive` are `doResumableDownload`,
  `Begin`, `Finish`, `Break`, `Stat` an extract; then come `Look`, `Record`, `DropOld`, and `Note` or `Prune`: the
  completion callbacks, one action per await that lies between two accesses to the table or the disk.
  `Signal`, `RemoveJob`, `DeleteOutput`, `DeleteTemp` cancel; `Delete`, `DropRow` delete the file and then the row;
  `ServerDies`, `ListFiles`, `Adopt` are a restart with its reconciliation, while the worker goes on. `Open`,
  `LookBase`, `Unpack`, `LookWorld`, `Cut`, `Serve` are a request for a style, with a `MapService` of its own, so that
  its guards against a second set-up protect nothing across requests. `excused` remembers the resources of which two
  completions, or one and a reconciliation, were at work at once, and those whose file was taken away
  while somebody named it or was going to; the next completion that is alone takes it off again.
  Left out: size estimates, markers, what the style says.
* `Wikipedia`: `row` is `wikipedia_selection`; every reader of it holds a copy over an await
  (`ask.snap`, `run.snap`, `tellers`) and `Saved` writes the columns that differ from that copy. `Submit` ..
  `AddJob` are `selectWikipedia`. `run` is what the worker does, with or without its job, as in the maps: `Take`, `Begin`,
  `Place`, then the callback `ReadDone`, `SaveDone` and `End`. `Failed` emits, once per attempt, the event that
  `ReadFailed` and `SaveFailed` handle. `Cancel` .. `TellCancelled` are the cancel, which removes the job and the file
  whatever the worker still does; `Poll` is the worker's side of it, also after the last byte.
* `ZimExplorer`: `Fetch` is one upstream page of `listRemote`, which skips what is installed and counts
  what was returned; `FetchOnBottom`, `Search`, `Deliver` are the page with its query cache. The list is a
  bag: how often it shows a package matters, in which order it does is left out.
* `LocalLife`: every button is a call (`calls`) that the server handles in the steps of its
  handler and the page then receives, in any order; notes and services are two pages of one shape.
  Left out: deleting a reminder, which no page does, and updates that carry some fields only.
* `Benchmarks`: `run` goes through the steps of `_runBenchmark` with a container per test, whose removal may
  fail unnoticed (`left`); started by a page, a job or the command line, each with a `BenchmarkService` of its
  own. `Look`, `Post`, `Mark` are `submitToRepository`. A measured part counts in full or not at all: the weights
  are those of the code, the scales of the single measurements are left out.

### 3.8 Assistant: models, chat, tags, wizard (`MCAssistant`)

* `Models`: `Configure` .. `StopLocal` are `configureRemote`, step by step. `env` is the environment of the server,
  fixed for a behaviour: whether `OLLAMA_BASE_URL` is set, as `docker-compose.yaml` does, and whether the server is
  to stay offline, in which case it takes no notice of a configured host outside (`Heeded`). `BaseUrl` is
  `_initialize` with its three branches. `Take`, `Ready`, `Poll`, `Check`, `Progress`, `Complete`, `Break`,
  `Abort`, `Fails`, `Succeeds` are a job of `DownloadModelJob`, which asks whichever host was found when it started and
  polls for a cancel only after that host has listed its models; `row`, `timer` and `seen` what the page shows of it.
  Left out: the catalogue.
* `Chat`: `Send`, `Created`, `Rewrite`, `SaveUser`, `FirstChunk`, `EndStream`, `SaveAnswer`, `Title` are one
  question from the page through `ollama_controller.chat` and back. A chunk goes to what the page
  shows, as in `handleSendMessage`. `Select` and `Loaded` are `handleSessionSelect`: a load may fail, for want of the
  session, of the server or of an answer, and then the session is active and nothing is shown (`page.blank`). `loaded`,
  `leaving`, `hints` are the models in memory and the requests to drop them. Left out: answers that are not streamed, what
  is found in the documents.
* `ThinkTags`: the parser of `chatStream` over texts of any symbols and with any two tags. `Pass` is the body
  of its loop, `Parse` as many passes as a text can need, `Chunk` what happens to a chunk. `Reading` is the
  reference: the whole text, read from its beginning, symbol by symbol.
* `EasySetup`: `currentStep` and the choices; `Steps` are the steps that are shown, with that of the
  assistant only while it is part of the setup; `HandleFinish`, `StorePolicy`, `ConfigureRemote`,
  `InstallServices`, `Download`, `FinishWikipedia` are `handleFinish`, group by group.

## 4. Runs

| run | question | bounds | result |
|---|---|---|---|
| `kb_core` | do batches run in order, are counted rows complete, does a chain ever stop unnoticed? | one archive of two batches, one upload; two requests, one fault, retention 1 | holds |
| `kb_quiet` | does a bulk delete wipe a new job's points, is anything embedded twice unforced? | two clients, three requests, no fault | holds |
| `kb_drain` | does every chain end, and end indexed when nothing fails? | two requests, two faults, fairness | holds |
| `zim_batches` | do batches skip or repeat articles, does the chain end, is it a `BatchChain`? | all archives of up to six entries, batches of two, two faults | holds |
| `claim_articles` | are all articles of a finished archive embedded? | archives of up to four entries, no fault | violated |
| `services` | do overlapping installations, updates, syncs and checks keep their promises? | two requests at a time, three in all, four containers, two tags, one fault | holds |
| `claim_cleanup` | does a failed installation remove only what it created? | the same | violated |
| `downloads` | is what is on record on disk, does a finished download deliver, does one execution write a file, is none stuck? | two versions, two executions and requests at a time, three requests, two attempts, one fault | holds |
| `update` | is a running update shown and alone, is a page told the truth about its end and about releases, does it stop waiting? | both updaters, one page, one call of the daemon, two containers, two releases, two requests, one fault | holds |
| `library` | do rows of maps, documents and Wikipedia have their files, is the list of packages complete, are results shared once, does what is waited for end? | per part, see below | holds |
| `assistant` | does a chat show what is stored, does the wizard ask for what it showed, do cuts of a stream matter, is a cancelled model tried again? | per part, see below | holds |
| `vault` | does the index hold vectors of other texts or models, does a search alone see every note, what makes it fail? | two callers, two saves, two other requests, two models, one fault | holds |

Bounds of the knowledge base. `AutoIds`, `MaxFaults` and `MaxRequests` bound a behaviour and appear only in guards.
Two batches make a first, a last and a continuation, and with a crash every phase of a job is
met twice; three requests let two operations overlap with a third that follows. The retention
counts are 50 and 20 in the code; 1 makes ageing happen at once, 5 makes it never happen, and
the proofs cover the values between. Crashes, lost locks and errors share `MaxFaults`, so that
a run with two of them sees every pair. Documents are absent from `kb_core`, whose questions
they do not touch, and present in `kb_quiet`.

Bounds of the archives. Six entries in batches of two hold an empty batch, a full one, one cut
by the end of the archive and entries of every kind at each border; the proofs cover every
archive and batch size.

Bounds of the services. Two requests at a time overlap at every pair of steps, and the third
meets what they left behind. Four containers are as many as three requests can create beside the first; two tags make a
newer and an older image. The requests are interchangeable, hence the symmetry: they appear in
the formulas only under quantifiers and as arguments of functions.

Bounds of the downloads. Two versions make an old and a new one, and whether one is installed at
the start is free; two executions are needed for a lost lock as well as for two versions side by
side; with three requests a version can be downloaded, cancelled and asked for again while the
third runs beside. One fault is a failed transfer, an error of the callback, a crash, a lost lock
or a restart of the server; a second failure of an attempt comes from a cancel that removed the
`.tmp` file. Versions, executions and requests are interchangeable.

Bounds of the update. One page beside one caller and the watcher are two of everything that writes the
status or the compose file; the container of the server and one more are the two kinds there
are; the fault may be a failed command, a crash or the script.

Bounds of the library. Maps: one curated region, the map of everything, one extract in two zoom
levels, any of them installed at the start, two requests for a style, two clicks, two attempts, two executions side by
side, one fault: two completions, a cancel or a deletion beside a completion, and a reconciliation beside one are all met.
Wikipedia: one page, two options, a catalogue that moves once, two clicks, two executions. Packages: four in pages of two, two
pages per request. Local life: one page of notes, two requests under way, which is what it takes for an answer to meet another
page state, and a click between them. Benchmarks: two runs of kind "full", which has every step of
the others, one of the four tests (they differ by what they measure), two submissions. With two attempts and one
fault a job runs out of attempts only where a cancel takes one; that every failing attempt
emits an event is met at once.

Bounds of the assistant. Two requests that configure in each of the four environments, one model and three clicks; a chat of two questions in
two sessions with two models and two changes; every stream of seven symbols in chunks of one to
three, with tags of two and three symbols that begin alike, as those of the code do, so that a tag is cut at
each place and twice (the proofs cover all others); five clicks in the wizard, on three apps, one
tier, one model and one map.

Bounds of the vault. Two callers interleave at each pair of awaits; with two saves a note is
overwritten in its second or saved beside another; with two requests an index made by one is read,
or overwritten, by the other. The proofs cover all other sizes. Callers and models are interchangeable;
only safety is checked with symmetry.

`CHECK_DEADLOCK` is off in all runs because a behaviour may use up its requests, or have finished
its archive, and stop.

Properties are chosen for what several actors can break together. `NoSilentStop` is violated
only by a sequence of a batch, its continuation and an unlucky id; `NoLostChunks` only by a
client, the worker and a second job; `DispatchedIsIndexed` depends on every guard of the
chain; `UpdatesKeepAContainer` speaks of any number of updates that rename, create and roll back
in each other's way; `InstallDelivers` of pages that correct the row while it is written; `OneWriter` of every path by
which an entry can leave the queue while its execution goes on; `RecordHasFile` names the three
circumstances in which the code does not keep a record and its file together. `StatusTellsTruth`,
`RowsTellTruth`, `ShownIsSo` and `AnswersAreTrue` are conjunctions of named parts, each stated and
explained in the module of its component; where a part excuses a circumstance, the comment names
it, and there the code does not keep the promise: two completions that meet, two readers of one row, a file taken
away under its row, a server that died between two writes. Every property of a passing run has a mutant of the code that
violates it; of the conjunctions, parts have more than one in their modules.

Fairness. `FairSpec` assumes that the worker process goes on (a job that can start starts, a
handler that can go on goes on, a backoff ends, the stalled check comes) and that an admitted
request goes on: BullMQ polls, timers fire and Node resolves awaits. Nothing is assumed of
clients, which may stop asking, nor of faults. `ZimBatches` assumes that the worker goes on with
the job it holds. `SystemUpdate` assumes that the watcher loops (a shell loop with `sleep`), the server
starts and answers, and that the pages' timers fire; `MapLibrary`, `Models` and `Wikipedia` that the
worker goes on with every job and its handlers run to their end; `ZimExplorer`, `LocalLife`, `Chat`,
`EasySetup` and `Benchmarks` that a request that was sent is answered or fails, and that effects and timers of an open
page fire. In the compositions the same conditions are stated per part. No strong fairness is used.
No liveness is claimed of the services, the downloads and the vault: what a request does there ends after a
fixed number of calls.

## 5. Where the code and what is said of it part

Two statements are checked by a run that violates them:

* `AllArticlesEmbedded` (`rag_service.ts:598-601`, run `claim_articles`): an article without text takes a place in its
  batch (`zim_extraction_service.ts:149-152`) and gives no chunk, so the full batch has fewer
  documents than `ZIM_BATCH_SIZE`, passes for the last, and the rest of the archive is never
  embedded although its row says indexed.
* `CleanupRemovesOwn` (`docker_service.ts:865`, run `claim_cleanup`): after a Docker error while listing, every service
  is marked not installed; the page offers to install the running service; the installation fails because the
  name is taken, and its cleanup removes the running container, which it never created.

Others are behaviour of the models that no property forbids, because the code does not prevent it:

* `embed_file_job.ts:299-300`: the entry under the deterministic id completes with the *first*
  batch. Once `removeOnComplete` has dropped it, nothing but the pending row remains of the running
  chain, and another scan under the policy Always dispatches the archive again.
* `rag_service.ts:1841`: `discoverMonadDocs(true)` bypasses the flag in the KV store, and not the
  completed entries in Redis; after a reset the documents are not embedded again.
* `system_service.ts:946-949`: an empty list after a Docker error (`docker_service.ts:205-208`) marks
  installed services as not installed. `SyncRepairs` shows that a later read puts that right.
* `download_service.ts:211`: the partial file is the `.tmp` file, but the cancel deletes the final
  path first. Cancelling a repeated download deletes the installed file; its row stays. `RecordHasFile` excuses it.
* `run_download_job.ts:113-146`, `map_service.ts:190-219`, `825-835`, `download_service.ts:208-220`: the callback of a map
  looks at its row, writes it, and deletes the file before, with awaits between; a deletion takes the file and then
  whatever row the resource has by then; a cancel waits four seconds and deletes the file while the callback may
  still run. Two completions that meet may delete each other's file, a row may be written for a file that has just
  gone. `MapLibrary.RowHasFile` excuses these resources until a completion has been alone.
* `collection_manifest_service.ts:339-391`: the reconciliation of maps works from a list while downloads complete. Excused
  in the same way.
* `download_service.ts:208-235`, `zim_service.ts:593-646`: a cancel of a Wikipedia package that comes after the last byte removes job and
  file while the callback sets the row to installed. `RowTellsTruth` excuses it when the file went between the
  rename and the end of the callback.
* `benchmark_service.ts:818-823`, `829-833`: a container that cannot be removed is left, and nothing removes it later. No
  property promises otherwise.
* `check_service_updates_job.ts:44`: a check that began before an update may offer the tag the update has just installed,
  until the next check.
* `docker_service.ts:286`: a row that says installing when the server stops stays so. `InstallingIsWorkedOn` excuses a shutdown.
* `system_service.ts:972`: a read that syncs from a list made before an installation ended overwrites the row; again
  a later read puts that right.
* `ollama_controller.ts:258-266`: with `OLLAMA_BASE_URL` set, clearing the configured host marks the assistant as installed, whether or
  not anything answers there. `ollama_service.ts:103`: a server that is to stay offline marks a configured host outside as
  installed and then does not use it. `InstalledIsReachable` asks for a host that is named, not for one that answers.
* `components/chat/index.tsx:245-257`: a session whose load fails is active and shown empty; what is sent then goes
  to the model without its history and is stored behind it. `ShownIsStored` asks of such a page only that
  what it shows is stored.
* `map_service.ts:806`: deleting an extract leaves its row, since its file name tells no region. `MapLibrary.RowHasFile` excuses it.
* `run_download_job.ts:67`: a cancel key that no poll consumed lives five minutes and stops a download that
  is started again in that time; extracts and models do the same.
* `zim_service.ts:472-591`, `593-658`: a selection that is changed while its download ends, or whose row two handlers read
  at once, may be left as either wrote it. `RowTellsTruth` excuses it.
* `benchmark_service.ts:147`: two submissions that overlap send a result twice. `SharedOnce` excuses it.
* `monad_updater_daemon.py:206-219`: the daemon reports a failure after it has left its lock, perhaps over
  the status of the next run. `RunningIsShown` excuses it ("late").

## 6. Proofs

### 6.1 The knowledge base

`KbIngest_proofs` proves, for any number of files, batches, clients, requests, workers, faults,
attempts and any retention counts:

| theorem | statement |
|---|---|
| `TypeCorrect` | `Spec => []TypeOK` |
| `BatchesInOrder` | `Spec => []PrefixRan` |
| `CountedComplete` | `Spec => []CountedRowIsComplete` |
| `NoChainLost` | `Spec => []NoSilentStop` |
| `DispatchIsIdempotent` | `MaxFaults = 0`: `Spec /\ [][CompletedKept]_vars => []NoDuplicateChunks` |
| `NothingIsLost` | `MaxFaults = 0`, no deletions: `Spec /\ [][DiskGrows]_vars => []NoLostChunks` |

from `EmbedQueueAssumption` and `KbIngestAssumption`, which TLC evaluates in every run. None of the
three properties is inductive, nor is `TypeOK`: that a continuation stands for a batch that
exists follows only from the phase of the job that enqueues it. The inductive invariant is

    IInv == TypeOK /\ PhaseOK /\ PrefixRan /\ RanIsPrefix /\ BatonKept /\ CountedRowIsComplete

`PhaseOK` relates the phase of a job to the batches that ran; `RanIsPrefix` says the batches of a
file that ran are `0 .. m-1`, which turns "every batch has a successor" into "all of them ran"
without an induction; `BatonKept` is the heart: after every batch that ran, the next one ran, or
the file was given up, or a live job carries it, be it the job of the next batch or the job of
this batch before it enqueued the next.

The proof that a step keeps the chain rests on `StepKeepsChain`: a step may do to the entries
it is not about only what is `Harmless` (nothing to a live one), and must leave the entry it is
about with what it carried (`HandsOn`). The worker's steps that run a batch or enqueue one, and
the crash, have lemmas of their own. All requests reduce to `RequestEffect`: they add a first
job, remove an entry, or leave the queue alone, whatever else they do.

The last two theorems are about behaviours without errors, as the properties are: a crash between
`upsert` and the end of a batch stores it twice, an error after a delete loses what was there.
`CompletedKept` says of a step that it takes no completed entry out of Redis (retention, cleanup),
`DiskGrows` that it takes no file out of storage; the run has them by its bounds, the theorems
by name.

`DispatchIsIdempotent` rests on `QInv == OneChain /\ PathIds /\ AtRest`. Of a file for which nobody
forced a job, `OneChain` says that it has one entry per batch at most, that what is stored of a batch
was stored by that entry, once, that an entry which is still to embed or to dispatch is the last of
the chain, and that the chain begins under the id of the path. A dispatch that finds nothing
under that id therefore finds no chain at all, and a continuation never meets an entry of its batch.
The first conjunct must speak of completed entries too: it is they that make the id taken.

`NothingIsLost` rests on `IInv` and `LInv == StoredOrToCome /\ OnlyAfterRun /\ RequestsOK`. Whoever
deletes the points of a file *owes* it a job (`Owes`), and a job *reaches* the batches from its own
on (`Reaches`): every batch of a file that ran is stored, or reached, or owed. The order in the code
is what makes a delete harmless: it comes before the dispatch, so the points that it may wipe are
those of jobs that its own will run after. `RequestsOK` says that no request deletes the points of
one file and forces a job for another, and that a scan takes no file for embedded that is not.

Only model-checked: the liveness properties, which no installed prover reaches.

### 6.2 Batches of an archive

`ZimBatches_proofs` proves from `ZimBatchesAssumption`, for every archive, batch size and number of
faults:

| theorem | statement |
|---|---|
| `ZimTypeCorrect` | `Spec => []TypeOK` |
| `NoArticleSkipped` | `Spec => []NothingSkipped` |
| `NoArticleTwice` | `Spec => []StoredOnce` |
| `ArchiveCompleted` | `Spec => []CompleteWithoutBlanks` |
| `ArchiveIsAChain` | `Spec => RunsItsBatches`: `ZimBatches` implements `BatchChain` |

The invariant relates the three counters to `ArticlesBefore(pos)`, the number of
articles the walk has passed: while skipping it is `skipped`, while collecting it is `offset +
processed`, and an offset is only moved on after a batch without blank articles, since a batch
with one has fewer documents than its size. That is why documents may be counted for articles,
and also why a blank article ends the archive.

The refinement maps the length of the chain to a number that is fixed before the first batch runs:
one more than the batches that are full, in articles and in documents, before the first that is not
(`NumBatchesOf`, `FullBatches`). `ChainOK` is what a step needs of it: no blank article lies before the
offset, the documents of this batch are fewer than its articles exactly if it holds a blank one, and
the offset is that of as many batches as ran, all of them full. A batch that ends the chain is then the last, one that does
not is not. Only model-checked: `ChainEnds` (liveness).

### 6.3 Services

`ServiceContainers_proofs` proves from `ServiceAssumption`, for any number of requests, containers, tags and faults, every property that the run `services` checks:

| theorem | statement |
|---|---|
| `ServiceTypeCorrect` | `Spec => []TypeOK` |
| `InstallationInCharge` | `Spec => []InstallingIsWorkedOn` |
| `UpdatesLeaveOne` | `Spec => UpdatesKeepAContainer` |
| `RollbackRestores` | `Spec => RolledBackIsBack` |
| `UpdateDelivers` | `Spec => UpdatedRuns` |
| `InstallationDelivers` | `Spec => InstallDelivers` |
| `ReadingRepairs` | `Spec => SyncRepairs` |

The invariant is `TypeOK /\ StepOK /\ WorkOK`. `WorkOK` strengthens the property: not just any
installation runs, but one that *owes* the row another status. `StepOK` says why it will write
one: its own copy of the row says "installing", so that `save()` counts the new status as a
difference. Every action of a request shows `Good(r)`, which leaves the other requests alone and
hands the debt on or pays it; `GoodStep` then proves the invariant once for all of them.

`UpdatesLeaveOne` lets any number of updates overlap. Docker gives a name to one container only, so
that at most one update at a time is between creating its container and the end of its clean-up or
rollback (`Replacing`): its own container is then "main", and the one it replaces is "old".
Whichever of the two it removes, the other is left. `SomeLeft` carries the fact that there is
a container at all from the step in which an update found one to the step in which it renames it.

The four outcomes share one invariant, `OInv`. A request remembers in `met` the operations and faults
it ran beside, and `Beside` says it has met everyone who is active now. `Outcome(r)` then says, for
each stage of r and as long as r has met only what the property allows, where its containers
are (`InstDocker`, `UpdDocker`, `ReadOK`) and which columns of the row still are those of its copy
(`CopyOK`): `save()` writes only what differs from the copy, so that a column is right only if nobody
else has written it since. A step of another request keeps `Outcome(r)` because whatever it may touch,
it would have been met for (`Frame`, `StepFrame`); a step of r itself moves it on to the next stage.
The sets of operations in the properties are what this argument needs: an installation survives a
start but not a stop, an update survives an exit of its container, a reading nothing that
writes "installed".

### 6.4 Downloads

`Downloads_proofs` proves from `DownloadsAssumption`, for any number of versions, executions,
requests, attempts and faults:

| theorem | statement |
|---|---|
| `DownloadsTypeCorrect` | `Spec => []TypeOK` |
| `DownloadsNotStuck` | `Spec => []ActiveIsWorkedOn` |
| `DownloadsOneWriter` | `Spec => []OneWriter` |
| `DownloadsRecordHasFile` | `Spec => []RecordHasFile` |
| `FinishedDelivers` | `Spec => FinishedIsDelivered` |

`IInv` has a part for each group of variables. `Owned` is the one that matters: an entry has an
owner only while it is active, and that owner works on it; so an execution that is idle owns
nothing, which is why starting one takes nothing away from another. `Trying`, an entry that goes on
has an attempt left, is needed even for the type of the count. For `OneWriter` the invariant
says more than the property: whoever writes a `.tmp` file *owns* the entry of the version, or there
is an excuse (`Writers`); two owners of one entry do not exist. That nobody takes the entry from
a writer without leaving an excuse uses `Cancels`: a cancel key, and a cancel about to remove a job,
belong to a version remembered as cancelled.

`RecordHasFile` needs `RInv == WInv /\ Cancelling /\ ("beside" \notin past => Orderly)`: as long as no
two callbacks have met, an execution that has put its file in place keeps it, whoever is about to
delete the old version's file is itself on record with its own, and what a reconciliation has listed
is still there when it removes what it did not list.

`FinishedIsDelivered` needs `DInv == RInv /\ (Clean => Stages) /\ (Quietly => Tidied)`. `Stages` says what a
callback has done by its next step, `Tidied` what is left beside the version at each step, between
downloads and during a deletion. Of two callbacks that run side by side, both of one version, neither
undoes what the other did; but only one that runs alone (`Alone`, from `Writers`) deletes the old file
for certain. A dismissed execution that goes on beside its successor may leave it: the one reads the row
that the other has just written, and takes its own version for the old one. So the property asks for a
tidy disk only if no execution was dismissed, as if none died.

### 6.5 The vault

`Vault_proofs` proves from `VaultAssumption`, for any number of titles, models, callers, saves,
requests and faults:

| theorem | statement |
|---|---|
| `VaultTypeCorrect` | `Spec => []TypeOK` |
| `VaultAnswersTrue` | `Spec => []AnswersAreTrue` |
| `VaultIsSeen` | `Spec => SearchSeesTheVault` |

`AnswersAreTrue` is about index, answers and reasons. Not inductive is that a file which still has the
time and size of an entry has the text that was embedded: the text is read at one await, the
file was listed at another, and the entry may lie in a request, in `vectors.json`, and in another
request again before anyone looks. The invariant calls the number of a save `Past` when nobody is
writing it any more; such a number is never given to a file again. All that is embedded, listed or
indexed has past numbers only (`Sound`, `Fit`, `IndexOK`), so a file that has the number now had it
when its text was read. `WritersOK` says that two writers never share a number; `DiskOK` that
every file that can be read has a past one. That only notes that cannot be read make a search fail
needs the converse bookkeeping: as long as one is there, every request under way remembers it
(`Fit`). Steps of a request use `CallStep`: other requests change in nothing but history (`Alike`);
steps of the files use `Carried`. That the reason fits the model (`ReasonsFit`) is a fact about
three functions, for every prompt.

`SearchSeesTheVault` needs `SeesOK` besides. Of each note that a request saw as it began and that still is
what it was (`Held`), it says where it is on its way: listed to be embedded, or `Covered` by a vector the
request has, or, between writing the index and reading it again, by one in `vectors.json`. That the
note is still what it was cannot come about again once it has ceased to be, because its number is past
(`FilesSee`); and who writes the index makes every other request forget what it saw (`InterferedForget`),
which is what the property excuses.

### 6.6 The update

`SystemUpdate_proofs` proves from `UpdateAssumption`, for any number of pages, calls, containers,
releases and faults:

| theorem | statement |
|---|---|
| `UpdateTypeCorrect` | `Spec => []TypeOK` |
| `UpdatesDoNotOverlap` | `Spec => []OneRunAtATime` |
| `UpdateTellsTruth` | `Spec => []StatusTellsTruth` |

`IInv == TypeOK /\ OnlyWatcher /\ LockHeld`: with the side car nobody but the watcher is at work;
with the daemon whoever is `Within` an update or a check, from the first status it writes to its
last, holds the lock. `GoesOn` proves all three parts for a step of one thread, from what that thread
is at afterwards; `SucceedsKeeps` and `FailsKeeps` apply it to the two outcomes of a command.

`StatusTellsTruth` rests on three further invariants, one for each of its parts.

* `Telling`: while a thread is in a run or about to report its completion, the status file shows a
  running stage, is half written, or says "error" of a daemon that reported late. The one writer that
  could write something else over a run, an "idle", needs the lock too (`EndOK`), except when the
  daemon starts, and then no call is served.
* `PagesOK`: a page that waits, has lived through no end of a run and was not started on the status
  of an earlier one, sees an advanced stage only while `SomeRun` goes on. When its poll would end the
  wait, that run contradicts a status of "complete" or "idle".
* `OffersOK`: what a look for a release is about to store second fits what it stored first, a server
  that is down looks for nothing, and recreating the server a second time, after an operator's
  script, starts the version that already runs (`UpSame`, which needs the lock).

Only model-checked: `PageSettles`.

### 6.7 The library

`MCLibrary_proofs` proves from `MCLibraryAssumption`, for any number of regions, versions, options,
packages, pages, rows, runs, requests and faults:

| theorem | statement |
|---|---|
| `LibraryTypeCorrect` | `FairSpec => []TypesOK` |
| `LibraryTellsTruth` | `FairSpec => []RowsTellTruth` |
| `RemindersStayDone` | `FairSpec => L!ReminderStaysDone`, the part of `Settles` that is not liveness |

The parts share no variable and a part that was not chosen stays at an initial state, so all five
invariants hold in every behaviour: `AllInv == MInv /\ WInv /\ EInv /\ LInv /\ BInv`. Fairness is used
nowhere. Each part has a lemma per handler.

* *Maps.* Of a resource that is not excused there is one completion at a time, and none beside a reconciliation that
  has its list (`MAlone`). Its file is there from the rename on (`MThere`); once it has made its entry, the row
  names that file or, after a deletion, none (`MNamed`), so that the file it deletes next is not one the row names; and
  what a reconciliation has listed is there when it is put on record (`MListed`). Every step that takes a file away
  either finds nobody who names it or excuses the resource. `MShape` ties the stage of an execution to the kind of
  its file. `MWorld`: a part of the map of the world is on disk exactly while one request cuts it.
* *Wikipedia.* Every writer of the row read it before an await. As long as no two of them met
  (`w_excused`), one at most has it in hand (`WAlone`), and what it read is what the row says (`WReads`).
  `WOwned` holds always: a job that is active has one execution that owns it, though others may go on without theirs. The
  property then follows from a chain of responsibility: a row that says "downloading" has a job, a callback,
  an event, a cancel or a request that will write another status (`WDownloading`), and one that
  says "installed" has its file or somebody about to tell that it is gone (`WInstalled`).
* *Packages.* `EHolds(items, a, b)` says that items has, once each, the results between a and b that are not
  installed. `EList` says it of the list from 0 to the offset it will ask for next, `EReq` of what a
  request under way has collected, from there to its own offset; an answer joins the two.
* *Local life.* A text in a form, a list or a request is one that was typed for that very row (`LTexts`,
  `LUpdates`), whatever came between reading and writing it. `LDocs`: between the file and the row of a document
  one upload is at it.
* *Benchmarks.* A result in the repository is marked as sent, about to be marked, or excused (`BMarked`); no
  two submissions of one result are between the look at the mark and the mark, unless excused
  (`BAlone`); one that is about to send finds nothing of its result there (`BFresh`).

Only model-checked: the leads-to part of `Settles`.

### 6.8 The assistant

`MCAssistant_proofs` proves from `MCAssistantAssumption` (bounds are numbers, `Largest` is a model, the lists of the
wizard share no names, tags are texts of at least one symbol), for any number of models, requests,
sessions, questions, tiers and faults, any set of symbols, any two tags and any length of an answer and its chunks:

| theorem | statement |
|---|---|
| `AssistantTypeCorrect` | `FairSpec => []TypesOK` |
| `AssistantShowsTruth` | `FairSpec => []ShownIsSo` |
| `CancelledStaysCancelled` | `FairSpec => O!CancelledIsNotRetried`, the part of `Settles` that is not liveness |

As in the library, the four invariants hold in every behaviour, whichever part was chosen: `AllInv`.

* *Host.* `OAlone`: unless two requests overlapped or the server went down, which `InstalledIsReachable` excuses,
  one request at most is between two of its steps, and what it read before an await is still so (`OStage`).
  While there is none, an assistant that is marked as installed has a configured host, one in the environment or a
  container (`OReach`).
* *Chat.* `CRows` and `CSaid` hold always: a message is of a request that has come far enough, and is stored in
  the session of its request. The rest holds until `handleSendMessage` goes on after the page has turned to
  another session (`c_mixed`). `CCalm`: every question under way is of the session that is shown, or creates the only
  one. `CFits`: a message is shown only if it is stored or its request is at one of two steps, in which it is on
  the page and on its way to the table, and, unless the messages of the session did not come (`CBlank`), whenever it is. `COwn`: all that is shown, or sent as context, is of one session.
  When nothing is under way, `CFits` is `ShownIsStored`.
* *Wizard.* `SGroups` says what has been asked for when `handleFinish` reaches each of its groups, `SPolicy` that
  the policy is stored before the first; `SForAi` keeps models out of a setup without an assistant.
* *Tags.* `TFrom(text, i, p)`: the buffer is the text after its place `i`, and what was passed on is what
  its beginning is read as, *whatever follows* (`TSure`). The last part is what makes the state fit for another
  chunk: no tag begins before `i` that the end of a text could have hidden. `TPassTag` and `TPassLast` show that a
  pass of the loop keeps it, with the first place of a tag (`TIndex`) and the longest suffix that may begin one
  (`TPartial`); a pass that is not the last shortens the buffer, so that the loop of `TParse` ends.
  Induction over passes and places is by least counterexample (`Induction`, from `Least`).

`CInv`, which has the most parts, was model-checked with the bounds of the run before it was proved.

Only model-checked: the leads-to part of `Settles`.

## 7. Plan and limits

What would come next, most important first.

1. Larger instances of `Chat` and `Wikipedia`: a second page beside the first.
2. Collections: fetching and diffing of manifests, tiers of a category, and the update of a resource
   as one protocol with `Downloads`.

Out of the prover's reach, and left to TLC: all liveness, that is `QueueDrains`, `DispatchedIsIndexed`, `ChainEnds`, `PageSettles` and the leads-to parts
of `Settles`. Every invariant and every other action property that a run checks is stated by a theorem.

Not modelled, and why.

* The Python engine (`src/engine/`): a second store of memories that nothing in the repository starts.
* Fetching and diffing manifests and the tiers of a category: they fetch, compare and hand downloads to the queue.
* Warnings, estimates, size estimates of extracts and the comparison of versions (`version.ts`; a tag on offer is
  a newer one by its place in an order): functions
  that shape what a page shows. The logarithmic scales of benchmark scores use floating point numbers.
* Documentation, countries, disk information and permissions: they read files and answer.
* Pages that only display what the server answers; layout; notifications.
* `install_monad.sh`: sequential shell around docker compose, run once. `update_monad.sh` is `Script`.
* Of the services: those installed first because another needs them, the migration of Kiwix on
  restart, volumes, the exception for a remote Ollama, GPU and disk information.
* Of the knowledge base: searches, estimates and progress percentages.
* Of downloads: what a half written file contains, what two writers of one file leave in it, and
  resuming, which only one kind of download does.
* Of the chat: answers that are not streamed, the text of prompts, titles beyond their being there.
* Of the vault: encryption itself, folders, tools of the orchestrator other than memory.
