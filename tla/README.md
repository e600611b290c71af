# Verification of the investment-banking onboarding platform

TLA+ models, TLC configurations and TLAPS proofs for the program under `src/`:
a FastAPI service (`src/app/api.py`) in front of a handful of agents, an
in-process or shared store, and a hash-chained audit trail. All line numbers
below refer to files of `src/app/`.

## 1. The system

### How it runs

The HTTP handlers are plain `def` functions, so FastAPI runs each request on a
thread of a pool: **any two handlers of one process may interleave at any
point where Python switches threads**, and no service takes a lock around
what it keeps. A deployment runs two to five replicas of the process; each has
its own audit file and its own memory. Application records, reviews and the
graph live in Neo4j when it is configured and in the process otherwise. Event
subscribers (`services/event_bus.py`) are called synchronously, on the thread
that publishes.

### Components

| component | state it keeps | operations | what makes it correct |
|---|---|---|---|
| Audit trail (`services/audit.py`) | list of events, id counter, JSONL file | `record`, `_load`, `verify_chain`, `list` | ids unique, events survive restarts, an alarm exactly when the chain was broken, naming the place |
| Client applications (`services/applications.py`, handlers of `api.py`) | one record per application, in the store or in `_applications` | submit, upload, list, notify, decide | documents kept, reviews match files, approvals are human, decisions stand and reach the client |
| Onboarding agent (`agents/onboarding.py`) | none; files reviews and audit events | screen, escalate, persist | a flagged client always has its review |
| Review queue (`services/graph_store.py`, `services/neo4j_store.py`) | list of review objects | `add_review`, `list_pending`, `resolve_review` | no review twice, the latest one shown, a decided one gone |
| Compliance agent (`agents/compliance.py`) | none | `inspect`: decide, route, escalate, assemble | an escalation on the trail is in the queue |
| Retrieval (`services/retrieval.py`, `services/vector_store.py`, `services/ingestion.py`) | chunk ids, texts and matrix rows; built flag and node count | build, incremental add, retrieve, ingest | ids and rows match; what was uploaded is found |
| Ask pipeline (`agents/supervisor.py`, `mcp/`, `agents/copilot.py`, `services/rbac.py`) | state of one request; the audit trail | guard, classify, RBAC, workers, aggregate; JSON-RPC tool calls | nobody runs a tool their role may not call; every request answered and audited |
| Knowledge graph (`services/graph_store.py`, `services/neo4j_store.py`, `scripts/seed_neo4j.py`, `agents/client_profiling.py`) | nodes and edges, in the process or in Neo4j | load or seed, `add_document`, the reads of a client profile, neighbours of a hit | both backends answer alike, however Neo4j was filled |
| Uploaded files (`api.py`, `agents/document_analysis.py`, `services/ingestion.py`) | files under `uploads/` | write, read four times, persist | one document is one file, from its name to its chunks |
| Client accounts (`services/client_identity.py`) | one account per address, in the store or in `_accounts` | register, authenticate, newest application | the first password stays, every application is linked |
| Evaluation and feedback (`eval/harness.py`, `services/feedback.py`, `api.py`) | ratings per replica; trend in the store | rate, evaluate, show | what was rated wrong is measured; the trend misses no evaluation |
| Event bus (`services/event_bus.py`) | subscribers, bounded history | publish, subscribe | everybody gets events in an order that agrees with who published first; a failing handler stops nobody |
| LLM adapter and telemetry (`services/llm_adapter.py`, `services/telemetry.py`) | counters, ring of spans | generate, start and end spans, put traces together | counters add up; a trace shown has its root and its true nesting |
| Staff identity (`services/azure_ad.py`, `services/local_auth.py`, `services/rbac.py`) | cached signing keys; static tables | validate a token, check a permission | deny by default; a rotated key takes effect within the hour |
| Sanctions screening (`services/sanctions.py`, `scripts/update_sanctions.py`) | the downloaded list on disk; caches of the list, of its sorted form and of verdicts | screen names, download a new list | one process answers by one list |
| Azure AI Search (`services/azure_search_store.py`) | an index all replicas share; a shadow of it in each | create, upload, search | what the service misses is still found |
| DLP, NLP | none | pure functions | scores and patterns |

### How components interact

A request thread calls everything below it directly. `applications.py` calls
the onboarding agent, which calls the store's `add_review`, the audit log and
the event bus, whose audit subscriber runs on the same thread. A reviewer's
decision goes to the store first and then back to `applications.py`, which
looks for the application that carries the review. The supervisor calls the
copilot, compliance, onboarding and profiling tools through the in-process MCP
client, each on a thread of its own.

### What is hard

* reads and writes of one shared object with other threads in between
  (`audit.py:111` and `128`, `applications.py:61` and `206`,
  `graph_store.py:256-263`, `retrieval.py:73-128`);
* whole records written back from copies read seconds before;
* store and mail calls that raise, before or after they took effect, and whose
  exceptions are swallowed;
* crashes between the review, the mail, the audit event and the save of one
  submission, and restarts that reload a file with torn lines;
* decisions that race with uploads and are changed afterwards;
* several replicas that fill one empty database, statement by statement
  (`api.py:69-84`), and stop half way;
* files of one name written and read by several requests (`api.py:501`);
* rings and histories that forget by one order and are read by another
  (`telemetry.py:65`, `event_bus.py:72`), and a cache filled by several
  threads (`azure_ad.py:37`);
* what changes outside while the process caches it: a list written over
  (`sanctions.py:39-86`), a service that takes one call and misses the next
  (`azure_search_store.py:67-73`).

`PROJECT.json` lists each of these at its line, with the properties that
would catch it going wrong.


## 2. The modules

| module | models | how state and actions correspond |
|---|---|---|
| `AuditTrail` | `services/audit.py` | `events`, `counter`, `disk` are `_events`, `_counter` and the JSONL file; `record()` is cut where threads can switch: `ReadTip` (111), `Build` (112-127), `AppendMemory` (128), `AppendDisk` (129). `Restart` is a crash at any point followed by `_load`; `EditFile` is somebody with a text editor. `Breaks`, `Valid`, `FirstInvalid` are `verify_chain` |
| `ClientApplications` | `services/applications.py`, the three handlers of `api.py`, the escalation and persistence of `agents/onboarding.py`, `notifications.send` | `kv` is the store's `Application` collection, `fallback` is `_applications`, `reviews` the queue seen as a register per id. Each thread holds a request in `job` with its own copy of the record; one action per store call, audit event or mail, in the order of the code |
| `ClientJourney` | nothing in particular: the promise | the status a client is shown, per application, and how it may change |
| `ReviewQueue` | `GraphStore.add_review` and `resolve_review`, scoring and routing of `agents/compliance.py` | `reviews` is the list, as references to the dicts in `objs`, so that a thread can go on writing to a dict that has left the list. `Look`/`Put` are the scan and the replacement of `add_review`; `Find`/`SetStatus`/`SetDecision` the steps of `resolve_review`; `Announce`, `AuditDecision` the two audit events of an inspection |
| `ReviewRegister` | nothing in particular: the promise | one review id as a register: `Escalate` puts a case up, `Decide` sticks to it |
| `RetrievalIndex` | `services/retrieval.py`, `services/vector_store.py`, `ingest_document` | retrievers and vector stores are objects with references, so that a thread may keep working on one that was replaced; `add_batch` is three actions (ids, read, write), `build_index` four |
| `ChunkText` | `chunk_text` of `services/ingestion.py` | `End`, `NextStart` and the recursive function `ChunksOf` cut a text given as its length and the places of its blanks |
| `AskPipeline` | `agents/supervisor.py`, the tool calls of `mcp/`, `agents/copilot.py`, `services/rbac.py`, the adapter and counters of `llm_adapter.py` and `telemetry.py` | `ask` is the state of the LangGraph run, `work` the state of each parallel branch, `trail` the audit events of this question, `usage` the counters |
| `GraphBackends` | `GraphStore`, the graph part of `Neo4jStore`, the seeding at start and by script, the client profile, the first index | `mem` is the dict and the edge list, `neo` the database; `Statements` are the Cypher statements of a seeding in order, each committed on its own, and `seeder[s]` is the place a replica or the script has reached. `Start`, `CheckEmpty`, `Seed`, `SeedFails`, `Stop`; `Upload` goes to both |
| `ClientAccounts` | `services/client_identity.py` and the sign-up in `api.py` | `accounts` is the shared collection, `fallback` each replica's dict. `Apply` files the application, `LoadAccount` and `SaveAccount` are the two halves of `register` |
| `EvalLoop` | `services/feedback.py`, `flagged_questions` and the regressions of `eval/harness.py`, the trend of `api.py:625-682` | `ratings` per replica, `trend` in the store; an evaluation is `Score`, `Regress`, `PutLatest`, `ReadHistory`, `PutHistory`, each of which may meet a store that raises |
| `SpanRing` | spans, ring, and the trace pages of `telemetry.py` | `spans` is all there ever were, `ring` what the exporter still has; `Waterfall` and `Row` are the two views |
| `UploadFiles` | the upload handlers of `api.py` and the four readings of a file | `disk` maps a path to whose bytes it holds; `Open` empties it, `Write` fills it, `ReadTags`, `ReadNlp`, `ReadDigest`, `Persist` read it again |
| `KeyCache` | `_get_jwks` and `validate_token` of `azure_ad.py` | `cached` is `_JWKS_CACHE`; a validation is `Validate`, `Fetch`, `Keep`, `Match` |
| `EventBus` | `services/event_bus.py` | `publisher[t]` is the event a thread is delivering and the handlers left; `AppendEvent` is what the lock covers |
| `SanctionsList` | `services/sanctions.py`, the download of `scripts/update_sanctions.py` | `names`, `sorted`, `verdicts` are the three `lru_cache`s; `screening[t]` is the call of `sanctions_check` a thread is in, cut between a miss and what is kept of it: `MatchName`, `SdnNames`, `KeepNames`, `Compare`, `Answer`. `Download` empties the file, `WriteOn` fills it |
| `AzureSearch` | `services/azure_search_store.py` and the places of `retrieval.py` that make, fill and search a store | `remote` is the service's index, `local[p].holds` the shadow, `local[p].service` which kind of store the replica has; each call of the service is answered or not |

The theorems are in `AuditTrail_proofs`, `ClientApplications_proofs` and
`ClientJourney_proofs` (both about `ClientApplications`), `ReviewQueue_proofs`,
`RetrievalIndex_proofs`, `AskPipeline_proofs`, `Services_proofs` (about the five
modules of `MCServices`) and `Stores_proofs` (about the four of `MCStores`).
`MCAuditTrail`,
`MCClientApplications`, `MCReviewQueue` and `MCRetrievalIndex` give constants
that a `.cfg` cannot write, and symmetry sets; `MCRetrievalIndex` also
evaluates `ChunkText` over all short texts. `MCStores` and `MCServices` check
four and five modules that share no state in one run each: a variable `part`,
chosen at the start, says which of them moves, so that the states of the parts
add up and do not multiply.

How they compose: `ClientApplications` is an instance-by-refinement of
`ClientJourney`. It uses reviews as registers, and `ReviewQueue` is shown
to implement one for each id (`QueueIsRegister`): every step is an escalation, a
decision or nothing to the reader of the queue, and as long as calls for an id do
not overlap, none of them is lost. What the other modules call "the trail" is a set of events in
each; that an event, once `record()` returned, is there for good is what
`AuditTrail` shows. `RetrievalIndex` takes a document that was uploaded as
given; that its chunks are of one file is what `UploadFiles` shows, and that its
node is in the graph, `GraphBackends`; which index a chunk reaches when the
search service is used, `AzureSearch`. `ClientAccounts` takes the applications
of `ClientApplications` as numbers in the order they were filed.

Each module keeps *history variables* (`returned`, `overlapped`, `decided`,
`sent`, `acked`, `made`, `finished`, `served`, `early`, `asked`, `disturbed`,
`calm`, `mixed`, `split`, `unsent`, `since`, `gone`, ...): no code reads them, they only
let a property say what happened before. A definition whose comment begins
with "Mutant" is a variant of the one after it with a plausible bug. No
specification uses it; `PROJECT.json` names the property it has to break.

### Abstractions

* A hash is the pair of what it was computed from: SHA-256 without collisions.
  What is hashed of an event is one number. The HMAC over it signs the same
  content and is checked in the same place, so it is not a value of its own.
* A file is the checklist key it is classified as; a screening verdict is an
  arbitrary choice between "clean" and "flagged".
* A chunk batch stands for its document; ranking and scores do not appear,
  only what a search could find at all.
* Scores are integers in thousandths, as the code rounds to two digits.
* In the graph a node is its label and id: the other columns of a CSV row never
  change. Edges are compared as sets; in memory a file uploaded twice has its
  edges twice.
* A file's bytes are named by the request and place they came with, and what is
  derived from them (tags, digest, chunks) carries that name.
* Which names difflib takes for spellings of one another is a given set of
  pairs. A file is read at one moment, and what a write in progress has left of
  it is any part of the new content that grows.
* A password is compared as typed, a token stands for the key that signed it, a
  trace starts in this process, and its clock does not run backwards.
* One question is asked at a time in `AskPipeline`, with all its workers in
  parallel. Questions share only counters under a lock and the audit log.

## 3. What is checked

Bounds are guards of the actions named `Max...`; everything else is as in the
code. Runs named "violation" are explained in section 5.

| run | instance | what it shows |
|---|---|---|
| `MCAudit` | 2 writers, 4 events, 1 lost or torn write, 1 edit of the file, 2 restarts | ids are unique in a process's life; links only point back; `RestartsContinueTrail`: returned events survive crashes, and ids only go up unless calls overlapped; the chain breaks only after a lost write, an edit or two overlapping calls; `verify_chain` is an exact alarm for events not sealed on their predecessor and names the first one |
| `MCAppsRace` | 1 application, 2 documents, 2 threads, 3 requests, 2 failing calls, 1 restart | in all interleavings: a record with a final review is complete, however stale its copy; approvals the client is told of were made by a human; what is saved was audited first; a flagged client keeps its review and is never put up for the low-severity approval |
| `MCAppsSerial` | the same with 1 thread, 4 requests, no failing call, 1 restart, fair threads and reviewers | `ClientUpToDate`: acknowledged documents are kept and the last mail is current; decisions stay: `RefinesJourney`; `CompleteIsDecided` |
| `MCReviewQueue` | 2 threads, 2 filings or changes of a decision, ids of three kinds, 30 profiles around the thresholds, fair threads and reviewers | a decision reported as "warn" or "fail" was escalated before, its review is in the queue, and unnamed requests do not swallow one another; an approval shown is one made for this filing; `QueueIsRegister`: a register per id, which loses no call that did not overlap another of its id; `QueueDrains`; a larger transaction is never treated more leniently |
| `MCRetrieval` | 3 documents (one without text), 2 threads, 4 uploads or queries, 1 evaluation, 1 failing read, both backends; texts of up to 12 characters in chunks of 5 overlapping by 1 | rows never outrun ids, beside any uploads and rebuilds; `SearchIsComplete`: the corpus is searched and the latest upload is found; chunks skip no character and keep short words whole |
| `MCAsk` | every kind of question of five callers, with and without a model, two in a row, one store call that raises, fair threads | nothing runs or is generated before its check; the reply and the trail agree; stubs are counted; every question is answered |
| `MCStores` | graph: 2 replicas and the script, 2 clients, 2 documents, one of everything else, one good and one dangling data directory, 3 starts, 1 stop, 1 upload; accounts: 3 spellings of 2 addresses, 2 companies, 2 replicas, 3 applications, 1 raise, 1 kill; evaluation: 2 replicas, 2 questions, trend of 2, 3 runs, 2 ratings, 1 raise, 1 restart; search: 2 replicas, 2 documents, 4 requests, 2 failed calls, 1 restart, both graph stores | `BackendsAgree`: profiles, neighbours and indexes are the same on Neo4j as in memory once one seeding has ended; `AccountsComplete`: no application, and not the first password, is lost; `EvaluationsCount`: the trend misses no calm evaluation, and each complaint is measured once; `SearchDegrades`: without the service a replica still ranks the policies and what it added itself, and with it all that was confirmed |
| `MCServices` | spans: ring of 2, 4 spans, 2 of them of the pipeline; uploads: 2 threads, 2 requests of up to 2 files, 1 error; keys: 2 threads, lifetime 2 of 4 ticks, 3 rotations; bus: 2 publishers, 2 handlers, history of 2, 3 events, 1 raise; sanctions: 2 threads, 2 checks out of 3 calls with 3 names (one watched, one listed, one spelt alike), cache of 2, 2 editions, 2 downloads, 1 restart | `WaterfallWhole`: a finished trace is shown with its root, its duration and the true depth of each span; `AnalysedAsOne`: a document is one upload; `KeysAreFresh`: rotation takes effect within the lifetime; `BusKeepsOrder`: history, handlers and broker agree with the order of publishing; `ScreensOneList`: all answers of a process are right about one list the file contained |
| `MCAuditFork`, `MCAppsStaleMail`, `MCAppsErased`, `MCRetrievalDrop` | the smallest instance that shows it | sentences of the repository that the code does not keep |

### Why the bounds are enough

* *Threads.* All races found are between two threads; a third thread adds no
  new pair of accesses. Single-thread runs are for properties that a second
  thread breaks, which the property or its run's name then says.
* *Audit.* Four events let two overlapped events be followed by two serial
  ones; two restarts cover a torn line, the line glued to it, and a restart
  after that.
* *Applications.* Applications share nothing but the audit trail, so one is
  enough. Two documents give "none, one, all". Three requests are a submission
  and two concurrent uploads; the fourth, in the serial run, a changed
  decision. Deciding what is pending is not counted, so a decision is always
  possible. Two faults let a review and the save both fail.
* *Review queue.* Two requests can collide on an id, and any number of
  decisions of pending reviews fit around them. The profiles put the risk on
  both sides of 0.5, 0.71 and 0.85 and the amount on both sides of 0.5 and 5
  million, which are all places where `Outcome` changes.
* *Retrieval.* Two uploads and two queries give every order of build, rebuild
  and add. Texts of 12 characters have room for three chunks, with a blank at
  every place of a chunk.
* *Graph.* Two replicas and the script seed at once in every order, and one of
  them may stop; the data has a node of every label, an edge of every kind, and
  a reference that leads nowhere for each column that is not checked.
* *Accounts, evaluation.* Two replicas overlap, a third application comes after
  them; two addresses show that they do not disturb each other. Three
  evaluations push one out of a trend of two.
* *Spans.* Four spans are two traces of two or one with a grandchild beside
  another, and half of them no longer fit the ring. The theorems of section 4
  hold for all sizes.
* *Uploads, keys, bus.* Two requests with two files each have a path in common
  or not, in the request or across them; a lifetime of two lets a key be
  withdrawn, come back and expire within four ticks; three events overflow a
  history of two while both publishers are at work.
* *Sanctions, search.* The cache of two evicts one of three names; two
  downloads replace an edition by another and each is seen half written; the
  three calls decide with the watchlist, with the list, and with its sorted
  form or a spelling. Two failed calls miss both the creation of the index and a
  batch, or a batch of each replica; four requests on two replicas leave a
  search after two uploads.
* *Questions.* The five callers are: nobody, each role whose permissions
  differ on intents, and one with two roles. A question is independent of the
  one before but for the counters; two show that nothing is left over.

### Fairness

Safety runs assume none. Where liveness is checked it is assumed

* that a thread which has a request goes on (`WF` on what one thread does):
  Python threads are scheduled, store calls return or raise, and a call of the
  model ends after 45 seconds (`llm_adapter.py:27`). `AskPipeline` needs only
  one `WF` for all branches: a branch has finitely many steps and none
  disables another's;
* that reviewers take up what is in the queue: every status mail promises a
  decision "typically within 5 working days". In `ReviewQueue` this is strong
  fairness per id, because a decision has to wait whenever all threads are
  busy.

Nobody has to submit, upload, ask, edit a file or crash. `CHECK_DEADLOCK` is
off wherever requests are bounded: a system all of whose requests are answered
rests. Liveness runs use no symmetry.

## 4. What is proved

The theorems hold for any number of threads, replicas, events, applications,
documents, callers, faults and restarts. Their only assumptions are the named
`ASSUME`s of the modules: bounds are natural numbers, and inputs that are
enumerated are of their type. Five say more:

* `IdsAssumption` (`GraphBackends`): nodes of different kinds have different
  ids, there are finitely many, and at least one client. The data numbers them
  `C...`, `D-0001`, `E-...`, `POL-...`, and an upload gets `D-` with eight hex
  digits.
* `DocsAssumption` (`RetrievalIndex`), `ContentsAssumption` (`AzureSearch`),
  `NoAccountAssumption` (`ClientAccounts`), `NotReadAssumption`
  (`SanctionsList`): the values a model uses for "none" or "the corpus" are not
  documents, accounts or lists.
* `KeyAssumption` (`ClientAccounts`): normalising an address twice is
  normalising it once, as `strip().lower()` does.
* `SizesAssumption` (`ChunkText`): chunks are longer than their overlap, as the
  defaults of `chunk_text` are (800 and 120).
* `SomeKey` (`KeyCache`): a token is signed with some key.

No safety property below is inductive as it stands, unless said. Each
part below names what has to be added, and every invariant named is proved to
hold of the initial states, to be kept by each action, and to imply the
property. Type correctness is proved of every module and not named again.

### Audit trail (`AuditTrail_proofs`)

`TypeCorrect`, `IdsAreUnique`, `LinksPointBackward`, `VerifyIsExact` follow from
`IInv`:

* `IssuedOK`: every hash handed out was computed from the genesis hash or
  another one handed out and a body the clock has passed, and no body was
  sealed on two predecessors;
* `SealedOK`: events in memory, lines of the file and events in flight carry
  the hash of what they say, or their body was edited and was never sealed;
* `IdsOK`: ids given out are below the counter, and what a thread holds
  between `Build` and the append no other event has; with it `UniqueIds`;
* `LinksOK`: a tip a thread has read is the genesis hash or that of an event
  already listed; with it `LinksBackward`, since the list only grows between
  the read and the append.

`VerifyIsExact` needs `IssuedOK` to turn "recomputed hash matches" into "was
sealed by `record()`".

`ChainHolds` and `RestartsContinue` relate the list to the file, and need
`TrailInv`, which adds to `IInv`: `OneBusy` (one thread at a time is in
`record()`, unless calls overlapped); `NoLoss` (without a failed write or an edit
the file holds only what is in memory and all that was returned); `OneChain` (if,
besides, no calls overlapped, the list is a valid chain, and the file is the list
but for the event about to be written); `IdsUp` (without overlaps and edits, ids go
up in memory and in the part of the file that a restart would load, however many
lines were lost or torn). A restart takes the list from the file, so each of them
has to hold of both.

### Client applications (`ClientApplications_proofs`, `ClientJourney_proofs`)

`FinalReviewIsComplete`, by `RecordsWhole`, which says it of *every* version of
a record there is: the stored one, the one in `_applications` and each thread's
copy. It is inductive because documents are only ever added to a copy and the
review is only linked to one that is complete. `ApprovalIsHuman`, by
`HumanApproved`, which says the same of an approval still in the queue
(`QueueOK`) and of one on its way into a mail (`MailOK`): a human made it.

* `TrailLeads` (`AuditedBeforeSaved`): `Trailed` says of each place of a request
  which events it has left behind it (`JobTrailed`), and that nothing is in
  `_applications` as long as no call fails (`NoFallback`).
* `FlagStays` (`FlaggedStaysEscalated`): `Escalated` says that all versions of
  a record share one screening (`ScreenedOnce`), that no final review is filed
  unless it went well, and that a flagged one carries its review when it is saved.
* `UpToDate` (`ClientUpToDate`) is proved for one thread and no failing call,
  which is what the run `MCAppsSerial` checks: with two threads it is false
  (section 5). `Current` adds `DocsKept`, documents acknowledged are in the record
  or in the copy of the request underway, and `Mailed`, which says for each place
  of a request how the status shown and the last mail relate, while no review was
  decided twice (`Few`).
* `JourneySafe`: under the same two conditions every step, crashes included, is
  a step of `ClientJourney` or a stutter, that is `Spec => Journey!SafeSpec`
  under the mapping of the run. `Travels` says that a complete file is under
  review, that a submission is of a new application, and that the review an
  upload brings about is pending until the record that carries it is saved: this
  is what makes the save a step of the journey. The fairness half of `RefinesJourney`
  stays with TLC.

### Review queue (`ReviewQueue_proofs`)

`QInv` is the type invariant and four parts. `DictsOK`: a dict carries only a
decision that was made on it, which is `ApprovalForFiling` already, as filing a
review anew makes a new dict. `JobsOK`: what a thread knows at each of its places,
up to the events of an inspection; with `TrailOK` it gives `EscalatedReviewed`.
`AloneOK`: of an id whose calls did not overlap there is one slot at most and one
thread at most, and what this thread found is still there.

`RegisterImplemented` is the step simulation `Spec => QueueIsRegister`: each
action is taken to `Escalate`, `Decide` or a stutter of each id's register,
whatever overlaps, and by `AloneOK` it has its effect if nothing overlapped. `Grown`
(references and dicts are only added) settles the steps that touch other ids.

`LargerIsNeverSofter` is arithmetic about `Outcome`, for all scores and amounts.

### Retrieval (`RetrievalIndex_proofs`)

* `RowsHaveIds` (`RowsWithinIds`), for any number of threads at once. A thread
  lists an id before its row is in the matrix, and another may replace the matrix
  in between. `RowsFit` counts: the rows of a matrix, and of the copy each thread
  is about to put in its place, plus the threads between the two appends
  (`Pending`) are never more than the ids.
* `SearchComplete` (`SearchIsComplete`), for requests that do not overlap, any
  documents and any number of uploads. `Serial` follows the request at hand:
  what it holds is what is registered (`SerialJob`), a built index has the corpus
  if the read did not fail (`CorpusJob`, `CorpusBetween`), and the index has all
  uploads after which nothing came that outdates it (`Lasting`, `LastingFound`).
* `TextsKept` (`CutsKeepText`), for every text, size of chunks and overlap.
  `CutsAdvance`: a chunk ends after its start, and the next one starts after that
  start and not after that end. `ShortWordsFollow`: a word shorter than a chunk
  that does not end in the one it begins in begins in the next, too. `ChunksExist`: the
  recursion has a solution (the chunks at all places reached), and any solution
  includes what follows. From the last place after which a character or a word
  were missing, one more step leads to a contradiction.

### Ask pipeline (`AskPipeline_proofs`)

`CheckFirst`, an action property, by `WorkChecked` (a worker that is not off has
its check on the trail, and the roles do allow it); `StubsCounted`, inductive as
it stands; `TrailMatches`, by `TrailInv`, which adds `TrailOfWork` (the calls on
the trail are those of ended workers) and `TrailOfRoute` (before the check the
trail is empty, and until aggregation there is no route on it). `StepIs` reduces
the actions to the six things a step can do to workers and trail, so each
invariant has six cases.

### The stores (`Stores_proofs`)

* *Graph.* `BackendsAgreed` (`BackendsAgree`), for any data directories, any
  number of replicas and any point at which a seeding stops. `Graphs`: the
  database never holds more than the memory and, but for uploads in the middle of
  the first seeding, lacks only edges of clients nobody knows. `Seeded`: whoever
  is at the n-th statement has done all before it, whichever replicas did them
  too, because nothing is ever taken out. `Indexed`: an index holds texts of the
  database, those of all rows in time. The lemma `StatementsOrdered` is what
  makes the statements enough: a node is merged before every edge that needs it;
  `OneKind`, from `IdsAssumption`, is why memory's lookup by id alone and
  Cypher's by label and id find the same.
* *Accounts.* `AccountsWhole` (`AccountsComplete`). `Orderly` says of an address
  that was not `disturbed` that its account is what its sign-ups made of it, that
  it is in no replica's fallback, and that whoever is about to save it has read it
  as it is now. `FormsOnce` says that each application is signed up for by
  one replica.
* *Evaluation.* `EvaluationsCounted` (`EvaluationsCount`). `Numbers`: the
  numbers of running evaluations are in no trend and in no copy of it;
  `Undisturbed`, while calm: trend and copy are the newest of those that ended;
  `Rated`: ratings are only added. `FlagsMeasured` is inductive with it.
* *Search.* `OutagesDegrade` (`SearchDegrades`). `Sent`: what a replica holds is
  in the service's index, was missed, or is on its way; `Held` and `Answered`:
  what it holds contains the policies and all it answered for and did not drop.
* `PartsKept`: the composition of `MCStores` implies the specification of each
  part; by it `StoresTyped` (`TypesOK`).

### The services (`Services_proofs`)

* *Spans.* `RootShown` (`RootIsShown`), for every length of the ring: of a
  finished trace that is still listed the root is the one that was started first,
  the duration is the root's and all that is above a span shown is there too.
  `Nested` says that a span started after those it is within and does not
  outlast them, and `ChainKept` that what a retained span is within still runs or
  stands further on in the ring. Dropping the oldest (`KeptIsSuffix`) keeps both.
  `WaterfallIsWhole` (`WaterfallWhole`) adds the depths. `Chained`: what a span is
  within is its parent and what that is within, all of them older. By it
  `ClimbCounts` solves the recursion in `DepthOf` in closed form, and shows the
  solution to be the only one by the place with the fewest levels left.
* *Uploads.* `AnalysedTogether` (`AnalysedAsOne`). `UploadInv` follows each
  request: those underway that share no path with another (`Apart`) have their
  own bytes in all their paths and their own readings in hand (`Undisturbed`), and
  what is analysed is what is behind them (`Underways`), so that an answer
  comes with all of it or nothing (`AnsweredWhole`).
* *Keys.* `RotationTakesEffect` (`KeysAreFresh`), for any number of threads, keys
  and ticks. `CacheOK` says that cached keys agree with the provider as it was at
  their stamp or after it (`SeenAfter`), `CheckOK` the same of what a thread has
  fetched, from the moment its validation began, and of what it took from the
  cache, from that moment less the lifetime. That the stamp is the time *before*
  the fetch is what makes a slow fetch harmless.
* *Bus.* `BusOrdered` (`BusKeepsOrder`). `Orders` says of the history, the broker
  and each handler that none of them has an event twice or before one that had
  returned when it was published; `Delivery` that an event being delivered is not
  yet where it has still to come, and each subscriber has it or is left to be
  called; `NewestKept` that what the history dropped came before all it keeps.
* *Sanctions.* `OneListScreened` (`ScreensOneList`), for any names, lists,
  downloads and size of the cache. The witness changes over time, so `OneList`
  has two phases. `BeforeRead`: no list is cached, what is remembered was decided
  without one, and threads that have read the file hold what it contains now.
  `AfterRead`: the cached list is one the file contained, and the sorted names,
  every remembered verdict, every finding under way and every answer are right
  about it. `KeepNames` leads from the first to the second, where verdicts decided
  without a list are right about any (`WithoutList`); `MemoOK` bounds the cache
  through evictions (`RememberKeeps`).
* `PartsKept` and `ServicesTyped`, as for the stores.

### Only model-checked

* Liveness and what contains fairness: `CompleteIsDecided`, `QueueDrains`,
  `Answered`, and of `RefinesJourney` the fairness. `ENABLED` has no backend.
* The `violation` runs of section 5.

The library's induction theorems cannot be applied by the provers at hand. The
two recursive functions of the models, and the largest or smallest element of a
set, are reached by `WFMin` instead: a set of counterexamples has a least one.

## 5. Where the code and its documentation part

Four sentences of the repository are checked and violated; the counterexamples
are what one would show the authors.

* `NoAlarmWithoutTampering`: two requests read the same tip, and
  `/api/audit/verify` answers `valid:false` for ever, without tampering.
* `DecisionReachesClient`: `notified_status` is not saved after a decision.
  Approve, upload, reject, approve again: the last decision is not mailed.
* `DecisionNeverErased`, two threads: two uploads that complete the file both
  file the final review; the second wipes a decision made in between.
* `UploadsStayFound`: with the in-memory graph each upload rebuilds the index
  and drops the chunks of the uploads before it.

Other behaviour met on the way is written into the conditions of properties
instead, so that what they do claim is true of the code:

* `ReturnedSurvive` and `AlarmNamesFirstForgery` say nothing of a line that does
  not parse: the load ends there silently, although the comment at
  `audit.py:62-63` counts on `verify_chain` to report it, and what remains is a
  valid chain;
* between the two assignments of `resolve_review` (`graph_store.py:274-275`) a
  review that is being approved may momentarily read as declined
  (`ApprovalIsForThisFiling` is about approvals);
* of two concurrent uploads one may be lost, because whole records are written
  back (`ChecklistKept` is serial), and a crash between `add_review` and the
  save lets a later upload file the review again (`restarts = 0` in
  `DecisionNeverErased`);
* when filing the screening's review fails, a flagged client is put up for the
  low-severity final review (`faults = 0` in `FlaggedStaysEscalated`), and a
  reviewer may approve a flagged client whose documents are missing;
* decisions are mailed again after each upload;
* after overlapping calls and a crash, ids can be given out twice
  (`~overlapped` in `IdsIncrease`);
* `add_review` is not idempotent under threads (`graph_store.py:243`): two
  calls may both append, and the second copy never leaves the queue
  (`overlapped` in `QueueDrains`); or a decision is made on a dict that was
  replaced, and nobody sees it (`overlapped` in `QueueIsRegister`); requests whose
  ids end in the same segment
  share a review (`EscalatedIsReviewed` only promises one of its own to requests
  without an id); the
  confidence grows with the risk, so of two clients the less risky one may be
  reviewed while the other passes: `LargerNeverSofter` compares transactions
  of one client; and the in-memory queue is lost at a restart;
* an upload without text still makes the next query rebuild the index and drop
  the chunks (an upload counts in `LatestUploadFound` only if it has text, and is
  the last), and a failed read of Neo4j's corpus is
  remembered as a built, empty index (the fault condition of
  `CorpusIsSearched`);
* a tool that fails with anything but a `ValueError` is not audited
  (`server.py:10` says every call is), and the copilot's refusal is
  unreachable, since `retrieve` falls back to a fixed citation
  (`retrieval.py:233`, `copilot.py:12-16`);
* also, `server.py:10` ("every tools/call is written to the audit trail") does
  not hold of unknown tools (243) and missing arguments (264), and requests
  refused with 401 leave no audit event;
* *Graph* (`early` in `BackendsAgree`): a replica that starts beside a seeding
  indexes what is there and never looks again, so its index stays partial; a
  seeding that stops half way is resumed by the script only. Neo4j's
  `graph_neighbors` returns the hit itself too, hidden by `already`; a hit on
  evidence never leads to its document on either backend, as
  `graph_store.py:161-162` says it would; `_graph_context` asks for edges nobody
  creates;
* *Accounts* (`disturbed` in `AccountsComplete`): of two sign-ups of one address
  that overlap one loses its application, or the first password; a `kv_get` that
  raises makes `register` write a new account over the existing one, though its
  docstring says it keeps the password (`client_identity.py:105-106`);
* *Evaluation* (`calm` in `TrendComplete`, `ratedBefore` in `FlagsMeasured`): a
  rating is measured on the replica that took it until that restarts, while
  `api.py:536-537` says "measured until fixed"; a later "good" never takes a
  complaint back; overlapping evaluations lose points of the trend, and a failed
  read of the history starts it afresh;
* *Uploads* (`mixed` in `AnalysedAsOne`): two files of one type and name in one
  request are both analysed as the second; a request refused in the middle
  leaves its earlier files on disk;
* *Keys*: a token signed with a key published after the last fetch is refused
  for up to an hour, since an unknown key id starts no fetch (the second half of
  `KeysAreFresh` allows it);
* *Sanctions*: the first list read is kept, and each verdict, for the life of
  the process, so a download takes no effect before a restart, though
  `update_sanctions.py:4-5` asks to run it periodically so that the service
  "screens against the real list" (`ScreensOneList` promises one list the file
  contained since the start, not the newest); a half-written list that is read
  first is kept too; and if the list is replaced while a thread has read it and
  not kept it yet, verdicts of two lists are remembered side by side (`split`);
* *Search*: a batch the service misses is never sent again, and an answered
  search does not look into the shadow, so the upload is not found, though
  `azure_search_store.py:127` says that "queries stay grounded" (`unsent` in
  `SearchDegrades`); a replica that cannot reach the service when it makes its
  store works with a local one until it makes the next, with Neo4j after a
  restart (`local[p].service`); a rebuild empties the shadow of what was
  uploaded (`dropped`);
* *Event bus*: the history may be in another order than the timestamps, and than
  the order a handler was called in; an audit subscriber that raises leaves an
  escalation without its event, and a failed send to Kafka is only logged;
* not covered by a property: `degraded_rate` counts a failed call twice, so a
  total outage reads as one half (`telemetry.py:535`); an answer of the
  provider that cannot be read is a fallback but not an error
  (`llm_adapter.py:136-150`); a note says "downgraded to copilot_query" though
  no copilot runs when another intent remains (`supervisor.py:132`).

## 6. What is not modelled, and why

* Neo4j itself: a statement is one atomic step that may raise before or after it
  took effect, as the code's `except` clauses assume. Two `MERGE`s of one node at
  once may make two nodes where no uniqueness constraint exists; `GraphBackends`
  takes them one after the other.
* Password hashes, signatures and cookies: their outcome is a comparison. The
  static users of `local_auth.py` and the role tables have no state; the roles a
  question meets are in `AskPipeline`, those of the other routes are one
  comparison each and would be a table copied.
* The scores of an evaluation, costs and latencies: sums over lists.
* The ranking of Azure AI Search and of the local index: which of the chunks an
  index holds come first. The likeness of two names is difflib's.
* DLP, NLP: functions of strings. Their verdicts are free
  inputs where they steer control.
* Pages under `static/`, manifests, seed data: no logic.

## 7. Plan

Done in this order, most important first: `AuditTrail` with its proofs,
`ClientApplications` refining `ClientJourney` with its first proofs,
`ReviewQueue` and `ReviewRegister`, `RetrievalIndex` and `ChunkText`,
`AskPipeline` with its proofs; then the stores (`GraphBackends`,
`ClientAccounts`, `EvalLoop`) and the services around the agents (`SpanRing`
and `KeyCache` with their proofs, `UploadFiles`, `EventBus`); then what changes outside the
process (`SanctionsList` with its proofs, `AzureSearch`).

After the models, the proofs: every safety property the passing runs check, the
refinement of `ReviewRegister` and the safety half of that of `ClientJourney`.

Next, to be proved:

1. `EventBus`, `SanctionsList`: that a call, once all its handlers or names are
   done, has reached or judged all of them, as action properties of the answer.
2. `AskPipeline`: that every step of a question leads towards its answer, as far
   as that can be said without fairness: a measure that each step lowers.
3. `ReviewQueue` and `ClientApplications` together: that what the applications
   assume of a review, a step of the register, is what the queue's theorem gives.
