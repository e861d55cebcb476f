# Verification of the AST case-analysis service

TLA+ models of the service under `src/src`, TLC runs that check them on small instances, and proofs
TLAPS checks for every instance. The service keeps *cases* (sets of mail archives and documents),
parses and indexes a case in the background with an embedding model, and answers questions about it
from the index. All paths below are relative to the repository; `pipeline.py` is
`src/src/indexing/pipeline.py`, `case_index.py` is `src/src/index/case_index.py` and so on.

1. [The system](#1-the-system) · 2. [Modules](#2-modules) · 3. [Runs](#3-runs) · 4. [Fairness](#4-fairness) ·
5. [Proofs](#5-proofs) · 6. [Findings](#6-findings) · 7. [Not modelled](#7-not-modelled) · 8. [Plan](#8-plan)

## 1. The system

| Component | State it keeps | Operations | Interacts with |
|---|---|---|---|
| Case store (`cases/case_store.py`) | a SQLite row per case: status, `updated_at`, statistics | create, update_status, set_error, recover_if_stuck, update_data_sources, update_stats, delete | requests, indexing runs, several processes |
| Indexing run (`IndexingPipeline`, `scripts/run_indexing.py`) | per case in memory: `_progress`, `_threads`, `_cancel_flags` | run_async, run, cancel, cancel_and_wait, is_running | case store, pools, embedding stage, case index |
| Parsing pools (`_run_pipeline`) | pending futures, retry list, crash counts, two pools | submit, wait, rebuild a broken pool, give a file up | parser processes and threads |
| Parsers (`parsers/`), OCR (`parsers/ocr/`) | a text cache on disk, an engine and a lock per process | parse a file of a format, recognise pages | pools, units |
| Units (`units/`) | the collector of one run | build mails, attachments, chat sessions, documents, sheets into parts of limited size | parsers, embedding stage |
| Embedding stage (`embedding_worker`, `EmbedCheckpoint`) | part queue, buffer, vectors, shard files | put, take, flush a super-batch, save, clear | indexing thread, embedding service, case index |
| Embedding service (`embeddings/embedding_service.py`) | per call: batches, results, failures | embed_texts: batches, retries, subdivision, time limit, cancellation | Ollama over HTTP |
| Case index (`case_index.py`) | a folder per case with profiles, `.old` and `.tmp_` siblings, a cache per process | write_index, write_profile, load, delete, evict, _recover, reusable_vectors, filter_mask | runs, searches, scripts, other processes |
| Search (`rag/retrieval.py`, `rag/engine.py`, `rag/query_parser.py`) | the loaded index it holds | parse a question, retrieve, fuse, rerank, choose sources | case index, embedding service |
| Chat requests (`api/routes/chat.py`), analyst page (`AnalystPage.tsx`) | rows of the chat history; messages and the call under way | ask, stream, stop, fall back, save | search, LLM router |
| Admin requests (`api/routes`), settings | the embedding model in memory | create, patch, archive, delete a case; start, stop, increment indexing; change the model | all of the above |

What is hard about it: request handlers share dictionaries with daemon threads that outlive their
usefulness; a run can be cancelled, refused by the status table, fail, or be killed between any two of
its steps; the API process and command-line runs share a database, index folders and an OCR cache with
no common lock; the index is replaced by two renames while searches read it lazily by path; two threads
wait for each other over a bounded queue; a parser may kill its process and, with it, every other file in
the pool; batches are halved and retried under one time limit while a cancel comes; the embedding model
changes under runs, scripts and questions; a client leaves while an answer is streamed to it.
`PROJECT.json` lists these hazards at their lines, each with the property that watches it.

What makes each component correct:

* **case store and runs**: one status field that moves along its table whoever writes it; INDEXING
  never outlives its run unnoticed; "already running" is never said of a dead run; READY means there
  is an index; a deleted row does not return.
* **parsing pools**: every file exactly once; suspects stay out of the API process; the loop ends.
* **parsers and units**: every token a file holds is in a part, under the limit, cited at its place, and
  whatever order the files are done in, copies and attachments add up; a text in the OCR cache is whole.
* **embedding stage and service**: no part is lost between parsing and index without a record, no
  embedding work is lost by a cancelled run, no thread waits for ever; a vector belongs to its text.
* **case index**: a broken replacement loses nothing and revives nothing old; loads are neither stale
  nor mixed; what is compared with a question are vectors of its model.
* **search**: a result passes its filters, fusion respects agreement, dates include what they name.
* **chat**: the history says what the page shows, usage is logged, the page takes questions again.

## 2. Modules

```
CaseLedger  <--implements--  CaseLifecycle     the case as seen from outside, rows and runs
                               |  write_index is one step there: CaseIndexDir has its renames
                               |  _run_pipeline is one step there:
                               |     ParsePool (which file is parsed where)
                               |     UnitBuild <-- DocParse <-- Evidence (what comes of a file), OcrPages
                               |     PartPipeline (the two threads)
EmbedCall   <--implements--  EmbedBatch        the call PartPipeline's Flush stands for
CaseIndexDir, ProfileStore, Retrieval          what a question reads, and how it is answered
ChatStream                                     the question itself, from the page to the history
Ordering: what sorted() gives, for EmbedBatch and Retrieval
*_proofs: theorems about a module              MC*: instances for TLC
```

A definition that stands right before another one, with a name of its own, is what the code would be
with one mistake; the module's header lists these, and `PROJECT.json` names under "mutants" which property
catches it. No specification uses them. "map" gives the lines of every definition that models code.

### CaseLedger: what observers may rely on
`status` and `index` of each case. `Move` is the table `_VALID_TRANSITIONS`, with "ready" only when an
index has been published; `Fail` is ERROR from any status; `Close` deletes; `Publish` and `Drop` change
the folder. It knows nothing of threads, requests or flags.

### CaseLifecycle: rows, requests, runs, crashes
Variables: the row (`status`, `stale` for "`updated_at` is older than the stuck timeout"), `index`, per
run its program counter `pc`, case `on`, progress `phase` and cancel `flag`, the dictionaries
`progressOf` (`_progress`) and `threadOf` (`_threads`, `_cancel_flags`), and `loop`, the request handler
under way. `wrote` and `abandoned` are history.

* Handlers are `async def` with synchronous bodies: the event loop runs one at a time. A handler is one
  action unless it blocks with threads running (run_async's wait, delete's join) or changes disk and
  database one after the other (delete). The wait of run_async (ten times 50 ms) is taken to be
  long enough for the thread's first statement; delete's ten seconds may run out at any moment.
* `RunBegin` ... `RunToReady` are `IndexingPipeline.run` in order. `Raise` is any exception inside its
  `try`; `RunSetErrorFails` is `set_error` failing under `contextlib.suppress`. `End` is the thread's
  end.
* SCANNING, PARSING and STORING are one phase, "running". Every CaseStore method is one step.
* A slot of `Threads` is given to a new thread only when its thread has ended and no dictionary
  holds its objects for another case, so slots bound the threads alive at once, not how many there
  ever are.
* `ServerCrash` empties the memory of the API process; `CliKilled` ends a command-line run. `Age` lets
  the stuck timeout pass, but not during a step of a run that takes seconds (`Brief`), which is
  an assumption about time. Every write of the row makes it fresh again, an edit of the data sources included;
  `edited` turns over at each edit, so that one of a row that is fresh already is a step too.

### CaseIndexDir: the folders of one case, rename by rename
A folder is Absent or has a generation, which one call of `write_index` gives it (`gen`), and some of its files;
`manifest` stands for its mtime as well (two generations never have the same), `bm25` for every file that is
read late, `dense.npy` too. `rename` is POSIX (fails on a non-empty folder), `rmtree` removes file by file.
`WriteUnits`, `WriteBm25`, `WriteManifest` fill the temporary folder, where anybody may remove it; `WriteClear`,
`WriteAway`, `WriteSwap`, `WriteClean` are `_swap_dir`; `LoadStat`, `LoadUnits`, `LoadKeep` are `load` up to
the cache; `ReadLate` is `bm25()`/`dense()`; `LookUpParts` is the second load of `RAGEngine.search`.
`delete` takes no lock and may be broken off. It removes the folder, `.old` and every `.tmp_` folder, those of
live writers too: `walk` is the folder its `rmtree` has opened, and the files that go are of that folder, under
whatever name it has by then. So it may meet a folder while it is written or after it was swapped in.
`_write_lock` excludes threads of the API process from each other only. `published` (the generation
swapped in last, whole; 0 once a delete was requested or has taken a file of it) and `floor` (its value when a load
began, 0 since then) are history. That a swap may put in place what a delete left of a folder is stated, and not kept, in
`SwapIsWhole` (section 6).
The cache holds one case: eviction at two cases is only a miss. When the CaseIndex a search holds equals the
one in the cache, a late read may or may not show in the cache: they may be one object or two.

### PartPipeline: the indexing thread and the embedding thread
`mpc`/`wpc` are the two threads, `queue` the bounded queue with the sentinel last, `buffer`, `vectors`,
`failed`, `reuse`, `unsaved` the worker's data, `shards` and `index` the disk. A unit has one part.
`Flush(batch, ok)` embeds a batch with any subset succeeding: reused and blank parts get a vector, the
rest is recorded as failed, or the whole batch is (exception); shards reach the disk in any
portions and a shard may fail to be written. `FlushDies` is `get_dimension` raising outside the `try`.
`Vanishing` parts are those whose text is empty only after `embed_texts` has cleaned it: it skips them and
does not report them. Cancel and Crash come at any moment; the next run starts from the disk.
`reuse` is one set: hashes of inputs and the model name, which only remove candidates, are left out.

### ParsePool: the loop over pending files
Futures are "proc", "thread", "killed", "procDone" or "threadDone". `BreakPool` fails every unfinished
future of the process pool; `OnPoolBroken` is `_on_pool_broken`; `DrawLarge` is `_next_large`; the rest is
`_submit_next` and the loop. `WorkerKilled` is a worker killed from outside. Files are drawn in any order
(the code sorts by size). `wait` may return several futures; they are handled one by one here too. A
killer that reaches a thread is taken to be parsed there.

### EmbedCall and EmbedBatch: one call of embed_texts
`EmbedCall` is what the caller may rely on: a set of texts still `pending`, which only shrinks, what leaves it
being `embedded` or `failed` and never both, and a `call` that returns when nothing is pending, or raises.
`EmbedBatch` is `embed_texts_async`: `Cleaned` and `Batches` are `_prepare_texts` and `_split_into_batches`
(blank texts out, short ones apart, uneven ones sorted, slices of the batch size; `InOrder` of `Ordering` is
Python's `sorted`, and `MCEmbed` compares it with `SetToSortSeq`); `jobs` has one record per coroutine with the
list of parts it has still to do, so a recursion into two halves is a longer list.
`Acquire` is the semaphore, `Enter` the checks at the head of `_embed_batch_with_subdivision`, `Try` the check
before a request, and `Answered`, `Refused`, `ServerError`, `ConnectionLost`, `Malformed` are the kinds of
answer with their retries (`BackOff`) and halves. An answer may hold any number of vectors up to
that of the texts. A coroutine runs undisturbed from one `await` to the
next, so a step is what lies between two of them; `DeadlinePasses` and `Cancel` come at any moment. A text is
its length, its vector the text it was made from, so that a vector at the wrong place shows. `SettlesOnce` is
`EmbedCall` with `pending` as the texts in the jobs' lists, `embedded` as those with a result and `failed`
as those with a diagnosis or left out by the server.

### UnitBuild, DocParse, Evidence: from a file to parts
These are functions of what a file holds, composed as the workers of the pool do.
`UnitBuild` is `units/builder.py` and `split.py`: splitting of texts and sheets, ids, attachments, sessions,
`Collect` for `UnitCollector`. `DocParse` is the parsers: per format what is taken, which failure of a page,
attachment, folder or message costs what, and the two libraries that read mail archives. A text is a
sequence of tokens <<name, number>> so that any token that is lost, doubled or put elsewhere can be told; a
newline has a cost of its own that the code assumes to be one token. Texts are cut between characters, and a character
may be several tokens (`Continues`), so a cut moves back to where its character starts (`CharStart`) and nobody
counts the piece it makes. A sheet is its rows and the first row of its used range, from which .xlsx rows are numbered
(`CountsFrom`). An attachment of an archive is an object, its identity the mail or chat and the place there (`Ids`).
Hashes are injective. `Evidence` has the variables: `FileDone` takes a finished file of any worker, in any order, and
merges its units and counts; the builder may raise an exception where the parser did not (`BuildRaises`), and then the
units are lost and what was counted so far is not (`CountsUntilRaise`).
Its properties compare the units with `Promised`, the tokens of the files read off without any parsing; what
the code is known to lose (section 6) is left out there, each loss by its name (`Plain`, `HtmlUnread`,
`LostToNamesake`), and stated in properties of its own. In the same way `AttachmentPlaces` are the attachments of a file
read off without any parsing, and the counts are compared with their number. What the libraries hand over is a constant, `Files`;
`IsFile` says what may be in it: any number of pages, lines, parts, messages of any length, and any of them failing.
Loops over them are recursive functions, with the body of the loop an operator of its own (`PackLine`, `AddRow`,
`AddParagraph`, `AddMessage`), and filters are `Those`.

### OcrPages: threads, engines and the text cache
`_ocr_sparse_pages`: pages of a document are taken by `Workers` threads (tesseract) or one after the other
(paddle, whose lock is `lock` and whose model is loaded under the same lock). `Lookup`, `Read` are
`cache.get`; `Open`, `Write` (twice), `Replace` are `cache.put`. Files are inodes and names are variables:
two writers of one picture share `{hash}.tmp`, empty each other's text and rename what has the name by then;
a process killed leaves its `.tmp`. A file of the cache that cannot be read is as good as none: the page is
recognised again. The disabled cache is left out. A document may be parsed again, by another process.

### Retrieval: one question to a loaded index
A question is the dates written in it, each with how it is written (`Written`: a day, a year, a month or several,
joined in words or otherwise, with years or without), and the persons and types its patterns find. `DateFilters` is
which date pattern matches what is written and what becomes of it (`IsRange`, `YearMonth`); `Parsed` is
`parse_query` and `MergeFilters` `_merge_filters`; `Mask` is
`filter_mask`; `Bm25` and `Dense` choose any scores and rank rows and units under the mask and the limits;
`Fuse` is `_rrf` in exact arithmetic (fractions, compared crosswise, so that ties are ties); `Rerank` gives the
head any scores; `Sources` is the choice of `RAGEngine.search`. Days are numbers, ordered as the ISO strings are;
this holds for years written with four digits and months up to 98, which `RetrievalAssumption` asks for (the patterns
take any two digits, and month 99 would end in "-100-01").

### ProfileStore: the model and the vectors
Who may change what a question is compared with: `PutList`/`PutSet` (settings), `RunStart`..`RunWrite` (a run that
reuses vectors by `reusable_vectors` and carries other profiles over), `BuildStart`..`BuildTouch` (the
script that rebuilds a profile; `BuildKilled` anywhere), `SearchLoad`, `SearchCheck`, `SearchDense`
(`load`, `check_embedding`, `dense`). A vector is the part and the model it was made from, and all models have
one length, as most of those the service knows do: the length tells nothing. `kept` is what the objects
in the process have read. `unsafe` is set when something comes between two steps that no check can see; each
such pair of steps is named where it is set.

### ChatStream: a question, from handleSend to the history
Both sides at once. A request is a record: the server's next step `at`, the events on their way (`wire`), `gone`
and `noticed` (the client has left; `is_disconnected` would say so), `answer`, the LLM, the token log. The
server's actions are `chat_stream` and `query_stream` from one `await` to the next, and `chat`; `Cancelled`
is `StreamingResponse` cancelling the generator, `CloseGenerator` the event loop closing it later. The page's
are `handleSend`'s steps with its fallback, `handleStop` and the choice of another case, which empties the
messages but not the call under way. `messages` may have holes, as the array may.

## 3. Runs

The passing runs. Those of PartPipeline, ParsePool, EmbedBatch, ChatStream, Evidence, OcrPages, Retrieval and
ProfileStore say `CHECK_DEADLOCK FALSE`: these systems end (the runs, questions or files allowed are used up,
the call has returned). The others have no end, and TLC looks for deadlocks in them.

| Run | Instance | Shows |
|---|---|---|
| `lifecycle` | 1 case, 2 threads, 1 command-line run; symmetry of threads | `TypeOK`, `RunningMeansAlive`, `IndexingAccounted`, `ReadyHasIndex`, `ImplementsLedger` |
| `lifecycle_live` | 1 case, 2 threads; no symmetry, no command-line run (too many states for liveness; killed, it leaves the same row as a killed thread) | `StuckCaseRecovers`, `NeverRefusedForGood` |
| `indexdir` | 1 writer slot, 1 search, 3 generations, deletes at any time beside them | `TypeOK`, `Recoverable`, `NotStale`, `MixIsTransient` |
| `pipeline` | 3 files (one part in common, one blank, one vanishing), queue of 1, super-batch of 2, 2 runs | `NothingDropped`, `WorkIsKept`, `EveryRunEnds` |
| `parsepool` | 5 large files, 2 of them killers, 1 small, outside kills, 2 restarts | `EachFileOnce`, `SuspectsStayOut`, `LoopTerminates` |
| `embed` | the lists of lengths <<9,0,9,9>> and <<99,0,1,9>>, batches of 3, 2 at once, depth 2, 2 attempts to connect; any text may be one the server refuses | `RightVector`, `OnlyToxicFails`, `NothingSentAfterStop`, `SettlesOnce`, `CallEnds` |
| `chat` | 1 case, 1 question, 2 tokens | `RowCoversPage`, `DoneIsSaved`, `UsageLogged`, `PageRecovers` |
| `evidence` | 11 files of nine formats, among them two archives with copies of mails and one with an attached workbook without sheets; both libraries for archives, every order of completion; limit of 8 tokens, a newline costs 3, characters of up to three tokens | `WithinLimit`, `NothingLost`, `PlacesCited`, `AttachmentsAccounted`, `FoldersMerged`, `SessionsAreChains` |
| `ocr` | a document with one picture on two pages and a document with the same picture, 2 processes, 2 workers, 2 runs, 1 kill | `CacheAtomic`, `CacheSettles`, `ParseEnds` |
| `retrieval` | 5 units of 6 parts, scores 0 and 1, 2 candidates for the reranker, depth 5, 2 sources, eleven questions under three filters of the request | `ResultIsFiltered`, `AgreementKept`, `MonthsAreWhole` |
| `profiles` | 2 models, 2 profiles, 3 corpora, 2 changes of the model, 2 runs, 1 rebuild, 2 questions | `AnswersMatch`, `ListIsRight` |

Why these bounds are enough for the interesting cases to happen:

* two threads and one foreign process are the least with which a run is overtaken by one the dictionaries know
  and by one they do not; cases share no state but the event loop;
* three generations are an old, a current and a next index around a swap;
* a queue of one is full at the first occasion, a super-batch of two leaves a rest, two runs are a cancelled or
  crashed one and its successor; two killers and two restarts exceed the limit of involvement and that of
  restarts, and outlive the pool;
* a batch of three halves into two and one, and depth 2 is used up before every text stands alone; of the two
  lists one has batches that finish in any order and one is sorted;
* one question makes a stream and, when that fails, the fallback; with two tokens there is a partial answer;
* the files of `evidence` have what each parser treats apart: blank pages and rows, pages that fail, a row over
  the limit and one of two lines, a sheet whose used range begins below its first row, characters of two and
  three tokens across a cut and behind a newline, attachments excluded, broken, nested and equal, a failing builder
  with attachments before and behind the one it fails for, folders that break off;
* two writers of one picture in a process, another in a second process, and a successor that finds what a kill left;
* the head the reranker sees is shorter than the result, so both sides of that edge occur; the dates lie on
  the turns of a month and of a year, and the months asked for are written in each of the ways;
* the model goes away and comes back; corpora of the same length, of another order and longer ones follow
  each other, so that lengths alone cannot tell them apart.

One run must be refuted: `cancelled_keeps_index`. The docstrings say that a cancelled run does not write the index;
the flag set after the last look before `write_index` is seen when it has been replaced (section 6).

Statements that comments or docstrings make and the code does not keep are also written down where they belong.
They have no run of their own; put the name into a configuration of the module, as an invariant unless said
otherwise, and TLC shows how it fails:

| Module | Statements |
|---|---|
| CaseLifecycle | `ArchivedIsFinal` (an action property), `NoOrphanWrite`, `OneThreadPerCase`; `EditedCaseRecovers` (a temporal property, under `FairSpec`) |
| CaseIndexDir | `Recoverable` with two writers, `SearchOneIndex`; `SwapIsWhole` (an action property) |
| PartPipeline, ParsePool | `NothingDroppedSilently`; `OnlyKillersSkipped`, with three restarts and no kills from outside |
| ChatStream | `StoppedIsMarked`; `OwnCaseOnly`, with two cases |
| Evidence | `NodeIsNoKey`, `LinesHaveNumbers`, `LongRowsKept`, `RowsCited`, `PartsInLimit`, `FailsByItself` |
| OcrPages | `NoPartialRead` (an action property) |
| Retrieval | `AllMonthsAreWhole`, `MonthHasItsYear`, `MonthsEnd`, `SourcesAreGood` |
| ProfileStore | `LabelTellsModel` |

## 4. Fairness

* CaseLifecycle: weak fairness of each run's step (threads are scheduled, every blocking call has a
  time limit, parsing ends) and of the handler under way. Time passes (`TimePasses`): a row turns stale unless its data
  sources are edited again and again, for each edit sets `updated_at`. So the two liveness properties speak of cases whose
  edits come to an end (`EditsStop`); without that, `EditedCaseRecovers` fails. Not given by the code but
  by its surroundings, and named so in the module: strong fairness of the operator's "start" on a stuck
  case, of `set_error` (the database does not refuse every one of them), and crashes that stop eventually.
* PartPipeline: weak fairness of both threads: `put` and `get` have timeouts of a second, embedding
  a total time limit.
* ParsePool: weak fairness of each worker and of the loop. A parser that never returns is excluded by that.
* EmbedBatch: weak fairness of "some job goes on, or the call returns", no more: the event loop runs, and a
  request ends within `_REQUEST_TIMEOUT` in an answer or an error. Which job, and which answer, is left open.
  EmbedCall asks as much of its `Return`.
* ChatStream: weak fairness of the page and of each request's server steps: both event loops run, and a call of
  the LLM ends by its own timeout. Nothing is supposed of the operator (stopping, choosing a case) or of when a
  disconnection is noticed and a generator is cancelled or closed.
* OcrPages: weak fairness of each page's steps and of the end of a document: threads run, the engine answers.

CaseIndexDir, Evidence, Retrieval and ProfileStore have safety properties only and no fairness.

## 5. Proofs

Proved for all values of the constants, from the modules' named assumptions on their constants only (they
say that numbers are in range and that markers differ from what they mark), except where a further
hypothesis is named. Most of the properties are not inductive; each proof module begins with the invariant `IInv` that is,
has lemmas that each action keeps its conjuncts, and ends with the theorems.

**CaseLifecycle_proofs**: `TypeCorrect`, `RunningCorrect`, `AccountedCorrect`, `ReadyCorrect`, and
`LedgerImplemented` (`Spec => ImplementsLedger`). `IInv` adds what the code relies on without saying so:

* `AliveHasCase`: a live run has a case that was created (its row may be deleted since);
* `ShownRun`: the run in `_progress` works on that case, and its phase is "running" only at the steps
  `Working`, each of which ends by leaving the phase. From this `RunningMeansAlive` follows;
* `PublishedFirst`: a run that goes on to the statistics has replaced the index, and one that has seen no
  flag at its second look neither saw one at the first. With it two overtaking runs cannot produce READY
  without an index, which gives `ReadyHasIndex`;
* `DeletedHasRow`: nothing else deletes the row under a delete request, so `Close` of the ledger applies.

For the refinement, `StepLedger` maps every action to a step of the ledger or to none: `UpdateStatus` to `Move`
(`UpdateStatusMoves`), `SetError` and recover_if_stuck to `Fail` (`ErrorFails`), `RunWrite` to `Publish`.

**CaseIndexDir_proofs**: `TypeCorrect`, and `Spec /\ []NoOverlap => []P` for `Recoverable`, `NotStale` and
`MixIsTransient` (`RecoverableCorrect`, `NotStaleCorrect`, `MixCorrect`). `NoOverlap` says writes do not overlap,
which `_write_lock` gives within a process and nothing gives between two; with two writer slots TLC
finds `Recoverable` violated, so the hypothesis is needed. `Recoverable` alone says nothing of when `.old` may go:
`Settled` adds that a writer past `_recover` has the published index in its place. For the cache, `Fresh` says
that a generation being written (`Building`) is newer than anything published, on disk, cached or held, whatever a
delete has left of its folder, so that a swap makes every stamp taken before it different from the published one; `ToldApart`, that what was read
under the published stamp is the published index; `FloorKept`, that only a delete takes a published index back.

**PartPipeline_proofs**: `TypeCorrect`, `NoneIsDropped` (`NothingDropped`), `MadeIsKept` (`WorkIsKept`). The path of a
part is followed: `Accounted` says that a collected part has a vector or a failure, vanishes, or is still in the queue,
the buffer or the hands of a thread; `SentinelLast` and `Drained`, that nothing comes behind the sentinel and a worker that
took it has emptied the queue; `Flushed` and `Joined`, that the worker ends with an empty buffer and the index is
written after the join; `Covered` and `SavedAtEnd`, that a vector made is in a shard, in the index or
`unsaved`, and that nothing is `unsaved` at the end.

**Parsing_proofs** has the theorems about ParsePool and about Evidence.

*The pools.* `TypeCorrect`, `EachFileIsCounted` (`EachFileOnce`), `NoSuspectInside` (`SuspectsStayOut`).
`OnePlace` is the heart: a file is to be drawn, to be retried, pending or counted, never two of these;
`NoRepeat` says that the list of files to retry names each once, `LargeOnly` that only large files are in the process pool,
`StillTried` that a file not given up was in fewer crashes than the limit, `NothingLeft` that the loop waits only while something is pending
and is done only when nothing is left.

*The evidence.* For files of any number and content and any limit: `NothingIsLost` (`NothingLost`), `PlacesAreCited`
(`PlacesCited`), `PartsWithinLimit` (`WithinLimit`), `FoldersAreMerged` (`FoldersMerged`), `SessionsAlwaysChains`
(`SessionsAreChains`), and of `AttachmentsAccounted` the part `ParentsKept` (`AttachmentsHaveParents`); that as many attachments
are counted as the files hold is model-checked only.
`FilesInv` is inductive (`FilesInvariant`): a file read so far is one that neither parser nor builder raises an exception
for, a collected unit is, up to its folders, one of such a file (`Stands`), a unit of such a file is collected under its
id, and the counts add up (`Balanced`). None of the properties is inductive: that the parent of an attachment is
collected, say, needs that units of a file come with the units they name (`Closed`) and that `Collect` drops a unit only for another one of its id. The rest of the proof is about functions and
follows the data, bottom up:

* loops: a recursive function over a list exists, and its values stay in given sets, if each step leads from one
  of these sets to the next (`LoopRuns`); the sets stand where an induction theorem would have a predicate;
* texts: pieces hold all visible tokens, and are within the limit but for the tokens that go on with their first
  character (`Fits`), however the newlines count (`SplitTextFacts`); pieces begin where characters do (`CharStartFacts`);
* sheets: a block holds the header and the rows it cites, those and no others (`Cites`), when the rows above the used range
  are taken off the numbers. What waits in `buf` is the rows
  since the last block, without a gap but for blank ones;
* results: units, tokens and counts of `Together` are those of its pieces, so attachments, mails, rooms and
  archives need one lemma each. A chat's place in the order of times is counted (`Inserted`), and sessions side by side
  are the sorted list again (`SessionsFacts`);
* parsers: what `Promised` reads off a file is what the parser hands on, for each format. For mails this is that
  nothing but the insides of attached mails is left out by `Walk` and `MimeAttachments`.

The hypotheses are `UnitAssumption` (the limit is positive, a newline costs any number of tokens, any tokens go on with a character) and
`EvidenceAssumption` (`IsFile` for each file).

**Vectors_proofs** has the theorems about EmbedBatch and about Retrieval, which both sort: `InOrderFacts` says that
`InOrder` lists a finite set once and in the order of any strict order. Where counting needs induction (a list is as long
as the set it lists, powers of two double) it goes through a set of numbers in the place of a predicate (`Induct`).

*The call.* `StopIsObeyed` (`NothingSentAfterStop`) needs no invariant. `VectorsAreRight` (`RightVector`) and `CallImplemented`
(`Call!Init /\ [][Call!Next]_..`, the safety part of `SettlesOnce`) rest on `InputsPartitioned`, that `_prepare_texts` and
`_split_into_batches` put each text that is not blank into one batch, for any list and batch size. `WorkOK` and `Apart`
say that the parts jobs have to do are sound and disjoint, `SettledOnce` that what has a result or a diagnosis is in
none of them, `Placed` that the answer of a request goes to the indices of its part. Halving is the step where all of
them meet. `OnlyToxicIsLost` (`OnlyToxicFails`) adds `ToxicInv`: a part of depth d has no more than its batch over 2^d
texts, rounded up (`PartOK`), and only a toxic text in it has it halved (`LuckySteps`); so a part that may not be halved
any more is small or its batch is too large for `MaxDepth` halvings. The theorem has the hypothesis `MaxDepth > 0`: the default
is 3 (`config.py:77`) and nothing keeps it from being 0, but then the code asks for no vector at all.

*The search.* `SearchIsFiltered` (`ResultIsFiltered`), `FusionAgrees` (`AgreementKept`), `MonthsAreKept` (`MonthsAreWhole`).
`SearchInv` says of each ranking, from the searchers' over the fused one to the reranked, that it names a unit once, by a
row the filters allow (`Ranking`), and while the vectors are asked and have room (`Roomy`), that all units that pass are
in it (`Full`). For the fusion, `StandsBeforeIsStrict` shows that fractions compared crosswise, then places, then names
order the units strictly; `AgreedScore`, that a unit ahead in one ranking and behind in none has the greater sum.

**OcrPages_proofs**: `CacheIsAtomic` (`CacheAtomic`) and `CacheIsSettled` (`CacheSettles`). `NamesApart` and `OwnFile`
say that no inode has two names and who may write it; `OneWriter`, `Current` and `WrittenSoFar`, that a thread which is
alone with its picture writes to the inode named `.tmp`, and what that holds at each step; `SomeoneWrites`, that
a file with a name is whole or the thread that emptied it last is still at it; `BlankUnread`, that a page is found blank
only where the engine failed on its picture. A lemma shows that there is always a
free inode, so `Open` never blocks for want of one.

**ProfileStore_proofs**: `AnswersAreRight` (`AnswersMatch`), `ListStaysRight` (`ListIsRight`). The invariant is
`~unsafe => Safe`: slots on disk (`SlotsRight`), objects in memory (`KeptRight`), a run (`RunRight`), a rebuild
(`BuildRight`) and a search (`SearchRight`) each hold vectors that go with their labels and their parts; `Lengths`
and `ListKept` hold whether `unsafe` or not.

**ChatStream_proofs**: `RowsCoverThePage` (`RowCoversPage`). `RequestsSound` relates a server's step to its answer, its LLM
and its wire; `AskRight` relates what the page has counted to what is still on the wire (`Delivered`: the tokens
come first, and together they are no more than the answer); `MessagesRight` and `RowsRight` say the same of messages
and rows whose request is over. Each server step is shown once to be one of a few kinds (`Grows`,
`Served`), so that the conjuncts about the page do not look at the twenty actions again.

`MonthsAreWhole` is proved with the exclusions it names: months joined by ~, with a second year or over the turn of a
year are not among what the code understands (section 6).

Only model-checked: all liveness properties and the fairness part of `SettlesOnce` (beyond the prover), and `DoneIsSaved`,
`UsageLogged` and `PageRecovers`, which are "leads to" statements; the numbers of `AttachmentsAccounted`. Every other invariant and every other action property
that a passing run checks is proved.
The types of PartPipeline, ParsePool, OcrPages, ProfileStore and ChatStream are proved and have no run.

## 6. Findings

`PROJECT.json`, "findings", has each with the line of the code and the line it contradicts. In short:

*Cases.* A run cancelled between its last look at the flag and the swap replaces the index and reports CANCELLED.
`set_error` takes a case out of ARCHIVED. Deleting a case does not stop a run that is only starting,
is in another process or takes over ten seconds: it writes the index of a case that is gone. A second thread may be started for a
case whose first one has not shown itself yet. A case whose data sources are edited more often than the stuck timeout
never counts as stuck: with its run killed it stays INDEXING and every start is refused. The documentation's "archived → created" does not exist.

*Index.* Two processes share `{case}.old`; together with a crash, the published index is lost or an older one
returns. A search may pair the matrices of one index with the parts of another. `write_profile` compares numbers of
rows only, and a profile left in `.old` is never recovered. `reusable_vectors` asks for the model a second time, so a
change of the model in between labels vectors of one model with the name of another. A delete removes the temporary
folder under a live writer, which goes on and swaps in what is left of it: an index without some of its files.

*Embedding.* Parts that cleaning empties, and those of a thread that `get_dimension` killed, are in neither index
nor failure record. **The learned batch size** (`embedding_service.py:581`) is the one the call began with, not the one
that worked: what is remembered is always the configured one, so `BatchSize` of EmbedBatch is a constant.

*Parsing.* A suspect is not alone in the pool: fresh files join the last one and may be given up for it. Text that OCR
finds on a page with one to forty-nine characters of its own is thrown away. A mail without Message-ID takes the number
of its node, which repeats between archives, and the second such mail is dropped. A cell of several lines
shifts the row numbers after it and loses the last lines. The blocks of a row over the limit share an id, and
all but the first are dropped. **Rows of an .xlsx sheet** are cited too high by the rows above its used range: numbers begin
at `ws.min_row`, `iter_rows()` at row 1. **An attached workbook without sheets** makes the builder fail for the whole
archive or mail (`docs[0]`), which is lost but for its counts. A piece cut out of a text may exceed the limit by the tokens of its first
character (`PartsInLimit`); no line of the code says otherwise of a single cut, so this is no entry of the findings.
A mail whose plain body is blanks is indexed without its HTML (`PypffBody`). The temporary file of the OCR cache has
one name per picture: half a text may
be read, and one cut inside a character makes the whole document fail.

*Questions.* The end of a month is the first of the next one, inclusive. "1월~3월", which a comment calls a range, and
months with a second year are read as their first month, or not at all where that has no year; months over the turn
of one year match nothing; a month without a year sets no filter, although a year is kept ready for it. Units behind the head the reranker sees pass any
`rerank_min_score`. Authors match by substring where the parser says exactly.

*Chat.* An answer stopped before its first token is saved as empty and not as stopped. Choosing another case while an
answer arrives puts that answer under the other case.

## 7. Not modelled

Without a model of their own: tokenizing and BM25 scores, the choice of an LLM provider and the requests to it,
prompts, citation checks and the regular expressions of the question parser, headers, languages, topics and cleaning of quoted
text in units, preprocessing of pictures, document properties, the database layer, dashboards and other reads,
scripts other than `run_indexing.py` and `build_profiles.py`, experiments, the other pages of the frontend,
deployment. These are functions over data or plain I/O, without states that the steps of several actors could
spoil; `PROJECT.json`, "components", has the reason for each.

Abstracted inside what is modelled:

* a CaseStore method is one step; the gap between its SELECT and its UPDATE, with two processes in it, is not there;
* two runs that share one checkpoint folder (CaseLifecycle has such runs, PartPipeline has one at a time);
* versions of the index schema and of the tokenizer, which make a load fail as if there were no index;
* numbers of tokens are those the tests and limits compare, a newline counts as constant; hashes never collide;
* a parser library's reading of a file: what it returns or that it fails is the input.

## 8. Plan

Done: CaseLedger and CaseLifecycle, CaseIndexDir, PartPipeline, ParsePool; EmbedCall and EmbedBatch with their
refinement, ChatStream, UnitBuild/DocParse/Evidence, OcrPages, Retrieval, ProfileStore; proofs of all of their safety
properties but the number of attachments in Evidence.

To come:

1. `CaseStoreTx`: the store's methods as read and write transactions of two processes, and whether they implement the
   atomic methods of CaseLifecycle.
2. PartPipeline with a second run on one checkpoint folder: shard numbers, `clear` under the other's feet.
3. Versions in CaseIndexDir, with a process of an older version beside a newer one.
