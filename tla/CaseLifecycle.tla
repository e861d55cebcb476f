---------------------------- MODULE CaseLifecycle ----------------------------
(***************************************************************************)
(* The life of a case: the row CaseStore keeps in SQLite, the admin        *)
(* requests of the API, the indexing threads the API process starts, the   *)
(* indexing runs started from the command line, and the case index they    *)
(* all replace on disk.                                                    *)
(*                                                                         *)
(* Who runs when.  The request handlers are `async def` functions with     *)
(* synchronous bodies, so the event loop runs one at a time from start to  *)
(* end: a handler is one action, except that it lets threads run while it  *)
(* blocks (run_async waiting for the new thread, delete_case joining the   *)
(* old one) and between its changes to disk and database (delete_case).    *)
(* `loop` says which handler is in the middle of that.  A thread or a      *)
(* command-line run takes one step per change others can see.              *)
(*                                                                         *)
(* Every CaseStore method is one session and one action here.  Any step    *)
(* of a run inside its `try` may raise, whatever the reason.               *)
(*                                                                         *)
(* A definition that stands right before another one, with its name plus   *)
(* a few words (UpdateStatusUnchecked, RaiseKeepsPhase), is a mutant of    *)
(* it: what the code would be with that mistake. No specification uses it. *)
(***************************************************************************)

CONSTANTS
  Cases,      \* case ids
  Threads,    \* slots for indexing threads of the API process
  CliRuns,    \* slots for runs of scripts/run_indexing.py, each a process of its own
  None        \* "no thread", "no case"

Runs == Threads \cup CliRuns

ASSUME ConstantsAssumption ==
  /\ None \notin Cases
  /\ None \notin Runs
  /\ Threads \cap CliRuns = {}

VARIABLES
  status,      \* case row: CaseStatus, or "unborn" / "deleted": no row
  stale,       \* case row: updated_at is older than indexing_stuck_timeout_min
  index,       \* data/index/{case}: "none", "built", or "dropped" by a delete request
  pc,          \* run: the next step of IndexingPipeline.run, "done" when not alive
  on,          \* run: the case it indexes
  phase,       \* run: phase of its IndexingProgress
  flag,        \* run: its cancel Event is set
  progressOf,  \* pipeline._progress: the run whose progress object is shown
  threadOf,    \* pipeline._threads and ._cancel_flags: the run started last
  loop,        \* event loop: the handler under way and its case
  (* history *)
  wrote,       \* run: it has replaced the index
  abandoned,   \* case: a run died on it, or could not record its error
  edited       \* case: while it is "indexing", turned over by each edit of its data sources

rowVars  == <<status, stale, abandoned, edited>>
runVars  == <<pc, on, phase, flag, wrote>>
mapVars  == <<progressOf, threadOf>>
vars == <<rowVars, index, runVars, mapVars, loop>>

----------------------------------------------------------------------------
(* The case row. *)

\* _VALID_TRANSITIONS
ValidTransitions ==
  {<<"created", "indexing">>, <<"created", "archived">>,
   <<"indexing", "ready">>, <<"indexing", "error">>, <<"indexing", "created">>,
   <<"ready", "indexing">>, <<"ready", "archived">>,
   <<"error", "indexing">>, <<"error", "created">>, <<"error", "archived">>}

Statuses == {"created", "indexing", "ready", "error", "archived"}

HasRow(c) == status[c] \in Statuses

\* Every write of the status also sets updated_at.
WriteStatus(c, s) ==
  /\ status' = [status EXCEPT ![c] = s]
  /\ stale' = [stale EXCEPT ![c] = FALSE]
  /\ abandoned' = [abandoned EXCEPT ![c] = FALSE]
  /\ edited' = [edited EXCEPT ![c] = FALSE]

UpdateStatusUnchecked(c, s) ==
  /\ HasRow(c)
  /\ WriteStatus(c, s)

UpdateStatus(c, s) ==
  /\ HasRow(c)
  /\ <<status[c], s>> \in ValidTransitions
  /\ WriteStatus(c, s)

\* set_error does not look at the table.
SetError(c) ==
  /\ HasRow(c)
  /\ WriteStatus(c, "error")

\* update_stats and update_data_sources: only updated_at matters here.
Touch(c) ==
  /\ HasRow(c)
  /\ stale' = [stale EXCEPT ![c] = FALSE]
  /\ UNCHANGED <<status, abandoned>>

\* An edit of a row that is fresh already would change nothing and so be no step at all.
EditSeen(c) == edited' = [edited EXCEPT ![c] = status[c] = "indexing" /\ ~@]

----------------------------------------------------------------------------
(* Indexing runs. *)

Alive(r) == pc[r] # "done"

IsRunningUnlessCompleted(c) ==
  progressOf[c] # None /\ phase[progressOf[c]] \in {"running", "error"}

\* IndexingPipeline.is_running. "running" stands for SCANNING, PARSING and STORING.
IsRunning(c) == progressOf[c] # None /\ phase[progressOf[c]] = "running"

Goto(r, from, to) ==
  /\ pc[r] = from
  /\ pc' = [pc EXCEPT ![r] = to]

\* The thread (or process) ends, and its locals with it; its progress object stays.
End(r, from) ==
  /\ Goto(r, from, "done")
  /\ on' = [on EXCEPT ![r] = None]
  /\ flag' = [flag EXCEPT ![r] = FALSE]
  /\ wrote' = [wrote EXCEPT ![r] = FALSE]
  /\ UNCHANGED phase

SetPhase(r, p) == phase' = [phase EXCEPT ![r] = p]

RunBeginSharesProgress(r) ==
  /\ Goto(r, "spawned", "begun")
  /\ SetPhase(r, "idle")
  /\ progressOf' = [progressOf EXCEPT ![on[r]] = r]
  /\ UNCHANGED <<rowVars, index, on, flag, wrote, threadOf, loop>>

\* run registers its progress object; a command-line run does so in its own process.
RunBegin(r) ==
  /\ Goto(r, "spawned", "begun")
  /\ SetPhase(r, "idle")
  /\ IF r \in Threads THEN progressOf' = [progressOf EXCEPT ![on[r]] = r]
                      ELSE UNCHANGED progressOf
  /\ UNCHANGED <<rowVars, index, on, flag, wrote, threadOf, loop>>

\* case_store.get and update_status(INDEXING); _unload_llm_for_phase_a comes next.
RunMarkIndexing(r) ==
  /\ Goto(r, "begun", "unload")
  /\ UpdateStatus(on[r], "indexing")
  /\ UNCHANGED <<index, on, phase, flag, wrote, mapVars, loop>>

RunScan(r) ==
  /\ Goto(r, "unload", "work")
  /\ SetPhase(r, "running")
  /\ UNCHANGED <<rowVars, index, on, flag, wrote, mapVars, loop>>

\* _run_pipeline, up to its last look at the cancel flag.
RunWorked(r) ==
  /\ Goto(r, "work", IF flag[r] THEN "check" ELSE "write")
  /\ UNCHANGED <<rowVars, index, on, phase, flag, wrote, mapVars, loop>>

\* write_index (replaces the folder as one step), then the checkpoint is cleared.
RunWrite(r) ==
  /\ Goto(r, "write", "check")
  /\ index' = [index EXCEPT ![on[r]] = "built"]
  /\ wrote' = [wrote EXCEPT ![r] = TRUE]
  /\ UNCHANGED <<rowVars, on, phase, flag, mapVars, loop>>

RunCheckIgnoresFlag(r) ==
  /\ Goto(r, "check", "stats")
  /\ SetPhase(r, "completed")
  /\ UNCHANGED <<rowVars, index, on, flag, wrote, mapVars, loop>>

RunCheckKeepsPhase(r) ==
  /\ Goto(r, "check", IF flag[r] THEN "uncreate" ELSE "stats")
  /\ UNCHANGED <<rowVars, index, on, phase, flag, wrote, mapVars, loop>>

\* run looks at the flag once more.
RunCheck(r) ==
  /\ Goto(r, "check", IF flag[r] THEN "uncreate" ELSE "stats")
  /\ SetPhase(r, IF flag[r] THEN "cancelled" ELSE "completed")
  /\ UNCHANGED <<rowVars, index, on, flag, wrote, mapVars, loop>>

RunToCreatedKeepsStatus(r) ==
  /\ End(r, "uncreate")
  /\ UNCHANGED <<rowVars, index, mapVars, loop>>

RunToCreated(r) ==
  /\ End(r, "uncreate")
  /\ UpdateStatus(on[r], "created")
  /\ UNCHANGED <<index, mapVars, loop>>

RunStats(r) ==
  /\ Goto(r, "stats", "ready")
  /\ Touch(on[r])
  /\ UNCHANGED <<edited, index, on, phase, flag, wrote, mapVars, loop>>

RunToReady(r) ==
  /\ End(r, "ready")
  /\ UpdateStatus(on[r], "ready")
  /\ UNCHANGED <<index, mapVars, loop>>

\* What can raise: the store, file collection and parsing, write_index, and
\* _check_failure_rate, which is called when the index is already replaced.
MayRaise(r) ==
  \/ pc[r] \in {"begun", "work", "write", "stats", "ready", "uncreate"}
  \/ pc[r] = "check" /\ wrote[r]

RaiseKeepsPhase(r) ==
  /\ MayRaise(r)
  /\ pc' = [pc EXCEPT ![r] = "seterror"]
  /\ UNCHANGED <<rowVars, index, on, phase, flag, wrote, mapVars, loop>>

Raise(r) ==
  /\ MayRaise(r)
  /\ pc' = [pc EXCEPT ![r] = "seterror"]
  /\ SetPhase(r, "error")
  /\ UNCHANGED <<rowVars, index, on, flag, wrote, mapVars, loop>>

RunSetError(r) ==
  /\ End(r, "seterror")
  /\ SetError(on[r])
  /\ UNCHANGED <<index, mapVars, loop>>

\* contextlib.suppress: the row is gone, or the database refuses the write.
RunSetErrorFails(r) ==
  /\ End(r, "seterror")
  /\ abandoned' = [abandoned EXCEPT ![on[r]] = TRUE]
  /\ UNCHANGED <<status, stale, edited, index, mapVars, loop>>

RunStep(r) ==
  \/ RunBegin(r)
  \/ RunMarkIndexing(r)
  \/ RunScan(r)
  \/ RunWorked(r)
  \/ RunWrite(r)
  \/ RunCheck(r)
  \/ RunToCreated(r)
  \/ RunStats(r)
  \/ RunToReady(r)
  \/ Raise(r)
  \/ RunSetError(r)
  \/ RunSetErrorFails(r)

----------------------------------------------------------------------------
(* Requests. *)

Idle == [step |-> "idle", case |-> None]
At(step, c) == [step |-> step, case |-> c]
LoopFree == loop = Idle

\* A slot can be given to a new thread of case c when its thread has ended and no
\* dictionary goes on holding that thread's objects.
FreeThread(r, c) ==
  /\ r \in Threads
  /\ ~Alive(r)
  /\ \A d \in Cases : progressOf[d] # r
  /\ \A d \in Cases \ {c} : threadOf[d] # r

NewRun(r, c) ==
  /\ pc' = [pc EXCEPT ![r] = "spawned"]
  /\ on' = [on EXCEPT ![r] = c]
  /\ phase' = [phase EXCEPT ![r] = "idle"]
  /\ flag' = [flag EXCEPT ![r] = FALSE]
  /\ wrote' = [wrote EXCEPT ![r] = FALSE]

\* run_async. It returns at once when some progress object is registered for the
\* case already, an old one as well; else it waits for the thread's first statement.
RunAsync(r, c) ==
  /\ FreeThread(r, c)
  /\ NewRun(r, c)
  /\ threadOf' = [threadOf EXCEPT ![c] = r]
  /\ loop' = IF progressOf[c] = None THEN At("spawn", c) ELSE Idle
  /\ UNCHANGED <<progressOf, index>>

CreateCase(c) ==
  /\ LoopFree
  /\ status[c] = "unborn"
  /\ WriteStatus(c, "created")
  /\ UNCHANGED <<index, runVars, mapVars, loop>>

\* PATCH: update_data_sources
UpdateSources(c) ==
  /\ LoopFree
  /\ status[c] # "archived"
  /\ Touch(c)
  /\ EditSeen(c)
  /\ UNCHANGED <<index, runVars, mapVars, loop>>

StartIndexing(c, r) ==
  /\ LoopFree
  /\ status[c] \in Statuses \ {"archived", "indexing"}
  /\ ~IsRunning(c)
  /\ RunAsync(r, c)
  /\ UNCHANGED rowVars

\* status INDEXING, no run shown, and updated_at old enough: recover_if_stuck.
StartStuck(c, r) ==
  /\ LoopFree
  /\ status[c] = "indexing"
  /\ ~IsRunning(c)
  /\ stale[c]
  /\ WriteStatus(c, "error")
  /\ RunAsync(r, c)

\* add_incremental_data looks at is_running and not at the status.
AddIncremental(c, r) ==
  /\ LoopFree
  /\ ~IsRunning(c)
  /\ status[c] # "archived"
  /\ Touch(c)
  /\ UNCHANGED edited
  /\ RunAsync(r, c)

RunAsyncReturns(c) ==
  /\ loop = At("spawn", c)
  /\ progressOf[c] # None
  /\ loop' = Idle
  /\ UNCHANGED <<rowVars, index, runVars, mapVars>>

\* cancel sets the Event of the run started last, whichever run is shown.
\* (An Event nobody looks at any more is not modelled: the run has ended.)
SetCancelFlag(c) ==
  flag' = [flag EXCEPT ![threadOf[c]] = Alive(threadOf[c])]

StopIndexing(c) ==
  /\ LoopFree
  /\ IsRunning(c)
  /\ SetCancelFlag(c)
  /\ UNCHANGED <<rowVars, index, pc, on, phase, wrote, mapVars, loop>>

ArchiveCase(c) ==
  /\ LoopFree
  /\ UpdateStatus(c, "archived")
  /\ UNCHANGED <<index, runVars, mapVars, loop>>

\* delete_case with a run shown: cancel_and_wait. Nothing to wait for: straight to the index.
DeleteBegin(c) ==
  /\ LoopFree
  /\ HasRow(c)
  /\ IF IsRunning(c)
       THEN /\ SetCancelFlag(c)
            /\ loop' = At(IF Alive(threadOf[c]) THEN "join" ELSE "drop", c)
       ELSE /\ loop' = At("drop", c)
            /\ UNCHANGED flag
  /\ UNCHANGED <<rowVars, index, pc, on, phase, wrote, mapVars>>

\* thread.join(timeout=10.0): the thread has ended, or the time is up.
DeleteJoin(c) ==
  /\ loop = At("join", c)
  /\ loop' = At("drop", c)
  /\ UNCHANGED <<rowVars, index, runVars, mapVars>>

\* case_index.delete
DeleteIndex(c) ==
  /\ loop = At("drop", c)
  /\ loop' = At("row", c)
  /\ index' = [index EXCEPT ![c] = IF @ = "built" THEN "dropped" ELSE @]
  /\ UNCHANGED <<rowVars, runVars, mapVars>>

\* Its exceptions are logged and ignored.
DeleteIndexFails(c) ==
  /\ loop = At("drop", c)
  /\ loop' = At("row", c)
  /\ UNCHANGED <<rowVars, index, runVars, mapVars>>

DeleteRow(c) ==
  /\ loop = At("row", c)
  /\ loop' = Idle
  /\ WriteStatus(c, "deleted")
  /\ UNCHANGED <<index, runVars, mapVars>>

----------------------------------------------------------------------------
(* The command line, crashes and time. *)

CliStart(c, r) ==
  /\ r \in CliRuns
  /\ ~Alive(r)
  /\ status[c] # "unborn"
  /\ NewRun(r, c)
  /\ UNCHANGED <<rowVars, index, mapVars, loop>>

Kill(dead) ==
  /\ pc' = [r \in Runs |-> IF r \in dead THEN "done" ELSE pc[r]]
  /\ on' = [r \in Runs |-> IF r \in dead THEN None ELSE on[r]]
  /\ flag' = [r \in Runs |-> flag[r] /\ r \notin dead]
  /\ wrote' = [r \in Runs |-> wrote[r] /\ r \notin dead]
  /\ abandoned' = [c \in Cases |-> abandoned[c] \/ \E r \in dead : on[r] = c]
  /\ UNCHANGED <<status, stale, edited, index, phase>>

\* The API process dies and is started again: its memory is empty.
ServerCrash ==
  /\ Kill(Threads)
  /\ progressOf' = [c \in Cases |-> None]
  /\ threadOf' = [c \in Cases |-> None]
  /\ loop' = Idle

CliKilled(r) ==
  /\ r \in CliRuns
  /\ Alive(r)
  /\ Kill({r})
  /\ UNCHANGED <<mapVars, loop>>

\* Steps that take seconds at most: the case cannot turn stale during one.
Brief == {"spawned", "begun", "unload", "check", "uncreate", "stats", "ready", "seterror"}

\* indexing_stuck_timeout_min passes since updated_at.
Age(c) ==
  /\ status[c] = "indexing"
  /\ ~stale[c]
  /\ \A r \in Runs : on[r] = c => pc[r] \notin Brief
  /\ stale' = [stale EXCEPT ![c] = TRUE]
  /\ UNCHANGED <<status, abandoned, edited, index, runVars, mapVars, loop>>

----------------------------------------------------------------------------
Init ==
  /\ status = [c \in Cases |-> "unborn"]
  /\ stale = [c \in Cases |-> FALSE]
  /\ abandoned = [c \in Cases |-> FALSE]
  /\ edited = [c \in Cases |-> FALSE]
  /\ index = [c \in Cases |-> "none"]
  /\ pc = [r \in Runs |-> "done"]
  /\ on = [r \in Runs |-> None]
  /\ phase = [r \in Runs |-> "idle"]
  /\ flag = [r \in Runs |-> FALSE]
  /\ wrote = [r \in Runs |-> FALSE]
  /\ progressOf = [c \in Cases |-> None]
  /\ threadOf = [c \in Cases |-> None]
  /\ loop = Idle

Request(c) ==
  \/ CreateCase(c)
  \/ UpdateSources(c)
  \/ \E r \in Threads : StartIndexing(c, r)
  \/ \E r \in Threads : StartStuck(c, r)
  \/ \E r \in Threads : AddIncremental(c, r)
  \/ StopIndexing(c)
  \/ ArchiveCase(c)
  \/ DeleteBegin(c)

HandlerStep(c) ==
  \/ RunAsyncReturns(c)
  \/ DeleteJoin(c)
  \/ DeleteIndex(c)
  \/ DeleteIndexFails(c)
  \/ DeleteRow(c)

Next ==
  \/ \E r \in Runs : RunStep(r)
  \/ \E c \in Cases : Request(c) \/ HandlerStep(c) \/ Age(c)
  \/ \E c \in Cases, r \in CliRuns : CliStart(c, r)
  \/ \E r \in CliRuns : CliKilled(r)
  \/ ServerCrash

Spec == Init /\ [][Next]_vars

\* updated_at gets older, and a row left alone gets old enough. A row that is edited again and again
\* need not: each edit may come before indexing_stuck_timeout_min has passed since the last.
TimePasses(c) == []<><<UpdateSources(c)>>_vars \/ WF_vars(Age(c))

\* Threads and processes are scheduled; every blocking call of a run has a time limit, and
\* parsing ends. The event loop goes on with the handler it is in. Time passes. On top
\* of what the code gives, an operator who finds a case stuck in "indexing" keeps
\* pressing start (strong fairness: the button works only every now and then), and the
\* database does not refuse every single error report.
Fairness ==
  /\ \A r \in Runs : WF_vars(RunStep(r)) /\ SF_vars(RunSetError(r))
  /\ \A c \in Cases : WF_vars(HandlerStep(c)) /\ TimePasses(c)
  /\ \A c \in Cases : SF_vars(\E r \in Threads : StartStuck(c, r))

\* Sooner or later the processes stop dying.
CrashesStop == <>[][~ServerCrash /\ \A r \in CliRuns : ~CliKilled(r)]_vars

FairSpec == Spec /\ Fairness /\ CrashesStop

----------------------------------------------------------------------------
(* Properties. *)

TypeOK ==
  /\ status \in [Cases -> Statuses \cup {"unborn", "deleted"}]
  /\ stale \in [Cases -> BOOLEAN]
  /\ abandoned \in [Cases -> BOOLEAN]
  /\ edited \in [Cases -> BOOLEAN]
  /\ index \in [Cases -> {"none", "built", "dropped"}]
  /\ pc \in [Runs -> {"spawned", "begun", "unload", "work", "write", "check", "uncreate",
                      "stats", "ready", "seterror", "done"}]
  /\ on \in [Runs -> Cases \cup {None}]
  /\ phase \in [Runs -> {"idle", "running", "completed", "error", "cancelled"}]
  /\ flag \in [Runs -> BOOLEAN]
  /\ wrote \in [Runs -> BOOLEAN]
  /\ progressOf \in [Cases -> Threads \cup {None}]
  /\ threadOf \in [Cases -> Threads \cup {None}]
  /\ loop \in [step : {"idle", "spawn", "join", "drop", "row"}, case : Cases \cup {None}]

\* A case the API reports as being indexed (so that it answers 409 to every start and
\* increment) is being indexed: the run shown is alive and works on that very case,
\* whatever run replaced it, failed or was killed in between. Otherwise the case would
\* refuse all work until the process restarts.
RunningMeansAlive ==
  \A c \in Cases : IsRunning(c) => Alive(progressOf[c]) /\ on[progressOf[c]] = c

\* A row left INDEXING is accounted for: some run past update_status(INDEXING) is alive and
\* will write the next status, or a run on the case was killed or could not record
\* its error. No path of run leaves the row INDEXING and returns.
Engaged == {"unload", "work", "write", "check", "uncreate", "stats", "ready", "seterror"}

IndexingAccounted ==
  \A c \in Cases : status[c] = "indexing" =>
    abandoned[c] \/ \E r \in Runs : on[r] = c /\ pc[r] \in Engaged

\* "ready" (what chat accepts) is never reached without an index having been published for
\* the case: not by a cancelled run, nor by two runs that overtake each other, nor by
\* a run that failed after a first look at its flag.
ReadyHasIndex ==
  \A c \in Cases : status[c] = "ready" => index[c] # "none"

\* The case as its observers see it follows the ledger: the table of case_store.py, ERROR,
\* deletion; "ready" only with an index published; a deleted row never returns.
Ledger == INSTANCE CaseLedger
ImplementsLedger == Ledger!LedgerSpec

\* The edits of a case's data sources come to an end (each makes its row look fresh again).
EditsStop(c) == <>[][~UpdateSources(c)]_vars

\* No case stays in "indexing" for good, whoever was killed while it was there, whatever could
\* not be recorded, and whichever runs and increments came in between, unless its data sources
\* are edited for ever.
StuckCaseRecovers ==
  \A c \in Cases : EditsStop(c) => (status[c] = "indexing" ~> status[c] # "indexing")

\* "Already being indexed" (409) is never the answer for good: again and again there is a moment
\* when a start would be accepted, unless the data sources of the case are edited for ever.
StartRefused(c) ==
  /\ HasRow(c)
  /\ status[c] # "archived"
  /\ IsRunning(c) \/ (status[c] = "indexing" /\ ~stale[c])

NeverRefusedForGood ==
  \A c \in Cases : EditsStop(c) => []<>~StartRefused(c)

(* What comments and docstrings say of the program and the code does not keep. *)

\* case_store.py says of ARCHIVED that no transition leaves it; set_error writes ERROR
\* over it when the run of a case archived meanwhile fails.
ArchivedIsFinal ==
  [][\A c \in Cases : status[c] = "archived" => status'[c] \in {"archived", "deleted"}]_vars

\* pipeline.run says a run whose flag is set does not write the index; a flag set after
\* the last look before write_index gives a cancelled run that replaced it.
CancelledRunKeepsIndex ==
  \A r \in Runs : phase[r] = "cancelled" => ~wrote[r]

\* delete_case waits for the worker so that no worker writes the index of a deleted case;
\* it waits ten seconds, and only for a run that is past its LLM unloading.
NoOrphanWrite ==
  [][\A c \in Cases : status[c] = "deleted" /\ index'[c] # index[c] => index'[c] # "built"]_vars

\* start_indexing says a case whose worker is alive answers 409; a run that still unloads the LLM
\* is not seen, so a second thread joins it.
OneThreadPerCase ==
  \A r1, r2 \in Threads : Alive(r1) /\ Alive(r2) /\ on[r1] = on[r2] => r1 = r2

\* recover_if_stuck says it keeps a case from being left "indexing" for good when its run was killed;
\* an edit of the data sources puts updated_at forward, so a case edited more often than the timeout
\* stays there, and every start is answered 409 (under FairSpec).
EditedCaseRecovers ==
  \A c \in Cases : status[c] = "indexing" ~> status[c] # "indexing"
=============================================================================
