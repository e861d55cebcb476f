------------------------ MODULE CaseLifecycle_proofs ------------------------
(***************************************************************************)
(* Proofs about CaseLifecycle for every set of cases, threads and          *)
(* command-line runs: its type invariant, the safety invariants the run    *)
(* `lifecycle` checks, and that it implements CaseLedger.                  *)
(*                                                                         *)
(* Neither invariant is inductive by itself. What the proofs add is what   *)
(* the code relies on without saying so: an ended slot is reused only      *)
(* when no dictionary holds it (ShownRun), a run that goes on to the       *)
(* statistics has replaced the index (PublishedFirst), a run's case has    *)
(* had a row (AliveHasCase), and nobody else can delete the row under a    *)
(* delete request (DeletedHasRow).                                         *)
(***************************************************************************)
EXTENDS CaseLifecycle, TLAPS

----------------------------------------------------------------------------
(* The inductive invariant. *)

AliveHasCase ==
  \A r \in Runs : Alive(r) => on[r] \in Cases /\ status[on[r]] # "unborn"

\* The steps of a run during which its progress reads "running".
Working == {"work", "write", "check"}

\* The run shown for a case works on it, and reads "running" only while it does.
ShownRun ==
  \A c \in Cases : progressOf[c] # None =>
    /\ Alive(progressOf[c]) => on[progressOf[c]] = c
    /\ phase[progressOf[c]] = "running" => pc[progressOf[c]] \in Working

\* A run that has seen no cancel flag after its last step on the index has replaced it.
PublishedFirst ==
  \A r \in Runs :
    /\ pc[r] \in {"stats", "ready"} => wrote[r]
    /\ pc[r] = "check" /\ ~flag[r] => wrote[r]
    /\ wrote[r] => index[on[r]] # "none"

DeletedHasRow ==
  loop.step \in {"join", "drop", "row"} => loop.case \in Cases /\ HasRow(loop.case)

IInv ==
  /\ TypeOK
  /\ AliveHasCase
  /\ ShownRun
  /\ IndexingAccounted
  /\ PublishedFirst
  /\ ReadyHasIndex
  /\ DeletedHasRow

----------------------------------------------------------------------------
(* One lemma per conjunct: every action preserves it. *)

\* Every action leaves every variable in its type.
LEMMA TypeStep ==
  ASSUME TypeOK, [Next]_vars
  PROVE  TypeOK'
<1>1. ASSUME NEW r \in Runs, RunBegin(r) PROVE TypeOK'
  BY <1>1, ConstantsAssumption DEF RunBegin, Goto, SetPhase, rowVars, TypeOK, Runs, Statuses
<1>2. ASSUME NEW r \in Runs, RunMarkIndexing(r) PROVE TypeOK'
  BY <1>2, ConstantsAssumption DEF RunMarkIndexing, Goto, UpdateStatus, mapVars, WriteStatus,
     HasRow, TypeOK, Runs, Statuses
<1>3. ASSUME NEW r \in Runs, RunScan(r) PROVE TypeOK'
  BY <1>3, ConstantsAssumption DEF RunScan, Goto, SetPhase, rowVars, mapVars, TypeOK, Runs,
     Statuses
<1>4. ASSUME NEW r \in Runs, RunWorked(r) PROVE TypeOK'
  BY <1>4, ConstantsAssumption DEF RunWorked, Goto, rowVars, mapVars, TypeOK, Runs, Statuses
<1>5. ASSUME NEW r \in Runs, RunWrite(r) PROVE TypeOK'
  BY <1>5, ConstantsAssumption DEF RunWrite, Goto, rowVars, mapVars, TypeOK, Runs, Statuses
<1>6. ASSUME NEW r \in Runs, RunCheck(r) PROVE TypeOK'
  BY <1>6, ConstantsAssumption DEF RunCheck, Goto, SetPhase, rowVars, mapVars, TypeOK, Runs,
     Statuses
<1>7. ASSUME NEW r \in Runs, RunToCreated(r) PROVE TypeOK'
  BY <1>7, ConstantsAssumption DEF RunToCreated, End, UpdateStatus, mapVars, Goto, WriteStatus,
     HasRow, TypeOK, Runs, Statuses
<1>8. ASSUME NEW r \in Runs, RunStats(r) PROVE TypeOK'
  BY <1>8, ConstantsAssumption DEF RunStats, Goto, Touch, mapVars, HasRow, TypeOK, Runs, Statuses
<1>9. ASSUME NEW r \in Runs, RunToReady(r) PROVE TypeOK'
  BY <1>9, ConstantsAssumption DEF RunToReady, End, UpdateStatus, mapVars, Goto, WriteStatus,
     HasRow, TypeOK, Runs, Statuses
<1>10. ASSUME NEW r \in Runs, Raise(r) PROVE TypeOK'
  BY <1>10, ConstantsAssumption DEF Raise, MayRaise, SetPhase, rowVars, mapVars, TypeOK, Runs,
     Statuses
<1>11. ASSUME NEW r \in Runs, RunSetError(r) PROVE TypeOK'
  BY <1>11, ConstantsAssumption DEF RunSetError, End, SetError, mapVars, Goto, WriteStatus,
     HasRow, TypeOK, Runs, Statuses
<1>12. ASSUME NEW r \in Runs, RunSetErrorFails(r) PROVE TypeOK'
  BY <1>12, ConstantsAssumption DEF RunSetErrorFails, End, mapVars, Goto, TypeOK, Runs, Statuses
<1>13. ASSUME NEW c \in Cases, CreateCase(c) PROVE TypeOK'
  BY <1>13, ConstantsAssumption DEF CreateCase, WriteStatus, runVars, mapVars, Idle, TypeOK, Runs,
     Statuses
<1>14. ASSUME NEW c \in Cases, UpdateSources(c) PROVE TypeOK'
  BY <1>14, ConstantsAssumption DEF UpdateSources, Touch, EditSeen, runVars, mapVars, HasRow, Idle,
     TypeOK, Runs, Statuses
<1>15. ASSUME NEW c \in Cases, NEW r \in Threads, StartIndexing(c, r) PROVE TypeOK'
  BY <1>15, ConstantsAssumption DEF StartIndexing, RunAsync, rowVars, FreeThread, NewRun, At,
     Idle, TypeOK, Runs, Statuses
<1>16. ASSUME NEW c \in Cases, NEW r \in Threads, StartStuck(c, r) PROVE TypeOK'
  BY <1>16, ConstantsAssumption DEF StartStuck, WriteStatus, RunAsync, FreeThread, NewRun, At,
     Idle, TypeOK, Runs, Statuses
<1>17. ASSUME NEW c \in Cases, NEW r \in Threads, AddIncremental(c, r) PROVE TypeOK'
  BY <1>17, ConstantsAssumption DEF AddIncremental, Touch, RunAsync, FreeThread, NewRun, HasRow,
     At, Idle, TypeOK, Runs, Statuses
<1>18. ASSUME NEW c \in Cases, StopIndexing(c) PROVE TypeOK'
  BY <1>18, ConstantsAssumption DEF StopIndexing, SetCancelFlag, rowVars, mapVars, Idle, Alive,
     TypeOK, Runs, Statuses
<1>19. ASSUME NEW c \in Cases, ArchiveCase(c) PROVE TypeOK'
  BY <1>19, ConstantsAssumption DEF ArchiveCase, UpdateStatus, runVars, mapVars, WriteStatus,
     HasRow, Idle, TypeOK, Runs, Statuses
<1>20. ASSUME NEW c \in Cases, DeleteBegin(c) PROVE TypeOK'
  <2>1. CASE IsRunning(c)
    <3>1. flag' \in [Runs -> BOOLEAN]
      BY <1>20, <2>1 DEF TypeOK, DeleteBegin, SetCancelFlag, Alive
    <3>2. loop' \in [step : {"idle", "spawn", "join", "drop", "row"}, case : Cases \cup {None}]
      BY <1>20, <2>1 DEF TypeOK, DeleteBegin, At
    <3> QED BY <1>20, <2>1, <3>1, <3>2 DEF TypeOK, DeleteBegin, rowVars, mapVars
  <2>2. CASE ~IsRunning(c)
    BY <1>20, <2>2 DEF TypeOK, Runs, HasRow, Statuses, At, DeleteBegin, rowVars, mapVars
  <2> QED BY <2>1, <2>2
<1>21. ASSUME NEW c \in Cases, RunAsyncReturns(c) PROVE TypeOK'
  BY <1>21, ConstantsAssumption DEF RunAsyncReturns, rowVars, runVars, mapVars, At, Idle, TypeOK,
     Runs, Statuses
<1>22. ASSUME NEW c \in Cases, DeleteJoin(c) PROVE TypeOK'
  BY <1>22, ConstantsAssumption DEF DeleteJoin, rowVars, runVars, mapVars, At, TypeOK, Runs,
     Statuses
<1>23. ASSUME NEW c \in Cases, DeleteIndex(c) PROVE TypeOK'
  BY <1>23, ConstantsAssumption DEF DeleteIndex, rowVars, runVars, mapVars, At, TypeOK, Runs,
     Statuses
<1>24. ASSUME NEW c \in Cases, DeleteIndexFails(c) PROVE TypeOK'
  BY <1>24, ConstantsAssumption DEF DeleteIndexFails, rowVars, runVars, mapVars, At, TypeOK, Runs,
     Statuses
<1>25. ASSUME NEW c \in Cases, DeleteRow(c) PROVE TypeOK'
  BY <1>25, ConstantsAssumption DEF DeleteRow, WriteStatus, runVars, mapVars, At, Idle, TypeOK,
     Runs, Statuses
<1>26. ASSUME NEW c \in Cases, Age(c) PROVE TypeOK'
  BY <1>26, ConstantsAssumption DEF Age, runVars, mapVars, TypeOK, Runs, Statuses
<1>27. ASSUME NEW c \in Cases, NEW r \in CliRuns, CliStart(c, r) PROVE TypeOK'
  BY <1>27, ConstantsAssumption DEF CliStart, NewRun, rowVars, mapVars, TypeOK, Runs, Statuses
<1>28. ASSUME NEW r \in CliRuns, CliKilled(r) PROVE TypeOK'
  BY <1>28, ConstantsAssumption DEF CliKilled, Kill, mapVars, TypeOK, Runs, Statuses
<1>29. ASSUME ServerCrash PROVE TypeOK'
  BY <1>29, ConstantsAssumption DEF ServerCrash, Kill, Idle, TypeOK, Runs, Statuses
<1>30. CASE UNCHANGED vars
  BY <1>30, ConstantsAssumption DEF vars, rowVars, runVars, mapVars, TypeOK, Runs, Statuses
<1> QED BY <1>1, <1>2, <1>3, <1>4, <1>5, <1>6, <1>7, <1>8, <1>9, <1>10, <1>11, <1>12, <1>13,
  <1>14, <1>15, <1>16, <1>17, <1>18, <1>19, <1>20, <1>21, <1>22, <1>23, <1>24, <1>25, <1>26,
  <1>27, <1>28, <1>29, <1>30 DEF Next, RunStep, Request, HandlerStep

\* A live run keeps its case, and a case that has had a row never becomes unborn again.
LEMMA AliveStep ==
  ASSUME TypeOK, AliveHasCase, [Next]_vars
  PROVE  AliveHasCase'
<1>1. ASSUME NEW r \in Runs, RunBegin(r) PROVE AliveHasCase'
  BY <1>1, TypeOK, ConstantsAssumption, AliveHasCase DEF RunBegin, Goto, SetPhase, rowVars,
     TypeOK, Runs, AliveHasCase, Alive
<1>2. ASSUME NEW r \in Runs, RunMarkIndexing(r) PROVE AliveHasCase'
  BY <1>2, TypeOK, ConstantsAssumption, AliveHasCase DEF RunMarkIndexing, Goto, UpdateStatus,
     mapVars, WriteStatus, HasRow, Statuses, TypeOK, Runs, AliveHasCase, Alive
<1>3. ASSUME NEW r \in Runs, RunScan(r) PROVE AliveHasCase'
  BY <1>3, TypeOK, ConstantsAssumption, AliveHasCase DEF RunScan, Goto, SetPhase, rowVars,
     mapVars, TypeOK, Runs, AliveHasCase, Alive
<1>4. ASSUME NEW r \in Runs, RunWorked(r) PROVE AliveHasCase'
  BY <1>4, TypeOK, ConstantsAssumption, AliveHasCase DEF RunWorked, Goto, rowVars, mapVars,
     TypeOK, Runs, AliveHasCase, Alive
<1>5. ASSUME NEW r \in Runs, RunWrite(r) PROVE AliveHasCase'
  BY <1>5, TypeOK, ConstantsAssumption, AliveHasCase DEF RunWrite, Goto, rowVars, mapVars, TypeOK,
     Runs, AliveHasCase, Alive
<1>6. ASSUME NEW r \in Runs, RunCheck(r) PROVE AliveHasCase'
  BY <1>6, TypeOK, ConstantsAssumption, AliveHasCase DEF RunCheck, Goto, SetPhase, rowVars,
     mapVars, TypeOK, Runs, AliveHasCase, Alive
<1>7. ASSUME NEW r \in Runs, RunToCreated(r) PROVE AliveHasCase'
  BY <1>7, TypeOK, ConstantsAssumption, AliveHasCase DEF RunToCreated, End, UpdateStatus, mapVars,
     Goto, WriteStatus, HasRow, Statuses, TypeOK, Runs, AliveHasCase, Alive
<1>8. ASSUME NEW r \in Runs, RunStats(r) PROVE AliveHasCase'
  BY <1>8, TypeOK, ConstantsAssumption, AliveHasCase DEF RunStats, Goto, Touch, mapVars, HasRow,
     Statuses, TypeOK, Runs, AliveHasCase, Alive
<1>9. ASSUME NEW r \in Runs, RunToReady(r) PROVE AliveHasCase'
  BY <1>9, TypeOK, ConstantsAssumption, AliveHasCase DEF RunToReady, End, UpdateStatus, mapVars,
     Goto, WriteStatus, HasRow, Statuses, TypeOK, Runs, AliveHasCase, Alive
<1>10. ASSUME NEW r \in Runs, Raise(r) PROVE AliveHasCase'
  BY <1>10, TypeOK, ConstantsAssumption, AliveHasCase DEF Raise, MayRaise, SetPhase, rowVars,
     mapVars, TypeOK, Runs, AliveHasCase, Alive
<1>11. ASSUME NEW r \in Runs, RunSetError(r) PROVE AliveHasCase'
  BY <1>11, TypeOK, ConstantsAssumption, AliveHasCase DEF RunSetError, End, SetError, mapVars,
     Goto, WriteStatus, HasRow, Statuses, TypeOK, Runs, AliveHasCase, Alive
<1>12. ASSUME NEW r \in Runs, RunSetErrorFails(r) PROVE AliveHasCase'
  BY <1>12, TypeOK, ConstantsAssumption, AliveHasCase DEF RunSetErrorFails, End, mapVars, Goto,
     TypeOK, Runs, AliveHasCase, Alive
<1>13. ASSUME NEW c \in Cases, CreateCase(c) PROVE AliveHasCase'
  BY <1>13, TypeOK, ConstantsAssumption, AliveHasCase DEF CreateCase, WriteStatus, runVars,
     mapVars, TypeOK, Runs, AliveHasCase, Alive
<1>14. ASSUME NEW c \in Cases, NEW r \in Threads, StartIndexing(c, r) PROVE AliveHasCase'
  BY <1>14, TypeOK, ConstantsAssumption, AliveHasCase DEF StartIndexing, RunAsync, rowVars,
     FreeThread, NewRun, Statuses, TypeOK, Runs, AliveHasCase, Alive
<1>15. ASSUME NEW c \in Cases, NEW r \in Threads, StartStuck(c, r) PROVE AliveHasCase'
  BY <1>15, TypeOK, ConstantsAssumption, AliveHasCase DEF StartStuck, WriteStatus, RunAsync,
     FreeThread, NewRun, TypeOK, Runs, AliveHasCase, Alive
<1>16. ASSUME NEW c \in Cases, NEW r \in Threads, AddIncremental(c, r) PROVE AliveHasCase'
  BY <1>16, TypeOK, ConstantsAssumption, AliveHasCase DEF AddIncremental, Touch, RunAsync,
     FreeThread, NewRun, HasRow, Statuses, TypeOK, Runs, AliveHasCase, Alive
<1>17. ASSUME NEW c \in Cases, ArchiveCase(c) PROVE AliveHasCase'
  BY <1>17, TypeOK, ConstantsAssumption, AliveHasCase DEF ArchiveCase, UpdateStatus, runVars,
     mapVars, WriteStatus, HasRow, Statuses, TypeOK, Runs, AliveHasCase, Alive
<1>18. ASSUME NEW c \in Cases, DeleteRow(c) PROVE AliveHasCase'
  BY <1>18, TypeOK, ConstantsAssumption, AliveHasCase DEF DeleteRow, WriteStatus, runVars,
     mapVars, TypeOK, Runs, AliveHasCase, Alive
<1>19. ASSUME NEW c \in Cases, NEW r \in CliRuns, CliStart(c, r) PROVE AliveHasCase'
  BY <1>19, TypeOK, ConstantsAssumption, AliveHasCase DEF CliStart, NewRun, rowVars, mapVars,
     TypeOK, Runs, AliveHasCase, Alive
<1>20. ASSUME NEW r \in CliRuns, CliKilled(r) PROVE AliveHasCase'
  BY <1>20, TypeOK, ConstantsAssumption, AliveHasCase DEF CliKilled, Kill, mapVars, TypeOK, Runs,
     AliveHasCase, Alive
<1>21. ASSUME ServerCrash PROVE AliveHasCase'
  BY <1>21, TypeOK, ConstantsAssumption, AliveHasCase DEF ServerCrash, Kill, TypeOK, Runs,
     AliveHasCase, Alive
<1>22. ASSUME NEW c \in Cases, UpdateSources(c) \/ StopIndexing(c) \/ DeleteBegin(c) \/
       RunAsyncReturns(c) \/ DeleteJoin(c) \/ DeleteIndex(c) \/ DeleteIndexFails(c) \/ Age(c)
       PROVE AliveHasCase'
  BY <1>22, TypeOK, ConstantsAssumption, AliveHasCase DEF UpdateSources, Touch, runVars, mapVars,
     StopIndexing, SetCancelFlag, rowVars, DeleteBegin, RunAsyncReturns, DeleteJoin, DeleteIndex,
     DeleteIndexFails, Age, HasRow, Statuses, TypeOK, Runs, AliveHasCase, Alive
<1>23. CASE UNCHANGED vars
  BY <1>23, TypeOK, ConstantsAssumption, AliveHasCase DEF vars, rowVars, runVars, mapVars, TypeOK,
     Runs, AliveHasCase, Alive
<1> QED BY <1>1, <1>2, <1>3, <1>4, <1>5, <1>6, <1>7, <1>8, <1>9, <1>10, <1>11, <1>12, <1>13,
  <1>14, <1>15, <1>16, <1>17, <1>18, <1>19, <1>20, <1>21, <1>22, <1>23 DEF Next, RunStep, Request,
  HandlerStep

\* Every step of a run that leaves Working changes its phase, and a slot gets a new run only when
\* it is shown for no case.
LEMMA ShownStep ==
  ASSUME TypeOK, AliveHasCase, ShownRun, [Next]_vars
  PROVE  ShownRun'
<1>1. ASSUME NEW r \in Runs, RunBegin(r) PROVE ShownRun'
  BY <1>1, TypeOK, ConstantsAssumption, AliveHasCase, ShownRun DEF RunBegin, Goto, SetPhase,
     rowVars, TypeOK, Runs, AliveHasCase, Alive, ShownRun, Working
<1>2. ASSUME NEW r \in Runs, RunMarkIndexing(r) PROVE ShownRun'
  BY <1>2, TypeOK, ConstantsAssumption, AliveHasCase, ShownRun DEF RunMarkIndexing, Goto,
     UpdateStatus, mapVars, WriteStatus, TypeOK, Runs, AliveHasCase, Alive, ShownRun, Working
<1>3. ASSUME NEW r \in Runs, RunScan(r) PROVE ShownRun'
  BY <1>3, TypeOK, ConstantsAssumption, AliveHasCase, ShownRun DEF RunScan, Goto, SetPhase,
     rowVars, mapVars, TypeOK, Runs, AliveHasCase, Alive, ShownRun, Working
<1>4. ASSUME NEW r \in Runs, RunWorked(r) PROVE ShownRun'
  BY <1>4, TypeOK, ConstantsAssumption, AliveHasCase, ShownRun DEF RunWorked, Goto, rowVars,
     mapVars, TypeOK, Runs, AliveHasCase, Alive, ShownRun, Working
<1>5. ASSUME NEW r \in Runs, RunWrite(r) PROVE ShownRun'
  BY <1>5, TypeOK, ConstantsAssumption, AliveHasCase, ShownRun DEF RunWrite, Goto, rowVars,
     mapVars, TypeOK, Runs, AliveHasCase, Alive, ShownRun, Working
<1>6. ASSUME NEW r \in Runs, RunCheck(r) PROVE ShownRun'
  BY <1>6, TypeOK, ConstantsAssumption, AliveHasCase, ShownRun DEF RunCheck, Goto, SetPhase,
     rowVars, mapVars, TypeOK, Runs, AliveHasCase, Alive, ShownRun, Working
<1>7. ASSUME NEW r \in Runs, RunToCreated(r) PROVE ShownRun'
  BY <1>7, TypeOK, ConstantsAssumption, AliveHasCase, ShownRun DEF RunToCreated, End,
     UpdateStatus, mapVars, Goto, WriteStatus, TypeOK, Runs, AliveHasCase, Alive, ShownRun,
     Working
<1>8. ASSUME NEW r \in Runs, RunStats(r) PROVE ShownRun'
  BY <1>8, TypeOK, ConstantsAssumption, AliveHasCase, ShownRun DEF RunStats, Goto, Touch, mapVars,
     TypeOK, Runs, AliveHasCase, Alive, ShownRun, Working
<1>9. ASSUME NEW r \in Runs, RunToReady(r) PROVE ShownRun'
  BY <1>9, TypeOK, ConstantsAssumption, AliveHasCase, ShownRun DEF RunToReady, End, UpdateStatus,
     mapVars, Goto, WriteStatus, TypeOK, Runs, AliveHasCase, Alive, ShownRun, Working
<1>10. ASSUME NEW r \in Runs, Raise(r) PROVE ShownRun'
  BY <1>10, TypeOK, ConstantsAssumption, AliveHasCase, ShownRun DEF Raise, MayRaise, SetPhase,
     rowVars, mapVars, TypeOK, Runs, AliveHasCase, Alive, ShownRun, Working
<1>11. ASSUME NEW r \in Runs, RunSetError(r) PROVE ShownRun'
  BY <1>11, TypeOK, ConstantsAssumption, AliveHasCase, ShownRun DEF RunSetError, End, SetError,
     mapVars, Goto, WriteStatus, TypeOK, Runs, AliveHasCase, Alive, ShownRun, Working
<1>12. ASSUME NEW r \in Runs, RunSetErrorFails(r) PROVE ShownRun'
  BY <1>12, TypeOK, ConstantsAssumption, AliveHasCase, ShownRun DEF RunSetErrorFails, End,
     mapVars, Goto, TypeOK, Runs, AliveHasCase, Alive, ShownRun, Working
<1>13. ASSUME NEW c \in Cases, NEW r \in Threads, StartIndexing(c, r) PROVE ShownRun'
  BY <1>13, TypeOK, ConstantsAssumption, AliveHasCase, ShownRun DEF StartIndexing, RunAsync,
     rowVars, FreeThread, NewRun, TypeOK, Runs, AliveHasCase, Alive, ShownRun, Working
<1>14. ASSUME NEW c \in Cases, NEW r \in Threads, StartStuck(c, r) PROVE ShownRun'
  BY <1>14, TypeOK, ConstantsAssumption, AliveHasCase, ShownRun DEF StartStuck, WriteStatus,
     RunAsync, FreeThread, NewRun, TypeOK, Runs, AliveHasCase, Alive, ShownRun, Working
<1>15. ASSUME NEW c \in Cases, NEW r \in Threads, AddIncremental(c, r) PROVE ShownRun'
  BY <1>15, TypeOK, ConstantsAssumption, AliveHasCase, ShownRun DEF AddIncremental, Touch,
     RunAsync, FreeThread, NewRun, TypeOK, Runs, AliveHasCase, Alive, ShownRun, Working
<1>16. ASSUME NEW c \in Cases, NEW r \in CliRuns, CliStart(c, r) PROVE ShownRun'
  BY <1>16, TypeOK, ConstantsAssumption, AliveHasCase, ShownRun DEF CliStart, NewRun, rowVars,
     mapVars, TypeOK, Runs, AliveHasCase, Alive, ShownRun, Working
<1>17. ASSUME NEW r \in CliRuns, CliKilled(r) PROVE ShownRun'
  BY <1>17, TypeOK, ConstantsAssumption, AliveHasCase, ShownRun DEF CliKilled, Kill, mapVars,
     TypeOK, Runs, AliveHasCase, Alive, ShownRun, Working
<1>18. ASSUME ServerCrash PROVE ShownRun'
  BY <1>18, TypeOK, ConstantsAssumption, AliveHasCase, ShownRun DEF ServerCrash, Kill, TypeOK,
     Runs, AliveHasCase, Alive, ShownRun, Working
<1>19. ASSUME NEW c \in Cases, CreateCase(c) \/ UpdateSources(c) \/ StopIndexing(c) \/
       ArchiveCase(c) \/ DeleteBegin(c) \/ RunAsyncReturns(c) \/ DeleteJoin(c) \/ DeleteIndex(c)
       \/ DeleteIndexFails(c) \/ DeleteRow(c) \/ Age(c) PROVE ShownRun'
  BY <1>19, TypeOK, ConstantsAssumption, AliveHasCase, ShownRun DEF CreateCase, WriteStatus,
     runVars, mapVars, UpdateSources, Touch, StopIndexing, SetCancelFlag, rowVars, ArchiveCase,
     UpdateStatus, DeleteBegin, RunAsyncReturns, DeleteJoin, DeleteIndex, DeleteIndexFails,
     DeleteRow, Age, TypeOK, Runs, AliveHasCase, Alive, ShownRun, Working
<1>20. CASE UNCHANGED vars
  BY <1>20, TypeOK, ConstantsAssumption, AliveHasCase, ShownRun DEF vars, rowVars, runVars,
     mapVars, TypeOK, Runs, AliveHasCase, Alive, ShownRun, Working
<1> QED BY <1>1, <1>2, <1>3, <1>4, <1>5, <1>6, <1>7, <1>8, <1>9, <1>10, <1>11, <1>12, <1>13,
  <1>14, <1>15, <1>16, <1>17, <1>18, <1>19, <1>20 DEF Next, RunStep, Request, HandlerStep

\* The run that wrote "indexing" writes the next status before it ends, or its case is abandoned.
LEMMA AccountedStep ==
  ASSUME TypeOK, AliveHasCase, IndexingAccounted, [Next]_vars
  PROVE  IndexingAccounted'
<1>1. ASSUME NEW r \in Runs, RunBegin(r) PROVE IndexingAccounted'
  BY <1>1, TypeOK, ConstantsAssumption, AliveHasCase, IndexingAccounted DEF RunBegin, Goto,
     SetPhase, rowVars, TypeOK, Runs, AliveHasCase, Alive, IndexingAccounted, Engaged
<1>2. ASSUME NEW r \in Runs, RunMarkIndexing(r) PROVE IndexingAccounted'
  BY <1>2, TypeOK, ConstantsAssumption, AliveHasCase, IndexingAccounted DEF RunMarkIndexing, Goto,
     UpdateStatus, mapVars, WriteStatus, TypeOK, Runs, AliveHasCase, Alive, IndexingAccounted,
     Engaged
<1>3. ASSUME NEW r \in Runs, RunScan(r) PROVE IndexingAccounted'
  BY <1>3, TypeOK, ConstantsAssumption, AliveHasCase, IndexingAccounted DEF RunScan, Goto,
     SetPhase, rowVars, mapVars, TypeOK, Runs, AliveHasCase, Alive, IndexingAccounted, Engaged
<1>4. ASSUME NEW r \in Runs, RunWorked(r) PROVE IndexingAccounted'
  BY <1>4, TypeOK, ConstantsAssumption, AliveHasCase, IndexingAccounted DEF RunWorked, Goto,
     rowVars, mapVars, TypeOK, Runs, AliveHasCase, Alive, IndexingAccounted, Engaged
<1>5. ASSUME NEW r \in Runs, RunWrite(r) PROVE IndexingAccounted'
  BY <1>5, TypeOK, ConstantsAssumption, AliveHasCase, IndexingAccounted DEF RunWrite, Goto,
     rowVars, mapVars, TypeOK, Runs, AliveHasCase, Alive, IndexingAccounted, Engaged
<1>6. ASSUME NEW r \in Runs, RunCheck(r) PROVE IndexingAccounted'
  BY <1>6, TypeOK, ConstantsAssumption, AliveHasCase, IndexingAccounted DEF RunCheck, Goto,
     SetPhase, rowVars, mapVars, TypeOK, Runs, AliveHasCase, Alive, IndexingAccounted, Engaged
<1>7. ASSUME NEW r \in Runs, RunToCreated(r) PROVE IndexingAccounted'
  BY <1>7, TypeOK, ConstantsAssumption, AliveHasCase, IndexingAccounted DEF RunToCreated, End,
     UpdateStatus, mapVars, Goto, WriteStatus, TypeOK, Runs, AliveHasCase, Alive,
     IndexingAccounted, Engaged
<1>8. ASSUME NEW r \in Runs, RunStats(r) PROVE IndexingAccounted'
  BY <1>8, TypeOK, ConstantsAssumption, AliveHasCase, IndexingAccounted DEF RunStats, Goto, Touch,
     mapVars, TypeOK, Runs, AliveHasCase, Alive, IndexingAccounted, Engaged
<1>9. ASSUME NEW r \in Runs, RunToReady(r) PROVE IndexingAccounted'
  BY <1>9, TypeOK, ConstantsAssumption, AliveHasCase, IndexingAccounted DEF RunToReady, End,
     UpdateStatus, mapVars, Goto, WriteStatus, TypeOK, Runs, AliveHasCase, Alive,
     IndexingAccounted, Engaged
<1>10. ASSUME NEW r \in Runs, Raise(r) PROVE IndexingAccounted'
  BY <1>10, TypeOK, ConstantsAssumption, AliveHasCase, IndexingAccounted DEF Raise, MayRaise,
     SetPhase, rowVars, mapVars, TypeOK, Runs, AliveHasCase, Alive, IndexingAccounted, Engaged
<1>11. ASSUME NEW r \in Runs, RunSetError(r) PROVE IndexingAccounted'
  BY <1>11, TypeOK, ConstantsAssumption, AliveHasCase, IndexingAccounted DEF RunSetError, End,
     SetError, mapVars, Goto, WriteStatus, TypeOK, Runs, AliveHasCase, Alive, IndexingAccounted,
     Engaged
<1>12. ASSUME NEW r \in Runs, RunSetErrorFails(r) PROVE IndexingAccounted'
  BY <1>12, TypeOK, ConstantsAssumption, AliveHasCase, IndexingAccounted DEF RunSetErrorFails,
     End, mapVars, Goto, TypeOK, Runs, AliveHasCase, Alive, IndexingAccounted, Engaged
<1>13. ASSUME NEW c \in Cases, CreateCase(c) PROVE IndexingAccounted'
  BY <1>13, TypeOK, ConstantsAssumption, AliveHasCase, IndexingAccounted DEF CreateCase,
     WriteStatus, runVars, mapVars, TypeOK, Runs, AliveHasCase, Alive, IndexingAccounted, Engaged
<1>14. ASSUME NEW c \in Cases, NEW r \in Threads, StartIndexing(c, r) PROVE IndexingAccounted'
  BY <1>14, TypeOK, ConstantsAssumption, AliveHasCase, IndexingAccounted DEF StartIndexing,
     RunAsync, rowVars, FreeThread, NewRun, TypeOK, Runs, AliveHasCase, Alive, IndexingAccounted,
     Engaged
<1>15. ASSUME NEW c \in Cases, NEW r \in Threads, StartStuck(c, r) PROVE IndexingAccounted'
  BY <1>15, TypeOK, ConstantsAssumption, AliveHasCase, IndexingAccounted DEF StartStuck,
     WriteStatus, RunAsync, FreeThread, NewRun, TypeOK, Runs, AliveHasCase, Alive,
     IndexingAccounted, Engaged
<1>16. ASSUME NEW c \in Cases, NEW r \in Threads, AddIncremental(c, r) PROVE IndexingAccounted'
  BY <1>16, TypeOK, ConstantsAssumption, AliveHasCase, IndexingAccounted DEF AddIncremental,
     Touch, RunAsync, FreeThread, NewRun, TypeOK, Runs, AliveHasCase, Alive, IndexingAccounted,
     Engaged
<1>17. ASSUME NEW c \in Cases, ArchiveCase(c) PROVE IndexingAccounted'
  BY <1>17, TypeOK, ConstantsAssumption, AliveHasCase, IndexingAccounted DEF ArchiveCase,
     UpdateStatus, runVars, mapVars, WriteStatus, TypeOK, Runs, AliveHasCase, Alive,
     IndexingAccounted, Engaged
<1>18. ASSUME NEW c \in Cases, DeleteRow(c) PROVE IndexingAccounted'
  BY <1>18, TypeOK, ConstantsAssumption, AliveHasCase, IndexingAccounted DEF DeleteRow,
     WriteStatus, runVars, mapVars, TypeOK, Runs, AliveHasCase, Alive, IndexingAccounted, Engaged
<1>19. ASSUME NEW c \in Cases, NEW r \in CliRuns, CliStart(c, r) PROVE IndexingAccounted'
  BY <1>19, TypeOK, ConstantsAssumption, AliveHasCase, IndexingAccounted DEF CliStart, NewRun,
     rowVars, mapVars, TypeOK, Runs, AliveHasCase, Alive, IndexingAccounted, Engaged
<1>20. ASSUME NEW r \in CliRuns, CliKilled(r) PROVE IndexingAccounted'
  <2> SUFFICES ASSUME NEW c \in Cases, status'[c] = "indexing"
               PROVE  abandoned'[c] \/ \E r2 \in Runs : on'[r2] = c /\ pc'[r2] \in Engaged
    BY DEF IndexingAccounted
  <2>1. Kill({r})
    BY <1>20 DEF CliKilled
  <2>2. CASE abandoned[c]
    BY <2>1, <2>2 DEF TypeOK, Kill
  <2>3. CASE ~abandoned[c]
    <3>1. PICK r1 \in Runs : on[r1] = c /\ pc[r1] \in Engaged
      BY <2>1, <2>3 DEF IndexingAccounted, Kill
    <3>2. CASE r1 \in {r}
      BY <2>1, <3>1, <3>2 DEF TypeOK, Kill
    <3>3. CASE r1 \notin {r}
      BY <2>1, <3>1, <3>3 DEF TypeOK, Kill
    <3> QED BY <3>2, <3>3
  <2> QED BY <2>2, <2>3
<1>21. ASSUME ServerCrash PROVE IndexingAccounted'
  <2> SUFFICES ASSUME NEW c \in Cases, status'[c] = "indexing"
               PROVE  abandoned'[c] \/ \E r2 \in Runs : on'[r2] = c /\ pc'[r2] \in Engaged
    BY DEF IndexingAccounted
  <2>1. Kill(Threads)
    BY <1>21 DEF ServerCrash
  <2>2. CASE abandoned[c]
    BY <2>1, <2>2 DEF TypeOK, Kill
  <2>3. CASE ~abandoned[c]
    <3>1. PICK r1 \in Runs : on[r1] = c /\ pc[r1] \in Engaged
      BY <2>1, <2>3 DEF IndexingAccounted, Kill
    <3>2. CASE r1 \in Threads
      BY <2>1, <3>1, <3>2 DEF TypeOK, Kill
    <3>3. CASE r1 \notin Threads
      BY <2>1, <3>1, <3>3 DEF TypeOK, Kill
    <3> QED BY <3>2, <3>3
  <2> QED BY <2>2, <2>3
<1>22. ASSUME NEW c \in Cases, UpdateSources(c) \/ StopIndexing(c) \/ DeleteBegin(c) \/
       RunAsyncReturns(c) \/ DeleteJoin(c) \/ DeleteIndex(c) \/ DeleteIndexFails(c) \/ Age(c)
       PROVE IndexingAccounted'
  BY <1>22, TypeOK, ConstantsAssumption, AliveHasCase, IndexingAccounted DEF UpdateSources, Touch,
     runVars, mapVars, StopIndexing, SetCancelFlag, rowVars, DeleteBegin, RunAsyncReturns,
     DeleteJoin, DeleteIndex, DeleteIndexFails, Age, TypeOK, Runs, AliveHasCase, Alive,
     IndexingAccounted, Engaged
<1>23. CASE UNCHANGED vars
  BY <1>23, TypeOK, ConstantsAssumption, AliveHasCase, IndexingAccounted DEF vars, rowVars,
     runVars, mapVars, TypeOK, Runs, AliveHasCase, Alive, IndexingAccounted, Engaged
<1> QED BY <1>1, <1>2, <1>3, <1>4, <1>5, <1>6, <1>7, <1>8, <1>9, <1>10, <1>11, <1>12, <1>13,
  <1>14, <1>15, <1>16, <1>17, <1>18, <1>19, <1>20, <1>21, <1>22, <1>23 DEF Next, RunStep, Request,
  HandlerStep

\* A run reaches the statistics only after write_index, and no index ever goes back to "none".
LEMMA PublishedStep ==
  ASSUME TypeOK, AliveHasCase, PublishedFirst, [Next]_vars
  PROVE  PublishedFirst'
<1>1. ASSUME NEW r \in Runs, RunBegin(r) PROVE PublishedFirst'
  BY <1>1, TypeOK, ConstantsAssumption, AliveHasCase, PublishedFirst DEF RunBegin, Goto, SetPhase,
     rowVars, TypeOK, Runs, AliveHasCase, Alive, PublishedFirst
<1>2. ASSUME NEW r \in Runs, RunMarkIndexing(r) PROVE PublishedFirst'
  BY <1>2, TypeOK, ConstantsAssumption, AliveHasCase, PublishedFirst DEF RunMarkIndexing, Goto,
     UpdateStatus, mapVars, WriteStatus, TypeOK, Runs, AliveHasCase, Alive, PublishedFirst
<1>3. ASSUME NEW r \in Runs, RunScan(r) PROVE PublishedFirst'
  BY <1>3, TypeOK, ConstantsAssumption, AliveHasCase, PublishedFirst DEF RunScan, Goto, SetPhase,
     rowVars, mapVars, TypeOK, Runs, AliveHasCase, Alive, PublishedFirst
<1>4. ASSUME NEW r \in Runs, RunWorked(r) PROVE PublishedFirst'
  BY <1>4, TypeOK, ConstantsAssumption, AliveHasCase, PublishedFirst DEF RunWorked, Goto, rowVars,
     mapVars, TypeOK, Runs, AliveHasCase, Alive, PublishedFirst
<1>5. ASSUME NEW r \in Runs, RunWrite(r) PROVE PublishedFirst'
  BY <1>5, TypeOK, ConstantsAssumption, AliveHasCase, PublishedFirst DEF RunWrite, Goto, rowVars,
     mapVars, TypeOK, Runs, AliveHasCase, Alive, PublishedFirst
<1>6. ASSUME NEW r \in Runs, RunCheck(r) PROVE PublishedFirst'
  BY <1>6, TypeOK, ConstantsAssumption, AliveHasCase, PublishedFirst DEF RunCheck, Goto, SetPhase,
     rowVars, mapVars, TypeOK, Runs, AliveHasCase, Alive, PublishedFirst
<1>7. ASSUME NEW r \in Runs, RunToCreated(r) PROVE PublishedFirst'
  BY <1>7, TypeOK, ConstantsAssumption, AliveHasCase, PublishedFirst DEF RunToCreated, End,
     UpdateStatus, mapVars, Goto, WriteStatus, TypeOK, Runs, AliveHasCase, Alive, PublishedFirst
<1>8. ASSUME NEW r \in Runs, RunStats(r) PROVE PublishedFirst'
  BY <1>8, TypeOK, ConstantsAssumption, AliveHasCase, PublishedFirst DEF RunStats, Goto, Touch,
     mapVars, TypeOK, Runs, AliveHasCase, Alive, PublishedFirst
<1>9. ASSUME NEW r \in Runs, RunToReady(r) PROVE PublishedFirst'
  BY <1>9, TypeOK, ConstantsAssumption, AliveHasCase, PublishedFirst DEF RunToReady, End,
     UpdateStatus, mapVars, Goto, WriteStatus, TypeOK, Runs, AliveHasCase, Alive, PublishedFirst
<1>10. ASSUME NEW r \in Runs, Raise(r) PROVE PublishedFirst'
  BY <1>10, TypeOK, ConstantsAssumption, AliveHasCase, PublishedFirst DEF Raise, MayRaise,
     SetPhase, rowVars, mapVars, TypeOK, Runs, AliveHasCase, Alive, PublishedFirst
<1>11. ASSUME NEW r \in Runs, RunSetError(r) PROVE PublishedFirst'
  BY <1>11, TypeOK, ConstantsAssumption, AliveHasCase, PublishedFirst DEF RunSetError, End,
     SetError, mapVars, Goto, WriteStatus, TypeOK, Runs, AliveHasCase, Alive, PublishedFirst
<1>12. ASSUME NEW r \in Runs, RunSetErrorFails(r) PROVE PublishedFirst'
  BY <1>12, TypeOK, ConstantsAssumption, AliveHasCase, PublishedFirst DEF RunSetErrorFails, End,
     mapVars, Goto, TypeOK, Runs, AliveHasCase, Alive, PublishedFirst
<1>13. ASSUME NEW c \in Cases, NEW r \in Threads, StartIndexing(c, r) PROVE PublishedFirst'
  BY <1>13, TypeOK, ConstantsAssumption, AliveHasCase, PublishedFirst DEF StartIndexing, RunAsync,
     rowVars, FreeThread, NewRun, TypeOK, Runs, AliveHasCase, Alive, PublishedFirst
<1>14. ASSUME NEW c \in Cases, NEW r \in Threads, StartStuck(c, r) PROVE PublishedFirst'
  BY <1>14, TypeOK, ConstantsAssumption, AliveHasCase, PublishedFirst DEF StartStuck, WriteStatus,
     RunAsync, FreeThread, NewRun, TypeOK, Runs, AliveHasCase, Alive, PublishedFirst
<1>15. ASSUME NEW c \in Cases, NEW r \in Threads, AddIncremental(c, r) PROVE PublishedFirst'
  BY <1>15, TypeOK, ConstantsAssumption, AliveHasCase, PublishedFirst DEF AddIncremental, Touch,
     RunAsync, FreeThread, NewRun, TypeOK, Runs, AliveHasCase, Alive, PublishedFirst
<1>16. ASSUME NEW c \in Cases, StopIndexing(c) PROVE PublishedFirst'
  BY <1>16, TypeOK, ConstantsAssumption, AliveHasCase, PublishedFirst DEF StopIndexing,
     SetCancelFlag, rowVars, mapVars, TypeOK, Runs, AliveHasCase, Alive, PublishedFirst
<1>17. ASSUME NEW c \in Cases, DeleteBegin(c) PROVE PublishedFirst'
  BY <1>17, TypeOK, ConstantsAssumption, AliveHasCase, PublishedFirst DEF DeleteBegin,
     SetCancelFlag, rowVars, mapVars, TypeOK, Runs, AliveHasCase, Alive, PublishedFirst
<1>18. ASSUME NEW c \in Cases, DeleteIndex(c) PROVE PublishedFirst'
  BY <1>18, TypeOK, ConstantsAssumption, AliveHasCase, PublishedFirst DEF DeleteIndex, rowVars,
     runVars, mapVars, TypeOK, Runs, AliveHasCase, Alive, PublishedFirst
<1>19. ASSUME NEW c \in Cases, NEW r \in CliRuns, CliStart(c, r) PROVE PublishedFirst'
  BY <1>19, TypeOK, ConstantsAssumption, AliveHasCase, PublishedFirst DEF CliStart, NewRun,
     rowVars, mapVars, TypeOK, Runs, AliveHasCase, Alive, PublishedFirst
<1>20. ASSUME NEW r \in CliRuns, CliKilled(r) PROVE PublishedFirst'
  BY <1>20, TypeOK, ConstantsAssumption, AliveHasCase, PublishedFirst DEF CliKilled, Kill,
     mapVars, TypeOK, Runs, AliveHasCase, Alive, PublishedFirst
<1>21. ASSUME ServerCrash PROVE PublishedFirst'
  BY <1>21, TypeOK, ConstantsAssumption, AliveHasCase, PublishedFirst DEF ServerCrash, Kill,
     TypeOK, Runs, AliveHasCase, Alive, PublishedFirst
<1>22. ASSUME NEW c \in Cases, CreateCase(c) \/ UpdateSources(c) \/ ArchiveCase(c) \/
       RunAsyncReturns(c) \/ DeleteJoin(c) \/ DeleteIndexFails(c) \/ DeleteRow(c) \/ Age(c) PROVE
       PublishedFirst'
  BY <1>22, TypeOK, ConstantsAssumption, AliveHasCase, PublishedFirst DEF CreateCase, WriteStatus,
     runVars, mapVars, UpdateSources, Touch, ArchiveCase, UpdateStatus, RunAsyncReturns, rowVars,
     DeleteJoin, DeleteIndexFails, DeleteRow, Age, TypeOK, Runs, AliveHasCase, Alive,
     PublishedFirst
<1>23. CASE UNCHANGED vars
  BY <1>23, TypeOK, ConstantsAssumption, AliveHasCase, PublishedFirst DEF vars, rowVars, runVars,
     mapVars, TypeOK, Runs, AliveHasCase, Alive, PublishedFirst
<1> QED BY <1>1, <1>2, <1>3, <1>4, <1>5, <1>6, <1>7, <1>8, <1>9, <1>10, <1>11, <1>12, <1>13,
  <1>14, <1>15, <1>16, <1>17, <1>18, <1>19, <1>20, <1>21, <1>22, <1>23 DEF Next, RunStep, Request,
  HandlerStep

\* "ready" is written by a run that has replaced the index.
LEMMA ReadyStep ==
  ASSUME TypeOK, AliveHasCase, PublishedFirst, ReadyHasIndex, [Next]_vars
  PROVE  ReadyHasIndex'
<1>1. ASSUME NEW r \in Runs, RunMarkIndexing(r) PROVE ReadyHasIndex'
  BY <1>1, TypeOK, ConstantsAssumption, AliveHasCase, PublishedFirst, ReadyHasIndex DEF
     RunMarkIndexing, Goto, UpdateStatus, mapVars, WriteStatus, TypeOK, Runs, AliveHasCase, Alive,
     PublishedFirst, ReadyHasIndex
<1>2. ASSUME NEW r \in Runs, RunWrite(r) PROVE ReadyHasIndex'
  BY <1>2, TypeOK, ConstantsAssumption, AliveHasCase, PublishedFirst, ReadyHasIndex DEF RunWrite,
     Goto, rowVars, mapVars, TypeOK, Runs, AliveHasCase, Alive, PublishedFirst, ReadyHasIndex
<1>3. ASSUME NEW r \in Runs, RunToCreated(r) PROVE ReadyHasIndex'
  BY <1>3, TypeOK, ConstantsAssumption, AliveHasCase, PublishedFirst, ReadyHasIndex DEF
     RunToCreated, End, UpdateStatus, mapVars, Goto, WriteStatus, TypeOK, Runs, AliveHasCase,
     Alive, PublishedFirst, ReadyHasIndex
<1>4. ASSUME NEW r \in Runs, RunToReady(r) PROVE ReadyHasIndex'
  BY <1>4, TypeOK, ConstantsAssumption, AliveHasCase, PublishedFirst, ReadyHasIndex DEF
     RunToReady, End, UpdateStatus, mapVars, Goto, WriteStatus, TypeOK, Runs, AliveHasCase, Alive,
     PublishedFirst, ReadyHasIndex
<1>5. ASSUME NEW r \in Runs, RunSetError(r) PROVE ReadyHasIndex'
  BY <1>5, TypeOK, ConstantsAssumption, AliveHasCase, PublishedFirst, ReadyHasIndex DEF
     RunSetError, End, SetError, mapVars, Goto, WriteStatus, TypeOK, Runs, AliveHasCase, Alive,
     PublishedFirst, ReadyHasIndex
<1>6. ASSUME NEW c \in Cases, CreateCase(c) PROVE ReadyHasIndex'
  BY <1>6, TypeOK, ConstantsAssumption, AliveHasCase, PublishedFirst, ReadyHasIndex DEF
     CreateCase, WriteStatus, runVars, mapVars, TypeOK, Runs, AliveHasCase, Alive, PublishedFirst,
     ReadyHasIndex
<1>7. ASSUME NEW c \in Cases, NEW r \in Threads, StartStuck(c, r) PROVE ReadyHasIndex'
  BY <1>7, TypeOK, ConstantsAssumption, AliveHasCase, PublishedFirst, ReadyHasIndex DEF
     StartStuck, WriteStatus, RunAsync, FreeThread, NewRun, TypeOK, Runs, AliveHasCase, Alive,
     PublishedFirst, ReadyHasIndex
<1>8. ASSUME NEW c \in Cases, ArchiveCase(c) PROVE ReadyHasIndex'
  BY <1>8, TypeOK, ConstantsAssumption, AliveHasCase, PublishedFirst, ReadyHasIndex DEF
     ArchiveCase, UpdateStatus, runVars, mapVars, WriteStatus, TypeOK, Runs, AliveHasCase, Alive,
     PublishedFirst, ReadyHasIndex
<1>9. ASSUME NEW c \in Cases, DeleteIndex(c) PROVE ReadyHasIndex'
  BY <1>9, TypeOK, ConstantsAssumption, AliveHasCase, PublishedFirst, ReadyHasIndex DEF
     DeleteIndex, rowVars, runVars, mapVars, TypeOK, Runs, AliveHasCase, Alive, PublishedFirst,
     ReadyHasIndex
<1>10. ASSUME NEW c \in Cases, DeleteRow(c) PROVE ReadyHasIndex'
  BY <1>10, TypeOK, ConstantsAssumption, AliveHasCase, PublishedFirst, ReadyHasIndex DEF
     DeleteRow, WriteStatus, runVars, mapVars, TypeOK, Runs, AliveHasCase, Alive, PublishedFirst,
     ReadyHasIndex
<1>11. ASSUME NEW r \in Runs, RunBegin(r) \/ RunScan(r) \/ RunWorked(r) \/ RunCheck(r) \/
       RunStats(r) \/ Raise(r) \/ RunSetErrorFails(r) PROVE ReadyHasIndex'
  BY <1>11, TypeOK, ConstantsAssumption, AliveHasCase, PublishedFirst, ReadyHasIndex DEF RunBegin,
     Goto, SetPhase, rowVars, RunScan, mapVars, RunWorked, RunCheck, RunStats, Touch, Raise,
     MayRaise, RunSetErrorFails, End, TypeOK, Runs, AliveHasCase, Alive, PublishedFirst,
     ReadyHasIndex
<1>12. ASSUME NEW c \in Cases, UpdateSources(c) \/ StopIndexing(c) \/ DeleteBegin(c) \/
       RunAsyncReturns(c) \/ DeleteJoin(c) \/ DeleteIndexFails(c) \/ Age(c) PROVE ReadyHasIndex'
  BY <1>12, TypeOK, ConstantsAssumption, AliveHasCase, PublishedFirst, ReadyHasIndex DEF
     UpdateSources, Touch, runVars, mapVars, StopIndexing, SetCancelFlag, rowVars, DeleteBegin,
     RunAsyncReturns, DeleteJoin, DeleteIndexFails, Age, TypeOK, Runs, AliveHasCase, Alive,
     PublishedFirst, ReadyHasIndex
<1>13. ASSUME NEW c \in Cases, NEW r \in Threads, StartIndexing(c, r) \/ AddIncremental(c, r)
       PROVE ReadyHasIndex'
  BY <1>13, TypeOK, ConstantsAssumption, AliveHasCase, PublishedFirst, ReadyHasIndex DEF
     StartIndexing, RunAsync, rowVars, FreeThread, NewRun, AddIncremental, Touch, TypeOK, Runs,
     AliveHasCase, Alive, PublishedFirst, ReadyHasIndex
<1>14. ASSUME NEW c \in Cases, NEW r \in CliRuns, CliStart(c, r) PROVE ReadyHasIndex'
  BY <1>14, TypeOK, ConstantsAssumption, AliveHasCase, PublishedFirst, ReadyHasIndex DEF CliStart,
     NewRun, rowVars, mapVars, TypeOK, Runs, AliveHasCase, Alive, PublishedFirst, ReadyHasIndex
<1>15. ASSUME NEW r \in CliRuns, CliKilled(r) PROVE ReadyHasIndex'
  BY <1>15, TypeOK, ConstantsAssumption, AliveHasCase, PublishedFirst, ReadyHasIndex DEF
     CliKilled, Kill, mapVars, TypeOK, Runs, AliveHasCase, Alive, PublishedFirst, ReadyHasIndex
<1>16. ASSUME ServerCrash PROVE ReadyHasIndex'
  BY <1>16, TypeOK, ConstantsAssumption, AliveHasCase, PublishedFirst, ReadyHasIndex DEF
     ServerCrash, Kill, TypeOK, Runs, AliveHasCase, Alive, PublishedFirst, ReadyHasIndex
<1>17. CASE UNCHANGED vars
  BY <1>17, TypeOK, ConstantsAssumption, AliveHasCase, PublishedFirst, ReadyHasIndex DEF vars,
     rowVars, runVars, mapVars, TypeOK, Runs, AliveHasCase, Alive, PublishedFirst, ReadyHasIndex
<1> QED BY <1>1, <1>2, <1>3, <1>4, <1>5, <1>6, <1>7, <1>8, <1>9, <1>10, <1>11, <1>12, <1>13,
  <1>14, <1>15, <1>16, <1>17 DEF Next, RunStep, Request, HandlerStep

\* While a delete request is under way no other handler runs, and runs write only statuses of a row.
LEMMA DeletedStep ==
  ASSUME TypeOK, AliveHasCase, DeletedHasRow, [Next]_vars
  PROVE  DeletedHasRow'
<1>1. ASSUME NEW r \in Runs, RunMarkIndexing(r) PROVE DeletedHasRow'
  BY <1>1, TypeOK, ConstantsAssumption, AliveHasCase, DeletedHasRow DEF RunMarkIndexing, Goto,
     UpdateStatus, mapVars, WriteStatus, TypeOK, Runs, AliveHasCase, Alive, DeletedHasRow, HasRow,
     Statuses
<1>2. ASSUME NEW r \in Runs, RunToCreated(r) PROVE DeletedHasRow'
  BY <1>2, TypeOK, ConstantsAssumption, AliveHasCase, DeletedHasRow DEF RunToCreated, End,
     UpdateStatus, mapVars, Goto, WriteStatus, TypeOK, Runs, AliveHasCase, Alive, DeletedHasRow,
     HasRow, Statuses
<1>3. ASSUME NEW r \in Runs, RunToReady(r) PROVE DeletedHasRow'
  BY <1>3, TypeOK, ConstantsAssumption, AliveHasCase, DeletedHasRow DEF RunToReady, End,
     UpdateStatus, mapVars, Goto, WriteStatus, TypeOK, Runs, AliveHasCase, Alive, DeletedHasRow,
     HasRow, Statuses
<1>4. ASSUME NEW r \in Runs, RunSetError(r) PROVE DeletedHasRow'
  BY <1>4, TypeOK, ConstantsAssumption, AliveHasCase, DeletedHasRow DEF RunSetError, End,
     SetError, mapVars, Goto, WriteStatus, TypeOK, Runs, AliveHasCase, Alive, DeletedHasRow,
     HasRow, Statuses
<1>5. ASSUME NEW c \in Cases, CreateCase(c) PROVE DeletedHasRow'
  BY <1>5, TypeOK, ConstantsAssumption, AliveHasCase, DeletedHasRow DEF CreateCase, WriteStatus,
     runVars, mapVars, Idle, LoopFree, TypeOK, Runs, AliveHasCase, Alive, DeletedHasRow, HasRow,
     Statuses
<1>6. ASSUME NEW c \in Cases, NEW r \in Threads, StartIndexing(c, r) PROVE DeletedHasRow'
  BY <1>6, TypeOK, ConstantsAssumption, AliveHasCase, DeletedHasRow DEF StartIndexing, RunAsync,
     rowVars, FreeThread, NewRun, At, Idle, LoopFree, TypeOK, Runs, AliveHasCase, Alive,
     DeletedHasRow, HasRow, Statuses
<1>7. ASSUME NEW c \in Cases, NEW r \in Threads, StartStuck(c, r) PROVE DeletedHasRow'
  BY <1>7, TypeOK, ConstantsAssumption, AliveHasCase, DeletedHasRow DEF StartStuck, WriteStatus,
     RunAsync, FreeThread, NewRun, At, Idle, LoopFree, TypeOK, Runs, AliveHasCase, Alive,
     DeletedHasRow, HasRow, Statuses
<1>8. ASSUME NEW c \in Cases, NEW r \in Threads, AddIncremental(c, r) PROVE DeletedHasRow'
  BY <1>8, TypeOK, ConstantsAssumption, AliveHasCase, DeletedHasRow DEF AddIncremental, Touch,
     RunAsync, FreeThread, NewRun, At, Idle, LoopFree, TypeOK, Runs, AliveHasCase, Alive,
     DeletedHasRow, HasRow, Statuses
<1>9. ASSUME NEW c \in Cases, ArchiveCase(c) PROVE DeletedHasRow'
  BY <1>9, TypeOK, ConstantsAssumption, AliveHasCase, DeletedHasRow DEF ArchiveCase, UpdateStatus,
     runVars, mapVars, WriteStatus, Idle, LoopFree, TypeOK, Runs, AliveHasCase, Alive,
     DeletedHasRow, HasRow, Statuses
<1>10. ASSUME NEW c \in Cases, DeleteBegin(c) PROVE DeletedHasRow'
  BY <1>10, TypeOK, ConstantsAssumption, AliveHasCase, DeletedHasRow DEF DeleteBegin,
     SetCancelFlag, rowVars, mapVars, At, Idle, LoopFree, TypeOK, Runs, AliveHasCase, Alive,
     DeletedHasRow, HasRow, Statuses
<1>11. ASSUME NEW c \in Cases, RunAsyncReturns(c) PROVE DeletedHasRow'
  BY <1>11, TypeOK, ConstantsAssumption, AliveHasCase, DeletedHasRow DEF RunAsyncReturns, rowVars,
     runVars, mapVars, At, Idle, TypeOK, Runs, AliveHasCase, Alive, DeletedHasRow, HasRow,
     Statuses
<1>12. ASSUME NEW c \in Cases, DeleteJoin(c) PROVE DeletedHasRow'
  BY <1>12, TypeOK, ConstantsAssumption, AliveHasCase, DeletedHasRow DEF DeleteJoin, rowVars,
     runVars, mapVars, At, TypeOK, Runs, AliveHasCase, Alive, DeletedHasRow, HasRow, Statuses
<1>13. ASSUME NEW c \in Cases, DeleteIndex(c) PROVE DeletedHasRow'
  BY <1>13, TypeOK, ConstantsAssumption, AliveHasCase, DeletedHasRow DEF DeleteIndex, rowVars,
     runVars, mapVars, At, TypeOK, Runs, AliveHasCase, Alive, DeletedHasRow, HasRow, Statuses
<1>14. ASSUME NEW c \in Cases, DeleteIndexFails(c) PROVE DeletedHasRow'
  BY <1>14, TypeOK, ConstantsAssumption, AliveHasCase, DeletedHasRow DEF DeleteIndexFails,
     rowVars, runVars, mapVars, At, TypeOK, Runs, AliveHasCase, Alive, DeletedHasRow, HasRow,
     Statuses
<1>15. ASSUME NEW c \in Cases, DeleteRow(c) PROVE DeletedHasRow'
  BY <1>15, TypeOK, ConstantsAssumption, AliveHasCase, DeletedHasRow DEF DeleteRow, WriteStatus,
     runVars, mapVars, At, Idle, TypeOK, Runs, AliveHasCase, Alive, DeletedHasRow, HasRow,
     Statuses
<1>16. ASSUME ServerCrash PROVE DeletedHasRow'
  BY <1>16, TypeOK, ConstantsAssumption, AliveHasCase, DeletedHasRow DEF ServerCrash, Kill, Idle,
     TypeOK, Runs, AliveHasCase, Alive, DeletedHasRow, HasRow, Statuses
<1>17. ASSUME NEW r \in Runs, RunBegin(r) \/ RunScan(r) \/ RunWorked(r) \/ RunWrite(r) \/
       RunCheck(r) \/ RunStats(r) \/ Raise(r) \/ RunSetErrorFails(r) PROVE DeletedHasRow'
  BY <1>17, TypeOK, ConstantsAssumption, AliveHasCase, DeletedHasRow DEF RunBegin, Goto, SetPhase,
     rowVars, RunScan, mapVars, RunWorked, RunWrite, RunCheck, RunStats, Touch, Raise, MayRaise,
     RunSetErrorFails, End, TypeOK, Runs, AliveHasCase, Alive, DeletedHasRow, HasRow, Statuses
<1>18. ASSUME NEW c \in Cases, UpdateSources(c) \/ StopIndexing(c) \/ Age(c) PROVE DeletedHasRow'
  BY <1>18, TypeOK, ConstantsAssumption, AliveHasCase, DeletedHasRow DEF UpdateSources, Touch,
     runVars, mapVars, StopIndexing, SetCancelFlag, rowVars, Age, Idle, LoopFree, TypeOK, Runs,
     AliveHasCase, Alive, DeletedHasRow, HasRow, Statuses
<1>19. ASSUME NEW c \in Cases, NEW r \in CliRuns, CliStart(c, r) PROVE DeletedHasRow'
  BY <1>19, TypeOK, ConstantsAssumption, AliveHasCase, DeletedHasRow DEF CliStart, NewRun,
     rowVars, mapVars, TypeOK, Runs, AliveHasCase, Alive, DeletedHasRow, HasRow, Statuses
<1>20. ASSUME NEW r \in CliRuns, CliKilled(r) PROVE DeletedHasRow'
  BY <1>20, TypeOK, ConstantsAssumption, AliveHasCase, DeletedHasRow DEF CliKilled, Kill, mapVars,
     TypeOK, Runs, AliveHasCase, Alive, DeletedHasRow, HasRow, Statuses
<1>21. CASE UNCHANGED vars
  BY <1>21, TypeOK, ConstantsAssumption, AliveHasCase, DeletedHasRow DEF vars, rowVars, runVars,
     mapVars, TypeOK, Runs, AliveHasCase, Alive, DeletedHasRow, HasRow, Statuses
<1> QED BY <1>1, <1>2, <1>3, <1>4, <1>5, <1>6, <1>7, <1>8, <1>9, <1>10, <1>11, <1>12, <1>13,
  <1>14, <1>15, <1>16, <1>17, <1>18, <1>19, <1>20, <1>21 DEF Next, RunStep, Request, HandlerStep

----------------------------------------------------------------------------
(* The invariants. *)

LEMMA InitIInv == Init => IInv
  BY ConstantsAssumption
  DEF Init, IInv, TypeOK, AliveHasCase, ShownRun, IndexingAccounted, PublishedFirst, ReadyHasIndex,
      DeletedHasRow, Alive, Runs, Statuses, Idle

LEMMA StepIInv == IInv /\ [Next]_vars => IInv'
  BY TypeStep, AliveStep, ShownStep, AccountedStep, PublishedStep, ReadyStep, DeletedStep DEF IInv

\* The inductive invariant holds in every state the system reaches.
THEOREM Invariance == Spec => []IInv
  BY InitIInv, StepIInv, PTL DEF Spec

\* Every variable of the case life cycle stays in its type.
THEOREM TypeCorrect == Spec => []TypeOK
  <1>1. IInv => TypeOK
    BY DEF IInv
  <1> QED BY <1>1, Invariance, PTL

\* A case the API shows as being indexed is being indexed by the live run it shows: is_running
\* never goes on answering yes for a run that ended, failed, was replaced or died.
THEOREM RunningCorrect == Spec => []RunningMeansAlive
  <1>1. IInv => RunningMeansAlive
    BY DEF IInv, ShownRun, Working, RunningMeansAlive, IsRunning, Alive
  <1> QED BY <1>1, Invariance, PTL

\* A row in INDEXING has a live run that will write its next status, or lost its run to a crash or
\* to a database that refused the error.
THEOREM AccountedCorrect == Spec => []IndexingAccounted
  <1>1. IInv => IndexingAccounted
    BY DEF IInv
  <1> QED BY <1>1, Invariance, PTL

\* A row is READY only when an index has been published for the case.
THEOREM ReadyCorrect == Spec => []ReadyHasIndex
  <1>1. IInv => ReadyHasIndex
    BY DEF IInv
  <1> QED BY <1>1, Invariance, PTL

----------------------------------------------------------------------------
(* CaseLifecycle implements CaseLedger: a step of a run or a request is one move of the ledger,   *)
(* or changes nothing the ledger speaks of.                                                       *)

LEMMA InitLedger == Init => Ledger!LedgerInit
  BY DEF Init, Ledger!LedgerInit

\* update_status is a move of the ledger's table; to "ready" only with an index.
LEMMA UpdateStatusMoves ==
  ASSUME NEW c \in Cases, NEW s \in Statuses, UpdateStatus(c, s), UNCHANGED index,
         s = "ready" => index[c] # "none"
  PROVE  Ledger!LedgerNext
<1>1. Ledger!Move(c, s)
  BY DEF UpdateStatus, WriteStatus, ValidTransitions, Ledger!Move, Ledger!Moves
<1> QED BY <1>1 DEF Ledger!LedgerNext, Ledger!Rows, Statuses

\* set_error, and recover_if_stuck, fail the case whatever its status is.
LEMMA ErrorFails ==
  ASSUME NEW c \in Cases, HasRow(c), WriteStatus(c, "error"), UNCHANGED index
  PROVE  Ledger!LedgerNext
<1>1. Ledger!Fail(c)
  BY DEF HasRow, Statuses, WriteStatus, Ledger!Fail, Ledger!HasRow, Ledger!Rows
<1> QED BY <1>1 DEF Ledger!LedgerNext

LEMMA StepLedger ==
  ASSUME IInv, [Next]_vars
  PROVE  [Ledger!LedgerNext]_(Ledger!ledgerVars)
<1> USE DEF IInv
<1>1. ASSUME NEW r \in Runs, RunMarkIndexing(r) PROVE Ledger!LedgerNext
  BY <1>1, UpdateStatusMoves DEF RunMarkIndexing, Goto, AliveHasCase, Alive, Statuses
<1>2. ASSUME NEW r \in Runs, RunToCreated(r) PROVE Ledger!LedgerNext
  BY <1>2, UpdateStatusMoves DEF RunToCreated, End, Goto, AliveHasCase, Alive, Statuses
<1>3. ASSUME NEW r \in Runs, RunToReady(r) PROVE Ledger!LedgerNext
  BY <1>3, UpdateStatusMoves
  DEF RunToReady, End, Goto, AliveHasCase, Alive, PublishedFirst, Statuses
<1>4. ASSUME NEW r \in Runs, RunSetError(r) PROVE Ledger!LedgerNext
  BY <1>4, ErrorFails DEF RunSetError, SetError, End, Goto, AliveHasCase, Alive
<1>5. ASSUME NEW r \in Runs, RunWrite(r) PROVE Ledger!LedgerNext
  <2>1. Ledger!Publish(on[r])
    BY <1>5 DEF RunWrite, Goto, AliveHasCase, Alive, rowVars, Ledger!Publish
  <2> QED BY <1>5, <2>1 DEF RunWrite, Goto, AliveHasCase, Alive, Ledger!LedgerNext
<1>6. ASSUME NEW c \in Cases, CreateCase(c) PROVE Ledger!LedgerNext
  <2>1. Ledger!Open(c)
    BY <1>6 DEF CreateCase, WriteStatus, Ledger!Open
  <2> QED BY <2>1 DEF Ledger!LedgerNext
<1>7. ASSUME NEW c \in Cases, NEW r \in Threads, StartStuck(c, r) PROVE Ledger!LedgerNext
  BY <1>7, ErrorFails DEF StartStuck, RunAsync, HasRow, Statuses
<1>8. ASSUME NEW c \in Cases, ArchiveCase(c) PROVE Ledger!LedgerNext
  BY <1>8, UpdateStatusMoves DEF ArchiveCase, Statuses
<1>9. ASSUME NEW c \in Cases, DeleteIndex(c)
      PROVE  Ledger!LedgerNext \/ UNCHANGED <<status, index>>
  <2>1. HasRow(c)
    BY <1>9 DEF DeleteIndex, At, DeletedHasRow
  <2>2. CASE index[c] = "built"
    <3>1. Ledger!Drop(c)
      BY <1>9, <2>1, <2>2
      DEF DeleteIndex, HasRow, Statuses, rowVars, Ledger!Drop, Ledger!HasRow, Ledger!Rows
    <3> QED BY <3>1 DEF Ledger!LedgerNext
  <2>3. CASE index[c] # "built"
    BY <1>9, <2>3 DEF DeleteIndex, rowVars, TypeOK
  <2> QED BY <2>2, <2>3
<1>10. ASSUME NEW c \in Cases, DeleteRow(c) PROVE Ledger!LedgerNext
  <2>1. Ledger!Close(c)
    BY <1>10 DEF DeleteRow, At, DeletedHasRow, WriteStatus, HasRow, Statuses, Ledger!Close,
       Ledger!HasRow, Ledger!Rows
  <2> QED BY <2>1 DEF Ledger!LedgerNext
<1>11. ASSUME NEW r \in Runs, RunBegin(r) \/ RunScan(r) \/ RunWorked(r) \/ RunCheck(r) \/
          RunStats(r) \/ Raise(r) \/ RunSetErrorFails(r)
       PROVE  UNCHANGED <<status, index>>
  BY <1>11 DEF RunBegin, rowVars, RunScan, RunWorked, RunCheck, RunStats, Touch, Raise,
     RunSetErrorFails, End
<1>12. ASSUME NEW c \in Cases, UpdateSources(c) \/ StopIndexing(c) \/ DeleteBegin(c) \/
          RunAsyncReturns(c) \/ DeleteJoin(c) \/ DeleteIndexFails(c) \/ Age(c)
       PROVE  UNCHANGED <<status, index>>
  BY <1>12 DEF UpdateSources, Touch, StopIndexing, rowVars, DeleteBegin, RunAsyncReturns,
     DeleteJoin, DeleteIndexFails, Age
<1>13. ASSUME NEW c \in Cases, NEW r \in Threads, StartIndexing(c, r) \/ AddIncremental(c, r)
       PROVE  UNCHANGED <<status, index>>
  BY <1>13 DEF StartIndexing, RunAsync, rowVars, AddIncremental, Touch
<1>14. ASSUME NEW c \in Cases, NEW r \in CliRuns, CliStart(c, r)
       PROVE  UNCHANGED <<status, index>>
  BY <1>14 DEF CliStart, rowVars
<1>15. ASSUME NEW r \in CliRuns, CliKilled(r)
       PROVE  UNCHANGED <<status, index>>
  BY <1>15 DEF CliKilled, Kill
<1>16. ASSUME ServerCrash
       PROVE  UNCHANGED <<status, index>>
  BY <1>16 DEF ServerCrash, Kill
<1>17. CASE UNCHANGED vars
  BY <1>17 DEF vars, rowVars, Ledger!ledgerVars
<1> QED BY <1>1, <1>2, <1>3, <1>4, <1>5, <1>6, <1>7, <1>8, <1>9, <1>10, <1>11, <1>12, <1>13,
  <1>14, <1>15, <1>16, <1>17 DEF Next, RunStep, Request, HandlerStep, Ledger!ledgerVars

\* The case as its observers see it follows the ledger, for every number of cases, threads and
\* command-line runs.
THEOREM LedgerImplemented == Spec => ImplementsLedger
<1>1. IInv /\ [Next]_vars => [Ledger!LedgerNext]_(Ledger!ledgerVars)
  BY StepLedger
<1> QED BY <1>1, Invariance, InitLedger, PTL DEF Spec, ImplementsLedger, Ledger!LedgerSpec
============================================================================
