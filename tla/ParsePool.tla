----------------------------- MODULE ParsePool -----------------------------
(***************************************************************************)
(* The loop of _run_pipeline that has the files of a case parsed: large    *)
(* files by a process pool, small ones by a thread pool, at most           *)
(* max_pending at a time.  A file that kills its process breaks the whole  *)
(* pool: every unfinished future of it fails, the loop makes a new pool    *)
(* and tries the files again one at a time to find the one that did it,    *)
(* gives a file up when it was there twice, and gives process pools up     *)
(* after a number of restarts.                                             *)
(*                                                                         *)
(* Cancellation, which only leaves the loop, is in PartPipeline.  A large  *)
(* file that reaches a thread because no process pool is left is taken to  *)
(* be parsed there, a killer too: in the program it would take the whole   *)
(* API process down.                                                       *)
(*                                                                         *)
(* VictimsForgotten, RestartsUncounted and AnyThreadMayTake are mutants of *)
(* the definitions that follow them.                                       *)
(***************************************************************************)
EXTENDS Naturals, Sequences, SequencesExt, FiniteSets

CONSTANTS
  Large,          \* files for the process pool
  Small,          \* files for the thread pool
  Killers,        \* large files whose parsing kills the process
  Outside,        \* TRUE: a worker process may also be killed from outside (no memory, a signal)
  MaxPending,     \* max_pending
  MaxRestarts,    \* _MAX_PROCESS_POOL_RESTARTS
  MaxInvolvement  \* _MAX_CRASH_INVOLVEMENT

ASSUME PoolAssumption ==
  /\ Large \cap Small = {}
  /\ Killers \subseteq Large
  /\ IsFiniteSet(Large) /\ IsFiniteSet(Small)
  /\ Outside \in BOOLEAN
  /\ MaxPending \in Nat \ {0}
  /\ MaxRestarts \in Nat
  /\ MaxInvolvement \in Nat \ {0}

AllFiles == Large \cup Small

VARIABLES
  largeIter,   \* large files not drawn yet
  smallIter,   \* small files not drawn yet
  retryLarge,  \* retry_large
  future,      \* file: "none", or the state of its future in pending
  pool,        \* pools["proc"]: "up", "broken" or "none"
  restarts,    \* pools["restarts"]
  crashCount,  \* crash_count
  counted,     \* file: how often it was added to progress.processed_files
  skipped,     \* files given up
  pc           \* "submit": filling pending; "wait": waiting for a future; "done"

drawVars == <<largeIter, smallIter, retryLarge>>
poolVars == <<pool, restarts>>
vars == <<drawVars, future, poolVars, crashCount, counted, skipped, pc>>

(***************************************************************************)
(* Futures: "proc" and "thread" run or wait for a worker, "killed" failed  *)
(* with BrokenExecutor, "procDone" and "threadDone" have a result.         *)
(***************************************************************************)
Pending == {f \in AllFiles : future[f] # "none"}
InProc(f) == future[f] \in {"proc", "killed", "procDone"}
ProcPending == \E f \in Pending : InProc(f)

----------------------------------------------------------------------------
(* The pools at work. *)

ThreadFinishes(f) ==
  /\ future[f] = "thread"
  /\ future' = [future EXCEPT ![f] = "threadDone"]
  /\ UNCHANGED <<drawVars, poolVars, crashCount, counted, skipped, pc>>

ProcFinishes(f) ==
  /\ future[f] = "proc"
  /\ f \notin Killers
  /\ future' = [future EXCEPT ![f] = "procDone"]
  /\ UNCHANGED <<drawVars, poolVars, crashCount, counted, skipped, pc>>

\* All that is in the pool and not finished fails with BrokenExecutor.
BreakPool ==
  /\ pool' = "broken"
  /\ future' = [g \in AllFiles |-> IF future[g] = "proc" THEN "killed" ELSE future[g]]
  /\ UNCHANGED <<drawVars, restarts, crashCount, counted, skipped, pc>>

FileBreaksPool(f) ==
  /\ future[f] = "proc"
  /\ f \in Killers
  /\ BreakPool

WorkerKilled ==
  /\ Outside
  /\ pool = "up"
  /\ pc # "done"
  /\ BreakPool

----------------------------------------------------------------------------
(* _on_pool_broken *)

\* The files that lost their future, in the order pending has them (any).
Victims == {f \in AllFiles : future[f] \in {"proc", "killed"}}
GivenUp == {f \in Victims : crashCount[f] + 1 >= MaxInvolvement}

VictimsForgotten(queue) ==
  /\ crashCount' = [f \in Large |-> IF f \in Victims THEN crashCount[f] + 1 ELSE crashCount[f]]
  /\ skipped' = skipped \cup GivenUp
  /\ counted' = [f \in AllFiles |-> IF f \in GivenUp THEN counted[f] + 1 ELSE counted[f]]
  /\ future' = [f \in AllFiles |-> IF f \in Victims THEN "none" ELSE future[f]]
  /\ retryLarge' = queue

\* queue: what retry_large holds when it is called.
SortVictims(queue) ==
  /\ crashCount' = [f \in Large |-> IF f \in Victims THEN crashCount[f] + 1 ELSE crashCount[f]]
  /\ skipped' = skipped \cup GivenUp
  /\ counted' = [f \in AllFiles |-> IF f \in GivenUp THEN counted[f] + 1 ELSE counted[f]]
  /\ future' = [f \in AllFiles |-> IF f \in Victims THEN "none" ELSE future[f]]
  /\ \E order \in SetToSeqs(Victims \ GivenUp) : retryLarge' = queue \o order

RestartsUncounted(queue) ==
  /\ SortVictims(queue)
  /\ IF restarts < MaxRestarts THEN pool' = "up" /\ UNCHANGED restarts
     ELSE pool' = "none" /\ UNCHANGED restarts

OnPoolBroken(queue) ==
  /\ SortVictims(queue)
  /\ IF restarts < MaxRestarts THEN pool' = "up" /\ restarts' = restarts + 1
     ELSE pool' = "none" /\ UNCHANGED restarts

----------------------------------------------------------------------------
(* _submit_next *)

\* _next_large: f is drawn, from the retry list first, and from it only while no process works.
DrawLarge(f) ==
  IF retryLarge # <<>>
    THEN /\ ~ProcPending
         /\ f = Head(retryLarge)
         /\ retryLarge' = Tail(retryLarge)
         /\ UNCHANGED largeIter
    ELSE /\ f \in largeIter
         /\ largeIter' = largeIter \ {f}
         /\ UNCHANGED retryLarge

NoLarge == IF retryLarge # <<>> THEN ProcPending ELSE largeIter = {}

Submitting == pc = "submit" /\ Cardinality(Pending) < MaxPending

SubmitLarge(f) ==
  /\ Submitting
  /\ pool = "up"
  /\ DrawLarge(f)
  /\ future' = [future EXCEPT ![f] = "proc"]
  /\ UNCHANGED <<smallIter, poolVars, crashCount, counted, skipped, pc>>

\* submit raises BrokenExecutor: the file goes back to the head of the list.
SubmitToBrokenPool(f) ==
  /\ Submitting
  /\ pool = "broken"
  /\ IF retryLarge # <<>>
       THEN /\ ~ProcPending /\ f = Head(retryLarge)
            /\ OnPoolBroken(retryLarge)
            /\ UNCHANGED largeIter
       ELSE /\ f \in largeIter
            /\ largeIter' = largeIter \ {f}
            /\ OnPoolBroken(<<f>>)
  /\ UNCHANGED <<smallIter, pc>>

AnyThreadMayTake(f) == TRUE

\* No process pool any more: a file that was there when one broke is given up, another one
\* goes to a thread.
ThreadMayTake(f) == crashCount[f] = 0

SubmitLargeToThread(f) ==
  /\ Submitting
  /\ pool = "none"
  /\ DrawLarge(f)
  /\ ThreadMayTake(f)
  /\ future' = [future EXCEPT ![f] = "thread"]
  /\ UNCHANGED <<smallIter, poolVars, crashCount, counted, skipped, pc>>

GiveUpSuspect(f) ==
  /\ Submitting
  /\ pool = "none"
  /\ DrawLarge(f)
  /\ ~ThreadMayTake(f)
  /\ counted' = [counted EXCEPT ![f] = @ + 1]
  /\ skipped' = skipped \cup {f}
  /\ UNCHANGED <<smallIter, future, poolVars, crashCount, pc>>

SubmitSmall(f) ==
  /\ Submitting
  /\ NoLarge
  /\ f \in smallIter
  /\ smallIter' = smallIter \ {f}
  /\ future' = [future EXCEPT ![f] = "thread"]
  /\ UNCHANGED <<largeIter, retryLarge, poolVars, crashCount, counted, skipped, pc>>

SubmitEnds ==
  /\ pc = "submit"
  /\ \/ Cardinality(Pending) >= MaxPending
     \/ NoLarge /\ smallIter = {}
  /\ pc' = "wait"
  /\ UNCHANGED <<drawVars, future, poolVars, crashCount, counted, skipped>>

----------------------------------------------------------------------------
(* The loop over pending. *)

HandleResult(f) ==
  /\ pc = "wait"
  /\ future[f] \in {"procDone", "threadDone"}
  /\ future' = [future EXCEPT ![f] = "none"]
  /\ counted' = [counted EXCEPT ![f] = @ + 1]
  /\ pc' = "submit"
  /\ UNCHANGED <<drawVars, poolVars, crashCount, skipped>>

HandleBroken(f) ==
  /\ pc = "wait"
  /\ future[f] = "killed"
  /\ OnPoolBroken(retryLarge)
  /\ pc' = "submit"
  /\ UNCHANGED <<largeIter, smallIter>>

LoopEnds ==
  /\ pc = "wait"
  /\ Pending = {}
  /\ pc' = "done"
  /\ UNCHANGED <<drawVars, future, poolVars, crashCount, counted, skipped>>

----------------------------------------------------------------------------
Init ==
  /\ largeIter = Large
  /\ smallIter = Small
  /\ retryLarge = <<>>
  /\ future = [f \in AllFiles |-> "none"]
  /\ pool = IF Large = {} THEN "none" ELSE "up"
  /\ restarts = 0
  /\ crashCount = [f \in Large |-> 0]
  /\ counted = [f \in AllFiles |-> 0]
  /\ skipped = {}
  /\ pc = "submit"

PoolStep(f) == ThreadFinishes(f) \/ ProcFinishes(f) \/ FileBreaksPool(f)

LoopStep ==
  \/ \E f \in Large : \/ SubmitLarge(f)
                      \/ SubmitToBrokenPool(f)
                      \/ SubmitLargeToThread(f)
                      \/ GiveUpSuspect(f)
  \/ \E f \in Small : SubmitSmall(f)
  \/ SubmitEnds
  \/ \E f \in AllFiles : HandleResult(f) \/ HandleBroken(f)
  \/ LoopEnds

Next ==
  \/ \E f \in AllFiles : PoolStep(f)
  \/ WorkerKilled
  \/ LoopStep

Spec == Init /\ [][Next]_vars

\* The workers of a pool go on with what they have, and so does the indexing thread.
Fairness ==
  /\ \A f \in AllFiles : WF_vars(PoolStep(f))
  /\ WF_vars(LoopStep)

FairSpec == Spec /\ Fairness

----------------------------------------------------------------------------
(* Properties. *)

TypeOK ==
  /\ largeIter \subseteq Large
  /\ smallIter \subseteq Small
  /\ retryLarge \in Seq(Large)
  /\ future \in [AllFiles -> {"none", "proc", "thread", "killed", "procDone", "threadDone"}]
  /\ pool \in {"up", "broken", "none"}
  /\ restarts \in 0..MaxRestarts
  /\ crashCount \in [Large -> 0..MaxInvolvement]
  /\ counted \in [AllFiles -> Nat]
  /\ skipped \subseteq Large
  /\ pc \in {"submit", "wait", "done"}

\* Wherever the pool broke, in a result or in a submit, each file is in exactly one place: still to
\* be drawn, to be tried again, pending, or counted once. When the loop is done every file is
\* counted.
Places(f) ==
  (IF f \in largeIter \cup smallIter THEN 1 ELSE 0)
  + Cardinality({i \in DOMAIN retryLarge : retryLarge[i] = f})
  + (IF future[f] # "none" THEN 1 ELSE 0)
  + counted[f]

EachFileOnce ==
  /\ \A f \in AllFiles : Places(f) = 1
  /\ pc = "done" => \A f \in AllFiles : counted[f] = 1

\* A file that was being parsed when a process died is never parsed in the API process itself.
SuspectsStayOut ==
  \A f \in Large : crashCount[f] > 0 => future[f] \notin {"thread", "threadDone"}

\* However many files kill their process, the loop ends.
LoopTerminates == <>(pc = "done")

(* What the code does not keep. *)

\* A file is given up as the one that kills the process only if it does, as long as there is a
\* process pool to find out.
OnlyKillersSkipped ==
  pool = "up" => skipped \subseteq Killers
=============================================================================
