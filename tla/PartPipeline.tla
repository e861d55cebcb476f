---------------------------- MODULE PartPipeline ----------------------------
(***************************************************************************)
(* What IndexingPipeline._run_pipeline does between the parsed files and   *)
(* the case index: the indexing thread drops the units it has seen before  *)
(* and puts the parts of the others in a bounded queue; the embedding      *)
(* thread takes them, embeds them in super-batches and keeps the vectors   *)
(* in a dictionary and in the checkpoint on disk; a sentinel ends it; then *)
(* the parts that have a vector are written to the index.                  *)
(*                                                                         *)
(* Cancellation may come at any moment, the embedding of a batch may fail  *)
(* in part or as a whole, the process may die; the next attempt starts     *)
(* from what the index and the checkpoint hold.                            *)
(*                                                                         *)
(* The order in which files are parsed, and that each comes up once, is    *)
(* ParsePool's part. A unit has one part here, so a duplicate unit is a    *)
(* part two files have in common.                                          *)
(*                                                                         *)
(* NeverGivesUp, FlushRestForgotten and SaveRestForgotten are mutants of   *)
(* the definitions that follow them.                                       *)
(***************************************************************************)
EXTENDS Integers, Sequences, FiniteSets

CONSTANTS
  Files,        \* source files of the case
  Parts,        \* parts of all their units
  PartsOf,      \* PartsOf[f]: the parts of file f
  Blank,        \* parts whose embedding input is empty
  Vanishing,    \* parts whose embedding input is empty only after embed_texts has cleaned it
  QueueSize,    \* maxsize of part_queue (20 in the code)
  SuperBatch,   \* embed_batch_size * embed_max_concurrent
  MaxAttempts   \* bound: runs of the pipeline on this case

ASSUME PipelineAssumption ==
  /\ PartsOf \in [Files -> SUBSET Parts]
  /\ Blank \subseteq Parts
  /\ Vanishing \subseteq Parts \ Blank
  /\ QueueSize \in Nat \ {0}
  /\ SuperBatch \in Nat \ {0}
  /\ MaxAttempts \in Nat
  /\ IsFiniteSet(Parts)

VARIABLES
  mpc,        \* indexing thread: its next step
  unread,     \* files not parsed yet
  seen,       \* collector.units
  hand,       \* the parts put_parts is putting
  broken,     \* an exception is on its way through the finally block
  queue,      \* part_queue: sets of parts, Sentinel last
  wpc,        \* embedding thread: its next step
  buffer,     \* its buffer
  vectors,    \* parts that have a vector
  failed,     \* parts counted as failed and written to data/failed_embeddings
  reuse,      \* parts whose vector the index or the checkpoint had at the start
  unsaved,    \* checkpoint: vectors that wait for their shard file
  cancel,     \* the cancel Event
  attempts,
  (* disk *)
  shards,     \* checkpoint: parts with a vector in a shard file
  index,      \* parts in the case index
  (* history *)
  made,       \* parts embedded since the index was written last, by runs that ended by themselves
  lostWork    \* a shard file could not be written, or a thread or the process died

mainVars   == <<mpc, unread, seen, hand, broken>>
workerVars == <<wpc, buffer, vectors, failed, reuse, unsaved>>
diskVars   == <<shards, index>>
vars == <<mainVars, queue, workerVars, cancel, attempts, diskVars, made, lostWork>>

Sentinel == {}

Ended == {"ended", "dead"}

----------------------------------------------------------------------------
(* The indexing thread. *)

MainGoto(from, to) ==
  /\ mpc = from
  /\ mpc' = to

\* reusable_vectors and the checkpoint's load; then the embedding thread is started.
Begin ==
  /\ MainGoto("idle", "parse")
  /\ attempts < MaxAttempts
  /\ attempts' = attempts + 1
  /\ reuse' = index \cup shards
  /\ unread' = Files
  /\ seen' = {} /\ hand' = {} /\ broken' = FALSE
  /\ queue' = <<>>
  /\ wpc' = "take"
  /\ buffer' = {} /\ vectors' = {} /\ failed' = {} /\ unsaved' = {}
  /\ cancel' = FALSE
  /\ UNCHANGED <<diskVars, made, lostWork>>

\* A parse result: units, or an error message. Only units not seen before go on.
TakeResult(f, parsed) ==
  /\ f \in unread
  /\ ~cancel
  /\ unread' = unread \ {f}
  /\ LET new == (IF parsed THEN PartsOf[f] ELSE {}) \ seen IN
       /\ MainGoto("parse", IF new = {} THEN "parse" ELSE "put")
       /\ seen' = seen \cup new
       /\ hand' = new
  /\ UNCHANGED <<broken, queue, workerVars, cancel, attempts, diskVars, made, lostWork>>

\* put_parts, with room in the queue.
Put(item, from, to) ==
  /\ MainGoto(from, to)
  /\ Len(queue) < QueueSize
  /\ queue' = Append(queue, item)
  /\ UNCHANGED <<unread, seen, hand, broken, workerVars, cancel, attempts, diskVars, made, lostWork>>

NeverGivesUp == FALSE

\* It gives up on a full queue when the run is cancelled or the embedding thread is gone.
MayGiveUp == Len(queue) = QueueSize /\ (cancel \/ wpc \in Ended)

PutGivesUp(from, to) ==
  /\ MainGoto(from, to)
  /\ MayGiveUp
  /\ UNCHANGED <<unread, seen, hand, broken, queue, workerVars, cancel, attempts, diskVars, made, lostWork>>

PutParts ==
  \/ Put(hand, "put", "parse")
  \/ PutGivesUp("put", "parse")

\* The loop over pending files ends, is left for cancellation, or something in it raises.
ParseEnds ==
  /\ MainGoto("parse", "stop")
  /\ unread = {} \/ cancel
  /\ UNCHANGED <<unread, seen, hand, broken, queue, workerVars, cancel, attempts, diskVars, made, lostWork>>

ParseRaises ==
  /\ MainGoto("parse", "stop")
  /\ broken' = TRUE
  /\ UNCHANGED <<unread, seen, hand, queue, workerVars, cancel, attempts, diskVars, made, lostWork>>

PutSentinel ==
  \/ Put(Sentinel, "stop", "join")
  \/ PutGivesUp("stop", "join")

\* embed_thread.join, the exception if there is one, and the last look at the cancel flag.
Join ==
  /\ wpc \in Ended
  /\ MainGoto("join", IF broken \/ cancel THEN "idle" ELSE "write")
  /\ UNCHANGED <<unread, seen, hand, broken, queue, workerVars, cancel, attempts, diskVars, made, lostWork>>

\* write_index with the parts that have a vector.
WriteIndex ==
  /\ MainGoto("write", "clear")
  /\ index' = seen \cap vectors
  /\ made' = {}
  /\ UNCHANGED <<unread, seen, hand, broken, queue, workerVars, cancel, attempts, shards, lostWork>>

WriteIndexRaises ==
  /\ MainGoto("write", "idle")
  /\ UNCHANGED <<unread, seen, hand, broken, queue, workerVars, cancel, attempts, diskVars, made, lostWork>>

\* ckpt.clear; _check_failure_rate only decides whether run reports an error.
ClearCheckpoint ==
  /\ MainGoto("clear", "idle")
  /\ shards' = {}
  /\ UNCHANGED <<unread, seen, hand, broken, queue, workerVars, cancel, attempts, index, made, lostWork>>

MainStep ==
  \/ \E f \in Files, parsed \in BOOLEAN : TakeResult(f, parsed)
  \/ PutParts
  \/ ParseEnds
  \/ ParseRaises
  \/ PutSentinel
  \/ Join
  \/ WriteIndex
  \/ WriteIndexRaises
  \/ ClearCheckpoint

----------------------------------------------------------------------------
(* The embedding thread. *)

WorkerGoto(from, to) ==
  /\ wpc = from
  /\ wpc' = to

TakeItem ==
  /\ ~cancel
  /\ queue # <<>>
  /\ queue' = Tail(queue)
  /\ WorkerGoto("take", IF Head(queue) = Sentinel THEN "last" ELSE "fill")
  /\ buffer' = buffer \cup Head(queue)
  /\ UNCHANGED <<mainVars, vectors, failed, reuse, unsaved, cancel, attempts, diskVars, made, lostWork>>

TakeCancelled ==
  /\ cancel
  /\ WorkerGoto("take", "save")
  /\ UNCHANGED <<mainVars, queue, buffer, vectors, failed, reuse, unsaved, cancel, attempts, diskVars, made, lostWork>>

\* The vectors of a batch: those to reuse, zero vectors for blank inputs, and what
\* embed_texts returns, ok. The others are failures, which a cancelled run does not record, except
\* those embed_texts skips and does not report. When something raises, the whole batch failed.
\* EmbedCheckpoint.add moves full shards to disk, or loses one it cannot write.
Flush(batch, ok) ==
  LET todo == batch \ (reuse \cup Blank) IN
  /\ ok \subseteq todo \ Vanishing
  /\ vectors' = vectors \cup (batch \cap (reuse \cup Blank)) \cup ok
  /\ \/ failed' = IF cancel THEN failed ELSE failed \cup (todo \ (ok \cup Vanishing))
     \/ failed' = failed \cup todo
  /\ made' = made \cup ok
  /\ buffer' = buffer \ batch
  /\ \E full \in {{}, unsaved \cup ok}, written \in BOOLEAN :
       /\ unsaved' = (unsaved \cup ok) \ full
       /\ shards' = IF written THEN shards \cup full ELSE shards
       /\ lostWork' = (lostWork \/ (~written /\ full # {}))

FlushSuperBatch ==
  /\ wpc = "fill"
  /\ ~cancel
  /\ \E batch \in SUBSET buffer :
       /\ Cardinality(batch) = SuperBatch
       /\ \E ok \in SUBSET batch : Flush(batch, ok)
  /\ UNCHANGED <<mainVars, queue, wpc, reuse, cancel, attempts, index>>

FillEnds ==
  /\ WorkerGoto("fill", "take")
  /\ cancel \/ Cardinality(buffer) < SuperBatch
  /\ UNCHANGED <<mainVars, queue, buffer, vectors, failed, reuse, unsaved, cancel, attempts, diskVars, made, lostWork>>

FlushRestForgotten ==
  /\ WorkerGoto("last", "save")
  /\ UNCHANGED <<mainVars, queue, buffer, vectors, failed, reuse, unsaved, cancel, attempts, diskVars, made, lostWork>>

\* After the sentinel: the buffer, however short; when there is nothing, nothing.
FlushRest ==
  /\ WorkerGoto("last", "save")
  /\ \E ok \in SUBSET buffer : Flush(buffer, ok)
  /\ UNCHANGED <<mainVars, queue, reuse, cancel, attempts, index>>

\* get_dimension has to ask an unknown model for the size of a zero vector, outside of any try.
FlushDies ==
  /\ wpc \in {"fill", "last"}
  /\ \E batch \in SUBSET buffer :
       /\ wpc = "fill" => ~cancel /\ Cardinality(batch) = SuperBatch
       /\ wpc = "last" => batch = buffer
       /\ (batch \cap Blank) \ reuse # {}
  /\ wpc' = "dead"
  /\ lostWork' = TRUE
  /\ UNCHANGED <<mainVars, queue, buffer, vectors, failed, reuse, unsaved, cancel, attempts, diskVars, made>>

SaveRestForgotten(written) ==
  /\ WorkerGoto("save", "ended")
  /\ UNCHANGED <<mainVars, queue, buffer, vectors, failed, reuse, unsaved, cancel, attempts, diskVars, made, lostWork>>

\* ckpt.flush
SaveRest(written) ==
  /\ WorkerGoto("save", "ended")
  /\ unsaved' = {}
  /\ shards' = IF written THEN shards \cup unsaved ELSE shards
  /\ lostWork' = (lostWork \/ (~written /\ unsaved # {}))
  /\ UNCHANGED <<mainVars, queue, buffer, vectors, failed, reuse, cancel, attempts, index, made>>

WorkerStep ==
  \/ TakeItem
  \/ TakeCancelled
  \/ FlushSuperBatch
  \/ FillEnds
  \/ FlushRest
  \/ FlushDies
  \/ \E written \in BOOLEAN : SaveRest(written)

----------------------------------------------------------------------------
(* From outside. *)

Cancel ==
  /\ mpc # "idle"
  /\ ~cancel
  /\ cancel' = TRUE
  /\ UNCHANGED <<mainVars, queue, workerVars, attempts, diskVars, made, lostWork>>

Crash ==
  /\ mpc # "idle"
  /\ mpc' = "idle"
  /\ wpc' = "ended"
  /\ unsaved' = {}
  /\ lostWork' = TRUE
  /\ UNCHANGED <<unread, seen, hand, broken, queue, buffer, vectors, failed, reuse, cancel, attempts,
                 diskVars, made>>

Init ==
  /\ mpc = "idle" /\ unread = {} /\ seen = {} /\ hand = {} /\ broken = FALSE
  /\ queue = <<>>
  /\ wpc = "ended" /\ buffer = {} /\ vectors = {} /\ failed = {} /\ reuse = {} /\ unsaved = {}
  /\ cancel = FALSE
  /\ attempts = 0
  /\ shards = {} /\ index = {}
  /\ made = {} /\ lostWork = FALSE

Next ==
  \/ Begin
  \/ MainStep
  \/ WorkerStep
  \/ Cancel
  \/ Crash

Spec == Init /\ [][Next]_vars

\* Both threads are scheduled, and every blocking call of theirs has a time limit.
Fairness == WF_vars(MainStep) /\ WF_vars(WorkerStep)

FairSpec == Spec /\ Fairness

----------------------------------------------------------------------------
(* Properties. *)

TypeOK ==
  /\ mpc \in {"idle", "parse", "put", "stop", "join", "write", "clear"}
  /\ wpc \in {"take", "fill", "last", "save"} \cup Ended
  /\ unread \subseteq Files
  /\ queue \in Seq(SUBSET Parts) /\ Len(queue) <= QueueSize
  /\ seen \subseteq Parts /\ hand \subseteq Parts /\ buffer \subseteq Parts
  /\ vectors \subseteq Parts /\ failed \subseteq Parts /\ reuse \subseteq Parts
  /\ unsaved \subseteq Parts /\ shards \subseteq Parts /\ index \subseteq Parts /\ made \subseteq Parts
  /\ broken \in BOOLEAN /\ cancel \in BOOLEAN /\ lostWork \in BOOLEAN
  /\ attempts \in 0..MaxAttempts

\* When the index is about to be written by a run whose embedding thread ended by itself, every
\* part that was collected has a vector or is recorded as failed, but for those that vanish: none
\* was lost in the queue, the buffer, a put that gave up or the last short batch.
NothingDropped ==
  mpc = "write" /\ wpc = "ended" => seen \subseteq vectors \cup failed \cup Vanishing

\* A run that ended, cancelled or not, has not embedded anything for nothing: the next one finds
\* each vector in the index or in the checkpoint.
WorkIsKept ==
  mpc = "idle" /\ ~lostWork => made \subseteq shards \cup index

\* Whatever is cancelled, full, dead or raised, a run ends: neither thread waits for the other for
\* good.
EveryRunEnds ==
  mpc # "idle" ~> mpc = "idle"

(* What the code does not keep. *)

\* No part is missing from a written index without an error that says so.
NothingDroppedSilently ==
  mpc = "clear" => seen \subseteq index \cup failed
=============================================================================
