------------------------- MODULE PartPipeline_proofs -------------------------
(***************************************************************************)
(* Proofs about PartPipeline: for any files, parts, queue size and number  *)
(* of attempts, no collected part is lost between the two threads before   *)
(* the index is written, and what was embedded is on disk when a run is    *)
(* over.                                                                   *)
(*                                                                         *)
(* The first needs to know where a part is on its way: Accounted lists the *)
(* places. It holds because the sentinel is put once, after the last part  *)
(* (SentinelLast), so that an embedding thread that has seen it leaves     *)
(* neither the queue (Drained) nor, once it ended, the buffer (Flushed)    *)
(* with anything in it. The second needs that a vector that is not on disk *)
(* is in the part of the checkpoint the embedding thread saves before it   *)
(* ends (Covered, SavedAtEnd).                                             *)
(***************************************************************************)
EXTENDS PartPipeline, TLAPS

----------------------------------------------------------------------------
(* The inductive invariant. *)

Queued == UNION {queue[i] : i \in 1..Len(queue)}

Held == IF mpc = "put" THEN hand ELSE {}

\* A run whose embedding thread can still be relied on: neither cancelled nor gone by an error.
Sound == mpc # "idle" /\ ~cancel /\ wpc # "dead"

\* Each collected part is somewhere.
Accounted ==
  Sound => seen \subseteq vectors \cup failed \cup Vanishing \cup buffer \cup Queued \cup Held

\* The sentinel comes after every part; put_parts is not called with nothing.
SentinelLast ==
  /\ mpc = "put" => hand # Sentinel
  /\ \A i \in 1..Len(queue) :
       queue[i] = Sentinel => i = Len(queue) /\ mpc \notin {"parse", "put", "stop"}

\* Past the sentinel nothing is left in the queue, and nothing comes.
Drained ==
  Sound /\ wpc \in {"last", "save", "ended"}
    => Len(queue) = 0 /\ mpc \notin {"parse", "put", "stop"}

Flushed ==
  Sound /\ wpc \in {"save", "ended"} => buffer = {}

\* The indexing thread does not write, or end, before the embedding thread has ended.
Joined ==
  mpc \in {"write", "clear", "idle"} => wpc \in Ended

\* Each vector made is on disk or waits to be saved.
Covered ==
  ~lostWork => made \subseteq shards \cup index \cup unsaved

SavedAtEnd ==
  /\ wpc = "ended" => unsaved = {}
  /\ wpc = "dead" => lostWork
  /\ mpc = "clear" => made = {}

IInv ==
  /\ TypeOK
  /\ SentinelLast
  /\ Drained
  /\ Flushed
  /\ Joined
  /\ Accounted
  /\ Covered
  /\ SavedAtEnd
  /\ NothingDropped

----------------------------------------------------------------------------
(* The queue. *)

\* What is taken is the first, the others move up.
LEMMA TakenFacts ==
  ASSUME TypeOK, queue # <<>>
  PROVE  /\ Len(queue) \in Nat \ {0}
         /\ Head(queue) = queue[1] /\ Head(queue) \in SUBSET Parts
         /\ Len(Tail(queue)) = Len(queue) - 1
         /\ Tail(queue) \in Seq(SUBSET Parts)
         /\ \A i \in 1..Len(Tail(queue)) : Tail(queue)[i] = queue[i + 1]
  BY DEF TypeOK

\* What is put comes last.
LEMMA PutFacts ==
  ASSUME TypeOK, NEW item \in SUBSET Parts, queue' = Append(queue, item)
  PROVE  /\ Len(queue) \in Nat /\ Len(queue') = Len(queue) + 1
         /\ queue'[Len(queue) + 1] = item
         /\ \A i \in 1..Len(queue) : queue'[i] = queue[i]
  BY DEF TypeOK

----------------------------------------------------------------------------
(* One lemma per conjunct. *)

\* Every action leaves every variable in its type.
LEMMA TypeStep ==
  ASSUME TypeOK, [Next]_vars
  PROVE  TypeOK'
<1> USE PipelineAssumption
<1>1. CASE Begin
  <2>1. <<>> \in Seq(SUBSET Parts) /\ Len(<<>>) <= QueueSize
    OBVIOUS
  <2>2. attempts + 1 \in 0..MaxAttempts
    BY <1>1 DEF Begin, TypeOK
  <2>3. mpc' = "parse" /\ wpc' = "take" /\ queue' \in Seq(SUBSET Parts) /\ Len(queue') <= QueueSize
    BY <1>1, <2>1 DEF Begin, MainGoto
  <2>4. attempts' \in 0..MaxAttempts /\ UNCHANGED <<shards, index, made, lostWork>> /\ reuse' \subseteq Parts
    BY <1>1, <2>2 DEF Begin, diskVars, TypeOK
  <2>5. /\ unread' = Files /\ seen' = {} /\ hand' = {} /\ broken' = FALSE /\ buffer' = {}
        /\ vectors' = {} /\ failed' = {} /\ unsaved' = {} /\ cancel' = FALSE
    BY <1>1 DEF Begin
  <2> QED
    BY <2>3, <2>4, <2>5 DEF TypeOK
<1>2. ASSUME NEW f \in Files, NEW parsed \in BOOLEAN, TakeResult(f, parsed) PROVE TypeOK'
  BY <1>2 DEF TakeResult, MainGoto, diskVars, workerVars, TypeOK, Ended
<1>3. CASE PutParts
  BY <1>3 DEF PutParts, Put, PutGivesUp, MainGoto, diskVars, workerVars, TypeOK, Ended
<1>4. CASE ParseEnds \/ ParseRaises
  BY <1>4 DEF ParseEnds, ParseRaises, MainGoto, diskVars, workerVars, TypeOK, Ended
<1>5. CASE PutSentinel
  BY <1>5 DEF PutSentinel, Sentinel, Put, PutGivesUp, MainGoto, diskVars, workerVars, TypeOK, Ended
<1>6. CASE Join
  BY <1>6 DEF Join, MainGoto, diskVars, workerVars, TypeOK, Ended
<1>7. CASE WriteIndex \/ WriteIndexRaises \/ ClearCheckpoint
  BY <1>7 DEF WriteIndex, WriteIndexRaises, ClearCheckpoint, MainGoto, diskVars, workerVars, TypeOK, Ended
<1>8. CASE TakeItem
  BY <1>8, TakenFacts DEF TakeItem, WorkerGoto, diskVars, mainVars, TypeOK, Ended
<1>9. CASE TakeCancelled \/ FillEnds
  BY <1>9 DEF TakeCancelled, FillEnds, WorkerGoto, diskVars, mainVars, TypeOK, Ended
<1>10. CASE FlushSuperBatch
  BY <1>10 DEF FlushSuperBatch, Flush, mainVars, TypeOK, Ended
<1>11. CASE FlushRest
  BY <1>11 DEF FlushRest, WorkerGoto, Flush, mainVars, TypeOK, Ended
<1>12. CASE FlushDies
  BY <1>12 DEF FlushDies, diskVars, mainVars, TypeOK, Ended
<1>13. ASSUME NEW written \in BOOLEAN, SaveRest(written) PROVE TypeOK'
  BY <1>13 DEF SaveRest, WorkerGoto, mainVars, TypeOK, Ended
<1>14. CASE Cancel \/ Crash
  BY <1>14 DEF Cancel, Crash, diskVars, mainVars, workerVars, TypeOK, Ended
<1>15. CASE UNCHANGED vars
  BY <1>15 DEF vars, diskVars, mainVars, workerVars, TypeOK
<1> QED
  BY <1>1, <1>2, <1>3, <1>4, <1>5, <1>6, <1>7, <1>8, <1>9, <1>10, <1>11, <1>12, <1>13, <1>14, <1>15
     DEF Next, MainStep, WorkerStep

\* The sentinel is put behind the last part, and only it is empty.
LEMMA SentinelLastStep ==
  ASSUME TypeOK, SentinelLast, [Next]_vars
  PROVE  SentinelLast'
<1>1. CASE Begin
  BY <1>1 DEF Begin, MainGoto, SentinelLast
<1>2. ASSUME NEW f \in Files, NEW parsed \in BOOLEAN, TakeResult(f, parsed) PROVE SentinelLast'
  BY <1>2 DEF TakeResult, MainGoto, SentinelLast, Sentinel
<1>3. ASSUME NEW item \in SUBSET Parts, NEW from \in {"put", "stop"}, NEW to \in {"parse", "join"},
             Put(item, from, to), item = Sentinel => to = "join"
      PROVE  SentinelLast'
  <2>1. \A i \in 1..Len(queue) : queue[i] # Sentinel
    BY <1>3 DEF Put, MainGoto, SentinelLast
  <2>2. /\ Len(queue') = Len(queue) + 1 /\ queue'[Len(queue) + 1] = item
        /\ \A i \in 1..Len(queue) : queue'[i] = queue[i]
    BY <1>3, PutFacts DEF Put
  <2> QED
    BY <1>3, <2>1, <2>2, PutFacts DEF Put, MainGoto, SentinelLast, TypeOK
<1>4. CASE PutParts \/ PutSentinel
  <2>1. CASE Put(hand, "put", "parse") \/ Put(Sentinel, "stop", "join")
    BY <1>3, <2>1 DEF TypeOK, SentinelLast, Sentinel, Put, MainGoto
  <2>2. CASE PutGivesUp("put", "parse") \/ PutGivesUp("stop", "join")
    BY <2>2 DEF PutGivesUp, MainGoto, SentinelLast
  <2> QED
    BY <1>4, <2>1, <2>2 DEF PutParts, PutSentinel
<1>5. CASE ParseEnds \/ ParseRaises \/ Join \/ WriteIndex \/ WriteIndexRaises \/ ClearCheckpoint \/ Crash
  BY <1>5 DEF ParseEnds, ParseRaises, Join, WriteIndex, WriteIndexRaises, ClearCheckpoint, Crash,
     MainGoto, SentinelLast
<1>6. CASE TakeItem
  BY <1>6, TakenFacts DEF TakeItem, mainVars, SentinelLast, TypeOK
<1>7. CASE UNCHANGED <<mainVars, queue>>
  BY <1>7 DEF mainVars, SentinelLast
<1> QED
  BY <1>1, <1>2, <1>4, <1>5, <1>6, <1>7
     DEF Next, MainStep, WorkerStep, TakeCancelled, FlushSuperBatch, FillEnds, FlushRest, FlushDies,
         SaveRest, Cancel, vars

\* The embedding thread goes past the sentinel by taking it, the last of the queue.
LEMMA DrainedStep ==
  ASSUME TypeOK, SentinelLast, Joined, Drained, [Next]_vars
  PROVE  Drained'
<1>1. CASE Begin
  BY <1>1 DEF Begin, MainGoto, Drained
<1>2. ASSUME NEW f \in Files, NEW parsed \in BOOLEAN, TakeResult(f, parsed) PROVE Drained'
  BY <1>2 DEF TakeResult, MainGoto, workerVars, Drained, Sound
<1>3. CASE PutParts \/ PutSentinel
  BY <1>3 DEF PutParts, PutSentinel, Put, PutGivesUp, MayGiveUp, MainGoto, workerVars, Drained, Sound, Ended
<1>4. CASE ParseEnds \/ ParseRaises \/ Join \/ WriteIndex \/ WriteIndexRaises \/ ClearCheckpoint \/ Crash
  BY <1>4 DEF ParseEnds, ParseRaises, Join, WriteIndex, WriteIndexRaises, ClearCheckpoint, Crash,
     MainGoto, workerVars, Drained, Sound
<1>5. CASE TakeItem
  <2>1. CASE Head(queue) = Sentinel
    <3>1. Len(queue) = 1 /\ mpc \notin {"parse", "put", "stop"}
      <4>1. Len(queue) \in Nat \ {0} /\ queue[1] = Sentinel
        BY <1>5, <2>1, TakenFacts DEF TakeItem
      <4>2. 1 \in 1..Len(queue)
        BY <4>1
      <4>3. 1 = Len(queue) /\ mpc \notin {"parse", "put", "stop"}
        BY <4>1, <4>2, Zenon DEF SentinelLast
      <4> QED
        BY <4>3
    <3>2. Len(queue') = 0
      BY <1>5, <3>1, TakenFacts DEF TakeItem
    <3> QED
      BY <1>5, <3>1, <3>2 DEF TakeItem, mainVars, Drained
  <2>2. CASE Head(queue) # Sentinel
    BY <1>5, <2>2 DEF TakeItem, WorkerGoto, Drained
  <2> QED
    BY <2>1, <2>2
<1>6. CASE TakeCancelled \/ FillEnds \/ FlushRest \/ \E written \in BOOLEAN : SaveRest(written)
  BY <1>6 DEF TakeCancelled, FillEnds, FlushRest, SaveRest, WorkerGoto, mainVars, Drained, Sound
<1>7. CASE FlushSuperBatch \/ FlushDies
  BY <1>7 DEF FlushSuperBatch, FlushDies, mainVars, Drained, Sound
<1>8. CASE Cancel \/ UNCHANGED vars
  BY <1>8 DEF Cancel, vars, mainVars, workerVars, Drained, Sound
<1> QED
  BY <1>1, <1>2, <1>3, <1>4, <1>5, <1>6, <1>7, <1>8 DEF Next, MainStep, WorkerStep

\* The rest of the buffer goes in one flush.
LEMMA FlushedStep ==
  ASSUME TypeOK, Joined, Flushed, [Next]_vars
  PROVE  Flushed'
<1>1. CASE Begin
  BY <1>1 DEF Begin, Flushed
<1>2. CASE MainStep
  BY <1>2 DEF MainStep, TakeResult, PutParts, PutSentinel, Put, PutGivesUp, ParseEnds, ParseRaises, Join,
     WriteIndex, WriteIndexRaises, ClearCheckpoint, MainGoto, workerVars, Flushed, Sound
<1>3. CASE TakeItem \/ TakeCancelled \/ FillEnds
  BY <1>3 DEF TakeItem, TakeCancelled, FillEnds, WorkerGoto, Flushed, Sound
<1>4. CASE FlushSuperBatch \/ FlushDies
  BY <1>4 DEF FlushSuperBatch, FlushDies, Flushed, Sound
<1>5. CASE FlushRest
  BY <1>5 DEF FlushRest, Flush, Flushed
<1>6. ASSUME NEW written \in BOOLEAN, SaveRest(written) PROVE Flushed'
  BY <1>6 DEF SaveRest, WorkerGoto, mainVars, Flushed, Sound
<1>7. CASE Cancel \/ Crash \/ UNCHANGED vars
  BY <1>7 DEF Cancel, Crash, vars, mainVars, workerVars, Flushed, Sound
<1> QED
  BY <1>1, <1>2, <1>3, <1>4, <1>5, <1>6, <1>7 DEF Next, WorkerStep

\* The indexing thread goes on from the join only when the embedding thread has ended, which stays so.
LEMMA JoinedStep ==
  ASSUME TypeOK, Joined, [Next]_vars
  PROVE  Joined'
<1>1. CASE Begin \/ Crash
  BY <1>1 DEF Begin, Crash, MainGoto, Joined, Ended
<1>2. CASE MainStep
  BY <1>2 DEF MainStep, TakeResult, PutParts, PutSentinel, Put, PutGivesUp, ParseEnds, ParseRaises, Join,
     WriteIndex, WriteIndexRaises, ClearCheckpoint, MainGoto, workerVars, Joined
<1>3. CASE WorkerStep
  BY <1>3 DEF WorkerStep, TakeItem, TakeCancelled, FlushSuperBatch, FillEnds, FlushRest, FlushDies, SaveRest,
     WorkerGoto, mainVars, Joined, Ended
<1>4. CASE Cancel \/ UNCHANGED vars
  BY <1>4 DEF Cancel, vars, mainVars, workerVars, Joined
<1> QED
  BY <1>1, <1>2, <1>3, <1>4 DEF Next

\* A part moves from one place to the next, never out of all of them.
LEMMA AccountedStep ==
  ASSUME TypeOK, SentinelLast, Drained, Joined, Accounted, [Next]_vars
  PROVE  Accounted'
<1>1. CASE Begin
  BY <1>1 DEF Begin, Accounted
<1>2. ASSUME NEW f \in Files, NEW parsed \in BOOLEAN, TakeResult(f, parsed) PROVE Accounted'
  BY <1>2 DEF TakeResult, MainGoto, workerVars, Accounted, Sound, Queued, Held
<1>3. CASE Put(hand, "put", "parse") \/ Put(Sentinel, "stop", "join")
  <2>1. PICK item \in SUBSET Parts : queue' = Append(queue, item) /\ Held = item
    BY <1>3 DEF Put, MainGoto, Sentinel, Held, TypeOK
  <2>2. Queued \subseteq Queued'
    <3> SUFFICES ASSUME NEW i \in 1..Len(queue), NEW p \in queue[i] PROVE p \in Queued'
      BY DEF Queued
    <3>1. i \in 1..Len(queue') /\ queue'[i] = queue[i]
      BY <2>1, PutFacts
    <3> QED
      BY <3>1 DEF Queued
  <2>3. Held \subseteq Queued'
    <3>1. Len(queue) + 1 \in 1..Len(queue') /\ queue'[Len(queue) + 1] = Held
      BY <2>1, PutFacts
    <3> QED
      BY <3>1 DEF Queued
  <2> QED
    BY <1>3, <2>2, <2>3 DEF Put, MainGoto, workerVars, Accounted, Sound
<1>4. CASE PutGivesUp("put", "parse") \/ PutGivesUp("stop", "join")
  BY <1>4 DEF PutGivesUp, MayGiveUp, MainGoto, workerVars, Accounted, Sound, Drained, Ended
<1>5. CASE ParseEnds \/ ParseRaises \/ Join \/ WriteIndex \/ WriteIndexRaises \/ ClearCheckpoint
  BY <1>5 DEF ParseEnds, ParseRaises, Join, WriteIndex, WriteIndexRaises, ClearCheckpoint,
     MainGoto, workerVars, Accounted, Sound, Queued, Held
<1>6. CASE TakeItem
  <2>1. Queued = Head(queue) \cup Queued'
    <3>1. Queued \subseteq Head(queue) \cup Queued'
      <4> SUFFICES ASSUME NEW i \in 1..Len(queue), NEW p \in queue[i], i # 1
                   PROVE  p \in Queued'
        BY <1>6, TakenFacts DEF TakeItem, Queued
      <4>1. i - 1 \in 1..Len(queue') /\ queue'[i - 1] = queue[i]
        BY <1>6, TakenFacts DEF TakeItem, TypeOK
      <4> QED
        BY <4>1 DEF Queued
    <3>2. Head(queue) \cup Queued' \subseteq Queued
      BY <1>6, TakenFacts DEF TakeItem, Queued, TypeOK
    <3> QED
      BY <3>1, <3>2
  <2> QED
    BY <1>6, <2>1 DEF TakeItem, WorkerGoto, mainVars, Accounted, Sound, Held
<1>7. ASSUME NEW batch \in SUBSET buffer, NEW ok \in SUBSET batch, Flush(batch, ok), ~cancel
      PROVE  batch \subseteq vectors' \cup failed' \cup Vanishing /\ buffer' = buffer \ batch
             /\ vectors \subseteq vectors' /\ failed \subseteq failed'
  BY <1>7 DEF Flush
<1>8. CASE FlushSuperBatch \/ FlushRest
  <2>1. CASE cancel
    BY <1>8, <2>1 DEF FlushSuperBatch, FlushRest, Accounted, Sound
  <2>2. CASE ~cancel
    <3>1. PICK batch \in SUBSET buffer : \E ok \in SUBSET batch : Flush(batch, ok)
      BY <1>8 DEF FlushSuperBatch, FlushRest
    <3>2. /\ batch \subseteq vectors' \cup failed' \cup Vanishing /\ buffer' = buffer \ batch
          /\ vectors \subseteq vectors' /\ failed \subseteq failed'
      BY <1>7, <2>2, <3>1
    <3>3. Sound' => Sound
      BY <1>8 DEF FlushSuperBatch, FlushRest, WorkerGoto, mainVars, Sound
    <3>4. UNCHANGED <<seen, Queued, Held>>
      BY <1>8 DEF FlushSuperBatch, FlushRest, mainVars, Queued, Held
    <3> QED
      BY <3>2, <3>3, <3>4 DEF Accounted
  <2> QED
    BY <2>1, <2>2
<1>9. CASE TakeCancelled \/ FillEnds \/ \E written \in BOOLEAN : SaveRest(written)
  BY <1>9 DEF TakeCancelled, FillEnds, SaveRest, WorkerGoto, mainVars, Accounted, Sound, Queued, Held
<1>10. CASE FlushDies \/ Crash
  BY <1>10 DEF FlushDies, Crash, Accounted, Sound
<1>11. CASE Cancel \/ UNCHANGED vars
  BY <1>11 DEF Cancel, vars, mainVars, workerVars, Accounted, Sound, Queued, Held
<1> QED
  BY <1>1, <1>2, <1>3, <1>4, <1>5, <1>6, <1>8, <1>9, <1>10, <1>11
     DEF Next, MainStep, WorkerStep, PutParts, PutSentinel

\* What is embedded goes into a shard file, or waits for one, or its loss is known.
LEMMA CoveredStep ==
  ASSUME TypeOK, Joined, SavedAtEnd, Covered, [Next]_vars
  PROVE  Covered'
<1>1. CASE Begin
  BY <1>1 DEF Begin, MainGoto, diskVars, Joined, SavedAtEnd, Covered, Ended
<1>2. CASE WriteIndex \/ ClearCheckpoint
  BY <1>2 DEF WriteIndex, ClearCheckpoint, MainGoto, Covered, SavedAtEnd
<1>3. CASE MainStep /\ ~(WriteIndex \/ ClearCheckpoint)
  BY <1>3 DEF MainStep, TakeResult, PutParts, PutSentinel, Put, PutGivesUp, ParseEnds, ParseRaises, Join,
     WriteIndexRaises, workerVars, diskVars, Covered
<1>4. CASE TakeItem \/ TakeCancelled \/ FillEnds
  BY <1>4 DEF TakeItem, TakeCancelled, FillEnds, diskVars, Covered
<1>5. CASE FlushSuperBatch \/ FlushRest
  <2>1. PICK batch \in SUBSET buffer : \E ok \in SUBSET batch : Flush(batch, ok)
    BY <1>5 DEF FlushSuperBatch, FlushRest
  <2>2. PICK ok \in SUBSET batch : Flush(batch, ok)
    BY <2>1
  <2> QED
    BY <1>5, <2>2 DEF FlushSuperBatch, FlushRest, Flush, Covered
<1>6. ASSUME NEW written \in BOOLEAN, SaveRest(written) PROVE Covered'
  BY <1>6 DEF SaveRest, Covered
<1>7. CASE FlushDies \/ Crash
  BY <1>7 DEF FlushDies, Crash, Covered
<1>8. CASE Cancel \/ UNCHANGED vars
  BY <1>8 DEF Cancel, vars, workerVars, diskVars, Covered
<1> QED
  BY <1>1, <1>2, <1>3, <1>4, <1>5, <1>6, <1>7, <1>8 DEF Next, WorkerStep

\* Nothing waits once the embedding thread has saved the rest.
LEMMA SavedAtEndStep ==
  ASSUME TypeOK, Joined, SavedAtEnd, [Next]_vars
  PROVE  SavedAtEnd'
<1>1. CASE Begin \/ Crash
  BY <1>1 DEF Begin, Crash, MainGoto, SavedAtEnd
<1>2. CASE MainStep
  BY <1>2 DEF MainStep, TakeResult, PutParts, PutSentinel, Put, PutGivesUp, ParseEnds, ParseRaises, Join,
     WriteIndex, WriteIndexRaises, ClearCheckpoint, MainGoto, workerVars, SavedAtEnd
<1>3. CASE WorkerStep
  <2>1. CASE FlushSuperBatch \/ FlushRest
    BY <2>1 DEF FlushSuperBatch, FlushRest, WorkerGoto, mainVars, Joined, SavedAtEnd, Ended
  <2>2. CASE ~(FlushSuperBatch \/ FlushRest)
    BY <1>3, <2>2 DEF WorkerStep, TakeItem, TakeCancelled, FillEnds, FlushDies, SaveRest,
       WorkerGoto, mainVars, Joined, SavedAtEnd, Ended
  <2> QED
    BY <2>1, <2>2
<1>4. CASE Cancel \/ UNCHANGED vars
  BY <1>4 DEF Cancel, vars, mainVars, workerVars, SavedAtEnd
<1> QED
  BY <1>1, <1>2, <1>3, <1>4 DEF Next

\* At the join nothing is on its way any more; after it nothing changes.
LEMMA NothingDroppedStep ==
  ASSUME TypeOK, SentinelLast, Drained, Flushed, Joined, Accounted, NothingDropped, [Next]_vars
  PROVE  NothingDropped'
<1>1. CASE Join
  <2>1. CASE Sound /\ wpc = "ended"
    <3>1. Len(queue) = 0 /\ buffer = {} /\ Held = {}
      BY <1>1, <2>1 DEF Join, MainGoto, Drained, Flushed, Held
    <3>2. Queued = {}
      BY <3>1 DEF Queued
    <3> QED
      BY <1>1, <2>1, <3>1, <3>2 DEF Join, workerVars, Accounted, NothingDropped
  <2>2. CASE ~(Sound /\ wpc = "ended")
    BY <1>1, <2>2 DEF Join, MainGoto, workerVars, Sound, NothingDropped, Ended
  <2> QED
    BY <2>1, <2>2
<1>2. CASE MainStep /\ ~Join
  BY <1>2 DEF MainStep, TakeResult, PutParts, PutSentinel, Put, PutGivesUp, ParseEnds, ParseRaises,
     WriteIndex, WriteIndexRaises, ClearCheckpoint, MainGoto, NothingDropped
<1>3. CASE WorkerStep
  BY <1>3 DEF WorkerStep, TakeItem, TakeCancelled, FlushSuperBatch, FillEnds, FlushRest, FlushDies, SaveRest,
     WorkerGoto, mainVars, Joined, NothingDropped, Ended
<1>4. CASE Begin \/ Crash
  BY <1>4 DEF Begin, Crash, MainGoto, NothingDropped
<1>5. CASE Cancel \/ UNCHANGED vars
  BY <1>5 DEF Cancel, vars, mainVars, workerVars, NothingDropped
<1> QED
  BY <1>1, <1>2, <1>3, <1>4, <1>5 DEF Next

----------------------------------------------------------------------------
(* Theorems. *)

\* All of the above together: IInv is inductive.
THEOREM Inductive == Spec => []IInv
<1>1. Init => IInv
  <2>1. <<>> \in Seq(SUBSET Parts) /\ Len(<<>>) <= QueueSize
    BY PipelineAssumption
  <2>2. ASSUME Init PROVE TypeOK
    <3>1. queue \in Seq(SUBSET Parts) /\ Len(queue) <= QueueSize
      BY <2>1, <2>2 DEF Init
    <3>2. mpc = "idle" /\ wpc = "ended" /\ attempts \in 0..MaxAttempts
      BY <2>2, PipelineAssumption DEF Init
    <3> QED
      BY <2>2, <3>1, <3>2 DEF Init, TypeOK, Ended
  <2>3. Init => SentinelLast
    BY DEF Init, SentinelLast
  <2> QED
    BY <2>2, <2>3
       DEF Init, IInv, Drained, Flushed, Joined, Accounted, Sound, Covered, SavedAtEnd, NothingDropped, Ended
<1>2. IInv /\ [Next]_vars => IInv'
  BY TypeStep, SentinelLastStep, DrainedStep, FlushedStep, JoinedStep, AccountedStep, CoveredStep,
     SavedAtEndStep, NothingDroppedStep
     DEF IInv
<1> QED
  BY <1>1, <1>2, PTL DEF Spec

\* Every variable keeps its type, the queue its length.
THEOREM TypeCorrect == Spec => []TypeOK
<1>1. IInv => TypeOK
  BY DEF IInv
<1> QED
  BY <1>1, Inductive, PTL

\* When the index is about to be written by a run whose embedding thread ended by itself, every
\* part that was collected has a vector, is recorded as failed, or vanished in embed_texts.
THEOREM NoneIsDropped == Spec => []NothingDropped
<1>1. IInv => NothingDropped
  BY DEF IInv
<1> QED
  BY <1>1, Inductive, PTL

\* A run that is over, finished, cancelled or failed, leaves each vector it made to the next one.
THEOREM MadeIsKept == Spec => []WorkIsKept
<1>1. IInv => WorkIsKept
  BY DEF IInv, Joined, Covered, SavedAtEnd, WorkIsKept, Ended
<1> QED
  BY <1>1, Inductive, PTL
=============================================================================
