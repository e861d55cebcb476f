----------------------------- MODULE EmbedBatch -----------------------------
(***************************************************************************)
(* EmbeddingService.embed_texts_async: one call with a list of texts.      *)
(* Blank texts are left out, the others are put in batches, a limited      *)
(* number of batches is sent to Ollama at a time, a batch that fails is    *)
(* retried by the kind of its error, split in two and tried again down to  *)
(* a depth, and what a total time limit or the cancel event stops counts   *)
(* as failed. A coroutine runs from one await to the next undisturbed.     *)
(*                                                                         *)
(* A text is its length here and a vector is the text it was made from.    *)
(* The batch size learned from earlier calls is always the configured one  *)
(* (README, Findings), so BatchSize stands for it.                         *)
(*                                                                         *)
(* EnterShallow, HalvesOverlap, TryBlindly, RetriesForever and             *)
(* ReturnInPlace are mutants of the definitions that follow them.          *)
(***************************************************************************)
EXTENDS Integers, FiniteSets, Sequences, SequencesExt, Ordering

CONSTANTS
  Inputs,          \* lists of texts, by their lengths after cleaning
  ShortThreshold,  \* embed_short_text_threshold
  BatchSize,       \* embed_batch_size
  MaxConcurrent,   \* embed_max_concurrent
  MaxDepth,        \* embed_max_subdivide_depth
  ConnectRetries   \* _CONNECT_MAX_RETRIES

ASSUME EmbedAssumption ==
  /\ Inputs \subseteq Seq(Nat)
  /\ ShortThreshold \in Nat
  /\ BatchSize \in Nat \ {0}
  /\ MaxConcurrent \in Nat \ {0}
  /\ MaxDepth \in Nat
  /\ ConnectRetries \in Nat \ {0}

VARIABLES
  lengths,    \* the texts of the call
  toxic,      \* texts the model cannot embed
  jobs,       \* one coroutine per batch
  results,    \* valid_vectors: the text a vector was made from, or None
  diagnosis,  \* failure_diag: what went wrong with a text, or None
  late,       \* the deadline has passed
  cancel,     \* cancel_event
  call,       \* running, returned or raised
  output,     \* the vectors returned
  reported,   \* _last_failed_indices
  (* history *)
  short,      \* texts the server left out of an answer
  unlucky     \* something other than a toxic text made a request fail

callVars == <<call, output, reported>>
vars == <<lengths, toxic, jobs, results, diagnosis, late, cancel, callVars, short, unlucky>>

None == 0
Unexplained == ""

----------------------------------------------------------------------------
(* Preparation. A text is known by its place among the texts that are not blank. *)

\* _prepare_texts: the original index of each text that is not blank.
Cleaned == [ls \in Inputs |-> LET texts == {i \in 1..Len(ls) : ls[i] > 0} IN InOrder(texts, Rising(texts))]

\* _split_into_batches: slices of at most BatchSize texts, short texts apart, long ones in order of
\* length when the longest has ten times the length of the shortest.
Slices(items) ==
  [k \in 1..((Len(items) + BatchSize - 1) \div BatchSize) |->
     SubSeq(items, (k - 1) * BatchSize + 1, Min({k * BatchSize, Len(items)}))]

Batches == [ls \in Inputs |->
  LET size        == [v \in 1..Len(Cleaned[ls]) |-> ls[Cleaned[ls][v]]]
      short_items == {v \in DOMAIN size : size[v] < ShortThreshold}
      long_items  == DOMAIN size \ short_items
      uneven      == \E v, w \in long_items : v # w /\ size[v] >= size[w] * 10
      shorter     == {p \in long_items \X long_items :
                        size[p[1]] < size[p[2]] \/ (size[p[1]] = size[p[2]] /\ p[1] < p[2])}
  IN  Slices(InOrder(short_items, Rising(short_items)))
        \o Slices(InOrder(long_items, IF uneven THEN shorter ELSE Rising(long_items)))]

Valid == 1..Len(Cleaned[lengths])

Job(batch) == [at |-> "queued", work |-> <<[items |-> batch, depth |-> 0]>>, connect |-> 0, server |-> 0]

Init ==
  /\ lengths \in Inputs
  /\ toxic \in SUBSET Valid
  /\ jobs = [b \in 1..Len(Batches[lengths]) |-> Job(Batches[lengths][b])]
  /\ results = [v \in Valid |-> None]
  /\ diagnosis = [v \in Valid |-> Unexplained]
  /\ late = FALSE /\ cancel = FALSE
  /\ call = "running"
  /\ output = [i \in 1..Len(lengths) |-> None] /\ reported = {}
  /\ short = {} /\ unlucky = FALSE

----------------------------------------------------------------------------
(* One batch. *)

Stop == cancel \/ late
StopReason == IF cancel THEN "cancelled" ELSE "total_timeout"

Part(b) == Head(jobs[b].work)

\* The semaphore is held from the first step of a batch to its last.
Running(b) == jobs[b].at \notin {"queued", "done"}

At(b, s) == call = "running" /\ jobs[b].at = s

\* What is left of a batch: the next of its parts, or nothing.
NextPart(b, work) ==
  jobs' = [jobs EXCEPT ![b] = [at |-> IF work = <<>> THEN "done" ELSE "enter",
                               work |-> work, connect |-> 0, server |-> 0]]

Moves(b, s) == jobs' = [jobs EXCEPT ![b].at = s]

Explain(items, why) == [v \in Valid |-> IF v \in ToSet(items) THEN why ELSE diagnosis[v]]

\* run_batch gets the semaphore; the first to ask is the first to get it.
Acquire(b) ==
  /\ At(b, "queued")
  /\ \A c \in 1..(b - 1) : jobs[c].at # "queued"
  /\ Cardinality({c \in DOMAIN jobs : Running(c)}) < MaxConcurrent
  /\ Moves(b, "enter")
  /\ UNCHANGED <<lengths, toxic, results, diagnosis, late, cancel, callVars, short, unlucky>>

EnterShallow(b) ==
  /\ At(b, "enter")
  /\ IF Stop \/ Part(b).depth + 1 >= MaxDepth
     THEN /\ diagnosis' = Explain(Part(b).items, IF Stop THEN StopReason ELSE "subdivide_exhausted")
          /\ NextPart(b, Tail(jobs[b].work))
     ELSE /\ Moves(b, "try")
          /\ UNCHANGED diagnosis
  /\ UNCHANGED <<lengths, toxic, results, late, cancel, callVars, short, unlucky>>

\* Entry of _embed_with_subdivide_async: stopped, too deep, or to be tried.
Enter(b) ==
  /\ At(b, "enter")
  /\ IF Stop \/ Part(b).depth >= MaxDepth
     THEN /\ diagnosis' = Explain(Part(b).items, IF Stop THEN StopReason ELSE "subdivide_exhausted")
          /\ NextPart(b, Tail(jobs[b].work))
     ELSE /\ Moves(b, "try")
          /\ UNCHANGED diagnosis
  /\ UNCHANGED <<lengths, toxic, results, late, cancel, callVars, short, unlucky>>

HalvesOverlap(p) ==
  LET mid == Len(p.items) \div 2 IN
  <<[items |-> SubSeq(p.items, 1, mid), depth |-> p.depth + 1],
    [items |-> SubSeq(p.items, mid, Len(p.items)), depth |-> p.depth + 1]>>

Halves(p) ==
  LET mid == Len(p.items) \div 2 IN
  <<[items |-> SubSeq(p.items, 1, mid), depth |-> p.depth + 1],
    [items |-> SubSeq(p.items, mid + 1, Len(p.items)), depth |-> p.depth + 1]>>

\* The ConnectionError of a batch: a single text has failed, a longer one is halved.
BatchFails(b, why) ==
  IF Len(Part(b).items) <= 1
  THEN /\ diagnosis' = Explain(Part(b).items, why)
       /\ NextPart(b, Tail(jobs[b].work))
  ELSE /\ NextPart(b, Halves(Part(b)) \o Tail(jobs[b].work))
       /\ UNCHANGED diagnosis

TryBlindly(b) ==
  /\ At(b, "try")
  /\ Moves(b, "sent")
  /\ UNCHANGED <<lengths, toxic, results, diagnosis, late, cancel, callVars, short, unlucky>>

\* Top of the loop of _embed_batch_with_retry_async.
Try(b) ==
  /\ At(b, "try")
  /\ IF Stop
     THEN BatchFails(b, StopReason)
     ELSE Moves(b, "sent") /\ UNCHANGED diagnosis
  /\ UNCHANGED <<lengths, toxic, results, late, cancel, callVars, short, unlucky>>

Poisoned(b) == ToSet(Part(b).items) \cap toxic # {}

\* results[indices[j]] = vec, for the vectors the server answers with: one for each text of the
\* batch in order, or fewer.
Answered(b) ==
  LET items == Part(b).items IN
  /\ At(b, "sent")
  /\ ~Poisoned(b)
  /\ \E n \in 0..Len(items) :
       LET given == ToSet(SubSeq(items, 1, n)) IN
       /\ results' = [v \in Valid |-> IF v \in given THEN Cleaned[lengths][v] ELSE results[v]]
       /\ short' = short \cup (ToSet(items) \ given)
       /\ unlucky' = (unlucky \/ n < Len(items))
  /\ NextPart(b, Tail(jobs[b].work))
  /\ UNCHANGED <<lengths, toxic, diagnosis, late, cancel, callVars>>

\* Client errors and time-outs are not retried.
Refused(b) ==
  /\ At(b, "sent")
  /\ \E why \in {"http_4xx", "timeout"} : BatchFails(b, why)
  /\ unlucky' = (unlucky \/ ~Poisoned(b))
  /\ UNCHANGED <<lengths, toxic, results, late, cancel, callVars, short>>

\* A server error is retried once, after a sleep that nothing interrupts.
ServerError(b) ==
  /\ At(b, "sent")
  /\ IF jobs[b].server = 0
     THEN /\ jobs' = [jobs EXCEPT ![b].at = "try", ![b].server = 1]
          /\ UNCHANGED diagnosis
     ELSE BatchFails(b, "http_500")
  /\ unlucky' = (unlucky \/ ~Poisoned(b))
  /\ UNCHANGED <<lengths, toxic, results, late, cancel, callVars, short>>

RetriesForever(b) ==
  /\ At(b, "sent")
  /\ IF jobs[b].connect < ConnectRetries
     THEN /\ jobs' = [jobs EXCEPT ![b].at = "backoff"]
          /\ UNCHANGED diagnosis
     ELSE BatchFails(b, "connection")
  /\ unlucky' = TRUE
  /\ UNCHANGED <<lengths, toxic, results, late, cancel, callVars, short>>

\* A lost connection is retried after a back-off.
ConnectionLost(b) ==
  /\ At(b, "sent")
  /\ IF jobs[b].connect < ConnectRetries - 1
     THEN /\ jobs' = [jobs EXCEPT ![b].at = "backoff", ![b].connect = @ + 1]
          /\ UNCHANGED diagnosis
     ELSE BatchFails(b, "connection")
  /\ unlucky' = TRUE
  /\ UNCHANGED <<lengths, toxic, results, late, cancel, callVars, short>>

\* The back-off is over, or is left because the call is to stop.
BackOff(b) ==
  /\ At(b, "backoff")
  /\ IF Stop
     THEN BatchFails(b, StopReason)
     ELSE Moves(b, "try") /\ UNCHANGED diagnosis
  /\ UNCHANGED <<lengths, toxic, results, late, cancel, callVars, short, unlucky>>

\* An answer without "embeddings" or that is not JSON: no handler, so gather and the call raise.
Malformed(b) ==
  /\ At(b, "sent")
  /\ call' = "raised"
  /\ unlucky' = TRUE
  /\ UNCHANGED <<lengths, toxic, jobs, results, diagnosis, late, cancel, output, reported, short>>

----------------------------------------------------------------------------
(* The call. *)

Lost == {v \in Valid : results[v] = None}

ReturnInPlace ==
  /\ call = "running"
  /\ \A b \in DOMAIN jobs : jobs[b].at = "done"
  /\ call' = "returned"
  /\ output' = [i \in 1..Len(lengths) |->
                 IF \E v \in Valid : v = i THEN results[CHOOSE v \in Valid : v = i] ELSE None]
  /\ reported' = {Cleaned[lengths][v] : v \in Lost}
  /\ UNCHANGED <<lengths, toxic, jobs, results, diagnosis, late, cancel, short, unlucky>>

\* The vectors in the order of the texts; what has none is reported as a failure.
Return ==
  /\ call = "running"
  /\ \A b \in DOMAIN jobs : jobs[b].at = "done"
  /\ call' = "returned"
  /\ output' = [i \in 1..Len(lengths) |->
                 IF \E v \in Valid : Cleaned[lengths][v] = i THEN results[CHOOSE v \in Valid : Cleaned[lengths][v] = i] ELSE None]
  /\ reported' = {Cleaned[lengths][v] : v \in Lost}
  /\ UNCHANGED <<lengths, toxic, jobs, results, diagnosis, late, cancel, short, unlucky>>

DeadlinePasses ==
  /\ call = "running" /\ ~late
  /\ late' = TRUE
  /\ UNCHANGED <<lengths, toxic, jobs, results, diagnosis, cancel, callVars, short, unlucky>>

Cancel ==
  /\ call = "running" /\ ~cancel
  /\ cancel' = TRUE
  /\ UNCHANGED <<lengths, toxic, jobs, results, diagnosis, late, callVars, short, unlucky>>

Step(b) ==
  \/ Acquire(b) \/ Enter(b) \/ Try(b)
  \/ Answered(b) \/ Refused(b) \/ ServerError(b) \/ ConnectionLost(b) \/ Malformed(b)
  \/ BackOff(b)

Next ==
  \/ \E b \in DOMAIN jobs : Step(b)
  \/ Return
  \/ DeadlinePasses
  \/ Cancel

Spec == Init /\ [][Next]_vars

\* The event loop runs, and every request ends within _REQUEST_TIMEOUT.
Fairness == WF_vars((\E b \in DOMAIN jobs : Step(b)) \/ Return)

FairSpec == Spec /\ Fairness

----------------------------------------------------------------------------
(* Properties. *)

\* However the texts were filtered, sorted, sliced, halved and retried, a vector that is returned
\* stands at the place of the text it was made from, and a text has none only when it is blank or
\* reported as failed.
RightVector ==
  call = "returned" =>
    \A i \in 1..Len(lengths) :
      /\ output[i] \in {None, i}
      /\ output[i] = None <=> lengths[i] = 0 \/ i \in reported

\* Halving isolates what the model cannot embed: without errors of the network and without a stop,
\* a text fails only when it is toxic, or shares with a toxic one a batch too large to be taken
\* apart in MaxDepth attempts.
OnlyToxicFails ==
  call = "returned" /\ ~unlucky /\ ~Stop =>
    \A v \in Valid :
      /\ v \in toxic => results[v] = None
      /\ results[v] = None =>
        \/ v \in toxic
        \/ \E b \in DOMAIN jobs : \E w \in toxic :
             LET batch == Batches[lengths][b] IN
             {v, w} \subseteq ToSet(batch) /\ Len(batch) > 2^(MaxDepth - 1)

\* After a cancellation or the time limit no request is sent any more: not by a batch that waits in
\* a back-off or for the semaphore, not by a half of a batch that was in flight.
NothingSentAfterStop ==
  [][Stop => {b \in DOMAIN jobs : jobs'[b].at = "sent"} \subseteq {b \in DOMAIN jobs : jobs[b].at = "sent"}]_vars

\* Each text is settled once, with a vector or with a failure; the call ends when all are. (What
\* is in a batch's list of parts is still to be settled.)
Call == INSTANCE EmbedCall WITH
  Texts    <- Nat,
  pending  <- UNION {ToSet(p.items) : p \in UNION {ToSet(jobs[b].work) : b \in DOMAIN jobs}},
  embedded <- Valid \ Lost,
  failed   <- {v \in Valid : diagnosis[v] # Unexplained} \cup short

SettlesOnce == Call!Spec

\* The call ends, whatever the server does.
CallEnds == call = "running" ~> call # "running"
=============================================================================
