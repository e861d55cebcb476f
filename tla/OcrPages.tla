------------------------------ MODULE OcrPages ------------------------------
(***************************************************************************)
(* Recognition of the pages of a PDF that have little text                 *)
(* (DocumentParser._ocr_sparse_pages), by threads of several parsing       *)
(* processes that share the text cache on disk (src/parsers/ocr).          *)
(*                                                                         *)
(* A page is a place <<document, number>>; the picture of a page is a      *)
(* constant. A file is an inode that names refer to: final[i] and tmp[i]   *)
(* are the {hash}.txt and {hash}.tmp of picture i. Of a text, head and     *)
(* tail are what a first and a second write put there; a text the engine   *)
(* could not recognise is empty and has neither.                           *)
(*                                                                         *)
(* EngineInsideLock, OpenFinal and WriteUnflushed are mutants of the       *)
(* definitions that follow them.                                           *)
(***************************************************************************)
EXTENDS Integers, Sequences, FiniteSets

CONSTANTS
  Docs,       \* documents being parsed
  Pictures,   \* the pictures of the sparse pages of each, in order
  Procs,      \* processes that parse
  Workers,    \* ocr_max_workers
  MaxRuns,    \* bound: how often documents are parsed
  MaxKills    \* bound: processes killed

Pages == UNION {{<<d, n>> : n \in DOMAIN Pictures[d]} : d \in Docs}
Picture(p) == Pictures[p[1]][p[2]]
Images == {Picture(p) : p \in Pages}

ASSUME OcrAssumption ==
  /\ DOMAIN Pictures = Docs /\ IsFiniteSet(Pages)
  /\ IsFiniteSet(Procs) /\ Procs # {}
  /\ Workers \in Nat \ {0} /\ MaxRuns \in Nat /\ MaxKills \in Nat

VARIABLES
  parallel,   \* the engine is tesseract, not paddle
  process,    \* the process that parses a document, or NoProc
  at,         \* where a page is
  fd,         \* the inode its thread writes to
  lock,       \* of a process: the page that holds _model_lock, or NoPage
  model,      \* of a process: the model is loaded
  final, tmp, \* inodes by name
  content,    \* of an inode: the pieces it has
  runs,       \* how often documents were begun
  kills,
  (* history *)
  shared,     \* pictures whose .tmp two threads had in use at once
  unread,     \* pictures the engine failed on
  trouble     \* a process was killed or a write failed

files == <<final, tmp, content>>
past == <<shared, unread, trouble>>
vars == <<parallel, process, at, fd, lock, model, files, runs, kills, past>>

NoPage == <<>>
NoProc == "none"
NoFile == 0
Inodes == 1..(Cardinality(Pages) + 2 * Cardinality(Images) + 1)
Whole == {"head", "tail"}

Over == {"done", "raised", "cancelled"}
Writing == {"head", "tail", "replace"}

Init ==
  /\ parallel \in BOOLEAN
  /\ process = [d \in Docs |-> NoProc]
  /\ at = [p \in Pages |-> "queued"]
  /\ fd = [p \in Pages |-> NoFile]
  /\ lock = [c \in Procs |-> NoPage] /\ model = [c \in Procs |-> FALSE]
  /\ final = [i \in Images |-> NoFile] /\ tmp = [i \in Images |-> NoFile]
  /\ content = [n \in Inodes |-> {}]
  /\ runs = 0 /\ kills = 0
  /\ shared = {} /\ unread = {} /\ trouble = FALSE

----------------------------------------------------------------------------
(* A document. *)

Proc(p) == process[p[1]]
PagesOf(d) == {p \in Pages : p[1] = d}
Slots == IF parallel THEN Workers ELSE 1

Parsing(d) == process[d] # NoProc

At(p, s) == Parsing(p[1]) /\ at[p] = s
Moves(p, s) == at' = [at EXCEPT ![p] = s]

\* A run of the case parses the document, the first time or again.
Begin(d) ==
  /\ ~Parsing(d) /\ runs < MaxRuns
  /\ \E c \in Procs : process' = [process EXCEPT ![d] = c]
  /\ runs' = runs + 1
  /\ UNCHANGED <<parallel, at, fd, lock, model, files, kills, past>>

\* A thread takes the next page and renders it, or fails to; one page after the other unless the
\* engine is good for several.
StartPage(p) ==
  /\ At(p, "queued")
  /\ \A q \in PagesOf(p[1]) : q[2] < p[2] => at[q] # "queued"
  /\ Cardinality({q \in PagesOf(p[1]) : at[q] \notin Over \cup {"queued"}}) < Slots
  /\ parallel \/ \A q \in PagesOf(p[1]) : at[q] # "raised"
  /\ Moves(p, "lookup") \/ Moves(p, "done")
  /\ UNCHANGED <<parallel, process, fd, lock, model, files, runs, kills, past>>

\* The loop over the results meets an exception: what has not begun is not begun any more.
Abort(d) ==
  /\ Parsing(d)
  /\ \E p \in PagesOf(d) : at[p] = "raised" /\ \A q \in PagesOf(d) : q[2] < p[2] => at[q] \in Over
  /\ \E p \in PagesOf(d) : at[p] = "queued"
  /\ at' = [p \in Pages |-> IF p[1] = d /\ at[p] = "queued" THEN "cancelled" ELSE at[p]]
  /\ UNCHANGED <<parallel, process, fd, lock, model, files, runs, kills, past>>

Leaves(ds) ==
  /\ process' = [d \in Docs |-> IF d \in ds THEN NoProc ELSE process[d]]
  /\ at' = [p \in Pages |-> IF p[1] \in ds THEN "queued" ELSE at[p]]

\* Parsed, or failed when a page raised; what became of its pages is of no more concern here.
Finish(d) ==
  /\ Parsing(d)
  /\ \A p \in PagesOf(d) : at[p] \in Over
  /\ Leaves({d})
  /\ UNCHANGED <<parallel, fd, lock, model, files, runs, kills, past>>

\* The process ends: its threads and locks are gone, its files stay.
Kill(c) ==
  /\ kills < MaxKills
  /\ \E d \in Docs : process[d] = c
  /\ kills' = kills + 1
  /\ Leaves({d \in Docs : process[d] = c})
  /\ fd' = [p \in Pages |-> IF Proc(p) = c THEN NoFile ELSE fd[p]]
  /\ lock' = [lock EXCEPT ![c] = NoPage]
  /\ model' = [model EXCEPT ![c] = FALSE]
  /\ trouble' = TRUE
  /\ UNCHANGED <<parallel, files, runs, shared, unread>>

----------------------------------------------------------------------------
(* Cache and engine. *)

\* cache.get: the file is there or not,
Lookup(p) ==
  /\ At(p, "lookup")
  /\ Moves(p, IF final[Picture(p)] = NoFile THEN "recognise" ELSE "read")
  /\ UNCHANGED <<parallel, process, fd, lock, model, files, runs, kills, past>>

\* and read when it is; a file that cannot be read is as good as none. A text cut within a character
\* is an error nobody expects.
Read(p) ==
  LET found == content[final[Picture(p)]] IN
  /\ At(p, "read")
  /\ \/ Moves(p, "done")
     \/ Moves(p, "recognise")
     \/ found \notin {{}, Whole} /\ Moves(p, "raised")
  /\ UNCHANGED <<parallel, process, fd, lock, model, files, runs, kills, past>>

\* What the engine makes of the picture; its exceptions become a blank text, which is saved too.
Recognised(p) ==
  \/ Moves(p, "open") /\ UNCHANGED unread
  \/ Moves(p, "blank") /\ unread' = unread \cup {Picture(p)}

Tesseract(p) ==
  /\ At(p, "recognise") /\ parallel
  /\ Recognised(p)
  /\ UNCHANGED <<parallel, process, fd, lock, model, files, runs, kills, shared, trouble>>

\* _get_model of paddle: loaded under the lock, once per process, or an exception.
LoadModel(p) ==
  /\ At(p, "recognise") /\ ~parallel
  /\ ~model[Proc(p)] /\ lock[Proc(p)] = NoPage
  /\ \/ model' = [model EXCEPT ![Proc(p)] = TRUE] /\ UNCHANGED <<at, unread>>
     \/ Moves(p, "blank") /\ unread' = unread \cup {Picture(p)} /\ UNCHANGED model
  /\ UNCHANGED <<parallel, process, fd, lock, files, runs, kills, shared, trouble>>

EngineInsideLock(p) ==
  /\ At(p, "recognise") /\ ~parallel
  /\ lock[Proc(p)] = NoPage
  /\ lock' = [lock EXCEPT ![Proc(p)] = p]
  /\ IF model[Proc(p)] THEN Moves(p, "engine") ELSE UNCHANGED at
  /\ UNCHANGED <<parallel, process, fd, model, files, runs, kills, past>>

\* model.ocr, one page at a time.
EnterEngine(p) ==
  /\ At(p, "recognise") /\ ~parallel
  /\ model[Proc(p)] /\ lock[Proc(p)] = NoPage
  /\ lock' = [lock EXCEPT ![Proc(p)] = p]
  /\ Moves(p, "engine")
  /\ UNCHANGED <<parallel, process, fd, model, files, runs, kills, past>>

LeaveEngine(p) ==
  /\ At(p, "engine")
  /\ Recognised(p)
  /\ lock' = [lock EXCEPT ![Proc(p)] = NoPage]
  /\ UNCHANGED <<parallel, process, fd, model, files, runs, kills, shared, trouble>>

InUse == {final[i] : i \in Images} \cup {tmp[i] : i \in Images} \cup {fd[p] : p \in Pages}
NewInode == CHOOSE n \in Inodes : n \notin InUse
Free == content' = [n \in Inodes |-> IF n \in InUse' THEN content[n] ELSE {}]

OpenFinal(p) ==
  LET i == Picture(p)
      n == IF final[i] = NoFile THEN NewInode ELSE final[i]
  IN
  /\ At(p, "open") \/ At(p, "blank")
  /\ final' = [final EXCEPT ![i] = n]
  /\ content' = [content EXCEPT ![n] = {}]
  /\ fd' = [fd EXCEPT ![p] = n]
  /\ Moves(p, IF at[p] = "blank" THEN "replace" ELSE "head")
  /\ shared' = IF \E q \in Pages \ {p} : Picture(q) = i /\ at[q] \in Writing THEN shared \cup {i} ELSE shared
  /\ UNCHANGED <<parallel, process, lock, model, tmp, runs, kills, unread, trouble>>

\* cache.put: write_text creates the .tmp or empties the one that is there,
Open(p) ==
  LET i == Picture(p)
      n == IF tmp[i] = NoFile THEN NewInode ELSE tmp[i]
  IN
  /\ At(p, "open") \/ At(p, "blank")
  /\ tmp' = [tmp EXCEPT ![i] = n]
  /\ content' = [content EXCEPT ![n] = {}]
  /\ fd' = [fd EXCEPT ![p] = n]
  /\ Moves(p, IF at[p] = "blank" THEN "replace" ELSE "head")
  /\ shared' = IF \E q \in Pages \ {p} : Picture(q) = i /\ at[q] \in Writing THEN shared \cup {i} ELSE shared
  /\ UNCHANGED <<parallel, process, lock, model, final, runs, kills, unread, trouble>>

WriteUnflushed(p) ==
  /\ at[p] \in {"head", "tail"} /\ At(p, at[p])
  /\ content' = [content EXCEPT ![fd[p]] = @ \cup {at[p]}]
  /\ Moves(p, "replace")
  /\ UNCHANGED <<parallel, process, fd, lock, model, final, tmp, runs, kills, past>>

\* writes the text piece by piece,
Write(p) ==
  /\ at[p] \in {"head", "tail"} /\ At(p, at[p])
  /\ content' = [content EXCEPT ![fd[p]] = @ \cup {at[p]}]
  /\ Moves(p, IF at[p] = "head" THEN "tail" ELSE "replace")
  /\ UNCHANGED <<parallel, process, fd, lock, model, final, tmp, runs, kills, past>>

\* and renames whatever goes by the name of the .tmp by now, if anything does.
Replace(p) ==
  LET i == Picture(p) IN
  /\ At(p, "replace")
  /\ IF tmp[i] = NoFile
     THEN UNCHANGED <<final, tmp>>
     ELSE final' = [final EXCEPT ![i] = tmp[i]] /\ tmp' = [tmp EXCEPT ![i] = NoFile]
  /\ fd' = [fd EXCEPT ![p] = NoFile]
  /\ Free
  /\ Moves(p, "done")
  /\ UNCHANGED <<parallel, process, lock, model, runs, kills, past>>

\* A write that fails leaves the .tmp as it is; the page has its text.
WriteFails(p) ==
  /\ At(p, at[p]) /\ at[p] \in {"open", "blank"} \cup Writing
  /\ fd' = [fd EXCEPT ![p] = NoFile]
  /\ Moves(p, "done")
  /\ trouble' = TRUE
  /\ UNCHANGED <<parallel, process, lock, model, files, runs, kills, shared, unread>>

PageStep(p) ==
  \/ StartPage(p) \/ Lookup(p) \/ Read(p)
  \/ Tesseract(p) \/ LoadModel(p) \/ EnterEngine(p) \/ LeaveEngine(p)
  \/ Open(p) \/ Write(p) \/ Replace(p) \/ WriteFails(p)

Next ==
  \/ \E p \in Pages : PageStep(p)
  \/ \E d \in Docs : Begin(d) \/ Abort(d) \/ Finish(d)
  \/ \E c \in Procs : Kill(c)

Spec == Init /\ [][Next]_vars

\* Threads run, and the engine answers.
Fairness ==
  /\ \A p \in Pages : WF_vars(PageStep(p))
  /\ \A d \in Docs : WF_vars(Abort(d)) /\ WF_vars(Finish(d))

FairSpec == Spec /\ Fairness

----------------------------------------------------------------------------
(* Properties. *)

Writers(i) == {p \in Pages : Picture(p) = i /\ at[p] \in Writing}

\* For a picture that one thread at a time writes, the file in the cache is never seen incomplete,
\* whoever is killed and whatever .tmp was left behind.
CacheAtomic ==
  \A i \in Images \ shared :
    final[i] # NoFile => content[final[i]] = Whole \/ i \in unread

\* Threads that wrote one picture at once, emptied each other's .tmp and renamed it away have all
\* the same left the whole text when the last of them is done, unless one was broken off.
CacheSettles ==
  ~trouble =>
    \A i \in Images : Writers(i) = {} /\ final[i] # NoFile => content[final[i]] = Whole \/ i \in unread

\* Every document is parsed, given up or killed: no page waits for ever for the engine or its lock.
ParseEnds ==
  \A d \in Docs : Parsing(d) ~> ~Parsing(d)

\* (Not kept.) Writing to a .tmp and renaming it hides what is written in part.
NoPartialRead ==
  [][\A p \in Pages : At(p, "read") /\ at'[p] \in Over =>
       content[final[Picture(p)]] = Whole \/ Picture(p) \in unread]_vars
=============================================================================
