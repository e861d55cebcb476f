---------------------------- MODULE CaseIndexDir ----------------------------
(***************************************************************************)
(* The index folder of one case (src/src/index/case_index.py) at the       *)
(* granularity of the file system: write_index building a temporary folder *)
(* and swapping it in with two renames, _recover putting back what an      *)
(* interrupted swap left, load with its cache, delete, and the searches    *)
(* that load the index, read the rest of it later and load it again.       *)
(*                                                                         *)
(* A folder is Absent, or has a generation and some of its files: one call *)
(* of write_index fills it, so its generation is also what tells it from   *)
(* others.  rename is POSIX: it replaces an empty folder and fails on      *)
(* another.  rmtree removes the files one by one in any order, in the      *)
(* folder it has opened even when that is renamed meanwhile, and then what *)
(* is under the name.  manifest.json stands for its mtime too: two         *)
(* generations never have the same.                                        *)
(*                                                                         *)
(* A write is done by a thread of the API process or by a command-line     *)
(* process.  _write_lock excludes the former from one another only.        *)
(*                                                                         *)
(* As in CaseLifecycle, a definition right before another one, named after *)
(* it, is a mutant of it.                                                  *)
(***************************************************************************)
EXTENDS Naturals

CONSTANTS
  Writers,    \* slots for calls of write_index
  Searches,   \* slots for searches of the API process
  MaxGen,     \* bound: how many indexes are written
  Absent      \* no folder, no cache entry, nothing loaded

ASSUME BoundAssumption == MaxGen \in Nat \ {0}

Gens == 1..MaxGen
NoFile == 0

VARIABLES
  final,      \* {case_id}/
  old,        \* {case_id}.old/
  tmp,        \* writer: its .tmp_ folder
  gen,        \* writer: the generation it writes
  written,    \* how many generations have been begun
  wpc,        \* writer: its next step
  local,      \* writer: it is a thread of the API process
  dpc,        \* delete: the folder it is about, or "idle"
  walk,       \* delete: the folder rmtree has opened, by its generation, or 0
  cache,      \* _cache of the API process: the stamp and the CaseIndex under it, or Absent
  spc,        \* search: its next step
  got,        \* search: the CaseIndex it holds: [stamp, units, bm25], bm25 0 until it is read
  again,      \* search: it is in its second load
  (* history *)
  published,  \* the generation swapped in last, 0 once a delete was requested or took a file of it
  floor       \* search: published when its load began, 0 since published was set to 0

dirVars    == <<final, old>>
writeVars  == <<tmp, gen, written, wpc, local>>
deleteVars == <<dpc, walk>>
searchVars == <<spc, got, again, floor>>
vars == <<dirVars, writeVars, deleteVars, cache, searchVars, published>>

----------------------------------------------------------------------------
(* Folders. *)

Files == {"manifest", "units", "bm25"}   \* bm25: every part that is loaded late, dense.npy too

ASSUME AbsentAssumption ==
  /\ Absent \notin [gen : Gens, has : SUBSET Files]
  /\ Absent \notin [stamp : Gens \cup {0}, units : Gens \cup {0}, bm25 : Gens \cup {0}]

Folder(g) == [gen |-> g, has |-> Files]
Whole(d) == d # Absent /\ d.has = Files

\* The generation of a file one opens, NoFile when it is not there.
FileOf(d, f) == IF d # Absent /\ f \in d.has THEN d.gen ELSE NoFile

\* What rename does not overwrite.
InTheWay(d) == d # Absent /\ d.has # {}

\* rmtree removes a file, and the folder when it is empty.
Fewer(d) == {[d EXCEPT !.has = @ \ {f}] : f \in d.has}
RmStep(d) == Fewer(d) \cup (IF d.has = {} THEN {Absent} ELSE {})

RecoverPossible == final = Absent /\ old # Absent

\* old.rename(final); both existed or not when _recover looked, which is a step earlier.
RecoverRename ==
  /\ old # Absent
  /\ ~InTheWay(final)
  /\ final' = old
  /\ old' = Absent

----------------------------------------------------------------------------
(* write_index. *)

WriteGoto(w, from, to) ==
  /\ wpc[w] = from
  /\ wpc' = [wpc EXCEPT ![w] = to]

Writing(w) == wpc[w] # "idle"

\* The write is over; its temporary folder is gone, or left behind and never looked at again.
WriteEnds(dead) ==
  /\ wpc' = [w \in Writers |-> IF w \in dead THEN "idle" ELSE wpc[w]]
  /\ tmp' = [w \in Writers |-> IF w \in dead THEN Absent ELSE tmp[w]]
  /\ gen' = [w \in Writers |-> IF w \in dead THEN 0 ELSE gen[w]]
  /\ local' = [w \in Writers |-> local[w] /\ w \notin dead]
  /\ UNCHANGED written

\* _write_lock, then _recover looks.
WriteBegin(w, inApi) ==
  /\ written < MaxGen
  /\ inApi => \A v \in Writers : ~(Writing(v) /\ local[v])
  /\ WriteGoto(w, "idle", IF RecoverPossible THEN "recover" ELSE "units")
  /\ local' = [local EXCEPT ![w] = inApi]
  /\ UNCHANGED <<dirVars, tmp, gen, written, deleteVars, cache, searchVars, published>>

WriteRecover(w) ==
  /\ WriteGoto(w, "recover", "units")
  /\ RecoverRename
  /\ UNCHANGED <<tmp, gen, written, local, deleteVars, cache, searchVars, published>>

\* tmp.mkdir and units.jsonl
WriteUnits(w) ==
  /\ WriteGoto(w, "units", "bm25")
  /\ written < MaxGen
  /\ written' = written + 1
  /\ gen' = [gen EXCEPT ![w] = written + 1]
  /\ tmp' = [tmp EXCEPT ![w] = [gen |-> written + 1, has |-> {"units"}]]
  /\ UNCHANGED <<dirVars, local, deleteVars, cache, searchVars, published>>

\* save and _write_profile_dir make the folders they need: one that was removed is there again.
WriteBm25(w) ==
  /\ WriteGoto(w, "bm25", "manifest")
  /\ tmp' = [tmp EXCEPT ![w] =
       [gen |-> gen[w], has |-> {"bm25"} \cup IF @ = Absent THEN {} ELSE @.has]]
  /\ UNCHANGED <<dirVars, gen, written, local, deleteVars, cache, searchVars, published>>

\* manifest.json, and then evict.
WriteManifest(w) ==
  /\ WriteGoto(w, "manifest", "clear")
  /\ tmp[w] # Absent
  /\ tmp' = [tmp EXCEPT ![w].has = @ \cup {"manifest"}]
  /\ cache' = IF local[w] THEN Absent ELSE cache
  /\ UNCHANGED <<dirVars, gen, written, local, deleteVars, searchVars, published>>

\* _swap_dir: an old folder that is still there goes first.
WriteClear(w) ==
  /\ wpc[w] = "clear"
  /\ IF old = Absent THEN WriteGoto(w, "clear", "away") /\ UNCHANGED old
                     ELSE old' \in RmStep(old) /\ UNCHANGED wpc
  /\ UNCHANGED <<final, tmp, gen, written, local, deleteVars, cache, searchVars, published>>

WriteAwayUnsaved(w) ==
  /\ WriteGoto(w, "away", "swap")
  /\ final' = Absent
  /\ UNCHANGED <<old, tmp, gen, written, local, deleteVars, cache, searchVars, published>>

\* final.rename(old)
WriteAway(w) ==
  /\ WriteGoto(w, "away", "swap")
  /\ IF final = Absent THEN UNCHANGED dirVars
                       ELSE ~InTheWay(old) /\ old' = final /\ final' = Absent
  /\ UNCHANGED <<tmp, gen, written, local, deleteVars, cache, searchVars, published>>

\* After a delete, or when one takes a file of it, no index counts as published.
Unpublish ==
  /\ published' = 0
  /\ floor' = [s \in Searches |-> 0]

\* tmp.rename(final), whatever a delete has left of the folder.
WriteSwap(w) ==
  /\ WriteGoto(w, "swap", "clean")
  /\ tmp[w] # Absent
  /\ ~InTheWay(final)
  /\ final' = tmp[w]
  /\ tmp' = [tmp EXCEPT ![w] = Absent]
  /\ IF Whole(tmp[w]) THEN published' = tmp[w].gen /\ UNCHANGED floor ELSE Unpublish
  /\ UNCHANGED <<old, gen, written, local, deleteVars, cache, spc, got, again>>

\* rmtree(old, ignore_errors=True): it may leave some files behind.
WriteClean(w) ==
  /\ wpc[w] = "clean"
  /\ \/ old # Absent /\ old' \in RmStep(old) /\ UNCHANGED writeVars
     \/ WriteEnds({w}) /\ UNCHANGED old
  /\ UNCHANGED <<final, deleteVars, cache, searchVars, published>>

\* A rename in the way, a folder that is gone, a full disk: the temporary folder is removed,
\* what the renames did so far stays.
WriteRaises(w) ==
  /\ wpc[w] \in {"recover", "units", "bm25", "manifest", "clear", "away", "swap"}
  /\ WriteEnds({w})
  /\ UNCHANGED <<dirVars, deleteVars, cache, searchVars, published>>

WriteStep(w) ==
  \/ \E inApi \in BOOLEAN : WriteBegin(w, inApi)
  \/ WriteRecover(w)
  \/ WriteUnits(w)
  \/ WriteBm25(w)
  \/ WriteManifest(w)
  \/ WriteClear(w)
  \/ WriteAway(w)
  \/ WriteSwap(w)
  \/ WriteClean(w)
  \/ WriteRaises(w)

----------------------------------------------------------------------------
(* delete. It takes no lock: rmtree of {case_id}/, of {case_id}.old/ and of every .tmp_ folder of *)
(* the case, one that is being written as well.                                                *)

\* evict
DeleteBegin ==
  /\ dpc = "idle"
  /\ dpc' = "final"
  /\ cache' = Absent
  /\ Unpublish
  /\ UNCHANGED <<dirVars, writeVars, walk, spc, got, again>>

\* The folders that go next.
Targets ==
  CASE dpc = "final" -> {final}
    [] dpc = "old" -> {old}
    [] dpc = "tmp" -> {tmp[w] : w \in Writers}
    [] OTHER -> {}

\* rmtree opens one of them.
DeleteOpen ==
  /\ walk = 0
  /\ \E d \in Targets \ {Absent} : walk' = d.gen
  /\ UNCHANGED <<dirVars, writeVars, dpc, cache, searchVars, published>>

\* It removes a file of the folder it has opened, whatever that is called now.
DeleteFile ==
  /\ \/ /\ final # Absent /\ final.gen = walk
        /\ final' \in Fewer(final)
        /\ Unpublish
        /\ UNCHANGED <<old, tmp>>
     \/ /\ old # Absent /\ old.gen = walk
        /\ old' \in Fewer(old)
        /\ IF final = Absent THEN Unpublish ELSE UNCHANGED <<published, floor>>
        /\ UNCHANGED <<final, tmp>>
     \/ \E w \in Writers :
        /\ tmp[w] # Absent /\ tmp[w].gen = walk
        /\ \E d \in Fewer(tmp[w]) : tmp' = [tmp EXCEPT ![w] = d]
        /\ UNCHANGED <<dirVars, published, floor>>
  /\ UNCHANGED <<gen, written, wpc, local, deleteVars, cache, spc, got, again>>

\* rmdir of what is under the name now; or there was nothing under it.
DeleteFinal ==
  /\ dpc = "final"
  /\ \/ final = Absent /\ walk = 0 /\ UNCHANGED <<final, published, floor>>
     \/ final # Absent /\ final.has = {} /\ walk # 0 /\ final' = Absent /\ Unpublish
  /\ dpc' = "old"
  /\ walk' = 0
  /\ UNCHANGED <<old, writeVars, cache, spc, got, again>>

DeleteOld ==
  /\ dpc = "old"
  /\ \/ old = Absent /\ walk = 0 /\ UNCHANGED old
     \/ old # Absent /\ old.has = {} /\ walk # 0 /\ old' = Absent
  /\ dpc' = "tmp"
  /\ walk' = 0
  /\ UNCHANGED <<final, writeVars, cache, searchVars, published>>

\* One .tmp_ folder after the other, ignoring errors.
DeleteTmp(w) ==
  /\ dpc = "tmp"
  /\ walk # 0
  /\ tmp[w] # Absent /\ tmp[w].has = {}
  /\ tmp' = [tmp EXCEPT ![w] = Absent]
  /\ walk' = 0
  /\ UNCHANGED <<dirVars, gen, written, wpc, local, dpc, cache, searchVars, published>>

DeleteTmpFails ==
  /\ dpc = "tmp"
  /\ walk # 0
  /\ walk' = 0
  /\ UNCHANGED <<dirVars, writeVars, dpc, cache, searchVars, published>>

DeleteEnd ==
  /\ dpc = "tmp"
  /\ walk = 0
  /\ dpc' = "idle"
  /\ UNCHANGED <<dirVars, writeVars, walk, cache, searchVars, published>>

\* The other two do not ignore theirs: a file that resists, another folder under the name.
DeleteRaises ==
  /\ dpc \in {"final", "old"}
  /\ dpc' = "idle"
  /\ walk' = 0
  /\ UNCHANGED <<dirVars, writeVars, cache, searchVars, published>>

DeleteStep ==
  \/ DeleteBegin
  \/ DeleteOpen
  \/ DeleteFile
  \/ DeleteFinal
  \/ DeleteOld
  \/ \E w \in Writers : DeleteTmp(w)
  \/ DeleteTmpFails
  \/ DeleteEnd
  \/ DeleteRaises

----------------------------------------------------------------------------
(* RAGEngine.search: retrieve loads the index, reads its bm25 and dense files when it first *)
(* needs them, and search loads it once more to look up the parts it found.              *)

SearchGoto(s, from, to) ==
  /\ spc[s] = from
  /\ spc' = [spc EXCEPT ![s] = to]

Nothing == [stamp |-> 0, units |-> 0, bm25 |-> 0]

\* The search is over, with an answer or an exception.
SearchEnds(s) ==
  /\ spc' = [spc EXCEPT ![s] = "idle"]
  /\ got' = [got EXCEPT ![s] = Nothing]
  /\ again' = [again EXCEPT ![s] = FALSE]
  /\ floor' = [floor EXCEPT ![s] = 0]

LoadBegin(s) ==
  /\ spc[s] \in {"idle", "reload"}
  /\ spc' = [spc EXCEPT ![s] = IF RecoverPossible THEN "recover" ELSE "stat"]
  /\ again' = [again EXCEPT ![s] = (spc[s] = "reload")]
  /\ floor' = [floor EXCEPT ![s] = published]
  /\ UNCHANGED <<dirVars, writeVars, deleteVars, cache, got, published>>

LoadRecover(s) ==
  /\ SearchGoto(s, "recover", "stat")
  /\ RecoverRename
  /\ UNCHANGED <<writeVars, deleteVars, cache, got, again, floor, published>>

HitAnyStamp == cache # Absent

\* The mtime of the manifest, then the cache.
Hit == cache # Absent /\ cache.stamp = FileOf(final, "manifest")

LoadStatUnchecked(s) ==
  /\ final # Absent
  /\ SearchGoto(s, "stat", IF Hit THEN "loaded" ELSE "units")
  /\ got' = [got EXCEPT ![s] =
       [stamp |-> FileOf(final, "manifest"), units |-> IF Hit THEN cache.units ELSE 0,
        bm25 |-> IF again[s] THEN @.bm25 ELSE IF Hit THEN cache.bm25 ELSE 0]]
  /\ UNCHANGED <<dirVars, writeVars, deleteVars, cache, again, floor, published>>

LoadStat(s) ==
  /\ FileOf(final, "manifest") # NoFile
  /\ SearchGoto(s, "stat", IF Hit THEN "loaded" ELSE "units")
  /\ got' = [got EXCEPT ![s] =
       [stamp |-> FileOf(final, "manifest"), units |-> IF Hit THEN cache.units ELSE 0,
        bm25 |-> IF again[s] THEN @.bm25 ELSE IF Hit THEN cache.bm25 ELSE 0]]
  /\ UNCHANGED <<dirVars, writeVars, deleteVars, cache, again, floor, published>>

\* units.jsonl, opened by its path.
LoadUnits(s) ==
  /\ SearchGoto(s, "units", "keep")
  /\ FileOf(final, "units") # NoFile
  /\ got' = [got EXCEPT ![s].units = FileOf(final, "units")]
  /\ UNCHANGED <<dirVars, writeVars, deleteVars, cache, again, floor, published>>

LoadKeepLateStamp(s) ==
  /\ SearchGoto(s, "keep", "loaded")
  /\ cache' = [stamp |-> IF FileOf(final, "manifest") = NoFile THEN got[s].stamp ELSE FileOf(final, "manifest"),
               units |-> got[s].units, bm25 |-> 0]
  /\ UNCHANGED <<dirVars, writeVars, deleteVars, got, again, floor, published>>

\* The stamp is the one from before the files were read.
LoadKeep(s) ==
  /\ SearchGoto(s, "keep", "loaded")
  /\ cache' = [stamp |-> got[s].stamp, units |-> got[s].units, bm25 |-> 0]
  /\ UNCHANGED <<dirVars, writeVars, deleteVars, got, again, floor, published>>

\* bm25() and dense(): read by path on first use, and kept in the object. The object in the cache
\* may be the same one or another that is equal.
ReadLate(s) ==
  /\ SearchGoto(s, "loaded", "reload")
  /\ ~again[s]
  /\ IF got[s].bm25 # 0 THEN UNCHANGED <<got, cache>>
       ELSE /\ FileOf(final, "bm25") # NoFile
            /\ got' = [got EXCEPT ![s].bm25 = FileOf(final, "bm25")]
            /\ cache' \in IF cache = got[s] THEN {got'[s], cache} ELSE {cache}
  /\ UNCHANGED <<dirVars, writeVars, deleteVars, again, floor, published>>

\* idx.part of each hit.
LookUpParts(s) ==
  /\ spc[s] = "loaded"
  /\ again[s]
  /\ SearchEnds(s)
  /\ UNCHANGED <<dirVars, writeVars, deleteVars, cache, published>>

\* IndexNotFoundError, or an exception of a rename or an open that came too late.
SearchRaises(s) ==
  /\ \/ spc[s] = "recover" /\ (old = Absent \/ InTheWay(final))
     \/ spc[s] = "stat" /\ FileOf(final, "manifest") = NoFile
     \/ spc[s] = "units" /\ FileOf(final, "units") = NoFile
     \/ /\ spc[s] = "loaded" /\ ~again[s] /\ got[s].bm25 = 0
        /\ FileOf(final, "bm25") = NoFile
  /\ SearchEnds(s)
  /\ UNCHANGED <<dirVars, writeVars, deleteVars, cache, published>>

SearchStep(s) ==
  \/ LoadBegin(s)
  \/ LoadRecover(s)
  \/ LoadStat(s)
  \/ LoadUnits(s)
  \/ LoadKeep(s)
  \/ ReadLate(s)
  \/ LookUpParts(s)
  \/ SearchRaises(s)

----------------------------------------------------------------------------
(* Crashes. The folders stay as they are. *)

ApiCrash ==
  /\ WriteEnds({w \in Writers : local[w]})
  /\ dpc' = "idle"
  /\ walk' = 0
  /\ cache' = Absent
  /\ spc' = [s \in Searches |-> "idle"]
  /\ got' = [s \in Searches |-> Nothing]
  /\ again' = [s \in Searches |-> FALSE]
  /\ floor' = [s \in Searches |-> 0]
  /\ UNCHANGED <<dirVars, published>>

CliCrash(w) ==
  /\ Writing(w)
  /\ ~local[w]
  /\ WriteEnds({w})
  /\ UNCHANGED <<dirVars, deleteVars, cache, searchVars, published>>

----------------------------------------------------------------------------
Init ==
  /\ final = Absent
  /\ old = Absent
  /\ tmp = [w \in Writers |-> Absent]
  /\ gen = [w \in Writers |-> 0]
  /\ written = 0
  /\ wpc = [w \in Writers |-> "idle"]
  /\ local = [w \in Writers |-> FALSE]
  /\ dpc = "idle"
  /\ walk = 0
  /\ cache = Absent
  /\ spc = [s \in Searches |-> "idle"]
  /\ got = [s \in Searches |-> Nothing]
  /\ again = [s \in Searches |-> FALSE]
  /\ published = 0
  /\ floor = [s \in Searches |-> 0]

Next ==
  \/ \E w \in Writers : WriteStep(w) \/ CliCrash(w)
  \/ DeleteStep
  \/ \E s \in Searches : SearchStep(s)
  \/ ApiCrash

Spec == Init /\ [][Next]_vars

----------------------------------------------------------------------------
(* Properties. *)

FolderType == [gen : Gens, has : SUBSET Files] \cup {Absent}

TypeOK ==
  /\ final \in FolderType
  /\ old \in FolderType
  /\ tmp \in [Writers -> FolderType]
  /\ gen \in [Writers -> Gens \cup {0}]
  /\ written \in 0..MaxGen
  /\ wpc \in [Writers -> {"idle", "recover", "units", "bm25", "manifest", "clear", "away", "swap",
                           "clean"}]
  /\ local \in [Writers -> BOOLEAN]
  /\ dpc \in {"idle", "final", "old", "tmp"}
  /\ walk \in Gens \cup {0}
  /\ cache \in [stamp : Gens, units : Gens, bm25 : Gens \cup {0}] \cup {Absent}
  /\ spc \in [Searches -> {"idle", "reload", "recover", "stat", "units", "keep", "loaded"}]
  /\ got \in [Searches -> [stamp : Gens \cup {0}, units : Gens \cup {0}, bm25 : Gens \cup {0}]]
  /\ again \in [Searches -> BOOLEAN]
  /\ published \in Gens \cup {0}
  /\ floor \in [Searches -> Gens \cup {0}]

\* Whatever crashed or raised in the middle of a swap, and whoever ran _recover meanwhile, the
\* index a load would find is the one published last, and all of it: a write never loses the
\* index it was to replace, and a recovery never brings back an older one. The exception is what
\* a delete takes away: an index is not published any more once a delete was requested or has
\* removed a file of it, and a folder a delete has removed a file of while it was being written is
\* not published by its swap (SwapIsWhole says what becomes of that).
Current ==
  IF final # Absent THEN final ELSE old

Recoverable ==
  published # 0 => Current = Folder(published)

\* A load never returns an index older than the one published when it began, from the cache or
\* from disk: the mtime test makes up for evict, which reaches one process only and comes before
\* the swap.
NotStale ==
  \A s \in Searches : spc[s] = "loaded" => got[s].units >= floor[s]

\* A CaseIndex put together from two indexes (its parts of one, its matrices of the next) serves
\* the search that made it and no other: the cache never hands it out again, unless a delete
\* that was broken off lets _recover bring back an older folder.
Mixed(i) == i.units # i.stamp \/ i.bm25 \notin {0, i.units}

MixIsTransient ==
  published # 0 /\ Hit => ~Mixed(cache)

(* What the code does not keep. *)

\* write_index replaces a case index atomically, and no half-written one is left: a delete that meets
\* its temporary folder removes files of it, and what remains is swapped in.
SwapIsWhole ==
  [][\A w \in Writers : WriteSwap(w) => Whole(final')]_vars

\* The rows of the matrices are the rows of units.jsonl: a search ranks and looks up its parts in
\* one index.
SearchOneIndex ==
  \A s \in Searches :
    spc[s] \in {"loaded", "reload"} /\ got[s].bm25 # 0 => got[s].bm25 = got[s].units
=============================================================================
