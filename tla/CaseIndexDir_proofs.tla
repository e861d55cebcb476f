------------------------- MODULE CaseIndexDir_proofs -------------------------
(***************************************************************************)
(* Proofs about CaseIndexDir: as long as writes do not overlap, for any    *)
(* number of writers, searches, deletes and crashes, the index published   *)
(* last can be loaded, a load is never older than the index published when *)
(* it began, and the cache does not hand out a mixed index.                *)
(*                                                                         *)
(* Generations only grow, so what the proofs need is where an older one    *)
(* can still be: Settled says when .old is not needed, Fresh that a new    *)
(* generation is in no folder, cache or search yet, ToldApart that what    *)
(* was read under the stamp of the published index is that index.          *)
(***************************************************************************)
EXTENDS CaseIndexDir, TLAPS

\* What _write_lock gives within a process, and nobody between two.
NoOverlap == \A v, w \in Writers : Writing(v) /\ Writing(w) => v = w

----------------------------------------------------------------------------
(* The inductive invariant. *)

\* A writer past _recover removes .old only when the published index is in its place.
Settled ==
  \A w \in Writers :
    wpc[w] \in {"units", "bm25", "manifest", "clear", "away", "clean"} /\ published # 0 =>
      final # Absent

\* No generation above n is published, on disk, or the stamp of what was loaded.
Known(n) ==
  /\ published <= n
  /\ final # Absent => final.gen <= n
  /\ old # Absent => old.gen <= n
  /\ cache # Absent => cache.stamp <= n
  /\ \A s \in Searches : got[s].stamp <= n

Building == {"bm25", "manifest", "clear", "away", "swap"}

\* The generation in a temporary folder is the newest, and nobody has seen it.
Fresh ==
  /\ Known(written)
  /\ \A w \in Writers :
       /\ tmp[w] # Absent => wpc[w] \in Building /\ tmp[w].gen = gen[w]
       /\ wpc[w] \in Building => gen[w] = written /\ Known(written - 1)

\* Until a delete, the published index is not older than when a load began.
FloorKept ==
  \A s \in Searches : floor[s] # 0 => published # 0 /\ floor[s] <= published

\* What was read under the stamp of the published index is the published index.
ToldApart ==
  published # 0 =>
    /\ cache # Absent /\ cache.stamp = published
         => cache.units = published /\ cache.bm25 \in {0, published}
    /\ \A s \in Searches :
         spc[s] = "keep" /\ got[s].stamp = published => got[s].units = published

LoadedNotStale ==
  \A s \in Searches : spc[s] \in {"keep", "loaded"} => got[s].units >= floor[s]

\* A search holds the stamp and then the parts of some index, a writer the generation of its folder.
Held ==
  /\ \A s \in Searches :
       /\ spc[s] \in {"units", "keep", "loaded"} => got[s].stamp \in Gens
       /\ spc[s] \in {"keep", "loaded"} => got[s].units \in Gens
  /\ \A w \in Writers : wpc[w] = "bm25" => gen[w] \in Gens

IInv ==
  /\ TypeOK
  /\ Held
  /\ Recoverable
  /\ Settled
  /\ Fresh
  /\ FloorKept
  /\ ToldApart
  /\ LoadedNotStale

----------------------------------------------------------------------------
(* Folders. *)

\* A whole folder of a generation is a folder that rename does not overwrite.
LEMMA FolderFacts ==
  ASSUME NEW g \in Gens
  PROVE  /\ Folder(g) \in FolderType
         /\ Folder(g) # Absent
         /\ InTheWay(Folder(g))
         /\ Folder(g).gen = g
         /\ \A f \in Files : FileOf(Folder(g), f) = g
<1>1. Folder(g) \in [gen : Gens, has : SUBSET Files] /\ Folder(g).gen = g /\ Folder(g).has = Files
  BY DEF Folder
<1>2. Folder(g) # Absent
  BY <1>1, AbsentAssumption
<1>3. Files # {}
  BY DEF Files
<1> QED
  BY <1>1, <1>2, <1>3 DEF FolderType, InTheWay, FileOf

\* A folder with all of its files is the whole folder of its generation.
LEMMA WholeFacts ==
  ASSUME NEW d \in FolderType, Whole(d)
  PROVE  d.gen \in Gens /\ d = Folder(d.gen)
BY DEF FolderType, Whole, Folder

\* A file that is there is of the generation of its folder.
LEMMA FileFacts ==
  ASSUME NEW d \in FolderType, NEW f
  PROVE  /\ FileOf(d, f) \in Gens \cup {0}
         /\ FileOf(d, f) # NoFile => d # Absent /\ d.gen \in Gens /\ FileOf(d, f) = d.gen
BY DEF FolderType, FileOf, NoFile

\* A folder that lost a file is a folder of its generation still.
LEMMA FewerFacts ==
  ASSUME NEW d \in FolderType, d # Absent, NEW e \in Fewer(d)
  PROVE  e \in FolderType /\ e # Absent /\ e.gen = d.gen
<1>1. PICK f \in d.has : e = [d EXCEPT !.has = @ \ {f}]
  BY DEF Fewer
<1>2. e \in [gen : Gens, has : SUBSET Files] /\ e.gen = d.gen
  BY <1>1 DEF FolderType
<1> QED
  BY <1>2, AbsentAssumption DEF FolderType

LEMMA AbsentFacts == Absent \in FolderType
BY DEF FolderType

\* The end of a write leaves its variables typed.
LEMMA EndsTyped ==
  ASSUME TypeOK, NEW dead, WriteEnds(dead)
  PROVE  /\ wpc' \in [Writers -> {"idle", "recover", "units", "bm25", "manifest", "clear", "away",
                                  "swap", "clean"}]
         /\ tmp' \in [Writers -> FolderType]
         /\ gen' \in [Writers -> Gens \cup {0}]
         /\ local' \in [Writers -> BOOLEAN]
         /\ written' \in 0..MaxGen
<1>1. /\ wpc' \in [Writers -> {"idle", "recover", "units", "bm25", "manifest", "clear", "away",
                               "swap", "clean"}]
      /\ gen' \in [Writers -> Gens \cup {0}]
      /\ written' \in 0..MaxGen
  BY DEF WriteEnds, TypeOK
<1>2. tmp' \in [Writers -> FolderType]
  BY AbsentFacts DEF WriteEnds, TypeOK
<1>3. local' \in [Writers -> BOOLEAN]
  BY DEF WriteEnds, TypeOK
<1> QED
  BY <1>1, <1>2, <1>3

\* rmtree takes files away and then the folder.
LEMMA RmStepFacts ==
  ASSUME NEW d \in FolderType, d # Absent, NEW e \in RmStep(d)
  PROVE  /\ e \in FolderType
         /\ e # Absent => e.gen = d.gen
BY FewerFacts DEF RmStep, FolderType

\* What ReadLate does to the index a search holds, and perhaps to the one in the cache.
LateRead(s, b) ==
  /\ got' = [got EXCEPT ![s].bm25 = b]
  /\ cache' = cache \/ (cache = got[s] /\ cache' = got'[s])

LEMMA LateFacts ==
  ASSUME TypeOK, NEW s \in Searches, ReadLate(s)
  PROVE  \E b \in Gens \cup {0} : LateRead(s, b)
<1>1. CASE got[s].bm25 # 0
  <2>1. got' = [got EXCEPT ![s].bm25 = got[s].bm25] /\ cache' = cache
    BY <1>1 DEF ReadLate, TypeOK
  <2> QED
    BY <2>1 DEF LateRead, TypeOK
<1>2. CASE got[s].bm25 = 0
  <2>1. FileOf(final, "bm25") \in Gens \cup {0}
    BY FileFacts DEF TypeOK
  <2> QED
    BY <1>2, <2>1 DEF ReadLate, LateRead
<1> QED
  BY <1>1, <1>2

----------------------------------------------------------------------------
(* One lemma per conjunct. *)

\* Every action leaves every variable in its type.
LEMMA TypeStep ==
  ASSUME TypeOK, Held, [Next]_vars
  PROVE  TypeOK'
<1>1. ASSUME NEW w \in Writers, NEW inApi \in BOOLEAN, WriteBegin(w, inApi) PROVE TypeOK'
  BY <1>1 DEF WriteBegin, deleteVars, WriteGoto, Writing, RecoverPossible, dirVars, searchVars,
     TypeOK
<1>2. ASSUME NEW w \in Writers, WriteRecover(w) PROVE TypeOK'
  BY <1>2 DEF WriteRecover, deleteVars, WriteGoto, RecoverRename, searchVars, FolderType, TypeOK
<1>3. ASSUME NEW w \in Writers, WriteUnits(w) PROVE TypeOK'
  <2>1. written + 1 \in Gens /\ written' \in 0..MaxGen
    BY <1>3, BoundAssumption DEF WriteUnits, Gens, TypeOK
  <2>2. tmp' \in [Writers -> FolderType]
    BY <1>3, <2>1 DEF WriteUnits, TypeOK, FolderType, Files
  <2> QED
    BY <1>3, <2>1, <2>2 DEF WriteUnits, WriteGoto, deleteVars, dirVars, searchVars, TypeOK
<1>4. ASSUME NEW w \in Writers, WriteBm25(w) PROVE TypeOK'
  <2>1. gen[w] \in Gens
    BY <1>4, Held DEF WriteBm25, WriteGoto, Held
  <2>2. tmp' \in [Writers -> FolderType]
    BY <1>4, <2>1 DEF WriteBm25, TypeOK, FolderType, Files
  <2> QED
    BY <1>4, <2>2 DEF WriteBm25, WriteGoto, deleteVars, dirVars, searchVars, TypeOK
<1>5. ASSUME NEW w \in Writers, WriteManifest(w) PROVE TypeOK'
  <2>1. tmp[w] \in [gen : Gens, has : SUBSET Files]
    BY <1>5 DEF WriteManifest, TypeOK, FolderType
  <2>2. tmp' \in [Writers -> FolderType]
    BY <1>5, <2>1 DEF WriteManifest, TypeOK, FolderType, Files
  <2> QED
    BY <1>5, <2>2 DEF WriteManifest, WriteGoto, deleteVars, dirVars, searchVars, TypeOK
<1>6. ASSUME NEW w \in Writers, WriteClear(w) PROVE TypeOK'
  BY <1>6, RmStepFacts DEF WriteClear, deleteVars, WriteGoto, searchVars, TypeOK
<1>7. ASSUME NEW w \in Writers, WriteAway(w) PROVE TypeOK'
  BY <1>7 DEF WriteAway, deleteVars, WriteGoto, dirVars, searchVars, FolderType, TypeOK
<1>8. ASSUME NEW w \in Writers, WriteSwap(w) PROVE TypeOK'
  BY <1>8, WholeFacts, AbsentFacts DEF WriteSwap, deleteVars, Unpublish, WriteGoto, TypeOK
<1>9. ASSUME NEW w \in Writers, WriteClean(w) PROVE TypeOK'
  BY <1>9, RmStepFacts, EndsTyped DEF WriteClean, deleteVars, writeVars, searchVars, TypeOK
<1>10. ASSUME NEW w \in Writers, WriteRaises(w) PROVE TypeOK'
  BY <1>10, EndsTyped DEF WriteRaises, deleteVars, dirVars, searchVars, TypeOK
<1>11. ASSUME NEW w \in Writers, CliCrash(w) PROVE TypeOK'
  BY <1>11, EndsTyped DEF CliCrash, deleteVars, dirVars, searchVars, TypeOK
<1>12. CASE DeleteBegin
  BY <1>12 DEF DeleteBegin, Unpublish, dirVars, writeVars, TypeOK
<1>13. CASE DeleteOpen
  BY <1>13 DEF DeleteOpen, Targets, FolderType, dirVars, writeVars, TypeOK, searchVars
<1>14. CASE DeleteFile
  BY <1>14, FewerFacts DEF DeleteFile, deleteVars, Unpublish, dirVars, writeVars, TypeOK
<1>15. CASE DeleteFinal
  BY <1>15, AbsentFacts DEF DeleteFinal, Unpublish, writeVars, TypeOK
<1>16. CASE DeleteOld
  BY <1>16, AbsentFacts DEF DeleteOld, searchVars, writeVars, TypeOK
<1>17. ASSUME NEW w \in Writers, DeleteTmp(w) PROVE TypeOK'
  BY <1>17, AbsentFacts DEF DeleteTmp, dirVars, searchVars, TypeOK
<1>18. CASE DeleteTmpFails
  BY <1>18 DEF DeleteTmpFails, writeVars, dirVars, searchVars, TypeOK
<1>19. CASE DeleteEnd
  BY <1>19 DEF DeleteEnd, writeVars, dirVars, searchVars, TypeOK
<1>20. CASE DeleteRaises
  BY <1>20 DEF DeleteRaises, deleteVars, dirVars, writeVars, searchVars, TypeOK
<1>21. ASSUME NEW s \in Searches, LoadBegin(s) PROVE TypeOK'
  BY <1>21 DEF LoadBegin, deleteVars, RecoverPossible, dirVars, writeVars, TypeOK
<1>22. ASSUME NEW s \in Searches, LoadRecover(s) PROVE TypeOK'
  BY <1>22 DEF LoadRecover, deleteVars, SearchGoto, RecoverRename, writeVars, FolderType, TypeOK
<1>23. ASSUME NEW s \in Searches, LoadStat(s) PROVE TypeOK'
  BY <1>23 DEF LoadStat, deleteVars, FileOf, SearchGoto, Hit, dirVars, writeVars, FolderType, Files,
     NoFile, TypeOK
<1>24. ASSUME NEW s \in Searches, LoadUnits(s) PROVE TypeOK'
  BY <1>24 DEF LoadUnits, deleteVars, FileOf, SearchGoto, dirVars, writeVars, FolderType, Files,
     NoFile, TypeOK
<1>25. ASSUME NEW s \in Searches, LoadKeep(s) PROVE TypeOK'
  BY <1>25, Held DEF LoadKeep, deleteVars, SearchGoto, dirVars, writeVars, Held, TypeOK
<1>26. ASSUME NEW s \in Searches, ReadLate(s) PROVE TypeOK'
  <2>1. PICK b \in Gens \cup {0} : LateRead(s, b)
    BY <1>26, LateFacts
  <2>2. got' \in [Searches -> [stamp : Gens \cup {0}, units : Gens \cup {0}, bm25 : Gens \cup {0}]]
    BY <2>1 DEF LateRead, TypeOK
  <2>3. cache' \in [stamp : Gens, units : Gens, bm25 : Gens \cup {0}] \cup {Absent}
    BY <2>1, Held, <1>26 DEF LateRead, ReadLate, SearchGoto, TypeOK, Held
  <2> QED
    BY <1>26, <2>2, <2>3 DEF ReadLate, deleteVars, SearchGoto, dirVars, writeVars, TypeOK
<1>27. ASSUME NEW s \in Searches, LookUpParts(s) PROVE TypeOK'
  BY <1>27 DEF LookUpParts, deleteVars, SearchEnds, Nothing, dirVars, writeVars, TypeOK
<1>28. ASSUME NEW s \in Searches, SearchRaises(s) PROVE TypeOK'
  BY <1>28 DEF SearchRaises, deleteVars, SearchEnds, FileOf, Nothing, dirVars, writeVars, TypeOK
<1>29. CASE ApiCrash
  BY <1>29, EndsTyped DEF ApiCrash, Nothing, dirVars, TypeOK
<1>30. CASE UNCHANGED vars
  BY <1>30 DEF vars, deleteVars, dirVars, writeVars, searchVars, TypeOK
<1> QED
  BY <1>1, <1>2, <1>3, <1>4, <1>5, <1>6, <1>7, <1>8, <1>9, <1>10, <1>11, <1>12, <1>13, <1>14,
     <1>15, <1>16, <1>17, <1>18, <1>19, <1>20, <1>21, <1>22, <1>23, <1>24, <1>25, <1>26, <1>27,
     <1>28, <1>29, <1>30 DEF Next, WriteStep, DeleteStep, SearchStep

\* What a search and a writer hold stays typed: stamp and parts are set when they are read, the
\* generation when the folder is made.
LEMMA HeldStep ==
  ASSUME TypeOK, Held, [Next]_vars
  PROVE  Held'
<1>1. ASSUME NEW w \in Writers, NEW inApi \in BOOLEAN, WriteBegin(w, inApi) PROVE Held'
  BY <1>1 DEF WriteBegin, deleteVars, WriteGoto, Writing, RecoverPossible, dirVars, searchVars,
     TypeOK, Held
<1>2. ASSUME NEW w \in Writers, WriteRecover(w) PROVE Held'
  BY <1>2 DEF WriteRecover, deleteVars, WriteGoto, RecoverRename, searchVars, TypeOK, Held
<1>3. ASSUME NEW w \in Writers, WriteUnits(w) PROVE Held'
  BY <1>3, BoundAssumption DEF WriteUnits, WriteGoto, deleteVars, dirVars, searchVars, Gens, TypeOK,
     Held
<1>4. ASSUME NEW w \in Writers, WriteBm25(w) PROVE Held'
  BY <1>4 DEF WriteBm25, WriteGoto, deleteVars, dirVars, searchVars, TypeOK, Held
<1>5. ASSUME NEW w \in Writers, WriteManifest(w) PROVE Held'
  BY <1>5 DEF WriteManifest, WriteGoto, deleteVars, dirVars, searchVars, TypeOK, Held
<1>6. ASSUME NEW w \in Writers, WriteClear(w) PROVE Held'
  BY <1>6 DEF WriteClear, deleteVars, WriteGoto, searchVars, TypeOK, Held
<1>7. ASSUME NEW w \in Writers, WriteAway(w) PROVE Held'
  BY <1>7 DEF WriteAway, deleteVars, WriteGoto, dirVars, searchVars, TypeOK, Held
<1>8. ASSUME NEW w \in Writers, WriteSwap(w) PROVE Held'
  BY <1>8 DEF WriteSwap, deleteVars, Unpublish, Whole, WriteGoto, searchVars, TypeOK, Held
<1>9. ASSUME NEW w \in Writers, WriteClean(w) PROVE Held'
  BY <1>9 DEF WriteClean, deleteVars, writeVars, WriteEnds, searchVars, TypeOK, Held
<1>10. ASSUME NEW w \in Writers, WriteRaises(w) PROVE Held'
  BY <1>10 DEF WriteRaises, deleteVars, WriteEnds, dirVars, searchVars, TypeOK, Held
<1>11. ASSUME NEW w \in Writers, CliCrash(w) PROVE Held'
  BY <1>11 DEF CliCrash, deleteVars, WriteEnds, Writing, dirVars, searchVars, TypeOK, Held
<1>12. CASE DeleteBegin
  BY <1>12 DEF DeleteBegin, Unpublish, dirVars, writeVars, TypeOK, Held
<1>13. CASE DeleteOpen
  BY <1>13 DEF DeleteOpen, Targets, FolderType, dirVars, writeVars, TypeOK, Held, searchVars
<1>14. CASE DeleteFile
  BY <1>14, FewerFacts DEF DeleteFile, deleteVars, Unpublish, dirVars, writeVars, TypeOK, Held
<1>15. CASE DeleteFinal
  BY <1>15 DEF DeleteFinal, Unpublish, writeVars, TypeOK, Held
<1>16. CASE DeleteOld
  BY <1>16 DEF DeleteOld, searchVars, writeVars, TypeOK, Held
<1>17. ASSUME NEW w \in Writers, DeleteTmp(w) PROVE Held'
  BY <1>17 DEF DeleteTmp, dirVars, searchVars, TypeOK, Held
<1>18. CASE DeleteTmpFails
  BY <1>18 DEF DeleteTmpFails, writeVars, dirVars, searchVars, TypeOK, Held
<1>19. CASE DeleteEnd
  BY <1>19 DEF DeleteEnd, writeVars, dirVars, searchVars, TypeOK, Held
<1>20. CASE DeleteRaises
  BY <1>20 DEF DeleteRaises, deleteVars, dirVars, writeVars, searchVars, TypeOK, Held
<1>21. ASSUME NEW s \in Searches, LoadBegin(s) PROVE Held'
  BY <1>21 DEF LoadBegin, deleteVars, RecoverPossible, dirVars, writeVars, TypeOK, Held
<1>22. ASSUME NEW s \in Searches, LoadRecover(s) PROVE Held'
  BY <1>22 DEF LoadRecover, deleteVars, SearchGoto, RecoverRename, writeVars, TypeOK, Held
<1>23. ASSUME NEW s \in Searches, LoadStat(s) PROVE Held'
  BY <1>23 DEF LoadStat, deleteVars, FileOf, SearchGoto, Hit, dirVars, writeVars, FolderType, Files,
     NoFile, TypeOK, Held
<1>24. ASSUME NEW s \in Searches, LoadUnits(s) PROVE Held'
  BY <1>24 DEF LoadUnits, deleteVars, FileOf, SearchGoto, dirVars, writeVars, FolderType, Files,
     NoFile, TypeOK, Held
<1>25. ASSUME NEW s \in Searches, LoadKeep(s) PROVE Held'
  BY <1>25 DEF LoadKeep, deleteVars, SearchGoto, dirVars, writeVars, TypeOK, Held
<1>26. ASSUME NEW s \in Searches, ReadLate(s) PROVE Held'
  BY <1>26 DEF ReadLate, deleteVars, FileOf, SearchGoto, dirVars, writeVars, TypeOK, Held
<1>27. ASSUME NEW s \in Searches, LookUpParts(s) PROVE Held'
  BY <1>27 DEF LookUpParts, deleteVars, SearchEnds, Nothing, dirVars, writeVars, TypeOK, Held
<1>28. ASSUME NEW s \in Searches, SearchRaises(s) PROVE Held'
  BY <1>28 DEF SearchRaises, deleteVars, SearchEnds, FileOf, Nothing, dirVars, writeVars, TypeOK,
     Held
<1>29. CASE ApiCrash
  BY <1>29 DEF ApiCrash, WriteEnds, Nothing, dirVars, TypeOK, Held
<1>30. CASE UNCHANGED vars
  BY <1>30 DEF vars, deleteVars, dirVars, writeVars, searchVars, TypeOK, Held
<1> QED
  BY <1>1, <1>2, <1>3, <1>4, <1>5, <1>6, <1>7, <1>8, <1>9, <1>10, <1>11, <1>12, <1>13, <1>14,
     <1>15, <1>16, <1>17, <1>18, <1>19, <1>20, <1>21, <1>22, <1>23, <1>24, <1>25, <1>26, <1>27,
     <1>28, <1>29, <1>30 DEF Next, WriteStep, DeleteStep, SearchStep

\* A load finds the published index, whatever is under way.
LEMMA RecoverableStep ==
  ASSUME TypeOK, Recoverable, Settled, [Next]_vars
  PROVE  Recoverable'
<1>1. ASSUME NEW w \in Writers, NEW inApi \in BOOLEAN, WriteBegin(w, inApi) PROVE Recoverable'
  BY <1>1 DEF WriteBegin, deleteVars, WriteGoto, Writing, RecoverPossible, dirVars, searchVars,
     TypeOK, Recoverable, Current
<1>2. ASSUME NEW w \in Writers, WriteRecover(w) PROVE Recoverable'
  BY <1>2, FolderFacts DEF WriteRecover, deleteVars, WriteGoto, RecoverRename, searchVars, TypeOK,
     Recoverable, Current
<1>3. ASSUME NEW w \in Writers, WriteUnits(w) PROVE Recoverable'
  BY <1>3 DEF WriteUnits, WriteGoto, deleteVars, dirVars, searchVars, TypeOK, Recoverable, Current
<1>4. ASSUME NEW w \in Writers, WriteBm25(w) PROVE Recoverable'
  BY <1>4 DEF WriteBm25, WriteGoto, deleteVars, dirVars, searchVars, TypeOK, Recoverable, Current
<1>5. ASSUME NEW w \in Writers, WriteManifest(w) PROVE Recoverable'
  BY <1>5 DEF WriteManifest, WriteGoto, deleteVars, dirVars, searchVars, TypeOK, Recoverable,
     Current
<1>6. ASSUME NEW w \in Writers, WriteClear(w) PROVE Recoverable'
  BY <1>6, RmStepFacts DEF WriteClear, deleteVars, WriteGoto, searchVars, Settled, TypeOK,
     Recoverable, Current
<1>7. ASSUME NEW w \in Writers, WriteAway(w) PROVE Recoverable'
  BY <1>7 DEF WriteAway, deleteVars, WriteGoto, dirVars, searchVars, Settled, TypeOK, Recoverable,
     Current
<1>8. ASSUME NEW w \in Writers, WriteSwap(w) PROVE Recoverable'
  BY <1>8, WholeFacts, FolderFacts DEF WriteSwap, deleteVars, Unpublish, WriteGoto, TypeOK,
     Recoverable, Current
<1>9. ASSUME NEW w \in Writers, WriteClean(w) PROVE Recoverable'
  BY <1>9, RmStepFacts DEF WriteClean, deleteVars, writeVars, WriteEnds, searchVars, Settled,
     TypeOK, Recoverable, Current
<1>10. ASSUME NEW w \in Writers, WriteRaises(w) PROVE Recoverable'
  BY <1>10 DEF WriteRaises, deleteVars, WriteEnds, dirVars, searchVars, TypeOK, Recoverable, Current
<1>11. ASSUME NEW w \in Writers, CliCrash(w) PROVE Recoverable'
  BY <1>11 DEF CliCrash, deleteVars, WriteEnds, Writing, dirVars, searchVars, TypeOK, Recoverable,
     Current
<1>12. CASE DeleteBegin
  BY <1>12 DEF DeleteBegin, Unpublish, dirVars, writeVars, TypeOK, Recoverable, Current
<1>13. CASE DeleteOpen
  BY <1>13 DEF DeleteOpen, Targets, FolderType, dirVars, writeVars, TypeOK, Recoverable, Current,
     searchVars
<1>14. CASE DeleteFile
  BY <1>14, FewerFacts DEF DeleteFile, deleteVars, Unpublish, dirVars, writeVars, TypeOK,
     Recoverable, Current
<1>15. CASE DeleteFinal
  BY <1>15 DEF DeleteFinal, Unpublish, writeVars, TypeOK, Recoverable, Current
<1>16. CASE DeleteOld
  BY <1>16, FolderFacts DEF DeleteOld, searchVars, writeVars, InTheWay, TypeOK, Recoverable, Current
<1>17. ASSUME NEW w \in Writers, DeleteTmp(w) PROVE Recoverable'
  BY <1>17 DEF DeleteTmp, dirVars, searchVars, TypeOK, Recoverable, Current
<1>18. CASE DeleteTmpFails
  BY <1>18 DEF DeleteTmpFails, writeVars, dirVars, searchVars, TypeOK, Recoverable, Current
<1>19. CASE DeleteEnd
  BY <1>19 DEF DeleteEnd, writeVars, dirVars, searchVars, TypeOK, Recoverable, Current
<1>20. CASE DeleteRaises
  BY <1>20 DEF DeleteRaises, deleteVars, dirVars, writeVars, searchVars, TypeOK, Recoverable,
     Current
<1>21. ASSUME NEW s \in Searches, LoadBegin(s) PROVE Recoverable'
  BY <1>21 DEF LoadBegin, deleteVars, RecoverPossible, dirVars, writeVars, TypeOK, Recoverable,
     Current
<1>22. ASSUME NEW s \in Searches, LoadRecover(s) PROVE Recoverable'
  BY <1>22, FolderFacts DEF LoadRecover, deleteVars, SearchGoto, RecoverRename, writeVars, TypeOK,
     Recoverable, Current
<1>23. ASSUME NEW s \in Searches, LoadStat(s) PROVE Recoverable'
  BY <1>23 DEF LoadStat, deleteVars, FileOf, SearchGoto, Hit, dirVars, writeVars, TypeOK,
     Recoverable, Current
<1>24. ASSUME NEW s \in Searches, LoadUnits(s) PROVE Recoverable'
  BY <1>24 DEF LoadUnits, deleteVars, FileOf, SearchGoto, dirVars, writeVars, TypeOK, Recoverable,
     Current
<1>25. ASSUME NEW s \in Searches, LoadKeep(s) PROVE Recoverable'
  BY <1>25 DEF LoadKeep, deleteVars, SearchGoto, dirVars, writeVars, TypeOK, Recoverable, Current
<1>26. ASSUME NEW s \in Searches, ReadLate(s) PROVE Recoverable'
  BY <1>26 DEF ReadLate, deleteVars, FileOf, SearchGoto, dirVars, writeVars, TypeOK, Recoverable,
     Current
<1>27. ASSUME NEW s \in Searches, LookUpParts(s) PROVE Recoverable'
  BY <1>27 DEF LookUpParts, deleteVars, SearchEnds, Nothing, dirVars, writeVars, TypeOK,
     Recoverable, Current
<1>28. ASSUME NEW s \in Searches, SearchRaises(s) PROVE Recoverable'
  BY <1>28 DEF SearchRaises, deleteVars, SearchEnds, FileOf, Nothing, dirVars, writeVars, TypeOK,
     Recoverable, Current
<1>29. CASE ApiCrash
  BY <1>29 DEF ApiCrash, WriteEnds, Nothing, dirVars, TypeOK, Recoverable, Current
<1>30. CASE UNCHANGED vars
  BY <1>30 DEF vars, deleteVars, dirVars, writeVars, searchVars, TypeOK, Recoverable, Current
<1> QED
  BY <1>1, <1>2, <1>3, <1>4, <1>5, <1>6, <1>7, <1>8, <1>9, <1>10, <1>11, <1>12, <1>13, <1>14,
     <1>15, <1>16, <1>17, <1>18, <1>19, <1>20, <1>21, <1>22, <1>23, <1>24, <1>25, <1>26, <1>27,
     <1>28, <1>29, <1>30 DEF Next, WriteStep, DeleteStep, SearchStep

\* A writer leaves _recover, and later each rename, with the published index in its place.
LEMMA SettledStep ==
  ASSUME NoOverlap, TypeOK, Recoverable, Settled, [Next]_vars
  PROVE  Settled'
<1>1. ASSUME NEW w \in Writers, NEW inApi \in BOOLEAN, WriteBegin(w, inApi) PROVE Settled'
  BY <1>1, FolderFacts DEF WriteBegin, deleteVars, WriteGoto, Writing, RecoverPossible, dirVars,
     searchVars, Recoverable, Current, TypeOK, Settled
<1>2. ASSUME NEW w \in Writers, WriteRecover(w) PROVE Settled'
  BY <1>2 DEF WriteRecover, deleteVars, WriteGoto, RecoverRename, searchVars, TypeOK, Settled
<1>3. ASSUME NEW w \in Writers, WriteUnits(w) PROVE Settled'
  BY <1>3 DEF WriteUnits, WriteGoto, deleteVars, dirVars, searchVars, TypeOK, Settled
<1>4. ASSUME NEW w \in Writers, WriteBm25(w) PROVE Settled'
  BY <1>4 DEF WriteBm25, WriteGoto, deleteVars, dirVars, searchVars, TypeOK, Settled
<1>5. ASSUME NEW w \in Writers, WriteManifest(w) PROVE Settled'
  BY <1>5 DEF WriteManifest, WriteGoto, deleteVars, dirVars, searchVars, TypeOK, Settled
<1>6. ASSUME NEW w \in Writers, WriteClear(w) PROVE Settled'
  BY <1>6 DEF WriteClear, deleteVars, WriteGoto, searchVars, TypeOK, Settled
<1>7. ASSUME NEW w \in Writers, WriteAway(w) PROVE Settled'
  BY <1>7, NoOverlap DEF WriteAway, deleteVars, WriteGoto, dirVars, searchVars, NoOverlap, Writing,
     TypeOK, Settled
<1>8. ASSUME NEW w \in Writers, WriteSwap(w) PROVE Settled'
  BY <1>8, FolderFacts DEF WriteSwap, deleteVars, Unpublish, Whole, WriteGoto, searchVars, TypeOK,
     Settled
<1>9. ASSUME NEW w \in Writers, WriteClean(w) PROVE Settled'
  BY <1>9 DEF WriteClean, deleteVars, writeVars, WriteEnds, searchVars, TypeOK, Settled
<1>10. ASSUME NEW w \in Writers, WriteRaises(w) PROVE Settled'
  BY <1>10 DEF WriteRaises, deleteVars, WriteEnds, dirVars, searchVars, TypeOK, Settled
<1>11. ASSUME NEW w \in Writers, CliCrash(w) PROVE Settled'
  BY <1>11 DEF CliCrash, deleteVars, WriteEnds, Writing, dirVars, searchVars, TypeOK, Settled
<1>12. CASE DeleteBegin
  BY <1>12 DEF DeleteBegin, Unpublish, dirVars, writeVars, TypeOK, Settled
<1>13. CASE DeleteOpen
  BY <1>13 DEF DeleteOpen, Targets, FolderType, dirVars, writeVars, TypeOK, Settled, searchVars
<1>14. CASE DeleteFile
  BY <1>14, FewerFacts DEF DeleteFile, deleteVars, Unpublish, dirVars, writeVars, TypeOK, Settled
<1>15. CASE DeleteFinal
  BY <1>15 DEF DeleteFinal, Unpublish, writeVars, TypeOK, Settled
<1>16. CASE DeleteOld
  BY <1>16 DEF DeleteOld, searchVars, writeVars, TypeOK, Settled
<1>17. ASSUME NEW w \in Writers, DeleteTmp(w) PROVE Settled'
  BY <1>17 DEF DeleteTmp, dirVars, searchVars, TypeOK, Settled
<1>18. CASE DeleteTmpFails
  BY <1>18 DEF DeleteTmpFails, writeVars, dirVars, searchVars, TypeOK, Settled
<1>19. CASE DeleteEnd
  BY <1>19 DEF DeleteEnd, writeVars, dirVars, searchVars, TypeOK, Settled
<1>20. CASE DeleteRaises
  BY <1>20 DEF DeleteRaises, deleteVars, dirVars, writeVars, searchVars, TypeOK, Settled
<1>21. ASSUME NEW s \in Searches, LoadBegin(s) PROVE Settled'
  BY <1>21 DEF LoadBegin, deleteVars, RecoverPossible, dirVars, writeVars, TypeOK, Settled
<1>22. ASSUME NEW s \in Searches, LoadRecover(s) PROVE Settled'
  BY <1>22 DEF LoadRecover, deleteVars, SearchGoto, RecoverRename, writeVars, TypeOK, Settled
<1>23. ASSUME NEW s \in Searches, LoadStat(s) PROVE Settled'
  BY <1>23 DEF LoadStat, deleteVars, FileOf, SearchGoto, Hit, dirVars, writeVars, TypeOK, Settled
<1>24. ASSUME NEW s \in Searches, LoadUnits(s) PROVE Settled'
  BY <1>24 DEF LoadUnits, deleteVars, FileOf, SearchGoto, dirVars, writeVars, TypeOK, Settled
<1>25. ASSUME NEW s \in Searches, LoadKeep(s) PROVE Settled'
  BY <1>25 DEF LoadKeep, deleteVars, SearchGoto, dirVars, writeVars, TypeOK, Settled
<1>26. ASSUME NEW s \in Searches, ReadLate(s) PROVE Settled'
  BY <1>26 DEF ReadLate, deleteVars, FileOf, SearchGoto, dirVars, writeVars, TypeOK, Settled
<1>27. ASSUME NEW s \in Searches, LookUpParts(s) PROVE Settled'
  BY <1>27 DEF LookUpParts, deleteVars, SearchEnds, Nothing, dirVars, writeVars, TypeOK, Settled
<1>28. ASSUME NEW s \in Searches, SearchRaises(s) PROVE Settled'
  BY <1>28 DEF SearchRaises, deleteVars, SearchEnds, FileOf, Nothing, dirVars, writeVars, TypeOK,
     Settled
<1>29. CASE ApiCrash
  BY <1>29 DEF ApiCrash, WriteEnds, Nothing, dirVars, TypeOK, Settled
<1>30. CASE UNCHANGED vars
  BY <1>30 DEF vars, deleteVars, dirVars, writeVars, searchVars, TypeOK, Settled
<1> QED
  BY <1>1, <1>2, <1>3, <1>4, <1>5, <1>6, <1>7, <1>8, <1>9, <1>10, <1>11, <1>12, <1>13, <1>14,
     <1>15, <1>16, <1>17, <1>18, <1>19, <1>20, <1>21, <1>22, <1>23, <1>24, <1>25, <1>26, <1>27,
     <1>28, <1>29, <1>30 DEF Next, WriteStep, DeleteStep, SearchStep

\* A new generation is above all there are, and only the swap that publishes it makes it seen.
LEMMA FreshStep ==
  ASSUME NoOverlap, TypeOK, Fresh, [Next]_vars
  PROVE  Fresh'
<1>1. ASSUME NEW w \in Writers, NEW inApi \in BOOLEAN, WriteBegin(w, inApi) PROVE Fresh'
  BY <1>1 DEF WriteBegin, deleteVars, WriteGoto, Writing, RecoverPossible, dirVars, searchVars,
     TypeOK, Fresh, Known, Building
<1>2. ASSUME NEW w \in Writers, WriteRecover(w) PROVE Fresh'
  BY <1>2 DEF WriteRecover, deleteVars, WriteGoto, RecoverRename, searchVars, TypeOK, Fresh, Known,
     Building
<1>3. ASSUME NEW w \in Writers, WriteUnits(w) PROVE Fresh'
  <2>1. /\ written \in Nat /\ written' = written + 1
        /\ tmp' = [tmp EXCEPT ![w] = [gen |-> written + 1, has |-> {"units"}]]
        /\ gen' = [gen EXCEPT ![w] = written + 1]
    BY <1>3 DEF WriteUnits, TypeOK
  <2>2. Known(written) /\ Known(written + 1)
    BY <2>1 DEF Fresh, Known, TypeOK, FolderType, Gens
  <2>3. Known(written)' /\ Known(written - 1)'
    BY <1>3, <2>1, <2>2 DEF WriteUnits, dirVars, searchVars, Known
  <2>4. \A v \in Writers \ {w} : wpc'[v] = "idle" /\ tmp'[v] = Absent
    BY <1>3, <2>1, NoOverlap DEF NoOverlap, Writing, WriteUnits, WriteGoto, Fresh, Building, TypeOK
  <2>5. tmp'[w].gen = written' /\ gen'[w] = written' /\ wpc'[w] = "bm25"
    BY <1>3, <2>1 DEF WriteUnits, WriteGoto, TypeOK
  <2> QED
    BY <2>2, <2>3, <2>4, <2>5 DEF Fresh, Building
<1>4. ASSUME NEW w \in Writers, WriteBm25(w) PROVE Fresh'
  <2>1. Known(written)' /\ (Known(written - 1) => Known(written - 1)')
    BY <1>4 DEF WriteBm25, dirVars, searchVars, Fresh, Known
  <2>2. tmp'[w].gen = gen[w] /\ \A v \in Writers \ {w} : tmp'[v] = tmp[v]
    BY <1>4 DEF WriteBm25, TypeOK
  <2>3. gen' = gen /\ written' = written /\ \A v \in Writers : wpc'[v] \in Building <=> wpc[v] \in Building
    BY <1>4 DEF WriteBm25, WriteGoto, TypeOK, Building
  <2>4. wpc[w] \in Building
    BY <1>4 DEF WriteBm25, WriteGoto, Building
  <2> QED
    BY <2>1, <2>2, <2>3, <2>4 DEF Fresh
<1>5. ASSUME NEW w \in Writers, WriteManifest(w) PROVE Fresh'
  <2>1. Known(written)' /\ (Known(written - 1) => Known(written - 1)')
    BY <1>5 DEF WriteManifest, dirVars, searchVars, Fresh, Known
  <2>2. tmp'[w].gen = tmp[w].gen /\ \A v \in Writers \ {w} : tmp'[v] = tmp[v]
    BY <1>5 DEF WriteManifest, TypeOK, FolderType
  <2>3. gen' = gen /\ written' = written /\ \A v \in Writers : wpc'[v] \in Building <=> wpc[v] \in Building
    BY <1>5 DEF WriteManifest, WriteGoto, TypeOK, Building
  <2>4. tmp[w] # Absent
    BY <1>5 DEF WriteManifest
  <2> QED
    BY <2>1, <2>2, <2>3, <2>4 DEF Fresh
<1>6. ASSUME NEW w \in Writers, WriteClear(w) PROVE Fresh'
  BY <1>6, RmStepFacts DEF WriteClear, deleteVars, WriteGoto, searchVars, Gens, NoFile, FolderType,
     Files, TypeOK, Fresh, Known, Building
<1>7. ASSUME NEW w \in Writers, WriteAway(w) PROVE Fresh'
  BY <1>7 DEF WriteAway, deleteVars, WriteGoto, dirVars, searchVars, Gens, NoFile, FolderType,
     Files, TypeOK, Fresh, Known, Building
<1>8. ASSUME NEW w \in Writers, WriteSwap(w) PROVE Fresh'
  BY <1>8, NoOverlap, FolderFacts DEF WriteSwap, deleteVars, Unpublish, Whole, WriteGoto,
     searchVars, Gens, NoFile, NoOverlap, Writing, FolderType, TypeOK, Fresh, Known, Building
<1>9. ASSUME NEW w \in Writers, WriteClean(w) PROVE Fresh'
  BY <1>9, RmStepFacts DEF WriteClean, deleteVars, writeVars, WriteEnds, searchVars, Gens, NoFile,
     FolderType, Files, TypeOK, Fresh, Known, Building
<1>10. ASSUME NEW w \in Writers, WriteRaises(w) PROVE Fresh'
  BY <1>10 DEF WriteRaises, deleteVars, WriteEnds, dirVars, searchVars, Gens, NoFile, FolderType,
     Files, TypeOK, Fresh, Known, Building
<1>11. ASSUME NEW w \in Writers, CliCrash(w) PROVE Fresh'
  BY <1>11 DEF CliCrash, deleteVars, WriteEnds, Writing, dirVars, searchVars, Gens, NoFile,
     FolderType, Files, TypeOK, Fresh, Known, Building
<1>12. CASE DeleteBegin
  BY <1>12 DEF DeleteBegin, Unpublish, dirVars, writeVars, Gens, NoFile, FolderType, Files, TypeOK,
     Fresh, Known, Building
<1>13. CASE DeleteOpen
  BY <1>13 DEF DeleteOpen, Targets, FolderType, dirVars, writeVars, Gens, NoFile, Files, TypeOK,
     Fresh, Known, Building, searchVars
<1>14. CASE DeleteFile
  BY <1>14, FewerFacts DEF DeleteFile, deleteVars, Unpublish, dirVars, writeVars, Gens, NoFile,
     FolderType, Files, TypeOK, Fresh, Known, Building
<1>15. CASE DeleteFinal
  BY <1>15 DEF DeleteFinal, Unpublish, writeVars, Gens, NoFile, FolderType, Files, TypeOK, Fresh,
     Known, Building
<1>16. CASE DeleteOld
  BY <1>16 DEF DeleteOld, searchVars, writeVars, Gens, NoFile, FolderType, Files, TypeOK, Fresh,
     Known, Building
<1>17. ASSUME NEW w \in Writers, DeleteTmp(w) PROVE Fresh'
  BY <1>17 DEF DeleteTmp, dirVars, searchVars, Gens, NoFile, FolderType, Files, TypeOK, Fresh, Known, Building
<1>18. CASE DeleteTmpFails
  BY <1>18 DEF DeleteTmpFails, writeVars, dirVars, searchVars, Gens, NoFile, FolderType, Files,
     TypeOK, Fresh, Known, Building
<1>19. CASE DeleteEnd
  BY <1>19 DEF DeleteEnd, writeVars, dirVars, searchVars, Gens, NoFile, FolderType, Files, TypeOK,
     Fresh, Known, Building
<1>20. CASE DeleteRaises
  BY <1>20 DEF DeleteRaises, deleteVars, dirVars, writeVars, searchVars, Gens, NoFile, FolderType,
     Files, TypeOK, Fresh, Known, Building
<1>21. ASSUME NEW s \in Searches, LoadBegin(s) PROVE Fresh'
  BY <1>21 DEF LoadBegin, deleteVars, RecoverPossible, dirVars, writeVars, Gens, NoFile, FolderType,
     Files, TypeOK, Fresh, Known, Building
<1>22. ASSUME NEW s \in Searches, LoadRecover(s) PROVE Fresh'
  BY <1>22 DEF LoadRecover, deleteVars, SearchGoto, RecoverRename, writeVars, Gens, NoFile,
     FolderType, Files, TypeOK, Fresh, Known, Building
<1>23. ASSUME NEW s \in Searches, LoadStat(s) PROVE Fresh'
  BY <1>23 DEF LoadStat, deleteVars, FileOf, SearchGoto, Hit, dirVars, writeVars, Gens, NoFile,
     FolderType, Files, TypeOK, Fresh, Known, Building
<1>24. ASSUME NEW s \in Searches, LoadUnits(s) PROVE Fresh'
  BY <1>24 DEF LoadUnits, deleteVars, FileOf, SearchGoto, dirVars, writeVars, Gens, NoFile,
     FolderType, Files, TypeOK, Fresh, Known, Building
<1>25. ASSUME NEW s \in Searches, LoadKeep(s) PROVE Fresh'
  BY <1>25 DEF LoadKeep, deleteVars, SearchGoto, dirVars, writeVars, Gens, NoFile, FolderType,
     Files, TypeOK, Fresh, Known, Building
<1>26. ASSUME NEW s \in Searches, ReadLate(s) PROVE Fresh'
  <2>1. PICK b \in Gens \cup {0} : LateRead(s, b)
    BY <1>26, LateFacts
  <2>2. /\ \A t \in Searches : got'[t].stamp = got[t].stamp
        /\ cache' # Absent => cache # Absent /\ cache'.stamp = cache.stamp
    BY <2>1, AbsentAssumption DEF LateRead, TypeOK
  <2> QED
    BY <1>26, <2>2 DEF ReadLate, deleteVars, dirVars, writeVars, Fresh, Known
<1>27. ASSUME NEW s \in Searches, LookUpParts(s) PROVE Fresh'
  BY <1>27 DEF LookUpParts, deleteVars, SearchEnds, Nothing, dirVars, writeVars, Gens, NoFile,
     FolderType, Files, TypeOK, Fresh, Known, Building
<1>28. ASSUME NEW s \in Searches, SearchRaises(s) PROVE Fresh'
  BY <1>28 DEF SearchRaises, deleteVars, SearchEnds, FileOf, Nothing, dirVars, writeVars, Gens,
     NoFile, FolderType, Files, TypeOK, Fresh, Known, Building
<1>29. CASE ApiCrash
  BY <1>29 DEF ApiCrash, WriteEnds, Nothing, dirVars, Gens, NoFile, FolderType, Files, TypeOK,
     Fresh, Known, Building
<1>30. CASE UNCHANGED vars
  BY <1>30 DEF vars, deleteVars, dirVars, writeVars, searchVars, TypeOK, Fresh, Known, Building
<1> QED
  BY <1>1, <1>2, <1>3, <1>4, <1>5, <1>6, <1>7, <1>8, <1>9, <1>10, <1>11, <1>12, <1>13, <1>14,
     <1>15, <1>16, <1>17, <1>18, <1>19, <1>20, <1>21, <1>22, <1>23, <1>24, <1>25, <1>26, <1>27,
     <1>28, <1>29, <1>30 DEF Next, WriteStep, DeleteStep, SearchStep

\* A floor is taken from the published index, which only a delete takes back, and floors with it.
LEMMA FloorStep ==
  ASSUME TypeOK, Fresh, FloorKept, [Next]_vars
  PROVE  FloorKept'
<1>1. ASSUME NEW w \in Writers, NEW inApi \in BOOLEAN, WriteBegin(w, inApi) PROVE FloorKept'
  BY <1>1 DEF WriteBegin, deleteVars, WriteGoto, Writing, RecoverPossible, dirVars, searchVars,
     TypeOK, FloorKept, Gens
<1>2. ASSUME NEW w \in Writers, WriteRecover(w) PROVE FloorKept'
  BY <1>2 DEF WriteRecover, deleteVars, WriteGoto, RecoverRename, searchVars, TypeOK, FloorKept,
     Gens
<1>3. ASSUME NEW w \in Writers, WriteUnits(w) PROVE FloorKept'
  BY <1>3 DEF WriteUnits, WriteGoto, deleteVars, dirVars, searchVars, TypeOK, FloorKept, Gens
<1>4. ASSUME NEW w \in Writers, WriteBm25(w) PROVE FloorKept'
  BY <1>4 DEF WriteBm25, WriteGoto, deleteVars, dirVars, searchVars, TypeOK, FloorKept, Gens
<1>5. ASSUME NEW w \in Writers, WriteManifest(w) PROVE FloorKept'
  BY <1>5 DEF WriteManifest, WriteGoto, deleteVars, dirVars, searchVars, TypeOK, FloorKept, Gens
<1>6. ASSUME NEW w \in Writers, WriteClear(w) PROVE FloorKept'
  BY <1>6 DEF WriteClear, deleteVars, WriteGoto, searchVars, TypeOK, FloorKept, Gens
<1>7. ASSUME NEW w \in Writers, WriteAway(w) PROVE FloorKept'
  BY <1>7 DEF WriteAway, deleteVars, WriteGoto, dirVars, searchVars, TypeOK, FloorKept, Gens
<1>8. ASSUME NEW w \in Writers, WriteSwap(w) PROVE FloorKept'
  BY <1>8, BoundAssumption DEF WriteSwap, deleteVars, Unpublish, Whole, WriteGoto, searchVars,
     Fresh, Known, TypeOK, FloorKept, Gens
<1>9. ASSUME NEW w \in Writers, WriteClean(w) PROVE FloorKept'
  BY <1>9 DEF WriteClean, deleteVars, writeVars, WriteEnds, searchVars, TypeOK, FloorKept, Gens
<1>10. ASSUME NEW w \in Writers, WriteRaises(w) PROVE FloorKept'
  BY <1>10 DEF WriteRaises, deleteVars, WriteEnds, dirVars, searchVars, TypeOK, FloorKept, Gens
<1>11. ASSUME NEW w \in Writers, CliCrash(w) PROVE FloorKept'
  BY <1>11 DEF CliCrash, deleteVars, WriteEnds, Writing, dirVars, searchVars, TypeOK, FloorKept,
     Gens
<1>12. CASE DeleteBegin
  BY <1>12 DEF DeleteBegin, Unpublish, dirVars, writeVars, TypeOK, FloorKept, Gens
<1>13. CASE DeleteOpen
  BY <1>13 DEF DeleteOpen, Targets, FolderType, dirVars, writeVars, TypeOK, FloorKept, Gens,
     searchVars
<1>14. CASE DeleteFile
  BY <1>14, FewerFacts DEF DeleteFile, deleteVars, Unpublish, dirVars, writeVars, TypeOK, FloorKept,
     Gens
<1>15. CASE DeleteFinal
  BY <1>15 DEF DeleteFinal, Unpublish, writeVars, TypeOK, FloorKept, Gens
<1>16. CASE DeleteOld
  BY <1>16 DEF DeleteOld, searchVars, writeVars, TypeOK, FloorKept, Gens
<1>17. ASSUME NEW w \in Writers, DeleteTmp(w) PROVE FloorKept'
  BY <1>17 DEF DeleteTmp, dirVars, searchVars, TypeOK, FloorKept, Gens
<1>18. CASE DeleteTmpFails
  BY <1>18 DEF DeleteTmpFails, writeVars, dirVars, searchVars, TypeOK, FloorKept, Gens
<1>19. CASE DeleteEnd
  BY <1>19 DEF DeleteEnd, writeVars, dirVars, searchVars, TypeOK, FloorKept, Gens
<1>20. CASE DeleteRaises
  BY <1>20 DEF DeleteRaises, deleteVars, dirVars, writeVars, searchVars, TypeOK, FloorKept, Gens
<1>21. ASSUME NEW s \in Searches, LoadBegin(s) PROVE FloorKept'
  BY <1>21 DEF LoadBegin, deleteVars, RecoverPossible, dirVars, writeVars, TypeOK, FloorKept, Gens
<1>22. ASSUME NEW s \in Searches, LoadRecover(s) PROVE FloorKept'
  BY <1>22 DEF LoadRecover, deleteVars, SearchGoto, RecoverRename, writeVars, TypeOK, FloorKept,
     Gens
<1>23. ASSUME NEW s \in Searches, LoadStat(s) PROVE FloorKept'
  BY <1>23 DEF LoadStat, deleteVars, FileOf, SearchGoto, Hit, dirVars, writeVars, TypeOK, FloorKept,
     Gens
<1>24. ASSUME NEW s \in Searches, LoadUnits(s) PROVE FloorKept'
  BY <1>24 DEF LoadUnits, deleteVars, FileOf, SearchGoto, dirVars, writeVars, TypeOK, FloorKept,
     Gens
<1>25. ASSUME NEW s \in Searches, LoadKeep(s) PROVE FloorKept'
  BY <1>25 DEF LoadKeep, deleteVars, SearchGoto, dirVars, writeVars, TypeOK, FloorKept, Gens
<1>26. ASSUME NEW s \in Searches, ReadLate(s) PROVE FloorKept'
  BY <1>26 DEF ReadLate, deleteVars, FileOf, SearchGoto, dirVars, writeVars, TypeOK, FloorKept, Gens
<1>27. ASSUME NEW s \in Searches, LookUpParts(s) PROVE FloorKept'
  BY <1>27 DEF LookUpParts, deleteVars, SearchEnds, Nothing, dirVars, writeVars, TypeOK, FloorKept,
     Gens
<1>28. ASSUME NEW s \in Searches, SearchRaises(s) PROVE FloorKept'
  BY <1>28 DEF SearchRaises, deleteVars, SearchEnds, FileOf, Nothing, dirVars, writeVars, TypeOK,
     FloorKept, Gens
<1>29. CASE ApiCrash
  BY <1>29 DEF ApiCrash, WriteEnds, Nothing, dirVars, TypeOK, FloorKept, Gens
<1>30. CASE UNCHANGED vars
  BY <1>30 DEF vars, deleteVars, dirVars, writeVars, searchVars, TypeOK, FloorKept, Gens
<1> QED
  BY <1>1, <1>2, <1>3, <1>4, <1>5, <1>6, <1>7, <1>8, <1>9, <1>10, <1>11, <1>12, <1>13, <1>14,
     <1>15, <1>16, <1>17, <1>18, <1>19, <1>20, <1>21, <1>22, <1>23, <1>24, <1>25, <1>26, <1>27,
     <1>28, <1>29, <1>30 DEF Next, WriteStep, DeleteStep, SearchStep

\* A load reads the stamp first, so what it reads under the stamp of the published index is that
\* index; and a new index has a stamp nobody holds.
LEMMA ToldApartStep ==
  ASSUME TypeOK, Recoverable, Fresh, ToldApart, [Next]_vars
  PROVE  ToldApart'
<1>1. ASSUME NEW w \in Writers, NEW inApi \in BOOLEAN, WriteBegin(w, inApi) PROVE ToldApart'
  BY <1>1 DEF WriteBegin, deleteVars, WriteGoto, Writing, RecoverPossible, dirVars, searchVars,
     TypeOK, ToldApart, Gens
<1>2. ASSUME NEW w \in Writers, WriteRecover(w) PROVE ToldApart'
  BY <1>2 DEF WriteRecover, deleteVars, WriteGoto, RecoverRename, searchVars, TypeOK, ToldApart,
     Gens
<1>3. ASSUME NEW w \in Writers, WriteUnits(w) PROVE ToldApart'
  BY <1>3 DEF WriteUnits, WriteGoto, deleteVars, dirVars, searchVars, TypeOK, ToldApart, Gens
<1>4. ASSUME NEW w \in Writers, WriteBm25(w) PROVE ToldApart'
  BY <1>4 DEF WriteBm25, WriteGoto, deleteVars, dirVars, searchVars, TypeOK, ToldApart, Gens
<1>5. ASSUME NEW w \in Writers, WriteManifest(w) PROVE ToldApart'
  BY <1>5 DEF WriteManifest, WriteGoto, deleteVars, dirVars, searchVars, TypeOK, ToldApart, Gens
<1>6. ASSUME NEW w \in Writers, WriteClear(w) PROVE ToldApart'
  BY <1>6 DEF WriteClear, deleteVars, WriteGoto, searchVars, TypeOK, ToldApart, Gens
<1>7. ASSUME NEW w \in Writers, WriteAway(w) PROVE ToldApart'
  BY <1>7 DEF WriteAway, deleteVars, WriteGoto, dirVars, searchVars, TypeOK, ToldApart, Gens
<1>8. ASSUME NEW w \in Writers, WriteSwap(w) PROVE ToldApart'
  BY <1>8, BoundAssumption DEF WriteSwap, deleteVars, Unpublish, Whole, WriteGoto, searchVars,
     Fresh, Known, TypeOK, ToldApart, Gens
<1>9. ASSUME NEW w \in Writers, WriteClean(w) PROVE ToldApart'
  BY <1>9 DEF WriteClean, deleteVars, writeVars, WriteEnds, searchVars, TypeOK, ToldApart, Gens
<1>10. ASSUME NEW w \in Writers, WriteRaises(w) PROVE ToldApart'
  BY <1>10 DEF WriteRaises, deleteVars, WriteEnds, dirVars, searchVars, TypeOK, ToldApart, Gens
<1>11. ASSUME NEW w \in Writers, CliCrash(w) PROVE ToldApart'
  BY <1>11 DEF CliCrash, deleteVars, WriteEnds, Writing, dirVars, searchVars, TypeOK, ToldApart,
     Gens
<1>12. CASE DeleteBegin
  BY <1>12 DEF DeleteBegin, Unpublish, dirVars, writeVars, TypeOK, ToldApart, Gens
<1>13. CASE DeleteOpen
  BY <1>13 DEF DeleteOpen, Targets, FolderType, dirVars, writeVars, TypeOK, ToldApart, Gens,
     searchVars
<1>14. CASE DeleteFile
  BY <1>14, FewerFacts DEF DeleteFile, deleteVars, Unpublish, dirVars, writeVars, TypeOK, ToldApart,
     Gens
<1>15. CASE DeleteFinal
  BY <1>15 DEF DeleteFinal, Unpublish, writeVars, TypeOK, ToldApart, Gens
<1>16. CASE DeleteOld
  BY <1>16 DEF DeleteOld, searchVars, writeVars, TypeOK, ToldApart, Gens
<1>17. ASSUME NEW w \in Writers, DeleteTmp(w) PROVE ToldApart'
  BY <1>17 DEF DeleteTmp, dirVars, searchVars, TypeOK, ToldApart, Gens
<1>18. CASE DeleteTmpFails
  BY <1>18 DEF DeleteTmpFails, writeVars, dirVars, searchVars, TypeOK, ToldApart, Gens
<1>19. CASE DeleteEnd
  BY <1>19 DEF DeleteEnd, writeVars, dirVars, searchVars, TypeOK, ToldApart, Gens
<1>20. CASE DeleteRaises
  BY <1>20 DEF DeleteRaises, deleteVars, dirVars, writeVars, searchVars, TypeOK, ToldApart, Gens
<1>21. ASSUME NEW s \in Searches, LoadBegin(s) PROVE ToldApart'
  BY <1>21 DEF LoadBegin, deleteVars, RecoverPossible, dirVars, writeVars, TypeOK, ToldApart, Gens
<1>22. ASSUME NEW s \in Searches, LoadRecover(s) PROVE ToldApart'
  BY <1>22 DEF LoadRecover, deleteVars, SearchGoto, RecoverRename, writeVars, TypeOK, ToldApart,
     Gens
<1>23. ASSUME NEW s \in Searches, LoadStat(s) PROVE ToldApart'
  BY <1>23 DEF LoadStat, deleteVars, FileOf, SearchGoto, Hit, dirVars, writeVars, TypeOK, ToldApart,
     Gens
<1>24. ASSUME NEW s \in Searches, LoadUnits(s) PROVE ToldApart'
  BY <1>24, FolderFacts DEF LoadUnits, deleteVars, FileOf, SearchGoto, dirVars, writeVars,
     Recoverable, Current, FolderType, Files, NoFile, TypeOK, ToldApart, Gens
<1>25. ASSUME NEW s \in Searches, LoadKeep(s) PROVE ToldApart'
  BY <1>25 DEF LoadKeep, deleteVars, SearchGoto, dirVars, writeVars, TypeOK, ToldApart, Gens
<1>26. ASSUME NEW s \in Searches, ReadLate(s) PROVE ToldApart'
  BY <1>26, FolderFacts, AbsentAssumption DEF ReadLate, deleteVars, FileOf, SearchGoto, dirVars,
     writeVars, Recoverable, Current, FolderType, Files, NoFile, TypeOK, ToldApart, Gens
<1>27. ASSUME NEW s \in Searches, LookUpParts(s) PROVE ToldApart'
  BY <1>27 DEF LookUpParts, deleteVars, SearchEnds, Nothing, dirVars, writeVars, TypeOK, ToldApart,
     Gens
<1>28. ASSUME NEW s \in Searches, SearchRaises(s) PROVE ToldApart'
  BY <1>28 DEF SearchRaises, deleteVars, SearchEnds, FileOf, Nothing, dirVars, writeVars, TypeOK,
     ToldApart, Gens
<1>29. CASE ApiCrash
  BY <1>29 DEF ApiCrash, WriteEnds, Nothing, dirVars, TypeOK, ToldApart, Gens
<1>30. CASE UNCHANGED vars
  BY <1>30 DEF vars, deleteVars, dirVars, writeVars, searchVars, TypeOK, ToldApart, Gens
<1> QED
  BY <1>1, <1>2, <1>3, <1>4, <1>5, <1>6, <1>7, <1>8, <1>9, <1>10, <1>11, <1>12, <1>13, <1>14,
     <1>15, <1>16, <1>17, <1>18, <1>19, <1>20, <1>21, <1>22, <1>23, <1>24, <1>25, <1>26, <1>27,
     <1>28, <1>29, <1>30 DEF Next, WriteStep, DeleteStep, SearchStep

\* A load that found the cache current, or read the folder, has at least the published index of its
\* beginning.
LEMMA LoadedStep ==
  ASSUME TypeOK, Recoverable, FloorKept, ToldApart, LoadedNotStale, [Next]_vars
  PROVE  LoadedNotStale'
<1>1. ASSUME NEW w \in Writers, NEW inApi \in BOOLEAN, WriteBegin(w, inApi) PROVE LoadedNotStale'
  BY <1>1 DEF WriteBegin, deleteVars, WriteGoto, Writing, RecoverPossible, dirVars, searchVars,
     TypeOK, LoadedNotStale, Gens
<1>2. ASSUME NEW w \in Writers, WriteRecover(w) PROVE LoadedNotStale'
  BY <1>2 DEF WriteRecover, deleteVars, WriteGoto, RecoverRename, searchVars, TypeOK,
     LoadedNotStale, Gens
<1>3. ASSUME NEW w \in Writers, WriteUnits(w) PROVE LoadedNotStale'
  BY <1>3 DEF WriteUnits, WriteGoto, deleteVars, dirVars, searchVars, TypeOK, LoadedNotStale, Gens
<1>4. ASSUME NEW w \in Writers, WriteBm25(w) PROVE LoadedNotStale'
  BY <1>4 DEF WriteBm25, WriteGoto, deleteVars, dirVars, searchVars, TypeOK, LoadedNotStale, Gens
<1>5. ASSUME NEW w \in Writers, WriteManifest(w) PROVE LoadedNotStale'
  BY <1>5 DEF WriteManifest, WriteGoto, deleteVars, dirVars, searchVars, TypeOK, LoadedNotStale,
     Gens
<1>6. ASSUME NEW w \in Writers, WriteClear(w) PROVE LoadedNotStale'
  BY <1>6 DEF WriteClear, deleteVars, WriteGoto, searchVars, TypeOK, LoadedNotStale, Gens
<1>7. ASSUME NEW w \in Writers, WriteAway(w) PROVE LoadedNotStale'
  BY <1>7 DEF WriteAway, deleteVars, WriteGoto, dirVars, searchVars, TypeOK, LoadedNotStale, Gens
<1>8. ASSUME NEW w \in Writers, WriteSwap(w) PROVE LoadedNotStale'
  BY <1>8 DEF WriteSwap, deleteVars, Unpublish, Whole, WriteGoto, searchVars, TypeOK,
     LoadedNotStale, Gens
<1>9. ASSUME NEW w \in Writers, WriteClean(w) PROVE LoadedNotStale'
  BY <1>9 DEF WriteClean, deleteVars, writeVars, WriteEnds, searchVars, TypeOK, LoadedNotStale, Gens
<1>10. ASSUME NEW w \in Writers, WriteRaises(w) PROVE LoadedNotStale'
  BY <1>10 DEF WriteRaises, deleteVars, WriteEnds, dirVars, searchVars, TypeOK, LoadedNotStale, Gens
<1>11. ASSUME NEW w \in Writers, CliCrash(w) PROVE LoadedNotStale'
  BY <1>11 DEF CliCrash, deleteVars, WriteEnds, Writing, dirVars, searchVars, TypeOK,
     LoadedNotStale, Gens
<1>12. CASE DeleteBegin
  BY <1>12 DEF DeleteBegin, Unpublish, dirVars, writeVars, TypeOK, LoadedNotStale, Gens
<1>13. CASE DeleteOpen
  BY <1>13 DEF DeleteOpen, Targets, FolderType, dirVars, writeVars, TypeOK, LoadedNotStale, Gens,
     searchVars
<1>14. CASE DeleteFile
  BY <1>14, FewerFacts DEF DeleteFile, deleteVars, Unpublish, dirVars, writeVars, TypeOK,
     LoadedNotStale, Gens
<1>15. CASE DeleteFinal
  BY <1>15 DEF DeleteFinal, Unpublish, writeVars, TypeOK, LoadedNotStale, Gens
<1>16. CASE DeleteOld
  BY <1>16 DEF DeleteOld, searchVars, writeVars, TypeOK, LoadedNotStale, Gens
<1>17. ASSUME NEW w \in Writers, DeleteTmp(w) PROVE LoadedNotStale'
  BY <1>17 DEF DeleteTmp, dirVars, searchVars, TypeOK, LoadedNotStale, Gens
<1>18. CASE DeleteTmpFails
  BY <1>18 DEF DeleteTmpFails, writeVars, dirVars, searchVars, TypeOK, LoadedNotStale, Gens
<1>19. CASE DeleteEnd
  BY <1>19 DEF DeleteEnd, writeVars, dirVars, searchVars, TypeOK, LoadedNotStale, Gens
<1>20. CASE DeleteRaises
  BY <1>20 DEF DeleteRaises, deleteVars, dirVars, writeVars, searchVars, TypeOK, LoadedNotStale,
     Gens
<1>21. ASSUME NEW s \in Searches, LoadBegin(s) PROVE LoadedNotStale'
  BY <1>21 DEF LoadBegin, deleteVars, RecoverPossible, dirVars, writeVars, TypeOK, LoadedNotStale,
     Gens
<1>22. ASSUME NEW s \in Searches, LoadRecover(s) PROVE LoadedNotStale'
  BY <1>22 DEF LoadRecover, deleteVars, SearchGoto, RecoverRename, writeVars, TypeOK,
     LoadedNotStale, Gens
<1>23. ASSUME NEW s \in Searches, LoadStat(s) PROVE LoadedNotStale'
  BY <1>23, FolderFacts DEF LoadStat, deleteVars, FileOf, SearchGoto, Hit, dirVars, writeVars,
     Recoverable, Current, FolderType, Files, NoFile, FloorKept, ToldApart, TypeOK,
     LoadedNotStale, Gens
<1>24. ASSUME NEW s \in Searches, LoadUnits(s) PROVE LoadedNotStale'
  BY <1>24, FolderFacts DEF LoadUnits, deleteVars, FileOf, SearchGoto, dirVars, writeVars,
     Recoverable, Current, FolderType, Files, NoFile, FloorKept, TypeOK, LoadedNotStale, Gens
<1>25. ASSUME NEW s \in Searches, LoadKeep(s) PROVE LoadedNotStale'
  BY <1>25 DEF LoadKeep, deleteVars, SearchGoto, dirVars, writeVars, TypeOK, LoadedNotStale, Gens
<1>26. ASSUME NEW s \in Searches, ReadLate(s) PROVE LoadedNotStale'
  BY <1>26 DEF ReadLate, deleteVars, FileOf, SearchGoto, dirVars, writeVars, TypeOK, LoadedNotStale,
     Gens
<1>27. ASSUME NEW s \in Searches, LookUpParts(s) PROVE LoadedNotStale'
  BY <1>27 DEF LookUpParts, deleteVars, SearchEnds, Nothing, dirVars, writeVars, TypeOK,
     LoadedNotStale, Gens
<1>28. ASSUME NEW s \in Searches, SearchRaises(s) PROVE LoadedNotStale'
  BY <1>28 DEF SearchRaises, deleteVars, SearchEnds, FileOf, Nothing, dirVars, writeVars, TypeOK,
     LoadedNotStale, Gens
<1>29. CASE ApiCrash
  BY <1>29 DEF ApiCrash, WriteEnds, Nothing, dirVars, TypeOK, LoadedNotStale, Gens
<1>30. CASE UNCHANGED vars
  BY <1>30 DEF vars, deleteVars, dirVars, writeVars, searchVars, TypeOK, LoadedNotStale, Gens
<1> QED
  BY <1>1, <1>2, <1>3, <1>4, <1>5, <1>6, <1>7, <1>8, <1>9, <1>10, <1>11, <1>12, <1>13, <1>14,
     <1>15, <1>16, <1>17, <1>18, <1>19, <1>20, <1>21, <1>22, <1>23, <1>24, <1>25, <1>26, <1>27,
     <1>28, <1>29, <1>30 DEF Next, WriteStep, DeleteStep, SearchStep

LEMMA InitIInv == Init => IInv
<1> SUFFICES ASSUME Init PROVE IInv
  OBVIOUS
<1>1. TypeOK
  BY BoundAssumption DEF Init, TypeOK, FolderType, Nothing
<1>2. Held /\ Recoverable /\ Settled /\ FloorKept /\ ToldApart /\ LoadedNotStale
  BY DEF Init, Nothing, Held, Recoverable, Settled, FloorKept, ToldApart, LoadedNotStale
<1>3. Fresh
  BY DEF Init, Nothing, Fresh, Known, Building
<1> QED
  BY <1>1, <1>2, <1>3 DEF IInv

LEMMA StepIInv == NoOverlap /\ IInv /\ [Next]_vars => IInv'
  BY TypeStep, HeldStep, RecoverableStep, SettledStep, FreshStep, FloorStep, ToldApartStep,
     LoadedStep DEF IInv

\* As long as writes do not overlap, the inductive invariant holds.
THEOREM Invariance == Spec /\ []NoOverlap => []IInv
  BY InitIInv, StepIInv, PTL DEF Spec

\* Every variable keeps its type, overlapping writes or not.
THEOREM TypeCorrect == Spec => []TypeOK
<1>1. Init => TypeOK /\ Held
  BY InitIInv DEF IInv
<1>2. TypeOK /\ Held /\ [Next]_vars => (TypeOK /\ Held)'
  BY TypeStep, HeldStep
<1> QED
  BY <1>1, <1>2, PTL DEF Spec

\* As long as writes do not overlap, whatever dies, raises or is broken off in the middle of a swap,
\* write_index never loses the published index and _recover never brings back an older one.
THEOREM RecoverableCorrect == Spec /\ []NoOverlap => []Recoverable
<1>1. IInv => Recoverable
  BY DEF IInv
<1> QED
  BY <1>1, Invariance, PTL

\* load never returns an index older than the one that was published when it began.
THEOREM NotStaleCorrect == Spec /\ []NoOverlap => []NotStale
<1>1. IInv => NotStale
  BY DEF IInv, LoadedNotStale, NotStale
<1> QED
  BY <1>1, Invariance, PTL

\* The cache of load does not hand out an index read while it was being replaced.
THEOREM MixCorrect == Spec /\ []NoOverlap => []MixIsTransient
<1>1. IInv => MixIsTransient
  <2> SUFFICES ASSUME IInv, published # 0, Hit PROVE ~Mixed(cache)
    BY DEF MixIsTransient
  <2>1. cache # Absent /\ cache.stamp = published
    BY FolderFacts DEF IInv, TypeOK, Recoverable, Current, Hit, FileOf, Files, Folder, NoFile, Gens
  <2> QED
    BY <2>1 DEF IInv, ToldApart, Mixed
<1> QED
  BY <1>1, Invariance, PTL
=============================================================================
