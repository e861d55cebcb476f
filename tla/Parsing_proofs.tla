---------------------------- MODULE Parsing_proofs ----------------------------
(***************************************************************************)
(* Proofs about ParsePool and Evidence.                                    *)
(*                                                                         *)
(* The pools: for any files, any number of them that kill their process,   *)
(* and any limits, each file is in one place at a time and counted once,   *)
(* and no suspect is parsed in the API process. The invariant counts       *)
(* nothing: Placed names the four places a file can be in, NoRepeat says   *)
(* that the retry list names no file twice. What the handling of a broken  *)
(* pool does to the list is in SortedFacts, which all of its callers share.*)
(*                                                                         *)
(* The evidence: for files of any number and content, whatever is in them  *)
(* is indexed, in parts within the limit and at the places their ids name. *)
(* The lemmas follow the data: sequences and loops, lines and texts, sheet *)
(* blocks, documents, attachments, chat sessions, mails, archives, then    *)
(* what each parser hands to them; FilesInv, at the end, says what the     *)
(* collected units have to do with the files that were read.               *)
(***************************************************************************)
EXTENDS ParsePool, Evidence, FiniteSetTheorems, SequenceTheorems, NaturalsInduction,
        WellFoundedInduction, TLAPS

----------------------------------------------------------------------------
(* The inductive invariant. *)

Entries(s) == {s[i] : i \in 1..Len(s)}

Distinct(s) == \A i, j \in 1..Len(s) : s[i] = s[j] => i = j

Drawable == largeIter \cup smallIter

\* Still to be drawn, to be tried again, pending, or counted.
Placed(f) ==
  \/ f \in Drawable /\ f \notin Entries(retryLarge) /\ future[f] = "none" /\ counted[f] = 0
  \/ f \notin Drawable /\ f \in Entries(retryLarge) /\ future[f] = "none" /\ counted[f] = 0
  \/ f \notin Drawable /\ f \notin Entries(retryLarge) /\ future[f] # "none" /\ counted[f] = 0
  \/ f \notin Drawable /\ f \notin Entries(retryLarge) /\ future[f] = "none" /\ counted[f] = 1

OnePlace == \A f \in AllFiles : Placed(f)

NoRepeat == Distinct(retryLarge)

\* Only large files go to the process pool.
LargeOnly == \A f \in AllFiles : InProc(f) => f \in Large

\* A file that is not given up was not in too many crashes.
StillTried == \A f \in Large : counted[f] = 0 => crashCount[f] < MaxInvolvement

\* The loop waits while something is pending, or else nothing is left to submit.
NothingLeft ==
  /\ pc \in {"wait", "done"} => Pending # {} \/ (retryLarge = <<>> /\ largeIter = {} /\ smallIter = {})
  /\ pc = "done" => Pending = {}

IInv ==
  /\ TypeOK
  /\ LargeOnly
  /\ NoRepeat
  /\ OnePlace
  /\ StillTried
  /\ SuspectsStayOut
  /\ NothingLeft

----------------------------------------------------------------------------
(* Lists without repetition. *)

\* The sequences of a finite set name each of its elements once.
LEMMA OrderFacts ==
  ASSUME NEW S, IsFiniteSet(S), NEW order \in SetToSeqs(S)
  PROVE  order \in Seq(S) /\ Distinct(order) /\ Entries(order) = S
<1> DEFINE D == 1..Cardinality(S)
<1>1. Cardinality(S) \in Nat
  BY FS_CardinalityType
<1>2. order \in [D -> S] /\ \A i, j \in D : i # j => order[i] # order[j]
  BY DEF SetToSeqs
<1>3. order \in Seq(S) /\ Len(order) = Cardinality(S)
  BY <1>1, <1>2
<1>4. order \in Injection(D, S)
  BY <1>2 DEF Injection, IsInjective
<1>5. Cardinality(D) = Cardinality(S)
  BY <1>1, FS_Interval
<1>6. order \in Surjection(D, S)
  BY <1>4, <1>5, FS_Injection
<1> QED
  BY <1>2, <1>3, <1>6 DEF Distinct, Entries, Surjection

\* One list after another, with nothing in common.
LEMMA ConcatFacts ==
  ASSUME NEW S, NEW q \in Seq(S), NEW r \in Seq(S), Distinct(q), Distinct(r),
         Entries(q) \cap Entries(r) = {}
  PROVE  q \o r \in Seq(S) /\ Distinct(q \o r) /\ Entries(q \o r) = Entries(q) \cup Entries(r)
<1>1. /\ q \o r \in Seq(S) /\ Len(q) \in Nat /\ Len(r) \in Nat /\ Len(q \o r) = Len(q) + Len(r)
      /\ \A i \in 1..(Len(q) + Len(r)) : (q \o r)[i] = IF i <= Len(q) THEN q[i] ELSE r[i - Len(q)]
  BY ConcatProperties
<1>2. \A i \in 1..Len(q), j \in 1..Len(r) : q[i] # r[j]
  BY DEF Entries
<1>3. ASSUME NEW i \in 1..Len(q \o r), NEW j \in 1..Len(q \o r), (q \o r)[i] = (q \o r)[j] PROVE i = j
  <2>1. CASE i <= Len(q) /\ j <= Len(q)
    BY <1>1, <1>3, <2>1 DEF Distinct
  <2>2. CASE i > Len(q) /\ j > Len(q)
    <3>1. i - Len(q) \in 1..Len(r) /\ j - Len(q) \in 1..Len(r) /\ r[i - Len(q)] = r[j - Len(q)]
      BY <1>1, <1>3, <2>2
    <3> QED
      BY <1>1, <3>1 DEF Distinct
  <2>3. CASE i <= Len(q) /\ j > Len(q)
    BY <1>1, <1>2, <1>3, <2>3
  <2>4. CASE i > Len(q) /\ j <= Len(q)
    BY <1>1, <1>2, <1>3, <2>4
  <2> QED
    BY <1>1, <2>1, <2>2, <2>3, <2>4
<1>4. Entries(q \o r) \subseteq Entries(q) \cup Entries(r)
  BY <1>1 DEF Entries
<1>5. ASSUME NEW i \in 1..Len(q) PROVE q[i] \in Entries(q \o r)
  BY <1>1 DEF Entries
<1>6. ASSUME NEW i \in 1..Len(r) PROVE r[i] \in Entries(q \o r)
  <2>1. Len(q) + i \in 1..Len(q \o r) /\ (q \o r)[Len(q) + i] = r[i]
    BY <1>1
  <2> QED
    BY <2>1 DEF Entries
<1>7. Entries(q) \cup Entries(r) \subseteq Entries(q \o r)
  BY <1>5, <1>6 DEF Entries
<1> QED
  BY <1>1, <1>3, <1>4, <1>7 DEF Distinct

\* A list without its first.
LEMMA TailFacts ==
  ASSUME NEW S, NEW s \in Seq(S), s # <<>>, Distinct(s)
  PROVE  /\ Tail(s) \in Seq(S) /\ Distinct(Tail(s))
         /\ Head(s) \in Entries(s) /\ Entries(Tail(s)) = Entries(s) \ {Head(s)}
<1>1. /\ Tail(s) \in Seq(S) /\ Len(s) \in Nat \ {0} /\ Len(Tail(s)) = Len(s) - 1 /\ Head(s) = s[1]
      /\ \A i \in 1..Len(Tail(s)) : Tail(s)[i] = s[i + 1]
  BY HeadTailProperties, EmptySeq
<1>2. Distinct(Tail(s))
  <2> SUFFICES ASSUME NEW i \in 1..Len(Tail(s)), NEW j \in 1..Len(Tail(s)), Tail(s)[i] = Tail(s)[j] PROVE i = j
    BY DEF Distinct
  <2>1. i + 1 \in 1..Len(s) /\ j + 1 \in 1..Len(s) /\ s[i + 1] = s[j + 1]
    BY <1>1
  <2> QED
    BY <1>1, <2>1 DEF Distinct
<1>3. Head(s) \in Entries(s)
  BY <1>1 DEF Entries
<1>4. ASSUME NEW i \in 1..Len(Tail(s)) PROVE Tail(s)[i] \in Entries(s) \ {Head(s)}
  <2>1. i + 1 \in 1..Len(s) /\ 1 \in 1..Len(s) /\ i + 1 # 1 /\ Tail(s)[i] = s[i + 1]
    BY <1>1
  <2> QED
    BY <1>1, <2>1 DEF Entries, Distinct
<1>5. ASSUME NEW i \in 1..Len(s), s[i] # Head(s) PROVE s[i] \in Entries(Tail(s))
  <2>1. i - 1 \in 1..Len(Tail(s)) /\ Tail(s)[i - 1] = s[i]
    BY <1>1, <1>5
  <2> QED
    BY <2>1 DEF Entries
<1>6. Entries(Tail(s)) = Entries(s) \ {Head(s)}
  BY <1>4, <1>5 DEF Entries
<1> QED
  BY <1>1, <1>2, <1>3, <1>6

----------------------------------------------------------------------------
(* What the steps share. *)

LEMMA VictimFacts ==
  ASSUME TypeOK, LargeOnly
  PROVE  Victims \subseteq Large /\ IsFiniteSet(Victims) /\ GivenUp \subseteq Victims
<1>1. Victims \subseteq Large
  BY DEF Victims, LargeOnly, InProc
<1> QED
  BY <1>1, PoolAssumption, FS_Subset DEF GivenUp

\* Behind the queue come the victims that are not given up; those are counted, and no victim is in
\* more crashes than it may.
LEMMA SortedFacts ==
  ASSUME TypeOK, LargeOnly, OnePlace, StillTried,
         NEW queue \in Seq(Large), Distinct(queue),
         \A g \in Entries(queue) : future[g] = "none",
         SortVictims(queue)
  PROVE  /\ retryLarge' \in Seq(Large) /\ Distinct(retryLarge')
         /\ Entries(retryLarge') = Entries(queue) \cup (Victims \ GivenUp)
         /\ crashCount' \in [Large -> 0..MaxInvolvement]
         /\ counted' \in [AllFiles -> Nat]
         /\ future' \in [AllFiles -> {"none", "proc", "thread", "killed", "procDone", "threadDone"}]
         /\ skipped' \subseteq Large
<1>1. PICK order \in SetToSeqs(Victims \ GivenUp) : retryLarge' = queue \o order
  BY DEF SortVictims
<1>2. IsFiniteSet(Victims \ GivenUp) /\ Victims \ GivenUp \subseteq Large
  BY VictimFacts, FS_Subset
<1>3. order \in Seq(Large) /\ Distinct(order) /\ Entries(order) = Victims \ GivenUp
  BY <1>2, OrderFacts, SeqMonotonic
<1>4. Entries(queue) \cap Entries(order) = {}
  BY <1>3 DEF Victims
<1>5. /\ retryLarge' \in Seq(Large) /\ Distinct(retryLarge')
      /\ Entries(retryLarge') = Entries(queue) \cup (Victims \ GivenUp)
  BY <1>1, <1>3, <1>4, ConcatFacts
<1>6. ASSUME NEW f \in Large, f \in Victims PROVE crashCount[f] + 1 \in 0..MaxInvolvement
  BY <1>6, PoolAssumption DEF Victims, AllFiles, OnePlace, Placed, StillTried, TypeOK
<1>7. crashCount' \in [Large -> 0..MaxInvolvement]
  BY <1>6 DEF SortVictims, TypeOK
<1>8. /\ counted' \in [AllFiles -> Nat]
      /\ future' \in [AllFiles -> {"none", "proc", "thread", "killed", "procDone", "threadDone"}]
      /\ skipped' \subseteq Large
  BY VictimFacts DEF SortVictims, TypeOK
<1> QED
  BY <1>5, <1>7, <1>8

\* The file that is drawn was in one of the lists and is in none of them any more.
LEMMA DrawnFacts ==
  ASSUME TypeOK, NoRepeat, OnePlace, NEW f \in Large, DrawLarge(f), UNCHANGED smallIter
  PROVE  /\ largeIter' \subseteq Large /\ retryLarge' \in Seq(Large) /\ Distinct(retryLarge')
         /\ f \in AllFiles /\ future[f] = "none" /\ counted[f] = 0
         /\ f \notin Drawable' /\ f \notin Entries(retryLarge')
         /\ \A g \in AllFiles : g # f => /\ g \in Drawable' <=> g \in Drawable
                                         /\ g \in Entries(retryLarge') <=> g \in Entries(retryLarge)
<1>1. f \in AllFiles /\ f \notin smallIter
  BY PoolAssumption DEF AllFiles, TypeOK
<1>2. CASE retryLarge # <<>>
  <2>1. /\ f = Head(retryLarge) /\ retryLarge' = Tail(retryLarge) /\ UNCHANGED largeIter
    BY <1>2 DEF DrawLarge
  <2>2. /\ retryLarge' \in Seq(Large) /\ Distinct(retryLarge')
        /\ f \in Entries(retryLarge) /\ Entries(retryLarge') = Entries(retryLarge) \ {f}
    BY <1>2, <2>1, TailFacts DEF TypeOK, NoRepeat
  <2> QED
    BY <1>1, <2>1, <2>2 DEF OnePlace, Placed, Drawable, TypeOK
<1>3. CASE retryLarge = <<>>
  BY <1>1, <1>3 DEF DrawLarge, OnePlace, Placed, Drawable, NoRepeat, TypeOK
<1> QED
  BY <1>2, <1>3

\* What _on_pool_broken finds in the retry list when a submit fails: the file that was drawn, first.
LEMMA PutBackFacts ==
  ASSUME TypeOK, NoRepeat, OnePlace, NEW f \in Large, SubmitToBrokenPool(f)
  PROVE  \E queue \in Seq(Large) :
           /\ Distinct(queue) /\ OnPoolBroken(queue) /\ f \in Entries(queue)
           /\ \A g \in Entries(queue) : future[g] = "none"
           /\ f \notin largeIter'
           /\ \A g \in AllFiles : g # f => /\ g \in largeIter' <=> g \in largeIter
                                           /\ g \in Entries(queue) <=> g \in Entries(retryLarge)
<1>1. CASE retryLarge # <<>>
  <2>1. f \in Entries(retryLarge)
    BY <1>1, TailFacts DEF SubmitToBrokenPool, TypeOK, NoRepeat
  <2>2. \A g \in Entries(retryLarge) : future[g] = "none"
    BY DEF OnePlace, Placed, Entries, TypeOK, AllFiles
  <2>3. f \notin largeIter
    BY <2>1 DEF OnePlace, Placed, Drawable, AllFiles
  <2> QED
    BY <1>1, <2>1, <2>2, <2>3 DEF SubmitToBrokenPool, TypeOK, NoRepeat
<1>2. CASE retryLarge = <<>>
  <2>1. /\ <<f>> \in Seq(Large) /\ Distinct(<<f>>) /\ Entries(<<f>>) = {f} /\ Entries(retryLarge) = {}
    BY <1>2 DEF Distinct, Entries
  <2>2. /\ f \in largeIter /\ largeIter' = largeIter \ {f} /\ OnPoolBroken(<<f>>) /\ future[f] = "none"
    BY <1>2 DEF SubmitToBrokenPool, OnePlace, Placed, Drawable, AllFiles
  <2> QED
    BY <2>1, <2>2
<1> QED
  BY <1>1, <1>2

\* The two callers of _on_pool_broken: a failed submit, a failed future.
LEMMA BrokenFacts ==
  ASSUME TypeOK, NoRepeat, OnePlace, NEW f \in AllFiles,
         \/ f \in Large /\ SubmitToBrokenPool(f)
         \/ HandleBroken(f)
  PROVE  \E queue \in Seq(Large) :
           /\ Distinct(queue) /\ OnPoolBroken(queue)
           /\ \A g \in Entries(queue) : future[g] = "none"
           /\ \A g \in AllFiles : g \in largeIter' \/ g \in Entries(queue)
                                <=> g \in largeIter \/ g \in Entries(retryLarge)
           /\ \A g \in Entries(queue) : g \notin largeIter'
           /\ largeIter' \subseteq largeIter /\ UNCHANGED smallIter
<1>1. CASE f \in Large /\ SubmitToBrokenPool(f)
  <2>1. UNCHANGED smallIter /\ largeIter' \subseteq largeIter
    BY <1>1 DEF SubmitToBrokenPool
  <2>2. f \in largeIter \/ f \in Entries(retryLarge)
    BY <1>1, TailFacts DEF SubmitToBrokenPool, TypeOK, NoRepeat
  <2>3. PICK queue \in Seq(Large) :
           /\ Distinct(queue) /\ OnPoolBroken(queue) /\ f \in Entries(queue)
           /\ \A g \in Entries(queue) : future[g] = "none"
           /\ f \notin largeIter'
           /\ \A g \in AllFiles : g # f => /\ g \in largeIter' <=> g \in largeIter
                                           /\ g \in Entries(queue) <=> g \in Entries(retryLarge)
    BY <1>1, PutBackFacts
  <2>4. \A g \in Entries(queue) : g \in AllFiles
    BY DEF Entries, AllFiles
  <2>5. \A g \in AllFiles : g \in largeIter' \/ g \in Entries(queue)
                         <=> g \in largeIter \/ g \in Entries(retryLarge)
    BY <2>2, <2>3
  <2>6. \A g \in AllFiles : g \in Entries(retryLarge) => g \notin largeIter
    BY DEF OnePlace, Placed, Drawable
  <2>7. \A g \in Entries(queue) : g \notin largeIter'
    BY <2>3, <2>4, <2>6
  <2> QED
    BY <2>1, <2>3, <2>5, <2>7
<1>2. CASE HandleBroken(f)
  <2>1. \A g \in Entries(retryLarge) : g \in AllFiles
    BY DEF Entries, AllFiles, TypeOK
  <2> QED
    BY <1>2, <2>1 DEF HandleBroken, NoRepeat, OnePlace, Placed, Drawable, TypeOK
<1> QED
  BY <1>1, <1>2

----------------------------------------------------------------------------
(* One lemma per conjunct, or two. *)

\* Every action leaves every variable in its type, and the retry list without repetition.
LEMMA TypeStep ==
  ASSUME TypeOK, LargeOnly, NoRepeat, OnePlace, StillTried, [Next]_vars
  PROVE  TypeOK' /\ NoRepeat'
<1> USE PoolAssumption
<1>1. ASSUME NEW f \in AllFiles, ThreadFinishes(f) \/ ProcFinishes(f) PROVE TypeOK' /\ NoRepeat'
  BY <1>1 DEF ThreadFinishes, ProcFinishes, drawVars, poolVars, TypeOK, NoRepeat
<1>2. CASE BreakPool
  BY <1>2 DEF BreakPool, drawVars, TypeOK, NoRepeat
<1>3. ASSUME NEW f \in Large, SubmitLarge(f) \/ SubmitLargeToThread(f) PROVE TypeOK' /\ NoRepeat'
  <2>1. /\ largeIter' \subseteq Large /\ retryLarge' \in Seq(Large) /\ Distinct(retryLarge') /\ f \in AllFiles
    BY <1>3, DrawnFacts DEF SubmitLarge, SubmitLargeToThread
  <2> QED
    BY <1>3, <2>1 DEF SubmitLarge, SubmitLargeToThread, poolVars, TypeOK, NoRepeat
<1>4. ASSUME NEW f \in Large, GiveUpSuspect(f) PROVE TypeOK' /\ NoRepeat'
  <2>1. /\ largeIter' \subseteq Large /\ retryLarge' \in Seq(Large) /\ Distinct(retryLarge') /\ f \in AllFiles
    BY <1>4, DrawnFacts DEF GiveUpSuspect
  <2> QED
    BY <1>4, <2>1 DEF GiveUpSuspect, poolVars, TypeOK, NoRepeat
<1>5. ASSUME NEW f \in Small, SubmitSmall(f) PROVE TypeOK' /\ NoRepeat'
  BY <1>5 DEF SubmitSmall, poolVars, TypeOK, NoRepeat
<1>6. CASE SubmitEnds \/ LoopEnds
  BY <1>6 DEF SubmitEnds, LoopEnds, drawVars, poolVars, TypeOK, NoRepeat
<1>7. ASSUME NEW f \in AllFiles, HandleResult(f) PROVE TypeOK' /\ NoRepeat'
  BY <1>7 DEF HandleResult, drawVars, poolVars, TypeOK, NoRepeat
<1>8. ASSUME NEW f \in AllFiles, (f \in Large /\ SubmitToBrokenPool(f)) \/ HandleBroken(f)
      PROVE  TypeOK' /\ NoRepeat'
  <2>1. PICK queue \in Seq(Large) :
           /\ Distinct(queue) /\ OnPoolBroken(queue)
           /\ \A g \in Entries(queue) : future[g] = "none"
           /\ largeIter' \subseteq largeIter /\ UNCHANGED smallIter
    BY <1>8, BrokenFacts
  <2>2. SortVictims(queue)
    BY <2>1 DEF OnPoolBroken
  <2>3. restarts' \in 0..MaxRestarts /\ pool' \in {"up", "none"}
    BY <2>1 DEF OnPoolBroken, TypeOK
  <2>4. pc' \in {"submit", "wait", "done"}
    BY <1>8 DEF SubmitToBrokenPool, HandleBroken, TypeOK
  <2> QED
    BY <2>1, <2>2, <2>3, <2>4, SortedFacts DEF TypeOK, NoRepeat
<1>9. CASE UNCHANGED vars
  BY <1>9 DEF vars, drawVars, poolVars, TypeOK, NoRepeat
<1> QED
  BY <1>1, <1>2, <1>3, <1>4, <1>5, <1>6, <1>7, <1>8, <1>9
     DEF Next, PoolStep, FileBreaksPool, WorkerKilled, LoopStep, AllFiles

\* A file leaves a place for another one, or stays.
LEMMA OnePlaceStep ==
  ASSUME TypeOK, LargeOnly, NoRepeat, OnePlace, StillTried, [Next]_vars
  PROVE  OnePlace'
<1>1. ASSUME NEW f \in AllFiles, ThreadFinishes(f) \/ ProcFinishes(f) PROVE OnePlace'
  BY <1>1 DEF ThreadFinishes, ProcFinishes, drawVars, TypeOK, OnePlace, Placed, Drawable
<1>2. CASE BreakPool
  BY <1>2 DEF BreakPool, drawVars, TypeOK, OnePlace, Placed, Drawable
<1>3. ASSUME NEW f \in Large, SubmitLarge(f) \/ SubmitLargeToThread(f) \/ GiveUpSuspect(f) PROVE OnePlace'
  <2>1. DrawLarge(f) /\ UNCHANGED smallIter
    BY <1>3 DEF SubmitLarge, SubmitLargeToThread, GiveUpSuspect
  <2>2. /\ f \in AllFiles /\ future[f] = "none" /\ counted[f] = 0
        /\ f \notin Drawable' /\ f \notin Entries(retryLarge')
        /\ \A g \in AllFiles : g # f => /\ g \in Drawable' <=> g \in Drawable
                                        /\ g \in Entries(retryLarge') <=> g \in Entries(retryLarge)
    BY <2>1, DrawnFacts
  <2>3. \A g \in AllFiles : g # f => future'[g] = future[g] /\ counted'[g] = counted[g]
    BY <1>3 DEF SubmitLarge, SubmitLargeToThread, GiveUpSuspect, TypeOK
  <2>4. \/ future'[f] # "none" /\ counted'[f] = 0
        \/ future'[f] = "none" /\ counted'[f] = 1
    BY <1>3, <2>2 DEF SubmitLarge, SubmitLargeToThread, GiveUpSuspect, TypeOK
  <2>5. Placed(f)'
    BY <2>2, <2>4 DEF Placed
  <2>6. ASSUME NEW g \in AllFiles, g # f PROVE Placed(g)'
    <3>1. Placed(g)
      BY DEF OnePlace
    <3>2. /\ g \in Drawable' <=> g \in Drawable
          /\ g \in Entries(retryLarge') <=> g \in Entries(retryLarge)
          /\ future'[g] = future[g] /\ counted'[g] = counted[g]
      BY <2>2, <2>3, <2>6
    <3> QED
      BY <3>1, <3>2 DEF Placed
  <2> QED
    BY <2>5, <2>6 DEF OnePlace
<1>4. ASSUME NEW f \in Small, SubmitSmall(f) PROVE OnePlace'
  BY <1>4, PoolAssumption DEF SubmitSmall, TypeOK, OnePlace, Placed, Drawable, AllFiles
<1>5. ASSUME NEW f \in AllFiles, HandleResult(f) PROVE OnePlace'
  BY <1>5 DEF HandleResult, drawVars, TypeOK, OnePlace, Placed, Drawable
<1>6. ASSUME NEW f \in AllFiles, (f \in Large /\ SubmitToBrokenPool(f)) \/ HandleBroken(f) PROVE OnePlace'
  <2>1. PICK queue \in Seq(Large) :
           /\ Distinct(queue) /\ OnPoolBroken(queue)
           /\ \A g \in Entries(queue) : future[g] = "none"
           /\ \A g \in AllFiles : g \in largeIter' \/ g \in Entries(queue)
                                <=> g \in largeIter \/ g \in Entries(retryLarge)
           /\ \A g \in Entries(queue) : g \notin largeIter'
           /\ largeIter' \subseteq largeIter /\ UNCHANGED smallIter
    BY <1>6, BrokenFacts
  <2>2. SortVictims(queue)
    BY <2>1 DEF OnPoolBroken
  <2>3. Entries(retryLarge') = Entries(queue) \cup (Victims \ GivenUp)
    BY <2>1, <2>2, SortedFacts
  <2> SUFFICES ASSUME NEW g \in AllFiles PROVE Placed(g)'
    BY DEF OnePlace
  <2>4. Placed(g)
    BY DEF OnePlace
  <2>5. /\ future'[g] = (IF g \in Victims THEN "none" ELSE future[g])
        /\ counted'[g] = (IF g \in GivenUp THEN counted[g] + 1 ELSE counted[g])
    BY <2>2 DEF SortVictims
  <2>6. g \in Victims => future[g] # "none" /\ g \notin Entries(queue)
    BY <2>1 DEF Victims
  <2>7. g \in Drawable' <=> g \in largeIter' \/ g \in smallIter
    BY <2>1 DEF Drawable
  <2>8. CASE g \in Victims
    <3>1. g \notin Drawable' /\ counted[g] = 0
      BY <2>1, <2>4, <2>6, <2>7, <2>8 DEF Placed, Drawable
    <3> QED
      BY <2>3, <2>5, <2>6, <2>8, <3>1 DEF Placed
  <2>9. CASE g \notin Victims
    <3>1. future'[g] = future[g] /\ counted'[g] = counted[g]
      BY <2>5, <2>9 DEF GivenUp
    <3>2. g \in Entries(retryLarge') <=> g \in Entries(queue)
      BY <2>3, <2>9
    <3>3. g \in smallIter => g \notin Entries(queue)
      BY PoolAssumption DEF Entries, TypeOK
    <3> QED
      BY <2>1, <2>4, <2>7, <3>1, <3>2, <3>3 DEF Placed, Drawable
  <2> QED
    BY <2>8, <2>9
<1>7. CASE SubmitEnds \/ LoopEnds \/ UNCHANGED vars
  BY <1>7 DEF SubmitEnds, LoopEnds, vars, drawVars, OnePlace, Placed, Drawable
<1> QED
  BY <1>1, <1>2, <1>3, <1>4, <1>5, <1>6, <1>7
     DEF Next, PoolStep, FileBreaksPool, WorkerKilled, LoopStep, AllFiles

LEMMA LargeOnlyStep ==
  ASSUME TypeOK, LargeOnly, [Next]_vars
  PROVE  LargeOnly'
<1>1. ASSUME NEW f \in AllFiles, PoolStep(f) PROVE LargeOnly'
  BY <1>1 DEF PoolStep, ThreadFinishes, ProcFinishes, FileBreaksPool, BreakPool, LargeOnly, InProc, TypeOK
<1>2. CASE WorkerKilled
  BY <1>2 DEF WorkerKilled, BreakPool, LargeOnly, InProc
<1>3. ASSUME NEW f \in Large, SubmitLarge(f) \/ SubmitLargeToThread(f) \/ GiveUpSuspect(f) PROVE LargeOnly'
  BY <1>3 DEF SubmitLarge, SubmitLargeToThread, GiveUpSuspect, LargeOnly, InProc, TypeOK, AllFiles
<1>4. ASSUME NEW f \in AllFiles, (f \in Large /\ SubmitToBrokenPool(f)) \/ HandleBroken(f) PROVE LargeOnly'
  <2>1. PICK queue : SortVictims(queue)
    BY <1>4 DEF SubmitToBrokenPool, HandleBroken, OnPoolBroken
  <2> QED
    BY <2>1 DEF SortVictims, LargeOnly, InProc
<1>5. ASSUME NEW f \in AllFiles, SubmitSmall(f) \/ HandleResult(f) PROVE LargeOnly'
  BY <1>5 DEF SubmitSmall, HandleResult, LargeOnly, InProc, TypeOK
<1>6. CASE SubmitEnds \/ LoopEnds \/ UNCHANGED vars
  BY <1>6 DEF SubmitEnds, LoopEnds, vars, LargeOnly, InProc
<1> QED
  BY <1>1, <1>2, <1>3, <1>4, <1>5, <1>6 DEF Next, LoopStep, AllFiles

\* A file that reaches the limit of crashes is given up in the same step; one that goes to a thread
\* was in none.
LEMMA CrashStep ==
  ASSUME TypeOK, LargeOnly, OnePlace, StillTried, SuspectsStayOut, [Next]_vars
  PROVE  StillTried' /\ SuspectsStayOut'
<1> USE PoolAssumption
<1>1. ASSUME NEW f \in AllFiles, PoolStep(f) PROVE StillTried' /\ SuspectsStayOut'
  BY <1>1 DEF PoolStep, ThreadFinishes, ProcFinishes, FileBreaksPool, BreakPool, StillTried, SuspectsStayOut,
     TypeOK, AllFiles
<1>2. CASE WorkerKilled
  BY <1>2 DEF WorkerKilled, BreakPool, StillTried, SuspectsStayOut, AllFiles
<1>3. ASSUME NEW f \in Large, SubmitLarge(f) \/ SubmitLargeToThread(f) PROVE StillTried' /\ SuspectsStayOut'
  BY <1>3 DEF SubmitLarge, SubmitLargeToThread, ThreadMayTake, StillTried, SuspectsStayOut, TypeOK, AllFiles
<1>4. ASSUME NEW f \in AllFiles, (f \in Large /\ GiveUpSuspect(f)) \/ HandleResult(f)
      PROVE  StillTried' /\ SuspectsStayOut'
  BY <1>4 DEF GiveUpSuspect, HandleResult, StillTried, SuspectsStayOut, TypeOK, AllFiles
<1>5. ASSUME NEW f \in AllFiles, (f \in Large /\ SubmitToBrokenPool(f)) \/ HandleBroken(f)
      PROVE  StillTried' /\ SuspectsStayOut'
  <2>1. PICK queue : SortVictims(queue)
    BY <1>5 DEF SubmitToBrokenPool, HandleBroken, OnPoolBroken
  <2> SUFFICES ASSUME NEW g \in Large
               PROVE  /\ counted'[g] = 0 => crashCount'[g] < MaxInvolvement
                      /\ crashCount'[g] > 0 => future'[g] \notin {"thread", "threadDone"}
    BY DEF StillTried, SuspectsStayOut
  <2>2. g \in AllFiles
    BY DEF AllFiles
  <2>3. CASE g \in Victims
    BY <2>1, <2>2, <2>3 DEF SortVictims, GivenUp, OnePlace, Placed, TypeOK, Victims
  <2>4. CASE g \notin Victims
    BY <2>1, <2>2, <2>4 DEF SortVictims, GivenUp, StillTried, SuspectsStayOut, TypeOK
  <2> QED
    BY <2>3, <2>4
<1>6. ASSUME NEW f \in Small, SubmitSmall(f) PROVE StillTried' /\ SuspectsStayOut'
  BY <1>6 DEF SubmitSmall, StillTried, SuspectsStayOut, TypeOK, AllFiles
<1>7. CASE SubmitEnds \/ LoopEnds \/ UNCHANGED vars
  BY <1>7 DEF SubmitEnds, LoopEnds, vars, StillTried, SuspectsStayOut
<1> QED
  BY <1>1, <1>2, <1>3, <1>4, <1>5, <1>6, <1>7 DEF Next, LoopStep, AllFiles

\* The loop goes from filling pending to waiting for it, and ends when it is empty.
LEMMA NothingLeftStep ==
  ASSUME TypeOK, OnePlace, NothingLeft, [Next]_vars
  PROVE  NothingLeft'
<1> USE PoolAssumption
<1>1. ASSUME NEW f \in AllFiles, PoolStep(f) PROVE NothingLeft'
  <2>1. f \in Pending /\ f \in Pending' /\ UNCHANGED pc
    BY <1>1 DEF PoolStep, ThreadFinishes, ProcFinishes, FileBreaksPool, BreakPool, Pending, TypeOK
  <2> QED
    BY <2>1 DEF NothingLeft
<1>2. CASE WorkerKilled
  <2>1. Pending' = Pending /\ UNCHANGED <<pc, drawVars>>
    BY <1>2 DEF WorkerKilled, BreakPool, Pending
  <2> QED
    BY <2>1 DEF NothingLeft, drawVars
<1>3. ASSUME NEW f \in Large,
             SubmitLarge(f) \/ SubmitToBrokenPool(f) \/ SubmitLargeToThread(f) \/ GiveUpSuspect(f)
      PROVE  NothingLeft'
  BY <1>3 DEF SubmitLarge, SubmitLargeToThread, GiveUpSuspect, SubmitToBrokenPool, Submitting, NothingLeft
<1>4. ASSUME NEW f \in Small, SubmitSmall(f) PROVE NothingLeft'
  BY <1>4 DEF SubmitSmall, Submitting, NothingLeft
<1>5. ASSUME NEW f \in AllFiles, HandleResult(f) \/ HandleBroken(f) PROVE NothingLeft'
  BY <1>5 DEF HandleResult, HandleBroken, NothingLeft
<1>6. CASE SubmitEnds
  <2>1. Pending' = Pending /\ UNCHANGED drawVars /\ pc' = "wait"
    BY <1>6 DEF SubmitEnds, Pending
  <2>2. CASE Cardinality(Pending) >= MaxPending
    <3>1. Pending # {}
      BY <2>2, FS_EmptySet
    <3> QED
      BY <2>1, <3>1 DEF NothingLeft
  <2>3. CASE NoLarge /\ smallIter = {}
    <3>1. Pending # {} \/ (retryLarge = <<>> /\ largeIter = {})
      BY <2>3 DEF NoLarge, ProcPending
    <3> QED
      BY <2>1, <2>3, <3>1 DEF NothingLeft, drawVars
  <2> QED
    BY <1>6, <2>2, <2>3 DEF SubmitEnds
<1>7. CASE LoopEnds \/ UNCHANGED vars
  BY <1>7 DEF LoopEnds, vars, drawVars, NothingLeft, Pending
<1> QED
  BY <1>1, <1>2, <1>3, <1>4, <1>5, <1>6, <1>7 DEF Next, LoopStep

----------------------------------------------------------------------------
(* From places to numbers. *)

\* A file in one place is there once.
LEMMA PlacesFacts ==
  ASSUME TypeOK, NoRepeat, OnePlace, NEW f \in AllFiles
  PROVE  Places(f) = 1
<1> DEFINE I == {i \in DOMAIN retryLarge : retryLarge[i] = f}
<1>1. DOMAIN retryLarge = 1..Len(retryLarge)
  BY DEF TypeOK
<1>2. Placed(f)
  BY DEF OnePlace
<1>3. CASE f \in Entries(retryLarge)
  <2>1. PICK i \in 1..Len(retryLarge) : retryLarge[i] = f
    BY <1>3 DEF Entries
  <2>2. I = {i}
    BY <1>1, <2>1 DEF NoRepeat, Distinct
  <2>3. Cardinality(I) = 1
    BY <2>2, FS_Singleton
  <2> QED
    BY <1>2, <1>3, <2>3 DEF Placed, Places, Drawable
<1>4. CASE f \notin Entries(retryLarge)
  <2>1. I = {}
    BY <1>1, <1>4 DEF Entries
  <2>2. Cardinality(I) = 0
    BY <2>1, FS_EmptySet
  <2> QED
    BY <1>2, <1>4, <2>2 DEF Placed, Places, Drawable
<1> QED
  BY <1>3, <1>4

----------------------------------------------------------------------------
(* Theorems. *)

\* All of the above together: IInv is inductive.
THEOREM Inductive == Spec => []IInv
<1>1. ASSUME Init PROVE IInv
  <2>1. retryLarge \in Seq(Large) /\ Entries(retryLarge) = {} /\ Distinct(retryLarge)
    BY <1>1 DEF Init, Entries, Distinct
  <2>2. TypeOK
    BY <1>1, <2>1, PoolAssumption DEF Init, TypeOK
  <2>3. OnePlace
    BY <1>1, <2>1 DEF Init, OnePlace, Placed, Drawable, AllFiles
  <2> QED
    BY <1>1, <2>1, <2>2, <2>3, PoolAssumption
       DEF Init, IInv, LargeOnly, InProc, NoRepeat, StillTried, SuspectsStayOut, NothingLeft, AllFiles
<1>2. IInv /\ [Next]_vars => IInv'
  BY TypeStep, LargeOnlyStep, OnePlaceStep, CrashStep, NothingLeftStep DEF IInv
<1> QED
  BY <1>1, <1>2, PTL DEF Spec

\* Every variable keeps its type: no file is in more crashes than it may, no more pools are started.
THEOREM TypeCorrect == Spec => []TypeOK
<1>1. IInv => TypeOK
  BY DEF IInv
<1> QED
  BY <1>1, Inductive, PTL

\* Each file is in exactly one place at any time, and counted when the loop is done.
THEOREM EachFileIsCounted == Spec => []EachFileOnce
<1>1. ASSUME IInv PROVE EachFileOnce
  <2>1. \A f \in AllFiles : Places(f) = 1
    BY <1>1, PlacesFacts DEF IInv
  <2>2. ASSUME pc = "done", NEW f \in AllFiles PROVE counted[f] = 1
    <3>1. f \notin Drawable /\ f \notin Entries(retryLarge) /\ future[f] = "none"
      BY <1>1, <2>2 DEF IInv, NothingLeft, Pending, Drawable, Entries
    <3> QED
      BY <1>1, <3>1 DEF IInv, OnePlace, Placed
  <2> QED
    BY <2>1, <2>2 DEF EachFileOnce
<1> QED
  BY <1>1, Inductive, PTL

\* A file that was being parsed when a process died is not parsed by a thread of the API process.
THEOREM NoSuspectInside == Spec => []SuspectsStayOut
<1>1. IInv => SuspectsStayOut
  BY DEF IInv
<1> QED
  BY <1>1, Inductive, PTL

----------------------------------------------------------------------------
(* Loops. *)

\* Induction, for a set in the place of a predicate.
LEMMA Induct ==
  ASSUME NEW S, 0 \in S, \A n \in Nat : n \in S => n + 1 \in S
  PROVE  \A n \in Nat : n \in S
<1>1. SUFFICES ASSUME Nat \ S # {} PROVE FALSE
  OBVIOUS
<1>2. PICK x \in Nat \ S : \A y \in Nat \ S : ~(<<y, x>> \in OpToRel(<, Nat))
  <2>1. Nat \ S \subseteq Nat
    OBVIOUS
  <2>2. IsWellFoundedOn(OpToRel(<, Nat), Nat)
    BY NatLessThanWellFounded
  <2> QED BY Zenon, <1>1, <2>1, <2>2, WFMin
<1>3. \A y \in Nat \ S : ~(y < x)
  BY <1>2 DEF OpToRel
<1>4. x # 0 /\ x - 1 \in Nat
  OBVIOUS
<1>5. x - 1 \in S
  BY <1>3, <1>4
<1>6. (x - 1) + 1 \in S
  BY <1>4, <1>5
<1> QED BY <1>4, <1>6

\* Numbers have a least one.
LEMMA Least ==
  ASSUME NEW X, X \subseteq Nat, X # {}
  PROVE  \E x \in X : \A y \in X : x <= y
<1>1. PICK x \in X : \A y \in X : ~(<<y, x>> \in OpToRel(<, Nat))
  <2>1. IsWellFoundedOn(OpToRel(<, Nat), Nat)
    BY NatLessThanWellFounded
  <2> QED BY Zenon, <2>1, WFMin
<1>2. \A y \in X : ~(y < x)
  BY <1>1 DEF OpToRel
<1> QED BY <1>2

\* Numbers that do not go beyond n have a largest one.
LEMMA Largest ==
  ASSUME NEW n \in Nat, NEW X, X \subseteq 0..n, X # {}
  PROVE  \E x \in X : \A y \in X : y <= x
<1> DEFINE D == {n - x : x \in X}
<1>1. D \subseteq Nat /\ D # {}
  <2>1. \A x \in X : x \in 0..n
    OBVIOUS
  <2>2. \A x \in 0..n : n - x \in Nat
    OBVIOUS
  <2>3. \A x \in X : n - x \in Nat
    BY <2>1, <2>2
  <2>4. \A d \in D : d \in Nat
    BY <2>3
  <2>5. D # {}
    OBVIOUS
  <2> HIDE DEF D
  <2> QED BY <2>4, <2>5
<1> HIDE DEF D
<1>2. PICK d \in D : \A e \in D : d <= e
  BY <1>1, Least
<1>3. PICK x \in X : d = n - x
  BY DEF D
<1>4. \A y \in X : n - y \in D
  BY DEF D
<1>5. \A y \in X : n - x <= n - y
  BY <1>2, <1>3, <1>4
<1> QED BY <1>5

\* What each step of a loop keeps holds after all of them.
LEMMA LoopKeeps ==
  ASSUME NEW n \in Nat, NEW f, NEW S, f[0] \in S[0],
         \A i \in 1..n : f[i - 1] \in S[i - 1] => f[i] \in S[i]
  PROVE  \A i \in 0..n : f[i] \in S[i]
<1> DEFINE P == {m \in Nat : m <= n => f[m] \in S[m]}
<1>1. 0 \in P
  OBVIOUS
<1>2. ASSUME NEW m \in Nat, m \in P PROVE m + 1 \in P
  <2>1. SUFFICES ASSUME m + 1 <= n PROVE f[m + 1] \in S[m + 1]
    OBVIOUS
  <2>2. m + 1 \in 1..n /\ (m + 1) - 1 = m /\ f[m] \in S[m]
    BY <1>2, <2>1
  <2> QED BY <2>2
<1>3. \A m \in Nat : m \in P
  <2> HIDE DEF P
  <2> QED BY <1>1, <1>2, Induct
<1> QED BY <1>3

\* The step G[i] leads from the values S[i - 1] to the values S[i].
Leads(n, start, G, S) ==
  start \in S[0] /\ \A i \in 1..n : \A a \in S[i - 1] : G[i][a] \in S[i]

\* What the steps leave, one by one.
Run(n, start, G, S, f) ==
  /\ f = [i \in 0..n |-> f[i]]
  /\ f[0] = start
  /\ \A i \in 1..n : f[i] = G[i][f[i - 1]]
  /\ \A i \in 0..n : f[i] \in S[i]

\* A loop whose steps are functions can be run.
LEMMA LoopRuns ==
  ASSUME NEW n \in Nat, NEW start, NEW G, NEW S, Leads(n, start, G, S)
  PROVE  \E f : Run(n, start, G, S, f)
<1> DEFINE Ran(m, f) == f = [i \in 0..m |-> f[i]] /\ f[0] = start /\ \A i \in 1..m : f[i] = G[i][f[i - 1]]
           Kept(m, f) == \A i \in 0..m : f[i] \in S[i]
           P == {m \in Nat : m <= n => \E f : Ran(m, f) /\ Kept(m, f)}
<1>. start \in S[0] /\ \A i \in 1..n : \A a \in S[i - 1] : G[i][a] \in S[i]
  BY DEF Leads
<1>1. 0 \in P
  <2> DEFINE f0 == [i \in 0..0 |-> start]
  <2>1. Ran(0, f0) /\ Kept(0, f0)
    OBVIOUS
  <2> QED BY <2>1
<1>2. ASSUME NEW m \in Nat, m \in P PROVE m + 1 \in P
  <2>1. SUFFICES ASSUME m + 1 <= n PROVE \E g : Ran(m + 1, g) /\ Kept(m + 1, g)
    OBVIOUS
  <2>2. PICK f : Ran(m, f) /\ Kept(m, f)
    BY <1>2, <2>1
  <2> DEFINE g == [i \in 0..(m + 1) |-> IF i = m + 1 THEN G[m + 1][f[m]] ELSE f[i]]
  <2>3. f[m] \in S[m] /\ m + 1 \in 1..n /\ (m + 1) - 1 = m
    BY <2>1, <2>2
  <2>4. G[m + 1][f[m]] \in S[m + 1]
    BY <2>3
  <2>5. Kept(m + 1, g)
    BY <2>2, <2>4
  <2>6. g[0] = start /\ \A i \in 1..(m + 1) : g[i] = G[i][g[i - 1]]
    <3>1. \A i \in 0..m : g[i] = f[i]
      OBVIOUS
    <3>2. g[m + 1] = G[m + 1][f[m]] /\ 0 \in 0..m
      OBVIOUS
    <3>3. \A i \in 1..(m + 1) : i = m + 1 \/ (i \in 1..m /\ i \in 0..m /\ i - 1 \in 0..m)
      OBVIOUS
    <3> HIDE DEF g
    <3>4. \A i \in 1..m : g[i] = G[i][g[i - 1]]
      <4>1. SUFFICES ASSUME NEW i \in 1..m PROVE g[i] = G[i][g[i - 1]]
        OBVIOUS
      <4>2. i \in 0..m /\ i - 1 \in 0..m
        OBVIOUS
      <4>3. f[i] = G[i][f[i - 1]]
        BY Zenon, <2>2
      <4> QED BY Zenon, <4>2, <4>3, <3>1
    <3>5. g[m + 1] = G[m + 1][g[(m + 1) - 1]]
      BY <2>3, <3>1, <3>2
    <3> QED BY <2>2, <3>1, <3>2, <3>3, <3>4, <3>5
  <2>7. g = [i \in 0..(m + 1) |-> g[i]]
    OBVIOUS
  <2> QED BY Zenon, <2>5, <2>6, <2>7
<1>3. \A m \in Nat : m \in P
  <2> HIDE DEF P
  <2> QED BY <1>1, <1>2, Induct
<1>4. \E f : Ran(n, f) /\ Kept(n, f)
  BY <1>3
<1> QED BY Zenon, <1>4 DEF Run

----------------------------------------------------------------------------
(* Sequences put together. *)

\* The elements of a sequence are at its places.
LEMMA Members ==
  ASSUME NEW S, NEW s \in Seq(S)
  PROVE  /\ Len(s) \in Nat /\ DOMAIN s = 1..Len(s)
         /\ ToSet(s) = {s[i] : i \in 1..Len(s)} /\ ToSet(s) \subseteq S
<1>1. Len(s) \in Nat /\ DOMAIN s = 1..Len(s) /\ \A i \in 1..Len(s) : s[i] \in S
  OBVIOUS
<1>2. ToSet(s) = {s[i] : i \in 1..Len(s)}
  BY Zenon, <1>1 DEF ToSet
<1> QED BY <1>1, <1>2

\* What two sequences have together.
LEMMA Appended ==
  ASSUME NEW S, NEW s \in Seq(S), NEW t \in Seq(S)
  PROVE  ToSet(s \o t) = ToSet(s) \cup ToSet(t)
<1> DEFINE m == Len(s)
           n == Len(t)
           st == s \o t
<1>1. st \in Seq(S) /\ Len(st) = m + n /\ m \in Nat /\ n \in Nat
  OBVIOUS
<1>2. \A i \in 1..m : st[i] = s[i] /\ i \in 1..(m + n)
  BY <1>1
<1>3. \A i \in 1..n : st[i + m] = t[i] /\ i + m \in 1..(m + n)
  BY <1>1
<1>4. \A i \in 1..(m + n) : i \in 1..m \/ (i - m \in 1..n /\ st[i] = t[i - m])
  BY <1>1
<1>5. ToSet(s) = {s[i] : i \in 1..m} /\ ToSet(t) = {t[i] : i \in 1..n} /\ ToSet(st) = {st[i] : i \in 1..(m + n)}
  BY <1>1, Members
<1> HIDE DEF m, n, st
<1>6. {s[i] : i \in 1..m} \subseteq {st[i] : i \in 1..(m + n)}
  BY <1>2
<1>7. {t[i] : i \in 1..n} \subseteq {st[i] : i \in 1..(m + n)}
  BY <1>3
<1>8. {st[i] : i \in 1..(m + n)} \subseteq {s[i] : i \in 1..m} \cup {t[i] : i \in 1..n}
  BY <1>2, <1>4
<1> QED BY <1>5, <1>6, <1>7, <1>8 DEF st

\* The ends of a flattened sequence grow by one member at a time.
LEMMA Flattened ==
  ASSUME NEW S, NEW ss \in Seq(Seq(S))
  PROVE  \E f \in [0..Len(ss) -> Seq(S)] :
           /\ f[0] = <<>>
           /\ \A n \in 1..Len(ss) : f[n] = f[n - 1] \o ss[n]
           /\ FlattenSeq(ss) = f[Len(ss)]
<1> DEFINE N == Len(ss)
           T == [i \in 0..N |-> Seq(S)]
           G == [i \in 1..N |-> [a \in Seq(S) |-> a \o ss[i]]]
<1>1. N \in Nat /\ \A i \in 1..N : ss[i] \in Seq(S) /\ i - 1 \in 0..N /\ i \in 0..N
  OBVIOUS
<1> HIDE DEF N
<1>2. (\A i \in 0..N : T[i] = Seq(S)) /\ \A i \in 1..N : \A a \in Seq(S) : G[i][a] = a \o ss[i]
  BY Zenon
<1> HIDE DEF T, G
<1>3. Leads(N, <<>>, G, T)
  <2>1. <<>> \in Seq(S) /\ 0 \in 0..N
    BY <1>1, EmptySeq
  <2>2. SUFFICES ASSUME NEW i \in 1..N, NEW a \in T[i - 1] PROVE G[i][a] \in T[i]
    BY <1>2, <2>1 DEF Leads
  <2>3. T[i - 1] = Seq(S) /\ T[i] = Seq(S) /\ ss[i] \in Seq(S)
    BY <1>1, <1>2
  <2>4. G[i][a] = a \o ss[i] /\ a \o ss[i] \in Seq(S)
    BY <1>2, <2>3, ConcatProperties
  <2> QED BY <2>3, <2>4
<1>5. PICK f : Run(N, <<>>, G, T, f)
  BY <1>1, <1>3, LoopRuns
<1>6. f \in [0..N -> Seq(S)]
  BY <1>2, <1>5 DEF Run
<1>7. f[0] = <<>> /\ \A n \in 1..N : f[n] = f[n - 1] \o ss[n]
  <2>1. \A n \in 1..N : f[n - 1] \in Seq(S)
    BY <1>1, <1>6
  <2> QED BY Zenon, <1>2, <1>5, <2>1 DEF Run
<1>8. CASE N = 0
  <2>1. ss = <<>>
    BY <1>8 DEF N
  <2>2. FlattenSeq(ss) = <<>>
    BY <1>8, <2>1 DEF FlattenSeq, N
  <2> QED BY <1>6, <1>7, <1>8, <2>2 DEF N
<1>9. CASE N # 0
  <2> DEFINE h == [i \in 1..N |-> f[i]]
  <2>1. \A i \in 1..N : h[i] = IF i = 1 THEN ss[i] ELSE h[i - 1] \o ss[i]
    <3>1. \A i \in 1..N : i = 1 => f[i] = ss[i]
      <4>1. \A i \in 1..N : i = 1 => f[i] = <<>> \o ss[i]
        <5>1. SUFFICES ASSUME 1 \in 1..N PROVE f[1] = <<>> \o ss[1]
          BY Zenon
        <5>2. f[1] = f[1 - 1] \o ss[1]
          BY Zenon, <5>1, <1>7
        <5>3. 1 - 1 = 0
          OBVIOUS
        <5> QED BY Zenon, <5>2, <5>3, <1>7
      <4> QED BY <4>1, <1>1, ConcatEmptySeq
    <3>2. \A i \in 1..N : i # 1 => h[i - 1] = f[i - 1]
      BY <1>1
    <3> QED BY <1>7, <3>1, <3>2
  <2>2. h = [i \in 1..N |-> IF i = 1 THEN ss[i] ELSE h[i - 1] \o ss[i]]
    <3> DEFINE r == [i \in 1..N |-> IF i = 1 THEN ss[i] ELSE h[i - 1] \o ss[i]]
    <3>1. \A i \in 1..N : h[i] = r[i]
      BY Zenon, <2>1
    <3>2. DOMAIN h = 1..N /\ DOMAIN r = 1..N
      OBVIOUS
    <3>3. h = [i \in 1..N |-> h[i]] /\ r = [i \in 1..N |-> r[i]]
      OBVIOUS
    <3> HIDE DEF h, r
    <3>4. h = r
      BY <3>1, <3>3
    <3> QED BY Zenon, <3>4 DEF r
  <2>3. \E g : g = [i \in 1..N |-> IF i = 1 THEN ss[i] ELSE g[i - 1] \o ss[i]] /\ FlattenSeq(ss) = g[N]
    <3> HIDE DEF h
    <3> QED BY Zenon, <1>9, <2>2 DEF FlattenSeq, N
  <2>4. PICK g : g = [i \in 1..N |-> IF i = 1 THEN ss[i] ELSE g[i - 1] \o ss[i]] /\ FlattenSeq(ss) = g[N]
    BY <2>3
  <2>5. \A i \in 1..N : g[i] = IF i = 1 THEN ss[i] ELSE g[i - 1] \o ss[i]
    BY Zenon, <2>4
  <2> DEFINE e == [i \in 0..N |-> IF i = 0 THEN <<>> ELSE g[i]]
             U == [i \in 0..N |-> {f[i]}]
  <2>6. (\A i \in 0..N : U[i] = {f[i]}) /\ e[0] = <<>> /\ \A i \in 1..N : e[i] = g[i]
    BY <1>1
  <2> HIDE DEF h, e, U
  <2>7. e[0] \in U[0]
    BY <1>1, <1>7, <2>6
  <2>8. \A i \in 1..N : e[i - 1] \in U[i - 1] => e[i] \in U[i]
    <3>1. SUFFICES ASSUME NEW i \in 1..N, e[i - 1] = f[i - 1] PROVE g[i] = f[i]
      BY <1>1, <2>6
    <3>2. CASE i = 1
      <4>1. g[i] = ss[i] /\ f[i] = f[i - 1] \o ss[i]
        BY Zenon, <2>5, <3>2, <1>7
      <4>2. i - 1 = 0
        BY <3>2
      <4>3. f[i] = <<>> \o ss[i]
        BY Zenon, <4>1, <4>2, <1>7
      <4> QED BY <4>1, <4>3, <1>1, ConcatEmptySeq
    <3>3. CASE i # 1
      <4>1. i - 1 \in 1..N
        BY <1>1, <3>3
      <4>2. g[i - 1] = f[i - 1]
        BY <4>1, <2>6, <3>1
      <4> QED BY <4>2, <2>5, <1>7, <3>3
    <3> QED BY <3>2, <3>3
  <2>9. \A i \in 0..N : e[i] \in U[i]
    BY <1>1, <2>7, <2>8, LoopKeeps
  <2>10. g[N] = f[N]
    BY <1>1, <1>9, <2>6, <2>9
  <2> QED BY <1>6, <1>7, <2>4, <2>10 DEF N
<1> QED BY <1>8, <1>9

\* What the members have, and nothing else.
LEMMA FlattenFacts ==
  ASSUME NEW S, NEW ss \in Seq(Seq(S))
  PROVE  /\ FlattenSeq(ss) \in Seq(S)
         /\ ToSet(FlattenSeq(ss)) = UNION {ToSet(ss[i]) : i \in DOMAIN ss}
<1> DEFINE N == Len(ss)
           T == [n \in 0..N |-> {s \in Seq(S) : ToSet(s) = UNION {ToSet(ss[i]) : i \in 1..n}}]
<1>1. PICK f \in [0..N -> Seq(S)] :
        f[0] = <<>> /\ (\A n \in 1..N : f[n] = f[n - 1] \o ss[n]) /\ FlattenSeq(ss) = f[N]
  BY Flattened
<1>2. N \in Nat /\ DOMAIN ss = 1..N /\ \A i \in 1..N : ss[i] \in Seq(S) /\ i - 1 \in 0..N /\ i \in 0..N
  OBVIOUS
<1> HIDE DEF N
<1>3. \A n \in 0..N : T[n] = {s \in Seq(S) : ToSet(s) = UNION {ToSet(ss[i]) : i \in 1..n}}
  BY Zenon
<1> HIDE DEF T
<1>4. f[0] \in T[0]
  <2>1. ToSet(<<>>) = {}
    <3>1. DOMAIN <<>> = {}
      OBVIOUS
    <3> QED BY Zenon, <3>1 DEF ToSet
  <2>2. (1..0) = {} /\ <<>> \in Seq(S) /\ 0 \in 0..N
    BY <1>2
  <2>3. UNION {ToSet(ss[i]) : i \in 1..0} = {}
    BY <2>2
  <2> QED BY <1>1, <1>3, <2>1, <2>2, <2>3
<1>5. ASSUME NEW n \in 1..N, f[n - 1] \in T[n - 1] PROVE f[n] \in T[n]
  <2>1. f[n - 1] \in Seq(S) /\ ToSet(f[n - 1]) = UNION {ToSet(ss[i]) : i \in 1..(n - 1)}
    BY <1>2, <1>3, <1>5
  <2>2. f[n] = f[n - 1] \o ss[n] /\ ss[n] \in Seq(S)
    BY <1>1, <1>2
  <2>3. f[n] \in Seq(S) /\ ToSet(f[n]) = ToSet(f[n - 1]) \cup ToSet(ss[n])
    BY <2>1, <2>2, Appended, ConcatProperties
  <2>4. (1..n) = (1..(n - 1)) \cup {n}
    BY <1>2
  <2>5. UNION {ToSet(ss[i]) : i \in 1..n} = (UNION {ToSet(ss[i]) : i \in 1..(n - 1)}) \cup ToSet(ss[n])
    BY Zenon, <2>4
  <2> QED BY <1>2, <1>3, <2>1, <2>3, <2>5
<1>6. \A n \in 0..N : f[n] \in T[n]
  BY <1>2, <1>4, <1>5, LoopKeeps
<1> QED BY <1>1, <1>2, <1>3, <1>6

----------------------------------------------------------------------------
(* Elements at some places. *)

\* The places are followed from the first to the last.
LEMMA ThoseInOrder ==
  ASSUME NEW S, NEW s \in Seq(S), NEW P
  PROVE  \E at \in Seq(1..Len(s)) :
           /\ Those(s, P) \in Seq(S)
           /\ Len(Those(s, P)) = Len(at)
           /\ \A k \in 1..Len(at) : Those(s, P)[k] = s[at[k]]
           /\ \A k \in 1..(Len(at) - 1) : at[k] < at[k + 1]
           /\ ToSet(at) = P \cap 1..Len(s)
<1> DEFINE N == Len(s)
           ss == [i \in 1..N |-> IF i \in P THEN <<s[i]>> ELSE <<>>]
           Good(n, r, at) ==
             /\ Len(r) = Len(at)
             /\ \A k \in 1..Len(at) : r[k] = s[at[k]]
             /\ \A k \in 1..(Len(at) - 1) : at[k] < at[k + 1]
             /\ ToSet(at) = P \cap 1..n
           T == [n \in 0..N |-> {r \in Seq(S) : \E at \in Seq(1..N) : Good(n, r, at)}]
<1>1. N \in Nat /\ DOMAIN s = 1..N /\ \A i \in 1..N : s[i] \in S /\ i - 1 \in 0..N /\ i \in 0..N
  OBVIOUS
<1>2. ss \in Seq(Seq(S)) /\ Len(ss) = N /\ Those(s, P) = FlattenSeq(ss)
  <2>1. \A i \in 1..N : (IF i \in P THEN <<s[i]>> ELSE <<>>) \in Seq(S)
    <3>1. \A i \in 1..N : <<s[i]>> \in Seq(S)
      BY <1>1
    <3>2. <<>> \in Seq(S)
      BY EmptySeq
    <3> QED BY Zenon, <3>1, <3>2
  <2>2. ss \in [1..N -> Seq(S)]
    BY Zenon, <2>1
  <2>3. ss \in Seq(Seq(S)) /\ Len(ss) = N
    <3> HIDE DEF ss, N
    <3> QED BY <1>1, <2>2
  <2>4. Those(s, P) = FlattenSeq(ss)
    BY Zenon, <1>1 DEF Those
  <2> QED BY <2>3, <2>4
<1>3. \A i \in 1..N : (i \in P => ss[i] = <<s[i]>>) /\ (i \notin P => ss[i] = <<>>)
  BY Zenon
<1>4. \A n \in 0..N : T[n] = {r \in Seq(S) : \E at \in Seq(1..N) : Good(n, r, at)}
  BY Zenon
<1> HIDE DEF ss, N, T
<1>5. PICK f \in [0..N -> Seq(S)] :
        f[0] = <<>> /\ (\A n \in 1..N : f[n] = f[n - 1] \o ss[n]) /\ FlattenSeq(ss) = f[N]
  BY <1>2, Flattened
<1>6. f[0] \in T[0]
  <2>1. <<>> \in Seq(S) /\ <<>> \in Seq(1..N) /\ Len(<<>>) = 0
    BY EmptySeq
  <2>2. DOMAIN <<>> = {}
    OBVIOUS
  <2>3. ToSet(<<>>) = {}
    BY Zenon, <2>2 DEF ToSet
  <2>4. Good(0, <<>>, <<>>)
    BY <2>1, <2>3
  <2>5. 0 \in 0..N
    BY <1>1
  <2> HIDE DEF Good
  <2> QED BY <1>4, <1>5, <2>1, <2>4, <2>5
<1>7. ASSUME NEW n \in 1..N, f[n - 1] \in T[n - 1] PROVE f[n] \in T[n]
  <2>1. n - 1 \in 0..N /\ n \in 0..N /\ n - 1 \in Nat /\ n \in Nat /\ f[n] \in Seq(S) /\ f[n - 1] \in Seq(S)
    BY <1>1
  <2>2. PICK at \in Seq(1..N) : Good(n - 1, f[n - 1], at)
    BY Zenon, <1>4, <1>7, <2>1
  <2>3. f[n] = f[n - 1] \o ss[n]
    BY <1>5
  <2>4. (1..n) = (1..(n - 1)) \cup {n} /\ n \notin 1..(n - 1)
    BY <2>1
  <2>5. CASE n \notin P
    <3>1. f[n] = f[n - 1]
      BY <1>3, <2>1, <2>3, <2>5, ConcatEmptySeq
    <3>2. P \cap 1..n = P \cap 1..(n - 1)
      BY <2>4, <2>5
    <3>3. Good(n, f[n], at)
      BY Zenon, <2>2, <3>1, <3>2
    <3> HIDE DEF Good
    <3> QED BY Zenon, <3>3, <2>1, <1>4
  <2>6. CASE n \in P
    <3> DEFINE new == Append(at, n)
               r == Append(f[n - 1], s[n])
               L == Len(at)
    <3>1. f[n] = r
      <4>1. f[n] = f[n - 1] \o <<s[n]>> /\ s[n] \in S
        BY Zenon, <1>1, <1>3, <2>3, <2>6
      <4>2. \A t \in Seq(S) : \A e \in S : Append(t, e) = t \o <<e>>
        OBVIOUS
      <4> QED BY <4>1, <4>2, <2>1
    <3>2. new \in Seq(1..N) /\ Len(new) = L + 1 /\ L \in Nat
      BY <2>1
    <3>3. (\A k \in 1..L : new[k] = at[k] /\ k # L + 1) /\ new[L + 1] = n
      BY <3>2
    <3>4. Len(r) = L + 1 /\ (\A k \in 1..L : r[k] = f[n - 1][k]) /\ r[L + 1] = s[n]
      BY <1>1, <2>1, <2>2
    <3>5. ToSet(at) = {at[k] : k \in 1..L} /\ ToSet(new) = {new[k] : k \in 1..(L + 1)}
      BY <3>2, Members
    <3>6. \A k \in 1..L : at[k] \in 1..(n - 1)
      BY <2>2, <3>5
    <3>7. (\A k \in 1..L : r[k] = s[at[k]]) /\ (\A k \in 1..(L - 1) : at[k] < at[k + 1]) /\ ToSet(at) = P \cap 1..(n - 1)
      BY <2>2, <3>2
    <3>8. 1..(L + 1) = (1..L) \cup {L + 1} /\ \A k \in 1..L : k \in 1..(L - 1) \/ k = L
      BY <3>2
    <3> HIDE DEF new, r, L
    <3>9. \A k \in 1..(L + 1) : r[k] = s[new[k]]
      BY Zenon, <3>3, <3>4, <3>7, <3>8
    <3>10. \A k \in 1..L : new[k] < new[k + 1]
      <4>1. SUFFICES ASSUME NEW k \in 1..L PROVE new[k] < new[k + 1]
        OBVIOUS
      <4>2. CASE k = L
        <5>1. at[k] \in 1..(n - 1) /\ new[k] = at[k] /\ new[L + 1] = n
          BY Zenon, <3>3, <3>6
        <5>2. at[k] < n
          BY <5>1, <2>1
        <5> QED BY Zenon, <5>1, <5>2, <4>2
      <4>3. CASE k \in 1..(L - 1)
        <5>1. k + 1 \in 1..L
          BY <3>2, <4>3
        <5> QED BY Zenon, <4>3, <5>1, <3>3, <3>7
      <4> QED BY <3>8, <4>2, <4>3
    <3>11. ToSet(new) = P \cap 1..n
      <4>1. {new[k] : k \in 1..(L + 1)} = {at[k] : k \in 1..L} \cup {n}
        BY <3>3, <3>8
      <4> QED BY <4>1, <3>5, <3>7, <2>4, <2>6
    <3>12. Good(n, r, new)
      <4>1. (L + 1) - 1 = L
        BY <3>2
      <4> QED BY Zenon, <4>1, <3>2, <3>4, <3>9, <3>10, <3>11
    <3> HIDE DEF Good
    <3> QED BY Zenon, <3>1, <3>2, <3>12, <2>1, <1>4
  <2> QED BY <2>5, <2>6
<1>8. \A n \in 0..N : f[n] \in T[n]
  BY <1>1, <1>6, <1>7, LoopKeeps
<1>9. PICK at \in Seq(1..N) : Good(N, f[N], at)
  <2>1. N \in 0..N
    BY <1>1
  <2> HIDE DEF Good
  <2> QED BY Zenon, <1>4, <1>8, <2>1
<1>10. f[N] = Those(s, P) /\ f[N] \in Seq(S)
  BY <1>1, <1>2, <1>5
<1> QED BY Zenon, <1>9, <1>10 DEF N

\* An increasing sequence of numbers grows at each step.
LEMMA Increasing ==
  ASSUME NEW at \in Seq(Int), \A k \in 1..(Len(at) - 1) : at[k] < at[k + 1]
  PROVE  \A j, k \in 1..Len(at) : j < k => at[j] < at[k]
<1>1. SUFFICES ASSUME NEW j \in 1..Len(at) PROVE \A k \in 1..Len(at) : j < k => at[j] < at[k]
  OBVIOUS
<1> DEFINE P == {m \in Nat : j + 1 + m <= Len(at) => at[j] < at[j + 1 + m]}
<1>2. 0 \in P
  OBVIOUS
<1>3. ASSUME NEW m \in Nat, m \in P PROVE m + 1 \in P
  <2>1. SUFFICES ASSUME j + 1 + (m + 1) <= Len(at) PROVE at[j] < at[j + 1 + (m + 1)]
    OBVIOUS
  <2>2. j + 1 + m \in 1..(Len(at) - 1) /\ at[j] < at[j + 1 + m] /\ j + 1 + (m + 1) = (j + 1 + m) + 1
    BY <1>3, <2>1
  <2>3. at[j + 1 + m] < at[(j + 1 + m) + 1]
    BY <2>2
  <2>4. at[j] \in Int /\ at[j + 1 + m] \in Int /\ at[(j + 1 + m) + 1] \in Int
    BY <2>2
  <2> QED BY <2>2, <2>3, <2>4
<1>4. \A m \in Nat : m \in P
  <2> HIDE DEF P
  <2> QED BY <1>2, <1>3, Induct
<1>5. SUFFICES ASSUME NEW k \in 1..Len(at), j < k PROVE at[j] < at[k]
  OBVIOUS
<1>6. k - (j + 1) \in Nat /\ j + 1 + (k - (j + 1)) = k
  BY <1>5
<1>7. at[j] < at[j + 1 + (k - (j + 1))]
  <2>1. j + 1 + (k - (j + 1)) <= Len(at)
    BY <1>5, <1>6
  <2> QED BY Zenon, <2>1, <1>4, <1>6
<1> QED BY Zenon, <1>6, <1>7

\* What stands at the places, and nothing else.
LEMMA ThoseFacts ==
  ASSUME NEW S, NEW s \in Seq(S), NEW P
  PROVE  /\ Those(s, P) \in Seq(S)
         /\ ToSet(Those(s, P)) = {s[i] : i \in P \cap DOMAIN s}
<1>1. PICK at \in Seq(1..Len(s)) :
        /\ Those(s, P) \in Seq(S)
        /\ Len(Those(s, P)) = Len(at)
        /\ \A k \in 1..Len(at) : Those(s, P)[k] = s[at[k]]
        /\ ToSet(at) = P \cap 1..Len(s)
  BY ThoseInOrder
<1>2. ToSet(at) = {at[k] : k \in 1..Len(at)}
  BY Members
<1>3. ToSet(Those(s, P)) = {Those(s, P)[k] : k \in 1..Len(at)}
  BY <1>1, Members
<1>4. {Those(s, P)[k] : k \in 1..Len(at)} = {s[i] : i \in {at[k] : k \in 1..Len(at)}}
  <2> DEFINE L == Len(at)
             t == Those(s, P)
  <2>1. \A k \in 1..L : t[k] = s[at[k]]
    BY <1>1
  <2> HIDE DEF L, t
  <2>2. {t[k] : k \in 1..L} = {s[i] : i \in {at[k] : k \in 1..L}}
    BY <2>1
  <2> QED BY <2>2 DEF L, t
<1>5. DOMAIN s = 1..Len(s)
  BY Members
<1> QED BY <1>1, <1>2, <1>3, <1>4, <1>5

----------------------------------------------------------------------------
(* Texts. *)

\* A token of a text is a token of it once the newlines are left aside.
LEMMA VisibleFacts ==
  /\ NL \in Token /\ HeaderLine \in Token /\ <<>> \in Text /\ <<>> \in Lines /\ Visible(<<>>) = {} /\ InLines(<<>>) = {}
  /\ \A text \in Text : <<text>> \in Lines /\ InLines(<<text>>) = Visible(text)
  /\ \A s, t \in Text : s \o t \in Text /\ Visible(s \o t) = Visible(s) \cup Visible(t)
<1>1. NL \in Token /\ HeaderLine \in Token
  BY DEF Token
<1>2. ToSet(<<>>) = {} /\ DOMAIN <<>> = {}
  <2>1. DOMAIN <<>> = {}
    OBVIOUS
  <2> QED BY Zenon, <2>1 DEF ToSet
<1>3. <<>> \in Text /\ <<>> \in Lines /\ Visible(<<>>) = {} /\ InLines(<<>>) = {}
  <2>1. InLines(<<>>) = {}
    BY Zenon, <1>2 DEF InLines
  <2> QED BY <1>2, <2>1, EmptySeq DEF Text, Lines, Visible
<1>4. ASSUME NEW text \in Text PROVE <<text>> \in Lines /\ InLines(<<text>>) = Visible(text)
  <2>1. <<text>> \in Lines /\ DOMAIN <<text>> = {1} /\ <<text>>[1] = text
    BY DEF Lines
  <2> QED BY Zenon, <2>1 DEF InLines
<1>5. ASSUME NEW s \in Text, NEW t \in Text PROVE s \o t \in Text /\ Visible(s \o t) = Visible(s) \cup Visible(t)
  BY Appended, ConcatProperties DEF Text, Visible
<1> QED BY <1>1, <1>3, <1>4, <1>5

\* The visible tokens of lines, as sets of their members.
LEMMA InLinesFacts ==
  ASSUME NEW lines \in Lines
  PROVE  /\ Len(lines) \in Nat /\ DOMAIN lines = 1..Len(lines)
         /\ \A i \in DOMAIN lines : lines[i] \in Text /\ Visible(lines[i]) \subseteq InLines(lines)
         /\ InLines(lines) = UNION {Visible(text) : text \in ToSet(lines)}
<1>1. Len(lines) \in Nat /\ DOMAIN lines = 1..Len(lines) /\ \A i \in DOMAIN lines : lines[i] \in Text
  BY DEF Lines
<1>2. \A i \in DOMAIN lines : Visible(lines[i]) \subseteq InLines(lines)
  BY Zenon DEF InLines
<1>3. InLines(lines) = UNION {Visible(text) : text \in ToSet(lines)}
  BY Zenon DEF InLines, ToSet
<1> QED BY <1>1, <1>2, <1>3

\* Lines one behind the other hold the tokens of both.
LEMMA LinesAppended ==
  ASSUME NEW s \in Lines, NEW t \in Lines
  PROVE  s \o t \in Lines /\ InLines(s \o t) = InLines(s) \cup InLines(t)
<1>1. s \o t \in Lines /\ ToSet(s \o t) = ToSet(s) \cup ToSet(t)
  BY Appended, ConcatProperties DEF Lines
<1>2. UNION {Visible(x) : x \in ToSet(s) \cup ToSet(t)} =
        (UNION {Visible(x) : x \in ToSet(s)}) \cup UNION {Visible(x) : x \in ToSet(t)}
  BY Zenon
<1> QED BY <1>1, <1>2, InLinesFacts

\* One more line.
LEMMA LineAdded ==
  ASSUME NEW s \in Lines, NEW text \in Text
  PROVE  Append(s, text) \in Lines /\ InLines(Append(s, text)) = InLines(s) \cup Visible(text)
<1>1. Append(s, text) = s \o <<text>>
  BY DEF Lines
<1> QED BY <1>1, LinesAppended, VisibleFacts

\* Joining lines keeps their tokens.
LEMMA JoinFacts ==
  ASSUME NEW lines \in Lines
  PROVE  /\ Join(lines) \in Text
         /\ Visible(Join(lines)) = InLines(lines)
         /\ Blank(Join(lines)) <=> InLines(lines) = {}
<1> DEFINE pad == [k \in 1..NewlineTokens |-> NL]
           part(i) == IF i = 1 THEN lines[i] ELSE pad \o lines[i]
           ss == [i \in DOMAIN lines |-> part(i)]
<1>1. Len(lines) \in Nat /\ DOMAIN lines = 1..Len(lines) /\ \A i \in DOMAIN lines : lines[i] \in Text
  BY InLinesFacts
<1>2. pad \in Text /\ Visible(pad) = {}
  <2>1. pad \in Seq(Token) /\ Len(pad) = NewlineTokens
    BY UnitAssumption, VisibleFacts
  <2>2. ToSet(pad) \subseteq {NL}
    BY Zenon DEF ToSet
  <2> QED BY <2>1, <2>2 DEF Text, Visible
<1> HIDE DEF pad
<1>3. \A i \in DOMAIN lines : part(i) \in Text /\ Visible(part(i)) = Visible(lines[i])
  <2>1. \A i \in DOMAIN lines : pad \o lines[i] \in Text /\ Visible(pad \o lines[i]) = Visible(lines[i])
    <3>1. SUFFICES ASSUME NEW i \in DOMAIN lines PROVE pad \o lines[i] \in Text /\ Visible(pad \o lines[i]) = Visible(lines[i])
      OBVIOUS
    <3> HIDE DEF part, ss
    <3>2. lines[i] \in Text
      BY <1>1
    <3>3. pad \o lines[i] \in Text /\ Visible(pad \o lines[i]) = Visible(pad) \cup Visible(lines[i])
      BY <1>2, <3>2, VisibleFacts
    <3> QED BY <1>2, <3>3
  <2> QED BY <1>1, <2>1
<1>4. ss \in Seq(Seq(Token)) /\ DOMAIN ss = DOMAIN lines /\ \A i \in DOMAIN lines : ss[i] = part(i)
  <2>1. \A i \in 1..Len(lines) : part(i) \in Seq(Token)
    BY <1>1, <1>3 DEF Text
  <2> HIDE DEF part
  <2>2. ss \in [1..Len(lines) -> Seq(Token)]
    BY <1>1, <2>1
  <2>3. DOMAIN ss = DOMAIN lines /\ \A i \in DOMAIN lines : ss[i] = part(i)
    OBVIOUS
  <2> HIDE DEF ss
  <2> QED BY <1>1, <2>2, <2>3
<1>5. Join(lines) = FlattenSeq(ss)
  BY Zenon DEF Join, pad
<1> HIDE DEF ss, part
<1>6. FlattenSeq(ss) \in Text /\ ToSet(FlattenSeq(ss)) = UNION {ToSet(ss[i]) : i \in DOMAIN lines}
  BY <1>4, FlattenFacts DEF Text
<1>7. (UNION {ToSet(ss[i]) : i \in DOMAIN lines}) \ {NL} = UNION {ToSet(ss[i]) \ {NL} : i \in DOMAIN lines}
  OBVIOUS
<1>8. \A i \in DOMAIN lines : ToSet(ss[i]) \ {NL} = Visible(lines[i])
  BY <1>3, <1>4 DEF Visible
<1>9. UNION {ToSet(ss[i]) \ {NL} : i \in DOMAIN lines} = InLines(lines)
  BY Zenon, <1>8 DEF InLines
<1>10. Visible(FlattenSeq(ss)) = InLines(lines)
  BY <1>6, <1>7, <1>9 DEF Visible
<1> QED BY <1>5, <1>6, <1>10 DEF Blank

\* The texts that are left are all that hold tokens.
LEMMA NotBlankFacts ==
  ASSUME NEW texts \in Lines
  PROVE  /\ NotBlank(texts) \in Lines
         /\ InLines(NotBlank(texts)) = InLines(texts)
         /\ ToSet(NotBlank(texts)) \subseteq ToSet(texts)
<1> DEFINE P == {i \in DOMAIN texts : ~Blank(texts[i])}
<1>1. /\ NotBlank(texts) \in Lines
      /\ ToSet(NotBlank(texts)) = {texts[i] : i \in P \cap DOMAIN texts}
  BY ThoseFacts DEF NotBlank, Lines
<1>2. ToSet(NotBlank(texts)) = {texts[i] : i \in P}
  <2>1. P \cap DOMAIN texts = P
    OBVIOUS
  <2> HIDE DEF P
  <2> QED BY <1>1, <2>1
<1>3. \A i \in DOMAIN texts : i \in P \/ Visible(texts[i]) = {}
  BY DEF Blank
<1>4. P \subseteq DOMAIN texts
  OBVIOUS
<1> HIDE DEF P
<1>5. InLines(NotBlank(texts)) = UNION {Visible(texts[i]) : i \in P}
  <2>1. InLines(NotBlank(texts)) = UNION {Visible(x) : x \in {texts[i] : i \in P}}
    BY <1>1, <1>2, InLinesFacts
  <2> QED BY Zenon, <2>1
<1>6. UNION {Visible(texts[i]) : i \in P} = UNION {Visible(texts[i]) : i \in DOMAIN texts}
  BY Zenon, <1>3, <1>4
<1>7. ToSet(NotBlank(texts)) \subseteq ToSet(texts)
  BY Zenon, <1>2, <1>4 DEF ToSet
<1> QED BY Zenon, <1>1, <1>5, <1>6, <1>7 DEF InLines

----------------------------------------------------------------------------
(* Texts that are cut. *)

\* Within the limit, but for what goes on with the first character.
Fits(text, max) == \A p \in 2..(Len(text) - max + 1) : text[p] \in Continues

\* A short text is within the limit.
LEMMA ShortFits ==
  ASSUME NEW text \in Text, NEW max \in Nat, Len(text) <= max
  PROVE  Fits(text, max)
<1>1. Len(text) \in Nat
  BY DEF Text
<1>2. 2..(Len(text) - max + 1) = {}
  BY <1>1
<1> QED BY <1>2 DEF Fits

\* Behind the start of a character everything goes on with it.
LEMMA CharStartFacts ==
  ASSUME NEW text, NEW p \in Nat \ {0}
  PROVE  /\ CharStart(text, p) \in 1..p
         /\ \A q \in 1..p : q > CharStart(text, p) => text[q] \in Continues
<1> DEFINE X == {q \in 1..p : q = 1 \/ text[q] \notin Continues}
<1>1. X \subseteq 0..p /\ X # {}
  <2>1. 1 \in X
    OBVIOUS
  <2> QED BY <2>1
<1>2. CharStart(text, p) = CHOOSE x \in X : \A y \in X : x >= y
  BY DEF CharStart, Max
<1>3. \A q \in 1..p : q \notin X => text[q] \in Continues
  OBVIOUS
<1>4. X \subseteq 1..p
  OBVIOUS
<1> HIDE DEF X
<1>5. PICK x \in X : \A y \in X : y <= x
  BY <1>1, Largest
<1>6. \E z \in X : \A y \in X : z >= y
  BY <1>4, <1>5
<1>7. CharStart(text, p) \in X /\ \A y \in X : CharStart(text, p) >= y
  BY <1>2, <1>6
<1> DEFINE c == CharStart(text, p)
<1>8. c \in X /\ c \in 1..p /\ \A y \in X : c >= y
  BY <1>4, <1>7
<1> HIDE DEF c
<1>9. \A q \in 1..p : q > c => q \notin X
  BY <1>8
<1> QED BY <1>3, <1>8, <1>9 DEF c

\* Where the pieces of a text begin.
StartOf(text, max, i) ==
  IF i > (Len(text) + max - 1) \div max THEN Len(text) + 1 ELSE CharStart(text, (i - 1) * max + 1)

\* The first piece begins with the text, and a piece ends before the next one begins: max tokens behind
\* the place of its cut at the latest.
LEMMA StartFacts ==
  ASSUME NEW text \in Text, NEW max \in Nat \ {0}
  PROVE  LET n == (Len(text) + max - 1) \div max IN
         /\ n \in Nat
         /\ Len(text) # 0 => n # 0 /\ StartOf(text, max, 1) = 1
         /\ StartOf(text, max, n + 1) = Len(text) + 1
         /\ \A i \in 1..(n + 1) : StartOf(text, max, i) \in 1..(Len(text) + 1)
         /\ \A i \in 1..n : \E c \in Nat :
              /\ \A q \in 1..c : q > StartOf(text, max, i) => text[q] \in Continues
              /\ StartOf(text, max, i + 1) - 1 <= c + max - 1
<1> DEFINE L == Len(text)
           n == (L + max - 1) \div max
           at(i) == StartOf(text, max, i)
<1>1. L \in Nat
  BY DEF Text
<1>2. n \in Nat /\ n * max \in Nat /\ n * max <= L + max - 1 /\ L <= n * max
  <2>1. L + max - 1 \in Nat
    BY <1>1
  <2> HIDE DEF L
  <2>2. \A a \in Nat : \A c \in Nat \ {0} : a \div c \in Nat /\ (a \div c) * c \in Nat /\ (a \div c) * c <= a /\ a < (a \div c) * c + c
    OBVIOUS
  <2>3. n \in Nat /\ n * max \in Nat /\ n * max <= L + max - 1 /\ L + max - 1 < n * max + max
    BY <2>1, <2>2
  <2> HIDE DEF n
  <2> QED BY <1>1, <2>3
<1>3. \A i : at(i) = IF i > n THEN L + 1 ELSE CharStart(text, (i - 1) * max + 1)
  BY DEF StartOf
<1> HIDE DEF L, n, at
<1>4. at(n + 1) = L + 1
  BY <1>2, <1>3
<1>5. ASSUME NEW i \in 1..n
      PROVE  /\ (i - 1) * max \in Nat /\ i * max = (i - 1) * max + max /\ (i - 1) * max + 1 <= L
  <2>1. i * max \in Nat /\ (i - 1) * max \in Nat /\ i * max = (i - 1) * max + max
    BY <1>2
  <2>2. \A a, b \in Nat : a <= b => a * max <= b * max
    OBVIOUS
  <2>3. i * max <= n * max
    BY <1>2, <2>2
  <2> DEFINE x == i * max
             y == n * max
             w == (i - 1) * max
  <2>4. x <= y /\ y <= L + max - 1 /\ x = w + max /\ x \in Nat /\ w \in Nat /\ y \in Nat
    BY <1>2, <2>1, <2>3
  <2> HIDE DEF x, y, w
  <2>5. w + 1 <= L
    BY <1>1, <2>4
  <2> QED BY <2>1, <2>5 DEF w
<1>6. ASSUME NEW i \in 1..n
      PROVE  /\ at(i) \in 1..((i - 1) * max + 1) /\ at(i) \in 1..L
             /\ \A q \in 1..((i - 1) * max + 1) : q > at(i) => text[q] \in Continues
  <2> DEFINE c == (i - 1) * max + 1
  <2>1. at(i) = CharStart(text, c)
    BY <1>2, <1>3
  <2>2. c \in Nat \ {0} /\ c <= L
    BY <1>5
  <2> HIDE DEF c
  <2>3. at(i) \in 1..c /\ \A q \in 1..c : q > at(i) => text[q] \in Continues
    BY <2>1, <2>2, CharStartFacts
  <2>4. at(i) \in 1..L
    BY <1>1, <2>2, <2>3
  <2> QED BY <2>3, <2>4 DEF c
<1>7. L # 0 => n # 0 /\ at(1) = 1
  <2>1. SUFFICES ASSUME L # 0 PROVE n # 0 /\ at(1) = 1
    OBVIOUS
  <2>2. n # 0
    <3>1. SUFFICES ASSUME n = 0 PROVE FALSE
      OBVIOUS
    <3>2. n * max = 0
      BY <3>1
    <3> QED BY <1>1, <1>2, <2>1, <3>2
  <2>3. 1 \in 1..n /\ (1 - 1) * max + 1 = 1
    BY <1>2, <2>2
  <2>4. at(1) \in 1..1
    BY <1>6, <2>3
  <2> QED BY <2>2, <2>4
<1>8. ASSUME NEW i \in 1..(n + 1) PROVE at(i) \in 1..(L + 1)
  <2>1. CASE i = n + 1
    BY <1>1, <1>4, <2>1
  <2>2. CASE i # n + 1
    <3>1. i \in 1..n
      BY <1>2, <2>2
    <3> QED BY <1>1, <1>6, <3>1
  <2> QED BY <2>1, <2>2
<1>9. ASSUME NEW i \in 1..n
      PROVE  \E c \in Nat : /\ \A q \in 1..c : q > at(i) => text[q] \in Continues
                            /\ at(i + 1) - 1 <= c + max - 1
  <2> DEFINE w == (i - 1) * max
             c == w + 1
  <2>1. w \in Nat /\ i * max = w + max
    BY <1>5
  <2>2. \A q \in 1..c : q > at(i) => text[q] \in Continues
    BY <1>6
  <2>3. at(i + 1) <= w + max + 1
    <3>1. CASE i = n
      <4>1. i * max = n * max /\ at(i + 1) = L + 1
        BY <1>4, <3>1
      <4> DEFINE y == n * max
      <4>2. y = w + max /\ L <= y
        BY <1>2, <2>1, <4>1
      <4> HIDE DEF y, w
      <4> QED BY <1>1, <2>1, <4>1, <4>2
    <3>2. CASE i # n
      <4>1. i + 1 \in 1..n /\ (i + 1) - 1 = i
        BY <1>2, <3>2
      <4>2. at(i + 1) \in 1..(i * max + 1)
        BY <1>6, <4>1
      <4>3. at(i + 1) \in 1..(w + max + 1)
        BY <2>1, <4>2
      <4> HIDE DEF w
      <4> QED BY <2>1, <4>3
    <3> QED BY <3>1, <3>2
  <2>4. at(i + 1) \in Nat
    <3>1. i + 1 \in 1..(n + 1)
      BY <1>2
    <3>2. at(i + 1) \in 1..(L + 1)
      BY <1>8, <3>1
    <3> QED BY <1>1, <3>2
  <2>5. c \in Nat /\ at(i + 1) - 1 <= c + max - 1
    <3> HIDE DEF w
    <3> QED BY <2>1, <2>3, <2>4
  <2> HIDE DEF c
  <2> QED BY <2>2, <2>5
<1> QED BY <1>2, <1>4, <1>7, <1>8, <1>9 DEF n, L, at

\* Pieces are within the limit, and together hold the tokens of the text.
LEMMA HardSplitFacts ==
  ASSUME NEW text \in Text, NEW max \in Nat \ {0}
  PROVE  /\ HardSplit(text, max) \in Lines
         /\ \A piece \in ToSet(HardSplit(text, max)) : Fits(piece, max)
         /\ InLines(HardSplit(text, max)) = Visible(text)
<1> DEFINE L == Len(text)
           n == (L + max - 1) \div max
           at(i) == StartOf(text, max, i)
           piece(i) == SubSeq(text, at(i), at(i + 1) - 1)
           ss == [i \in 1..n |-> piece(i)]
<1>1. L \in Nat /\ DOMAIN text = 1..L /\ \A p \in 1..L : text[p] \in Token
  BY DEF Text
<1>2. /\ n \in Nat
      /\ L # 0 => n # 0 /\ at(1) = 1
      /\ at(n + 1) = L + 1
      /\ \A i \in 1..(n + 1) : at(i) \in 1..(L + 1)
      /\ \A i \in 1..n : \E c \in Nat :
           /\ \A q \in 1..c : q > at(i) => text[q] \in Continues
           /\ at(i + 1) - 1 <= c + max - 1
  BY StartFacts
<1>3. HardSplit(text, max) = NotBlank(ss)
  BY Zenon DEF HardSplit, StartOf
<1> HIDE DEF L, n, at
<1>4. ASSUME NEW i \in 1..n
      PROVE  at(i) \in Nat \ {0} /\ at(i) <= L + 1 /\ at(i + 1) \in Nat \ {0} /\ at(i + 1) <= L + 1
  <2>1. i \in 1..(n + 1) /\ i + 1 \in 1..(n + 1)
    BY <1>2
  <2>2. at(i) \in 1..(L + 1) /\ at(i + 1) \in 1..(L + 1)
    BY <1>2, <2>1
  <2> QED BY <1>1, <2>2
<1>5. ASSUME NEW i \in 1..n
      PROVE  /\ piece(i) \in Text
             /\ Len(piece(i)) = IF at(i) <= at(i + 1) - 1 THEN at(i + 1) - at(i) ELSE 0
             /\ \A k \in 1..(at(i + 1) - at(i)) : piece(i)[k] = text[at(i) + k - 1]
  <2> DEFINE a == at(i)
             b == at(i + 1) - 1
             z == at(i + 1)
  <2>1. a \in Nat \ {0} /\ b \in Nat /\ b <= L /\ a \in Int /\ b \in Int /\ z \in Nat /\ b = z - 1
    BY <1>1, <1>4
  <2>2. piece(i) = SubSeq(text, a, b)
    OBVIOUS
  <2> HIDE DEF a, b, z, piece
  <2>3. \A k \in a..b : text[k] \in Token
    BY <1>1, <2>1
  <2>4. /\ SubSeq(text, a, b) \in Seq(Token)
        /\ Len(SubSeq(text, a, b)) = IF a <= b THEN b - a + 1 ELSE 0
        /\ \A k \in 1..(b - a + 1) : SubSeq(text, a, b)[k] = text[a + k - 1]
    BY <2>1, <2>3, SubSeqProperties
  <2>5. b - a + 1 = z - a
    BY <2>1
  <2>6. /\ piece(i) \in Text /\ Len(piece(i)) = IF a <= b THEN z - a ELSE 0
        /\ \A k \in 1..(z - a) : piece(i)[k] = text[a + k - 1]
    BY <2>2, <2>4, <2>5 DEF Text
  <2> QED BY Zenon, <2>6 DEF a, b, z
<1> HIDE DEF piece
<1>6. ss \in Lines /\ DOMAIN ss = 1..n /\ \A i \in 1..n : ss[i] = piece(i)
  <2>1. ss \in [1..n -> Text] /\ DOMAIN ss = 1..n /\ \A i \in 1..n : ss[i] = piece(i)
    BY <1>5
  <2> HIDE DEF ss
  <2> QED BY <1>2, <2>1 DEF Lines
<1>7. \A i \in 1..n : Fits(ss[i], max)
  <2>1. SUFFICES ASSUME NEW i \in 1..n, NEW p \in 2..(Len(piece(i)) - max + 1) PROVE piece(i)[p] \in Continues
    BY <1>6 DEF Fits
  <2>2. PICK c \in Nat : (\A q \in 1..c : q > at(i) => text[q] \in Continues) /\ at(i + 1) - 1 <= c + max - 1
    BY <1>2
  <2> DEFINE a == at(i)
             z == at(i + 1)
             l == Len(piece(i))
  <2>3. /\ a \in Nat \ {0} /\ z \in Nat \ {0} /\ l = IF a <= z - 1 THEN z - a ELSE 0
        /\ \A k \in 1..(z - a) : piece(i)[k] = text[a + k - 1]
    BY <1>4, <1>5
  <2>4. p \in 2..(l - max + 1) /\ z - 1 <= c + max - 1 /\ \A q \in 1..c : q > a => text[q] \in Continues
    BY <2>1, <2>2
  <2> HIDE DEF a, z, l
  <2>5. p \in 1..(z - a) /\ a + p - 1 \in 1..c /\ a + p - 1 > a
    BY <2>3, <2>4
  <2> QED BY <2>3, <2>4, <2>5
<1> HIDE DEF ss
<1>8. \A i \in 1..n : ToSet(ss[i]) \subseteq ToSet(text)
  <2>1. SUFFICES ASSUME NEW i \in 1..n, NEW k \in 1..Len(piece(i)) PROVE piece(i)[k] \in ToSet(text)
    BY <1>5, <1>6, Members DEF Text
  <2> DEFINE a == at(i)
             z == at(i + 1)
             l == Len(piece(i))
  <2>2. /\ a \in Nat \ {0} /\ z \in Nat \ {0} /\ z <= L + 1 /\ l = IF a <= z - 1 THEN z - a ELSE 0
        /\ k \in 1..l /\ \A m \in 1..(z - a) : piece(i)[m] = text[a + m - 1]
    BY <1>4, <1>5, <2>1
  <2> HIDE DEF a, z, l
  <2>3. k \in 1..(z - a) /\ a + k - 1 \in 1..L
    BY <1>1, <2>2
  <2>4. piece(i)[k] = text[a + k - 1] /\ a + k - 1 \in DOMAIN text
    BY <1>1, <2>2, <2>3
  <2> QED BY Zenon, <2>4 DEF ToSet
<1>9. \A p \in 1..L : \E i \in 1..n : text[p] \in ToSet(ss[i])
  <2>1. SUFFICES ASSUME NEW p \in 1..L PROVE \E i \in 1..n : text[p] \in ToSet(piece(i))
    BY <1>6
  <2> DEFINE X == {i \in 1..n : at(i) <= p}
  <2>2. X \subseteq 0..n /\ 1 \in X
    <3>1. L # 0 /\ n # 0
      BY <1>1, <1>2, <2>1
    <3>2. at(1) = 1 /\ 1 \in 1..n
      BY <1>2, <3>1
    <3> QED BY <2>1, <3>2
  <2>3. \A i : i \in X <=> i \in 1..n /\ at(i) <= p
    OBVIOUS
  <2> HIDE DEF X
  <2>4. PICK i \in X : \A y \in X : y <= i
    BY <1>2, <2>2, Largest
  <2>5. i \in 1..n /\ at(i) <= p
    BY <2>3
  <2>6. p < at(i + 1)
    <3>1. CASE i = n
      BY <1>1, <1>2, <3>1
    <3>2. CASE i # n
      <4>1. i + 1 \in 1..n
        BY <1>2, <2>5, <3>2
      <4>2. i + 1 \notin X
        BY <2>4, <2>5
      <4>3. ~(at(i + 1) <= p)
        BY <2>3, <4>1, <4>2
      <4> QED BY <1>4, <2>5, <4>3
    <3> QED BY <3>1, <3>2
  <2> DEFINE a == at(i)
             z == at(i + 1)
             l == Len(piece(i))
             k == p - a + 1
  <2>7. /\ a \in Nat \ {0} /\ z \in Nat \ {0} /\ l = IF a <= z - 1 THEN z - a ELSE 0
        /\ a <= p /\ p < z /\ \A m \in 1..(z - a) : piece(i)[m] = text[a + m - 1]
    BY <1>4, <1>5, <2>5, <2>6
  <2> HIDE DEF a, z, l
  <2>8. k \in 1..(z - a) /\ k \in 1..l /\ a + k - 1 = p
    BY <1>1, <2>7
  <2> HIDE DEF k
  <2>9. piece(i)[k] = text[p]
    BY <2>7, <2>8
  <2>10. DOMAIN piece(i) = 1..l
    BY <1>5, <2>5 DEF Text, l
  <2>11. text[p] \in ToSet(piece(i))
    BY Zenon, <2>8, <2>9, <2>10 DEF ToSet
  <2> QED BY Zenon, <2>5, <2>11
<1>10. InLines(ss) = Visible(text)
  <2>1. ToSet(text) = {text[p] : p \in 1..L}
    BY Zenon, <1>1 DEF ToSet
  <2>2. \A i \in 1..n : Visible(ss[i]) = ToSet(ss[i]) \ {NL}
    BY DEF Visible
  <2>3. InLines(ss) = UNION {Visible(ss[i]) : i \in 1..n}
    BY Zenon, <1>6 DEF InLines
  <2>4. InLines(ss) \subseteq Visible(text)
    BY <1>8, <2>2, <2>3 DEF Visible
  <2>5. \A t \in Visible(text) : \E i \in 1..n : t \in Visible(ss[i])
    BY <1>9, <2>1, <2>2 DEF Visible
  <2>6. Visible(text) \subseteq InLines(ss)
    BY Zenon, <2>3, <2>5
  <2> QED BY <2>4, <2>6
<1>11. \A piece1 \in ToSet(ss) : Fits(piece1, max)
  BY <1>6, <1>7 DEF ToSet
<1> QED BY <1>3, <1>6, <1>10, <1>11, NotBlankFacts

\* Groups of lines one behind the other.
LEMMA FlattenLines ==
  ASSUME NEW ss \in Seq(Lines)
  PROVE  /\ FlattenSeq(ss) \in Lines
         /\ ToSet(FlattenSeq(ss)) = UNION {ToSet(ss[i]) : i \in DOMAIN ss}
         /\ InLines(FlattenSeq(ss)) = UNION {InLines(ss[i]) : i \in DOMAIN ss}
<1>1. FlattenSeq(ss) \in Lines /\ ToSet(FlattenSeq(ss)) = UNION {ToSet(ss[i]) : i \in DOMAIN ss}
  BY FlattenFacts DEF Lines
<1>2. InLines(FlattenSeq(ss)) = UNION {Visible(x) : x \in UNION {ToSet(ss[i]) : i \in DOMAIN ss}}
  BY <1>1, InLinesFacts
<1>3. UNION {Visible(x) : x \in UNION {ToSet(ss[i]) : i \in DOMAIN ss}} =
        UNION {UNION {Visible(x) : x \in ToSet(ss[i])} : i \in DOMAIN ss}
  OBVIOUS
<1>4. \A i \in DOMAIN ss : UNION {Visible(x) : x \in ToSet(ss[i])} = InLines(ss[i])
  BY InLinesFacts
<1> QED BY <1>1, <1>2, <1>3, <1>4

\* Groups cut once more are within the limit.
LEMMA CutFacts ==
  ASSUME NEW groups \in Lines
  PROVE  /\ CutOnceMore(groups) \in Lines
         /\ \A part \in ToSet(CutOnceMore(groups)) : Fits(part, MaxPartTokens)
         /\ InLines(CutOnceMore(groups)) = InLines(groups)
<1> DEFINE cut(i) == IF Len(groups[i]) <= MaxPartTokens THEN <<groups[i]>> ELSE HardSplit(groups[i], MaxPartTokens)
           ss == [i \in DOMAIN groups |-> cut(i)]
<1>1. Len(groups) \in Nat /\ DOMAIN groups = 1..Len(groups) /\ \A i \in DOMAIN groups : groups[i] \in Text
  BY InLinesFacts
<1>2. ASSUME NEW i \in DOMAIN groups
      PROVE  /\ cut(i) \in Lines /\ InLines(cut(i)) = Visible(groups[i])
             /\ \A part \in ToSet(cut(i)) : Fits(part, MaxPartTokens)
  <2>1. CASE Len(groups[i]) <= MaxPartTokens
    <3>1. cut(i) = <<groups[i]>>
      BY <2>1
    <3>2. ToSet(<<groups[i]>>) = {groups[i]}
      BY DEF ToSet
    <3>3. Fits(groups[i], MaxPartTokens)
      BY <1>1, <2>1, ShortFits, UnitAssumption
    <3> QED BY <1>1, <3>1, <3>2, <3>3, VisibleFacts
  <2>2. CASE ~(Len(groups[i]) <= MaxPartTokens)
    BY <1>1, <2>2, UnitAssumption, HardSplitFacts
  <2> QED BY <2>1, <2>2
<1>3. CutOnceMore(groups) = FlattenSeq(ss)
  BY Zenon DEF CutOnceMore
<1> HIDE DEF cut
<1>4. ss \in [1..Len(groups) -> Lines] /\ DOMAIN ss = DOMAIN groups /\ \A i \in DOMAIN groups : ss[i] = cut(i)
  BY <1>1, <1>2
<1> HIDE DEF ss
<1>5. ss \in Seq(Lines)
  BY <1>1, <1>4
<1>6. /\ FlattenSeq(ss) \in Lines
      /\ ToSet(FlattenSeq(ss)) = UNION {ToSet(ss[i]) : i \in DOMAIN ss}
      /\ InLines(FlattenSeq(ss)) = UNION {InLines(ss[i]) : i \in DOMAIN ss}
  BY <1>5, FlattenLines
<1>7. \A part \in ToSet(FlattenSeq(ss)) : Fits(part, MaxPartTokens)
  BY <1>2, <1>4, <1>6
<1>8. InLines(FlattenSeq(ss)) = InLines(groups)
  <2>1. \A i \in DOMAIN groups : InLines(ss[i]) = Visible(groups[i])
    BY <1>2, <1>4
  <2>2. InLines(groups) = UNION {Visible(groups[i]) : i \in DOMAIN groups}
    BY Zenon DEF InLines
  <2> QED BY Zenon, <1>4, <1>6, <2>1, <2>2
<1> QED BY <1>3, <1>6, <1>7, <1>8

\* Lines on their way into groups.
Packed == [groups : Lines, buf : Lines, used : Nat]

InPacked(acc) == InLines(acc.groups) \cup InLines(acc.buf)

\* Closing a group moves its tokens.
LEMMA CloseGroupFacts ==
  ASSUME NEW acc \in Packed
  PROVE  CloseGroup(acc) \in Packed /\ CloseGroup(acc).buf = <<>> /\ InLines(CloseGroup(acc).groups) = InPacked(acc)
<1>1. acc.groups \in Lines /\ acc.buf \in Lines
  BY DEF Packed
<1>2. CASE acc.buf = <<>>
  BY <1>2, VisibleFacts DEF CloseGroup, InPacked
<1>3. CASE acc.buf # <<>>
  <2> DEFINE new == Append(acc.groups, Join(acc.buf))
  <2>1. CloseGroup(acc) = [groups |-> new, buf |-> <<>>, used |-> 0]
    BY <1>3 DEF CloseGroup
  <2>2. Join(acc.buf) \in Text /\ Visible(Join(acc.buf)) = InLines(acc.buf)
    BY <1>1, JoinFacts
  <2>3. new \in Lines /\ InLines(new) = InLines(acc.groups) \cup InLines(acc.buf)
    BY <1>1, <2>2, LineAdded
  <2> HIDE DEF new
  <2> QED BY <2>1, <2>3, VisibleFacts DEF Packed, InPacked
<1> QED BY <1>2, <1>3

\* A line adds its tokens.
LEMMA PackLineFacts ==
  ASSUME NEW acc \in Packed, NEW line \in Text, NEW max \in Nat \ {0}
  PROVE  PackLine(acc, line, max) \in Packed /\ InPacked(PackLine(acc, line, max)) = InPacked(acc) \cup Visible(line)
<1> DEFINE c == CloseGroup(acc)
           h == HardSplit(line, max)
           p == PackLine(acc, line, max)
<1>1. c \in Packed /\ c.buf = <<>> /\ InLines(c.groups) = InPacked(acc) /\ c.groups \in Lines
  BY CloseGroupFacts DEF Packed
<1>2. h \in Lines /\ InLines(h) = Visible(line)
  BY HardSplitFacts
<1>3. acc.groups \in Lines /\ acc.buf \in Lines /\ acc.used \in Nat /\ Len(line) \in Nat
  BY DEF Packed, Text
<1>4. <<line>> \in Lines /\ InLines(<<line>>) = Visible(line) /\ InLines(<<>>) = {}
  BY VisibleFacts
<1>5. CASE Len(line) > max
  <2>1. p = [c EXCEPT !.groups = c.groups \o h]
    BY <1>5 DEF PackLine
  <2> HIDE DEF p, c, h
  <2>2. c.groups \o h \in Lines /\ InLines(c.groups \o h) = InLines(c.groups) \cup InLines(h)
    BY <1>1, <1>2, LinesAppended
  <2>3. p \in Packed /\ p.groups = c.groups \o h /\ p.buf = <<>>
    BY <1>1, <2>1, <2>2 DEF Packed
  <2>4. InPacked(p) = InPacked(acc) \cup Visible(line)
    BY <1>1, <1>2, <1>4, <2>2, <2>3 DEF InPacked
  <2> QED BY <2>3, <2>4 DEF p
<1>6. CASE ~(Len(line) > max) /\ acc.buf # <<>> /\ acc.used + Len(line) + 1 > max
  <2>1. p = [c EXCEPT !.buf = <<line>>, !.used = Len(line)]
    BY <1>6 DEF PackLine
  <2> HIDE DEF p, c, h
  <2>2. p \in Packed /\ p.groups = c.groups /\ p.buf = <<line>>
    BY <1>1, <1>3, <1>4, <2>1 DEF Packed
  <2>3. InPacked(p) = InPacked(acc) \cup Visible(line)
    BY <1>1, <1>4, <2>2 DEF InPacked
  <2> QED BY <2>2, <2>3 DEF p
<1>7. CASE ~(Len(line) > max) /\ ~(acc.buf # <<>> /\ acc.used + Len(line) + 1 > max)
  <2> DEFINE b == Append(acc.buf, line)
             u == acc.used + Len(line) + (IF acc.buf = <<>> THEN 0 ELSE 1)
  <2>1. p = [acc EXCEPT !.buf = b, !.used = u]
    BY <1>7 DEF PackLine
  <2>2. u \in Nat
    BY <1>3
  <2>3. b \in Lines /\ InLines(b) = InLines(acc.buf) \cup Visible(line)
    BY <1>3, LineAdded
  <2> HIDE DEF p, b, u
  <2>4. p \in Packed /\ p.groups = acc.groups /\ p.buf = b
    BY <2>1, <2>2, <2>3 DEF Packed
  <2>5. InPacked(p) = InPacked(acc) \cup Visible(line)
    BY <2>3, <2>4 DEF InPacked
  <2> QED BY <2>4, <2>5 DEF p
<1> QED BY <1>5, <1>6, <1>7

\* Groups hold the tokens of all lines.
LEMMA PackLinesFacts ==
  ASSUME NEW lines \in Lines, NEW max \in Nat \ {0}
  PROVE  PackLines(lines, max) \in Lines /\ InLines(PackLines(lines, max)) = InLines(lines)
<1> DEFINE N == Len(lines)
           start == [groups |-> <<>>, buf |-> <<>>, used |-> 0]
           T == [i \in 0..N |-> {acc \in Packed : InPacked(acc) = UNION {Visible(lines[k]) : k \in 1..i}}]
           G == [i \in 1..N |-> [acc \in Packed |-> PackLine(acc, lines[i], max)]]
<1>1. N \in Nat /\ DOMAIN lines = 1..N /\ \A i \in 1..N : lines[i] \in Text /\ i - 1 \in 0..N /\ i \in 0..N
  BY InLinesFacts
<1> HIDE DEF N
<1>2. \A i \in 0..N : T[i] = {acc \in Packed : InPacked(acc) = UNION {Visible(lines[k]) : k \in 1..i}}
  BY Zenon
<1>3. \A i \in 1..N : \A acc \in Packed : G[i][acc] = PackLine(acc, lines[i], max)
  BY Zenon
<1> HIDE DEF T, G
<1>4. start \in T[0]
  <2>1. start \in Packed /\ InPacked(start) = {}
    BY VisibleFacts DEF Packed, InPacked
  <2>2. UNION {Visible(lines[k]) : k \in 1..0} = {}
    <3>1. (1..0) = {}
      OBVIOUS
    <3> QED BY Zenon, <3>1
  <2>3. 0 \in 0..N
    BY <1>1
  <2> HIDE DEF start
  <2> QED BY <1>2, <2>1, <2>2, <2>3
<1>5. ASSUME NEW i \in 1..N, NEW acc \in T[i - 1] PROVE PackLine(acc, lines[i], max) \in T[i]
  <2>1. acc \in Packed /\ InPacked(acc) = UNION {Visible(lines[k]) : k \in 1..(i - 1)}
    BY <1>1, <1>2
  <2> DEFINE p == PackLine(acc, lines[i], max)
  <2>2. p \in Packed /\ InPacked(p) = InPacked(acc) \cup Visible(lines[i])
    BY <1>1, <2>1, PackLineFacts
  <2>3. (1..i) = (1..(i - 1)) \cup {i}
    BY <1>1
  <2>4. UNION {Visible(lines[k]) : k \in 1..i} = (UNION {Visible(lines[k]) : k \in 1..(i - 1)}) \cup Visible(lines[i])
    BY Zenon, <2>3
  <2> HIDE DEF p
  <2>5. p \in T[i]
    BY <1>1, <1>2, <2>1, <2>2, <2>4
  <2> QED BY <2>5 DEF p
<1>6. Leads(N, start, G, T)
  <2>1. ASSUME NEW i \in 1..N, NEW acc \in T[i - 1] PROVE G[i][acc] \in T[i]
    <3>1. acc \in Packed
      BY <1>1, <1>2
    <3> QED BY <1>3, <1>5, <3>1
  <2> QED BY Zenon, <1>4, <2>1 DEF Leads
<1>7. PICK f : Run(N, start, G, T, f)
  BY <1>1, <1>6, LoopRuns
<1>8. f = [n \in 0..N |-> IF n = 0 THEN start ELSE PackLine(f[n - 1], lines[n], max)]
  <2> DEFINE h == [n \in 0..N |-> IF n = 0 THEN start ELSE PackLine(f[n - 1], lines[n], max)]
  <2>1. \A n \in 0..N : n # 0 => n \in 1..N
    BY <1>1
  <2>2. \A n \in 1..N : f[n - 1] \in Packed
    BY <1>1, <1>2, <1>7 DEF Run
  <2>3. \A n \in 0..N : f[n] = IF n = 0 THEN start ELSE PackLine(f[n - 1], lines[n], max)
    BY Zenon, <1>3, <1>7, <2>1, <2>2 DEF Run
  <2>4. \A n \in 0..N : f[n] = h[n]
    BY Zenon, <2>3
  <2>5. f = [n \in 0..N |-> f[n]] /\ h = [n \in 0..N |-> h[n]]
    BY Zenon, <1>7 DEF Run
  <2> HIDE DEF h
  <2>6. f = h
    BY <2>4, <2>5
  <2> QED BY Zenon, <2>6 DEF h
<1>9. \E g : /\ g = [n \in 0..N |-> IF n = 0 THEN start ELSE PackLine(g[n - 1], lines[n], max)]
             /\ PackLines(lines, max) = NotBlank(CloseGroup(g[N]).groups)
  BY Zenon, <1>8 DEF PackLines, N
<1>10. PICK g : /\ g = [n \in 0..N |-> IF n = 0 THEN start ELSE PackLine(g[n - 1], lines[n], max)]
                /\ PackLines(lines, max) = NotBlank(CloseGroup(g[N]).groups)
  BY Zenon, <1>9
<1>11. \A n \in 0..N : g[n] \in T[n]
  <2>1. \A n \in 0..N : g[n] = IF n = 0 THEN start ELSE PackLine(g[n - 1], lines[n], max)
    BY Zenon, <1>10
  <2>2. 0 \in 0..N /\ \A n \in 1..N : n # 0 /\ n \in 0..N
    BY <1>1
  <2>3. g[0] = start /\ \A n \in 1..N : g[n] = PackLine(g[n - 1], lines[n], max)
    BY Zenon, <2>1, <2>2
  <2> HIDE DEF start
  <2>4. g[0] \in T[0] /\ \A n \in 1..N : g[n - 1] \in T[n - 1] => g[n] \in T[n]
    BY Zenon, <1>4, <1>5, <2>3
  <2> QED BY <1>1, <2>4, LoopKeeps
<1>12. g[N] \in Packed /\ InPacked(g[N]) = InLines(lines)
  <2>1. N \in 0..N
    BY <1>1
  <2>2. UNION {Visible(lines[k]) : k \in 1..N} = InLines(lines)
    BY Zenon, <1>1 DEF InLines
  <2> QED BY <1>2, <1>11, <2>1, <2>2
<1> QED BY <1>10, <1>12, CloseGroupFacts, NotBlankFacts DEF Packed

\* The parts of a text are within the limit, and hold its tokens.
LEMMA SplitTextFacts ==
  ASSUME NEW lines \in Lines
  PROVE  /\ SplitText(lines) \in Lines
         /\ \A part \in ToSet(SplitText(lines)) : Fits(part, MaxPartTokens)
         /\ InLines(SplitText(lines)) = InLines(lines)
<1> DEFINE text == Join(lines)
<1>1. text \in Text /\ Visible(text) = InLines(lines) /\ (Blank(text) <=> InLines(lines) = {})
  BY JoinFacts
<1>2. CASE Blank(text)
  <2>1. SplitText(lines) = <<>>
    BY <1>2 DEF SplitText
  <2>2. DOMAIN <<>> = {}
    OBVIOUS
  <2>3. ToSet(<<>>) = {}
    BY Zenon, <2>2 DEF ToSet
  <2> QED BY <1>1, <1>2, <2>1, <2>3, VisibleFacts
<1>3. CASE ~Blank(text) /\ Len(text) <= MaxPartTokens
  <2>1. SplitText(lines) = <<text>>
    BY <1>3 DEF SplitText
  <2>2. ToSet(<<text>>) = {text}
    BY DEF ToSet
  <2> HIDE DEF text
  <2>3. Fits(text, MaxPartTokens)
    BY <1>1, <1>3, ShortFits, UnitAssumption
  <2> QED BY <1>1, <2>1, <2>2, <2>3, VisibleFacts
<1>4. CASE ~Blank(text) /\ ~(Len(text) <= MaxPartTokens)
  <2>1. SplitText(lines) = CutOnceMore(PackLines(lines, MaxPartTokens))
    BY <1>4 DEF SplitText
  <2> QED BY <2>1, PackLinesFacts, CutFacts, UnitAssumption
<1> QED BY <1>2, <1>3, <1>4

IsMeta(meta) == DOMAIN meta = {"folders", "parent", "rows"}

\* Metadata of units.
LEMMA MetaFacts ==
  /\ IsMeta(NoMeta)
  /\ \A p : IsMeta([NoMeta EXCEPT !.parent = p])
  /\ \A p, r : IsMeta([NoMeta EXCEPT !.parent = p, !.rows = r])
  /\ \A folders : IsMeta([NoMeta EXCEPT !.folders = folders])
BY DEF IsMeta, NoMeta

\* A unit whose parts are within the limit.
IsUnit(u) ==
  /\ DOMAIN u = {"id", "type", "meta", "parts"} /\ IsMeta(u.meta)
  /\ u.parts \in Lines /\ \A part \in ToSet(u.parts) : Fits(part, MaxPartTokens)

\* A finished unit has the tokens of its lines.
LEMMA FinishFacts ==
  ASSUME NEW id, NEW type, NEW lines \in Lines, NEW meta, IsMeta(meta)
  PROVE  LET u == Finish(id, type, lines, meta) IN
         u.id = id /\ u.type = type /\ u.meta = meta /\ IsUnit(u) /\ InLines(u.parts) = InLines(lines)
<1> DEFINE u == Finish(id, type, lines, meta)
           parts == SplitText(lines)
           one == << <<>> >>
<1>1. parts \in Lines /\ (\A part \in ToSet(parts) : Fits(part, MaxPartTokens)) /\ InLines(parts) = InLines(lines)
  BY SplitTextFacts
<1>2. DOMAIN u = {"id", "type", "meta", "parts"} /\ u.id = id /\ u.type = type /\ u.meta = meta /\ u.parts = IF parts = <<>> THEN one ELSE parts
  BY DEF Finish
<1>3. one \in Lines /\ InLines(one) = {} /\ \A part \in ToSet(one) : Fits(part, MaxPartTokens)
  <2>1. <<>> \in Text /\ Visible(<<>>) = {}
    BY VisibleFacts
  <2>2. one \in Lines /\ InLines(one) = {}
    BY <2>1, VisibleFacts
  <2>3. ToSet(one) = { <<>> } /\ Len(<<>>) = 0
    BY DEF ToSet
  <2> HIDE DEF one
  <2>4. Fits(<<>>, MaxPartTokens)
    BY <2>1, <2>3, ShortFits, UnitAssumption
  <2> QED BY <2>2, <2>3, <2>4
<1>4. parts = <<>> => InLines(parts) = {}
  BY VisibleFacts
<1> HIDE DEF u, parts, one
<1>5. IsUnit(u) /\ InLines(u.parts) = InLines(lines)
  BY <1>1, <1>2, <1>3, <1>4 DEF IsUnit
<1> QED BY <1>2, <1>5 DEF u

----------------------------------------------------------------------------
(* Sheets. *)

Pair == [row : Text, no : Nat]

Block == [lines : Lines, start : Nat, end : Nat]

Waiting == [blocks : Seq(Block), buf : Seq(Pair), used : Nat]

\* Rows have numbers.
LEMMA NumberedRowsType ==
  ASSUME NEW rows \in Lines, NEW numbers \in Seq(Nat)
  PROVE  NumberedRows(rows, numbers) \in Seq(Pair)
<1> DEFINE n == IF numbers = <<>> \/ Len(rows) <= Len(numbers) THEN Len(rows) ELSE Len(numbers)
           pair(i) == [row |-> rows[i], no |-> IF numbers = <<>> THEN i ELSE numbers[i]]
           ps == [i \in 1..n |-> pair(i)]
<1>1. Len(rows) \in Nat /\ Len(numbers) \in Nat /\ \A i \in 1..Len(rows) : rows[i] \in Text
  BY DEF Lines
<1>2. n \in Nat /\ n <= Len(rows) /\ (numbers = <<>> \/ n <= Len(numbers))
  BY <1>1
<1>3. NumberedRows(rows, numbers) = Those(ps, {i \in 1..n : ~Blank(rows[i])})
  BY Zenon DEF NumberedRows
<1> HIDE DEF n
<1>4. ASSUME NEW i \in 1..n PROVE pair(i) \in Pair
  <2>1. rows[i] \in Text /\ i \in Nat /\ (numbers = <<>> \/ i \in 1..Len(numbers))
    BY <1>1, <1>2
  <2>2. (IF numbers = <<>> THEN i ELSE numbers[i]) \in Nat
    BY <2>1
  <2> QED BY <2>1, <2>2 DEF Pair
<1> HIDE DEF pair
<1>5. ps \in [1..n -> Pair]
  BY <1>4
<1> HIDE DEF ps
<1>6. ps \in Seq(Pair)
  BY <1>2, <1>5
<1> QED BY <1>3, <1>6, ThoseFacts

\* A block of rows is a block.
LEMMA RowBlockType ==
  ASSUME NEW header \in Pair, NEW rows \in Lines, NEW first \in Nat, NEW last \in Nat
  PROVE  /\ RowBlock(header, rows, first, last) \in Block
         /\ <<header.row>> \o rows \in Lines
         /\ InLines(<<header.row>> \o rows) = Visible(header.row) \cup InLines(rows)
<1>1. header.row \in Text
  BY DEF Pair
<1>2. <<header.row>> \o rows \in Lines /\ InLines(<<header.row>> \o rows) = Visible(header.row) \cup InLines(rows)
  <2>1. <<header.row>> \in Lines /\ InLines(<<header.row>>) = Visible(header.row)
    BY <1>1, VisibleFacts
  <2> QED BY <2>1, LinesAppended
<1> QED BY <1>2 DEF RowBlock, Block

RowsOf(pairs) == [i \in DOMAIN pairs |-> pairs[i].row]

\* The rows of pairs are lines.
LEMMA RowsOfFacts ==
  ASSUME NEW pairs \in Seq(Pair)
  PROVE  /\ RowsOf(pairs) \in Lines
         /\ InLines(RowsOf(pairs)) = UNION {Visible(pairs[i].row) : i \in 1..Len(pairs)}
<1>1. Len(pairs) \in Nat /\ DOMAIN pairs = 1..Len(pairs) /\ \A i \in 1..Len(pairs) : pairs[i].row \in Text
  <2>1. Len(pairs) \in Nat /\ DOMAIN pairs = 1..Len(pairs) /\ \A i \in 1..Len(pairs) : pairs[i] \in Pair
    OBVIOUS
  <2> QED BY <2>1 DEF Pair
<1>2. RowsOf(pairs) = [i \in 1..Len(pairs) |-> pairs[i].row]
  BY <1>1 DEF RowsOf
<1>3. RowsOf(pairs) \in [1..Len(pairs) -> Text] /\ DOMAIN RowsOf(pairs) = 1..Len(pairs)
      /\ \A i \in 1..Len(pairs) : RowsOf(pairs)[i] = pairs[i].row
  BY <1>1, <1>2
<1>4. RowsOf(pairs) \in Lines
  BY <1>1, <1>3 DEF Lines
<1>5. InLines(RowsOf(pairs)) = UNION {Visible(RowsOf(pairs)[i]) : i \in 1..Len(pairs)}
  BY Zenon, <1>3 DEF InLines
<1> QED BY <1>3, <1>4, <1>5

\* Closing a block, the rows that wait are in it.
LEMMA CloseBlockType ==
  ASSUME NEW acc \in Waiting, NEW header \in Pair
  PROVE  CloseBlock(acc, header) \in Waiting /\ CloseBlock(acc, header).buf = <<>>
<1> DEFINE first == IF acc.blocks = <<>> /\ ~Repeats(header) THEN header.no ELSE acc.buf[1].no
           new == RowBlock(header, RowsOf(acc.buf), first, Last(acc.buf).no)
<1>1. acc.blocks \in Seq(Block) /\ acc.buf \in Seq(Pair) /\ acc.used \in Nat /\ header.no \in Nat
  BY DEF Waiting, Pair
<1>2. CASE acc.buf = <<>>
  BY <1>2 DEF CloseBlock
<1>3. CASE acc.buf # <<>>
  <2>1. Len(acc.buf) \in Nat \ {0} /\ acc.buf[1] \in Pair /\ Last(acc.buf) \in Pair
    BY <1>1, <1>3 DEF Last
  <2>2. first \in Nat /\ Last(acc.buf).no \in Nat
    BY <1>1, <2>1 DEF Pair
  <2>3. CloseBlock(acc, header) = [blocks |-> Append(acc.blocks, new), buf |-> <<>>, used |-> 0]
    BY <1>3 DEF CloseBlock, RowsOf
  <2>4. new \in Block
    BY <1>1, <2>2, RowsOfFacts, RowBlockType
  <2> HIDE DEF new
  <2>5. Append(acc.blocks, new) \in Seq(Block) /\ <<>> \in Seq(Pair)
    BY <1>1, <2>4
  <2> QED BY <2>3, <2>5 DEF Waiting
<1> QED BY <1>2, <1>3

\* A row adds blocks or waits.
LEMMA AddRowType ==
  ASSUME NEW acc \in Waiting, NEW pair \in Pair, NEW header \in Pair
  PROVE  AddRow(acc, pair, header) \in Waiting
<1> DEFINE c == CloseBlock(acc, header)
<1>1. c \in Waiting /\ c.blocks \in Seq(Block) /\ pair.row \in Text /\ pair.no \in Nat
  BY CloseBlockType DEF Waiting, Pair
<1>2. CASE Len(pair.row) > RowBudget(header)
  <2> DEFINE max == IF RowBudget(header) > 1 THEN RowBudget(header) ELSE 1
             h == HardSplit(pair.row, max)
             new(i) == RowBlock(header, <<h[i]>>, pair.no, pair.no)
             bs == [i \in DOMAIN h |-> new(i)]
  <2>1. max \in Nat \ {0}
    <3>1. Len(header.row) \in Nat
      BY DEF Pair, Text
    <3>2. RowBudget(header) \in Int
      BY <3>1, UnitAssumption DEF RowBudget
    <3> QED BY <3>2
  <2>2. h \in Lines
    BY <1>1, <2>1, HardSplitFacts
  <2>3. AddRow(acc, pair, header) = [c EXCEPT !.blocks = c.blocks \o bs]
    BY <1>2 DEF AddRow, AddLongRow
  <2> HIDE DEF c, h
  <2>4. Len(h) \in Nat /\ DOMAIN h = 1..Len(h) /\ \A i \in 1..Len(h) : h[i] \in Text
    BY <2>2, InLinesFacts
  <2>5. \A i \in 1..Len(h) : new(i) \in Block
    <3>1. \A i \in 1..Len(h) : <<h[i]>> \in Lines
      BY <2>4, VisibleFacts
    <3> QED BY <1>1, <3>1, RowBlockType
  <2> HIDE DEF new
  <2>6. bs \in [1..Len(h) -> Block]
    BY <2>4, <2>5
  <2> HIDE DEF bs
  <2>7. bs \in Seq(Block)
    BY <2>4, <2>6
  <2>8. c.blocks \o bs \in Seq(Block)
    BY <1>1, <2>7, ConcatProperties
  <2> QED BY <1>1, <2>3, <2>8 DEF Waiting
<1>3. CASE ~(Len(pair.row) > RowBudget(header))
  <2> DEFINE a == IF acc.buf # <<>> /\ acc.used + Len(pair.row) + 1 > RowBudget(header) THEN c ELSE acc
             b == Append(a.buf, pair)
             u == a.used + Len(pair.row) + (IF a.buf = <<>> THEN 0 ELSE 1)
  <2>1. AddRow(acc, pair, header) = [a EXCEPT !.buf = b, !.used = u]
    BY <1>3 DEF AddRow, AddShortRow
  <2>2. a \in Waiting
    BY <1>1
  <2>3. b \in Seq(Pair) /\ u \in Nat
    <3> HIDE DEF a
    <3>1. a.buf \in Seq(Pair) /\ a.used \in Nat /\ Len(pair.row) \in Nat
      BY <1>1, <2>2 DEF Waiting, Text
    <3> QED BY <3>1
  <2> HIDE DEF a, b, u
  <2> QED BY <2>1, <2>2, <2>3 DEF Waiting
<1> QED BY <1>2, <1>3

\* The rows are added one by one.
LEMMA BlocksRun ==
  ASSUME NEW header \in Pair, NEW pairs \in Seq(Pair)
  PROVE  \E g : /\ BlocksUnder(header, pairs) = CloseBlock(g[Len(pairs)], header).blocks
                /\ g[0] = [blocks |-> <<>>, buf |-> <<>>, used |-> 0]
                /\ \A n \in 1..Len(pairs) : g[n] = AddRow(g[n - 1], pairs[n], header)
                /\ \A n \in 0..Len(pairs) : g[n] \in Waiting
<1> DEFINE N == Len(pairs)
           start == [blocks |-> <<>>, buf |-> <<>>, used |-> 0]
           T == [i \in 0..N |-> Waiting]
           G == [i \in 1..N |-> [acc \in Waiting |-> AddRow(acc, pairs[i], header)]]
<1>1. N \in Nat /\ \A i \in 1..N : pairs[i] \in Pair /\ i - 1 \in 0..N /\ i \in 0..N /\ i # 0
  OBVIOUS
<1> HIDE DEF N
<1>2. (\A i \in 0..N : T[i] = Waiting) /\ 0 \in 0..N
  BY <1>1
<1>3. \A i \in 1..N : \A acc \in Waiting : G[i][acc] = AddRow(acc, pairs[i], header)
  BY Zenon
<1> HIDE DEF T, G
<1>4. start \in Waiting
  <2>1. <<>> \in Seq(Block) /\ <<>> \in Seq(Pair)
    BY EmptySeq
  <2> QED BY <2>1 DEF Waiting
<1>5. \A i \in 1..N : \A acc \in Waiting : AddRow(acc, pairs[i], header) \in Waiting
  BY <1>1, AddRowType
<1>6. Leads(N, start, G, T)
  <2> HIDE DEF start
  <2> QED BY <1>1, <1>2, <1>3, <1>4, <1>5 DEF Leads
<1>7. PICK f : Run(N, start, G, T, f)
  BY <1>1, <1>6, LoopRuns
<1>8. f = [n \in 0..N |-> IF n = 0 THEN start ELSE AddRow(f[n - 1], pairs[n], header)]
  <2> DEFINE h == [n \in 0..N |-> IF n = 0 THEN start ELSE AddRow(f[n - 1], pairs[n], header)]
  <2>1. \A n \in 0..N : n # 0 => n \in 1..N
    BY <1>1
  <2>2. \A n \in 1..N : f[n - 1] \in Waiting
    BY <1>1, <1>2, <1>7 DEF Run
  <2>3. \A n \in 0..N : f[n] = h[n]
    BY Zenon, <1>3, <1>7, <2>1, <2>2 DEF Run
  <2>4. f = [n \in 0..N |-> f[n]] /\ h = [n \in 0..N |-> h[n]]
    BY Zenon, <1>7 DEF Run
  <2> HIDE DEF h
  <2>5. f = h
    BY <2>3, <2>4
  <2> QED BY Zenon, <2>5 DEF h
<1>9. \E g : /\ g = [n \in 0..N |-> IF n = 0 THEN start ELSE AddRow(g[n - 1], pairs[n], header)]
             /\ BlocksUnder(header, pairs) = CloseBlock(g[N], header).blocks
  BY Zenon, <1>8 DEF BlocksUnder, N
<1>10. PICK g : /\ g = [n \in 0..N |-> IF n = 0 THEN start ELSE AddRow(g[n - 1], pairs[n], header)]
                /\ BlocksUnder(header, pairs) = CloseBlock(g[N], header).blocks
  BY Zenon, <1>9
<1>11. g[0] = start /\ \A n \in 1..N : g[n] = AddRow(g[n - 1], pairs[n], header)
  <2>1. \A n \in 0..N : g[n] = IF n = 0 THEN start ELSE AddRow(g[n - 1], pairs[n], header)
    BY Zenon, <1>10
  <2> QED BY Zenon, <2>1, <1>1, <1>2
<1>12. \A n \in 0..N : g[n] \in Waiting
  <2>1. g[0] \in T[0] /\ \A n \in 1..N : g[n - 1] \in T[n - 1] => g[n] \in T[n]
    <3> HIDE DEF start
    <3>1. g[0] \in T[0]
      BY Zenon, <1>2, <1>4, <1>11
    <3>2. \A n \in 1..N : g[n - 1] \in T[n - 1] => g[n] \in T[n]
      <4>1. SUFFICES ASSUME NEW n \in 1..N, g[n - 1] \in T[n - 1] PROVE g[n] \in T[n]
        BY Zenon
      <4>2. T[n - 1] = Waiting /\ T[n] = Waiting
        BY <1>1, <1>2
      <4> QED BY Zenon, <4>1, <4>2, <1>5, <1>11
    <3> QED BY <3>1, <3>2
  <2>2. \A n \in 0..N : g[n] \in T[n]
    BY <1>1, <2>1, LoopKeeps
  <2> QED BY <1>2, <2>2
<1> QED BY Zenon, <1>10, <1>11, <1>12 DEF N

\* The blocks of a sheet have numbers of rows.
LEMMA RowBlocksType ==
  ASSUME NEW pairs \in Seq(Pair)
  PROVE  RowBlocks(pairs) \in Seq(Block)
<1>1. CASE pairs = <<>>
  <2>1. RowBlocks(pairs) = <<>>
    BY <1>1 DEF RowBlocks
  <2> QED BY <2>1, EmptySeq
<1>2. CASE pairs # <<>> /\ Len(pairs) = 1
  <2>1. pairs[1] \in Pair
    BY <1>2
  <2> DEFINE b == [lines |-> <<pairs[1].row>>, start |-> pairs[1].no, end |-> pairs[1].no]
  <2>2. RowBlocks(pairs) = <<b>>
    BY <1>2 DEF RowBlocks
  <2>3. b \in Block
    <3>1. pairs[1].row \in Text /\ pairs[1].no \in Nat
      BY <2>1 DEF Pair
    <3>2. <<pairs[1].row>> \in Lines
      BY <3>1, VisibleFacts
    <3> QED BY <3>1, <3>2 DEF Block
  <2> HIDE DEF b
  <2> QED BY <2>2, <2>3
<1>3. CASE pairs # <<>> /\ Len(pairs) # 1
  <2> DEFINE header == pairs[1]
             bs == BlocksUnder(header, Tail(pairs))
  <2>1. header \in Pair /\ Tail(pairs) \in Seq(Pair) /\ Len(Tail(pairs)) \in Nat
    BY <1>3
  <2>2. PICK g : /\ BlocksUnder(header, Tail(pairs)) = CloseBlock(g[Len(Tail(pairs))], header).blocks
                 /\ \A n \in 0..Len(Tail(pairs)) : g[n] \in Waiting
    BY <2>1, BlocksRun
  <2>3. g[Len(Tail(pairs))] \in Waiting
    BY <2>1, <2>2
  <2>4. bs \in Seq(Block)
    BY <2>1, <2>2, <2>3, CloseBlockType DEF Waiting
  <2>5. RowBlocks(pairs) = HeaderFirst(header, bs)
    BY <1>3 DEF RowBlocks
  <2> HIDE DEF bs, header
  <2>6. CASE Repeats(header) \/ bs = <<>>
    BY <2>4, <2>5, <2>6 DEF HeaderFirst
  <2>7. CASE ~(Repeats(header) \/ bs = <<>>)
    <3> DEFINE t == <<header.row>> \o bs[1].lines
               one == [bs[1] EXCEPT !.lines = t, !.start = header.no]
    <3>1. HeaderFirst(header, bs) = [bs EXCEPT ![1].lines = t, ![1].start = header.no]
      BY <2>7 DEF HeaderFirst
    <3>2. Len(bs) \in Nat /\ 1 \in 1..Len(bs) /\ bs[1] \in Block /\ DOMAIN bs = 1..Len(bs)
      BY <2>4, <2>7
    <3>3. HeaderFirst(header, bs) = [bs EXCEPT ![1] = one]
      BY <3>1, <3>2
    <3>4. bs[1].lines \in Lines /\ header.no \in Nat
      BY <3>2, <2>1 DEF Block, Pair
    <3>5. t \in Lines
      BY <2>1, <3>4, RowBlockType
    <3> HIDE DEF t
    <3>6. one \in Block
      BY <3>2, <3>4, <3>5 DEF Block
    <3> HIDE DEF one
    <3> QED BY <2>4, <2>5, <3>2, <3>3, <3>6, ExceptSeq
  <2> QED BY <2>6, <2>7
<1> QED BY <1>1, <1>2, <1>3

----------------------------------------------------------------------------
(* A block has its rows. *)

Rows(pairs, a, b) == UNION {Visible(pairs[k].row) : k \in a..b}

\* A block of the rows from a to b under the header.
Covers(block, header, pairs, a, b) ==
  /\ block.start = pairs[a].no /\ block.end = pairs[b].no
  /\ InLines(block.lines) = Visible(header.row) \cup Rows(pairs, a, b)

\* Of the first n rows those up to cut are in blocks, and the others wait.
TracksTo(acc, header, pairs, n, cut) ==
  /\ Len(acc.buf) = n - cut
  /\ \A j \in 1..(n - cut) : acc.buf[j] = pairs[cut + j]
  /\ \A i \in DOMAIN acc.blocks : \E a, b \in 1..n : a <= b /\ Covers(acc.blocks[i], header, pairs, a, b)
  /\ \A k \in 1..cut : \E i \in DOMAIN acc.blocks : Visible(pairs[k].row) \subseteq InLines(acc.blocks[i].lines)

\* Closing a block, the rows that wait are in it.
LEMMA CloseBlockTracks ==
  ASSUME NEW acc \in Waiting, NEW header \in Pair, Repeats(header), NEW pairs \in Seq(Pair),
         NEW n \in 0..Len(pairs), NEW cut \in 0..n, TracksTo(acc, header, pairs, n, cut)
  PROVE  TracksTo(CloseBlock(acc, header), header, pairs, n, n)
<1> DEFINE body == RowsOf(acc.buf)
           new == RowBlock(header, body, acc.buf[1].no, Last(acc.buf).no)
           c == CloseBlock(acc, header)
<1>1. acc.blocks \in Seq(Block) /\ acc.buf \in Seq(Pair) /\ Len(pairs) \in Nat /\ n \in Nat /\ cut \in Nat /\ cut <= n
  BY DEF Waiting
<1>2. /\ Len(acc.buf) = n - cut
      /\ \A j \in 1..(n - cut) : acc.buf[j] = pairs[cut + j]
      /\ \A i \in DOMAIN acc.blocks : \E a, b \in 1..n : a <= b /\ Covers(acc.blocks[i], header, pairs, a, b)
      /\ \A k \in 1..cut : \E i \in DOMAIN acc.blocks : Visible(pairs[k].row) \subseteq InLines(acc.blocks[i].lines)
  BY DEF TracksTo
<1>3. CASE acc.buf = <<>>
  <2>1. cut = n
    BY <1>1, <1>2, <1>3
  <2>2. c = acc
    BY <1>3 DEF CloseBlock
  <2> QED BY <2>1, <2>2
<1>4. CASE acc.buf # <<>>
  <2>1. cut + 1 \in 1..n /\ n \in 1..n /\ cut + 1 <= n /\ 1 \in 1..(n - cut) /\ n - cut \in 1..(n - cut) /\ cut + (n - cut) = n
    BY <1>1, <1>2, <1>4
  <2>2. acc.buf[1] = pairs[cut + 1] /\ Last(acc.buf) = pairs[n]
    BY <1>2, <2>1 DEF Last
  <2>3. c = [blocks |-> Append(acc.blocks, new), buf |-> <<>>, used |-> 0]
    BY <1>4 DEF CloseBlock, RowsOf
  <2>4. body \in Lines /\ InLines(body) = UNION {Visible(acc.buf[i].row) : i \in 1..(n - cut)}
    BY <1>1, <1>2, RowsOfFacts
  <2>5. UNION {Visible(acc.buf[i].row) : i \in 1..(n - cut)} = Rows(pairs, cut + 1, n)
    <3>1. \A i \in 1..(n - cut) : cut + i \in (cut + 1)..n /\ acc.buf[i] = pairs[cut + i]
      BY <1>1, <1>2
    <3>2. \A k \in (cut + 1)..n : k - cut \in 1..(n - cut) /\ cut + (k - cut) = k
      BY <1>1
    <3>3. \A k \in (cut + 1)..n : \E i \in 1..(n - cut) : acc.buf[i] = pairs[k]
      <4>1. SUFFICES ASSUME NEW k \in (cut + 1)..n PROVE acc.buf[k - cut] = pairs[k]
        BY <3>2
      <4> QED BY Zenon, <3>1, <3>2
    <3>4. UNION {Visible(acc.buf[i].row) : i \in 1..(n - cut)} \subseteq Rows(pairs, cut + 1, n)
      BY Zenon, <3>1 DEF Rows
    <3>5. Rows(pairs, cut + 1, n) \subseteq UNION {Visible(acc.buf[i].row) : i \in 1..(n - cut)}
      BY Zenon, <3>3 DEF Rows
    <3> QED BY <3>4, <3>5
  <2>6. pairs[cut + 1].no \in Nat /\ pairs[n].no \in Nat
    <3>1. pairs[cut + 1] \in Pair /\ pairs[n] \in Pair
      BY <2>1, <1>1
    <3> QED BY <3>1 DEF Pair
  <2>7. new \in Block /\ new.start = pairs[cut + 1].no /\ new.end = pairs[n].no /\ new.lines = <<header.row>> \o body
    <3>1. new \in Block
      BY <2>2, <2>4, <2>6, RowBlockType
    <3> QED BY <3>1, <2>2 DEF RowBlock
  <2>8. InLines(new.lines) = Visible(header.row) \cup Rows(pairs, cut + 1, n)
    BY <2>4, <2>5, <2>6, <2>7, RowBlockType
  <2> HIDE DEF new, body
  <2>9. Covers(new, header, pairs, cut + 1, n)
    BY <2>7, <2>8 DEF Covers
  <2> DEFINE bs == Append(acc.blocks, new)
             m == Len(acc.blocks)
  <2>10. /\ m \in Nat /\ DOMAIN acc.blocks = 1..m /\ DOMAIN bs = 1..(m + 1) /\ bs[m + 1] = new
         /\ \A i \in 1..m : bs[i] = acc.blocks[i] /\ i \in 1..(m + 1)
         /\ \A i \in 1..(m + 1) : i \in 1..m \/ i = m + 1
         /\ m + 1 \in 1..(m + 1)
    BY <1>1, <2>7
  <2>11. c.blocks = bs /\ c.buf = <<>>
    BY <2>3
  <2> HIDE DEF bs, m, c
  <2>12. \A i \in 1..(m + 1) : \E a, b \in 1..n : a <= b /\ Covers(bs[i], header, pairs, a, b)
    <3>1. SUFFICES ASSUME NEW i \in 1..(m + 1) PROVE \E a, b \in 1..n : a <= b /\ Covers(bs[i], header, pairs, a, b)
      OBVIOUS
    <3>2. CASE i \in 1..m
      BY Zenon, <1>2, <2>10, <3>2
    <3>3. CASE i = m + 1
      BY Zenon, <2>1, <2>9, <2>10, <3>3
    <3> QED BY <2>10, <3>2, <3>3
  <2>13. \A k \in 1..n : \E i \in 1..(m + 1) : Visible(pairs[k].row) \subseteq InLines(bs[i].lines)
    <3>1. SUFFICES ASSUME NEW k \in 1..n PROVE \E i \in 1..(m + 1) : Visible(pairs[k].row) \subseteq InLines(bs[i].lines)
      OBVIOUS
    <3>2. CASE k \in 1..cut
      BY Zenon, <1>2, <2>10, <3>2
    <3>3. CASE k \in (cut + 1)..n
      <4>1. Visible(pairs[k].row) \subseteq InLines(new.lines)
        BY Zenon, <2>8, <3>3 DEF Rows
      <4> QED BY Zenon, <2>10, <4>1
    <3>4. k \in 1..cut \/ k \in (cut + 1)..n
      BY <1>1
    <3> QED BY <3>2, <3>3, <3>4
  <2>14. n - n = 0 /\ (1..(n - n)) = {} /\ Len(<<>>) = 0
    BY <1>1
  <2>15. TracksTo(c, header, pairs, n, n)
    BY Zenon, <2>10, <2>11, <2>12, <2>13, <2>14 DEF TracksTo
  <2> QED BY <2>15 DEF c
<1> QED BY <1>3, <1>4

\* A short row waits.
LEMMA AddRowTracks ==
  ASSUME NEW acc \in Waiting, NEW header \in Pair, Repeats(header), NEW pairs \in Seq(Pair),
         NEW n \in 1..Len(pairs), Len(pairs[n].row) <= RowBudget(header),
         NEW cut \in 0..(n - 1), TracksTo(acc, header, pairs, n - 1, cut)
  PROVE  \E cut2 \in 0..n : TracksTo(AddRow(acc, pairs[n], header), header, pairs, n, cut2)
<1>1. n - 1 \in 0..Len(pairs) /\ n \in Nat /\ cut \in Nat /\ cut <= n - 1 /\ n - 1 \in Nat /\ n - 1 \in 0..(n - 1)
  OBVIOUS
<1>2. pairs[n] \in Pair /\ pairs[n].row \in Text /\ Len(pairs[n].row) \in Nat
  <2>1. pairs[n] \in Pair
    OBVIOUS
  <2> QED BY <2>1 DEF Pair, Text
<1>3. RowBudget(header) \in Int
  BY UnitAssumption DEF RowBudget, Pair, Text
<1> DEFINE c == CloseBlock(acc, header)
           a == IF acc.buf # <<>> /\ acc.used + Len(pairs[n].row) + 1 > RowBudget(header) THEN c ELSE acc
           p == AddShortRow(a, pairs[n])
<1>4. AddRow(acc, pairs[n], header) = p
  BY <1>2, <1>3 DEF AddRow
<1>5. c \in Waiting /\ TracksTo(c, header, pairs, n - 1, n - 1)
  BY <1>1, CloseBlockType, CloseBlockTracks
<1>6. \E d \in 0..(n - 1) : TracksTo(a, header, pairs, n - 1, d)
  BY <1>1, <1>5
<1>7. PICK d \in 0..(n - 1) : TracksTo(a, header, pairs, n - 1, d)
  BY <1>6
<1>8. a \in Waiting
  BY <1>5
<1>9. p.buf = Append(a.buf, pairs[n]) /\ p.blocks = a.blocks
  <2> HIDE DEF a
  <2> QED BY <1>8 DEF AddShortRow, Waiting
<1> HIDE DEF a, p, c
<1>10. /\ Len(a.buf) = (n - 1) - d
       /\ \A j \in 1..((n - 1) - d) : a.buf[j] = pairs[d + j]
       /\ \A i \in DOMAIN a.blocks : \E x, y \in 1..(n - 1) : x <= y /\ Covers(a.blocks[i], header, pairs, x, y)
       /\ \A k \in 1..d : \E i \in DOMAIN a.blocks : Visible(pairs[k].row) \subseteq InLines(a.blocks[i].lines)
  BY <1>7 DEF TracksTo
<1>11. a.buf \in Seq(Pair) /\ d \in Nat /\ d <= n - 1 /\ d \in 0..n
  BY <1>1, <1>8 DEF Waiting
<1>12. Len(p.buf) = n - d /\ \A j \in 1..(n - d) : p.buf[j] = pairs[d + j]
  <2>1. Len(p.buf) = n - d
    BY <1>2, <1>9, <1>10, <1>11, <1>1
  <2>2. SUFFICES ASSUME NEW j \in 1..(n - d) PROVE p.buf[j] = pairs[d + j]
    BY <2>1
  <2>3. CASE j \in 1..((n - 1) - d)
    <3>1. j \in 1..Len(a.buf) /\ a.buf[j] = pairs[d + j]
      BY <1>10, <2>3
    <3>2. Append(a.buf, pairs[n])[j] = a.buf[j]
      BY <1>2, <1>11, <3>1
    <3> QED BY <1>9, <3>1, <3>2
  <2>4. CASE j = n - d
    <3>1. d + j = n /\ j = Len(a.buf) + 1
      BY <1>1, <1>10, <1>11, <2>4
    <3> QED BY <1>2, <1>9, <1>11, <3>1
  <2>5. j \in 1..((n - 1) - d) \/ j = n - d
    BY <1>1, <1>11
  <2> QED BY <2>3, <2>4, <2>5
<1>13. \A x \in 1..(n - 1) : x \in 1..n
  BY <1>1
<1>14. \A i \in DOMAIN a.blocks : \E x, y \in 1..n : x <= y /\ Covers(a.blocks[i], header, pairs, x, y)
  BY Zenon, <1>10, <1>13
<1>15. TracksTo(p, header, pairs, n, d)
  BY Zenon, <1>9, <1>10, <1>12, <1>14 DEF TracksTo
<1> QED BY <1>4, <1>11, <1>15

\* The blocks of short rows under a header that is repeated.
LEMMA PlainRowBlocks ==
  ASSUME NEW pairs \in Seq(Pair), \A k \in 1..Len(pairs) : Len(pairs[k].row) <= MaxPartTokens \div 2 - 1
  PROVE  /\ \A i \in DOMAIN RowBlocks(pairs) : \E a, b \in 1..Len(pairs) :
              a <= b /\ Covers(RowBlocks(pairs)[i], pairs[1], pairs, a, b)
         /\ \A k \in 1..Len(pairs) : \E i \in DOMAIN RowBlocks(pairs) :
              Visible(pairs[k].row) \subseteq InLines(RowBlocks(pairs)[i].lines)
<1>1. CASE pairs = <<>>
  <2>1. RowBlocks(pairs) = <<>> /\ DOMAIN <<>> = {} /\ Len(pairs) = 0
    BY <1>1 DEF RowBlocks
  <2> QED BY <2>1
<1>2. CASE pairs # <<>> /\ Len(pairs) = 1
  <2> DEFINE b == [lines |-> <<pairs[1].row>>, start |-> pairs[1].no, end |-> pairs[1].no]
  <2>1. RowBlocks(pairs) = <<b>>
    BY <1>2 DEF RowBlocks
  <2>2. DOMAIN <<b>> = {1} /\ <<b>>[1] = b /\ (1..1) = {1}
    OBVIOUS
  <2>4. InLines(b.lines) = Visible(pairs[1].row)
    <3>1. pairs[1] \in Pair
      BY <1>2
    <3>2. pairs[1].row \in Text
      BY <3>1 DEF Pair
    <3> QED BY <3>2, VisibleFacts
  <2>3. Covers(b, pairs[1], pairs, 1, 1)
    BY <2>2, <2>4 DEF Covers, Rows
  <2> HIDE DEF b
  <2> QED BY <1>2, <2>1, <2>2, <2>3, <2>4
<1>3. CASE pairs # <<>> /\ Len(pairs) # 1
  <2> DEFINE header == pairs[1]
             rest == Tail(pairs)
             N == Len(rest)
             bs == BlocksUnder(header, rest)
  <2>1. header \in Pair /\ rest \in Seq(Pair) /\ Len(pairs) \in Nat /\ N = Len(pairs) - 1 /\ N \in Nat \ {0}
        /\ \A k \in 1..N : rest[k] = pairs[k + 1]
    BY <1>3
  <2> HIDE DEF rest, N
  <2>2. Len(header.row) \in Nat /\ Len(header.row) <= MaxPartTokens \div 2 - 1
    <3>1. 1 \in 1..Len(pairs)
      BY <2>1
    <3> QED BY <2>1, <3>1 DEF Pair, Text
  <2>3. Repeats(header) /\ MaxPartTokens \div 2 - 1 <= RowBudget(header) /\ RowBudget(header) \in Int
    <3> DEFINE half == MaxPartTokens \div 2
               h == Len(header.row)
    <3>1. half \in Nat /\ half + half <= MaxPartTokens
      BY UnitAssumption
    <3>2. RowBudget(header) = MaxPartTokens - (IF h <= half THEN h + 1 ELSE 0) /\ (Repeats(header) <=> h <= half)
      BY DEF RowBudget, Repeats
    <3>3. h \in Nat /\ h <= half - 1
      BY <2>2
    <3> HIDE DEF half, h
    <3>4. h <= half /\ half - 1 <= MaxPartTokens - (h + 1)
      BY <3>1, <3>3, UnitAssumption
    <3> QED BY <3>1, <3>2, <3>3, <3>4, UnitAssumption DEF half
  <2>4. \A k \in 1..N : Len(rest[k].row) <= RowBudget(header)
    <3>1. SUFFICES ASSUME NEW k \in 1..N PROVE Len(rest[k].row) <= RowBudget(header)
      OBVIOUS
    <3>2. k + 1 \in 1..Len(pairs) /\ rest[k] = pairs[k + 1]
      BY <2>1
    <3>3. Len(rest[k].row) <= MaxPartTokens \div 2 - 1 /\ Len(rest[k].row) \in Nat
      <4>1. rest[k] \in Pair
        BY <2>1
      <4>2. Len(rest[k].row) \in Nat
        BY <4>1 DEF Pair, Text
      <4> QED BY <3>2, <4>2
    <3> QED BY <2>3, <3>3, UnitAssumption
  <2> HIDE DEF header
  <2>5. PICK g : /\ bs = CloseBlock(g[N], header).blocks
                 /\ g[0] = [blocks |-> <<>>, buf |-> <<>>, used |-> 0]
                 /\ \A n \in 1..N : g[n] = AddRow(g[n - 1], rest[n], header)
                 /\ \A n \in 0..N : g[n] \in Waiting
    BY <2>1, BlocksRun DEF N
  <2> DEFINE T == [n \in 0..N |-> {acc \in Waiting : \E cut \in 0..n : TracksTo(acc, header, rest, n, cut)}]
  <2>6. \A n \in 0..N : T[n] = {acc \in Waiting : \E cut \in 0..n : TracksTo(acc, header, rest, n, cut)}
    BY Zenon
  <2> HIDE DEF T
  <2>7. g[0] \in T[0]
    <3>1. DOMAIN <<>> = {} /\ Len(<<>>) = 0 /\ 0 - 0 = 0 /\ (1..0) = {} /\ 0 \in 0..0 /\ 0 \in 0..N
      BY <2>1
    <3>2. g[0].blocks = <<>> /\ g[0].buf = <<>>
      BY <2>5
    <3>3. TracksTo(g[0], header, rest, 0, 0)
      BY Zenon, <3>1, <3>2 DEF TracksTo
    <3> QED BY <2>5, <2>6, <3>1, <3>3
  <2>8. ASSUME NEW n \in 1..N, g[n - 1] \in T[n - 1] PROVE g[n] \in T[n]
    <3>1. n - 1 \in 0..N /\ n \in 0..N
      BY <2>1
    <3>2. PICK cut \in 0..(n - 1) : TracksTo(g[n - 1], header, rest, n - 1, cut)
      BY <2>6, <2>8, <3>1
    <3>3. n \in 1..Len(rest) /\ g[n - 1] \in Waiting /\ g[n] \in Waiting /\ g[n] = AddRow(g[n - 1], rest[n], header)
      BY <2>5, <3>1 DEF N
    <3>4. \E cut2 \in 0..n : TracksTo(AddRow(g[n - 1], rest[n], header), header, rest, n, cut2)
      BY <2>1, <2>3, <2>4, <3>2, <3>3, AddRowTracks
    <3> QED BY <2>6, <3>1, <3>3, <3>4
  <2>9. \A n \in 0..N : g[n] \in T[n]
    BY <2>1, <2>7, <2>8, LoopKeeps
  <2>10. N \in 0..N /\ N \in 0..Len(rest) /\ g[N] \in Waiting
    BY <2>1, <2>5 DEF N
  <2>11. PICK cut \in 0..N : TracksTo(g[N], header, rest, N, cut)
    BY <2>6, <2>9, <2>10
  <2>12. TracksTo(CloseBlock(g[N], header), header, rest, N, N)
    BY <2>1, <2>3, <2>10, <2>11, CloseBlockTracks
  <2>13. RowBlocks(pairs) = bs
    BY <1>3, <2>3 DEF RowBlocks, HeaderFirst, header, rest
  <2> HIDE DEF bs
  <2>14. /\ \A i \in DOMAIN bs : \E a, b \in 1..N : a <= b /\ Covers(bs[i], header, rest, a, b)
         /\ \A k \in 1..N : \E i \in DOMAIN bs : Visible(rest[k].row) \subseteq InLines(bs[i].lines)
    BY Zenon, <2>5, <2>12 DEF TracksTo
  <2>15. ASSUME NEW a \in 1..N, NEW b \in 1..N, a <= b
         PROVE  a + 1 \in 1..Len(pairs) /\ b + 1 \in 1..Len(pairs) /\ a + 1 <= b + 1 /\ Rows(rest, a, b) = Rows(pairs, a + 1, b + 1)
    <3>1. a + 1 \in 1..Len(pairs) /\ b + 1 \in 1..Len(pairs) /\ a + 1 <= b + 1
      BY <2>1, <2>15
    <3>2. \A k \in a..b : k + 1 \in (a + 1)..(b + 1) /\ rest[k] = pairs[k + 1]
      BY <2>1
    <3>3. \A k \in (a + 1)..(b + 1) : \E j \in a..b : rest[j] = pairs[k]
      <4>1. SUFFICES ASSUME NEW k \in (a + 1)..(b + 1) PROVE k - 1 \in a..b /\ rest[k - 1] = pairs[k]
        OBVIOUS
      <4>2. k - 1 \in a..b /\ k - 1 \in 1..N /\ (k - 1) + 1 = k
        BY <2>1
      <4> QED BY <4>2, <2>1
    <3>4. Rows(rest, a, b) \subseteq Rows(pairs, a + 1, b + 1)
      BY Zenon, <3>2 DEF Rows
    <3>5. Rows(pairs, a + 1, b + 1) \subseteq Rows(rest, a, b)
      BY Zenon, <3>3 DEF Rows
    <3> QED BY <3>1, <3>4, <3>5
  <2>16. ASSUME NEW i \in DOMAIN bs PROVE \E a, b \in 1..Len(pairs) : a <= b /\ Covers(bs[i], header, pairs, a, b)
    <3>1. PICK a \in 1..N, b \in 1..N : a <= b /\ Covers(bs[i], header, rest, a, b)
      BY <2>14
    <3>2. Covers(bs[i], header, pairs, a + 1, b + 1)
      <4>1. rest[a] = pairs[a + 1] /\ rest[b] = pairs[b + 1]
        BY <2>1
      <4> QED BY <3>1, <4>1, <2>15 DEF Covers
    <3> QED BY <2>15, <3>1, <3>2
  <2>17. ASSUME NEW k \in 1..Len(pairs) PROVE \E i \in DOMAIN bs : Visible(pairs[k].row) \subseteq InLines(bs[i].lines)
    <3>1. CASE k = 1
      <4>1. 1 \in 1..N
        BY <2>1
      <4>2. PICK i \in DOMAIN bs : Visible(rest[1].row) \subseteq InLines(bs[i].lines)
        BY <2>14, <4>1
      <4>3. PICK a \in 1..N, b \in 1..N : a <= b /\ Covers(bs[i], header, rest, a, b)
        BY <2>14
      <4>4. Visible(header.row) \subseteq InLines(bs[i].lines)
        BY <4>3 DEF Covers
      <4> QED BY <3>1, <4>4 DEF header
    <3>2. CASE k # 1
      <4>1. k - 1 \in 1..N /\ rest[k - 1] = pairs[k]
        <5>1. k - 1 \in 1..N /\ (k - 1) + 1 = k
          BY <2>1, <3>2
        <5> QED BY <5>1, <2>1
      <4> QED BY <4>1, <2>14
    <3> QED BY <3>1, <3>2
  <2> QED BY <2>13, <2>16, <2>17 DEF header
<1> QED BY <1>1, <1>2, <1>3

----------------------------------------------------------------------------
(* Lists of anything. *)

IsList(s) == s \in Seq(ToSet(s))

\* A function on the numbers up to one is a list.
LEMMA ListOf ==
  ASSUME NEW n \in Nat, NEW f, f = [i \in 1..n |-> f[i]]
  PROVE  IsList(f) /\ Len(f) = n /\ DOMAIN f = 1..n /\ ToSet(f) = {f[i] : i \in 1..n}
<1>1. DOMAIN f = 1..n
  BY Zenon
<1>2. ToSet(f) = {f[i] : i \in 1..n}
  BY Zenon, <1>1 DEF ToSet
<1>3. f \in [1..n -> ToSet(f)]
  <2>1. \A i \in 1..n : f[i] \in ToSet(f)
    BY <1>2
  <2> HIDE DEF ToSet
  <2> QED BY Zenon, <2>1
<1> DEFINE S == ToSet(f)
<1>4. f \in [1..n -> S]
  BY <1>3
<1> HIDE DEF S
<1>5. f \in Seq(S) /\ Len(f) = n
  BY <1>4
<1> QED BY <1>1, <1>2, <1>5 DEF IsList, S

\* The places of a list.
LEMMA ListFacts ==
  ASSUME NEW s, IsList(s)
  PROVE  Len(s) \in Nat /\ DOMAIN s = 1..Len(s) /\ ToSet(s) = {s[i] : i \in 1..Len(s)} /\ s = [i \in 1..Len(s) |-> s[i]]
<1>1. Len(s) \in Nat /\ DOMAIN s = 1..Len(s) /\ ToSet(s) = {s[i] : i \in 1..Len(s)}
  BY Members DEF IsList
<1>2. s = [i \in 1..Len(s) |-> s[i]]
  <2> DEFINE S == ToSet(s)
  <2>1. s \in Seq(S)
    BY DEF IsList
  <2> HIDE DEF S
  <2> QED BY <2>1
<1> QED BY <1>1, <1>2

\* A sequence over a set is a list.
LEMMA SeqIsList ==
  ASSUME NEW S, NEW s \in Seq(S)
  PROVE  IsList(s) /\ ToSet(s) \subseteq S
<1>1. Len(s) \in Nat /\ s = [i \in 1..Len(s) |-> s[i]]
  OBVIOUS
<1> QED BY <1>1, ListOf, Members

\* A list of elements of a set is a sequence over it.
LEMMA ListIsSeq ==
  ASSUME NEW s, IsList(s), NEW S, ToSet(s) \subseteq S
  PROVE  s \in Seq(S)
<1> DEFINE R == ToSet(s)
<1>1. s \in Seq(R) /\ R \subseteq S
  BY DEF IsList
<1> HIDE DEF R
<1> QED BY <1>1, SeqMonotonic

\* Lists of one, of two and of none.
LEMMA SmallLists ==
  /\ IsList(<<>>) /\ ToSet(<<>>) = {}
  /\ \A x : IsList(<<x>>) /\ ToSet(<<x>>) = {x}
<1>1. DOMAIN <<>> = {}
  OBVIOUS
<1>2. ToSet(<<>>) = {}
  BY Zenon, <1>1 DEF ToSet
<1>3. ASSUME NEW x PROVE IsList(<<x>>) /\ ToSet(<<x>>) = {x}
  <2>1. <<x>> \in Seq({x})
    OBVIOUS
  <2>2. ToSet(<<x>>) = {x}
    BY DEF ToSet
  <2> QED BY <2>1, <2>2, SeqIsList
<1> QED BY <1>2, <1>3, EmptySeq DEF IsList

\* Lists put together are a list.
LEMMA FlattenLists ==
  ASSUME NEW ss, IsList(ss), \A i \in DOMAIN ss : IsList(ss[i])
  PROVE  IsList(FlattenSeq(ss)) /\ ToSet(FlattenSeq(ss)) = UNION {ToSet(ss[i]) : i \in DOMAIN ss}
<1> DEFINE S == UNION {ToSet(ss[i]) : i \in DOMAIN ss}
<1>1. \A i \in DOMAIN ss : ToSet(ss[i]) \subseteq S
  BY Zenon
<1>2. ToSet(ss) = {ss[i] : i \in DOMAIN ss}
  BY Zenon DEF ToSet
<1> HIDE DEF S
<1>3. \A i \in DOMAIN ss : ss[i] \in Seq(S)
  BY <1>1, ListIsSeq
<1>4. ToSet(ss) \subseteq Seq(S)
  BY <1>2, <1>3
<1>5. ss \in Seq(Seq(S))
  BY <1>4, ListIsSeq
<1> QED BY <1>5, FlattenFacts, SeqIsList DEF S

\* What stands at some places of a list.
LEMMA ThoseLists ==
  ASSUME NEW s, IsList(s), NEW P
  PROVE  IsList(Those(s, P)) /\ ToSet(Those(s, P)) = {s[i] : i \in P \cap DOMAIN s}
BY ThoseFacts, SeqIsList DEF IsList

----------------------------------------------------------------------------
(* Units of documents. *)

\* What units hold together.
Held(us) == UNION {InLines(u.parts) : u \in ToSet(us)}

\* The documents made of a file, in the form that units are built from.
IsDocs(docs) ==
  /\ IsList(docs) /\ docs # <<>>
  /\ docs[1].type = "sheet" => \A s \in DOMAIN docs : docs[s].content \in Lines /\ docs[s].numbers \in Seq(Nat)
  /\ docs[1].type \in {"pages", "docx"} => docs[1].pages \in Seq(Lines)
  /\ docs[1].type \notin {"sheet", "pages", "docx"} => docs[1].content \in Lines

BlocksOf(sheet) == RowBlocks(NumberedRows(sheet.content, sheet.numbers))

\* A unit of block i of sheet s.
OfBlock(u, docs, prefix, s, i) ==
  LET b == BlocksOf(docs[s])[i] IN
  u.id = Append(prefix, <<"s", s, b.start, b.end>>) /\ InLines(u.parts) = InLines(b.lines) /\ u.meta.rows = <<b.start, b.end>>

OfSheet(u, docs, prefix) == \E s \in DOMAIN docs : \E i \in DOMAIN BlocksOf(docs[s]) : OfBlock(u, docs, prefix, s, i)

OfPage(u, pages, prefix) ==
  \E i \in DOMAIN pages : u.id = Append(prefix, <<"p", i>>) /\ InLines(u.parts) = InLines(pages[i])

\* A unit of the parent and the type it is built for.
Plainly(u, type, parent, prefix) ==
  /\ IsUnit(u) /\ u.type = type /\ u.meta.parent = parent /\ u.meta.folders = {}
  /\ \E x : u.id = Append(prefix, x)

\* The units of a sheet are its blocks.
LEMMA SheetUnitsFacts ==
  ASSUME NEW docs, NEW s, docs[s].content \in Lines, docs[s].numbers \in Seq(Nat), NEW type, NEW parent, NEW prefix
  PROVE  LET us == SheetUnits(docs[s], s, type, parent, prefix) IN
         /\ IsList(us) /\ DOMAIN us = DOMAIN BlocksOf(docs[s])
         /\ \A i \in DOMAIN us : Plainly(us[i], type, parent, prefix) /\ OfBlock(us[i], docs, prefix, s, i)
<1> DEFINE bs == BlocksOf(docs[s])
           id(i) == Append(prefix, <<"s", s, bs[i].start, bs[i].end>>)
           meta(i) == [NoMeta EXCEPT !.parent = parent, !.rows = <<bs[i].start, bs[i].end>>]
           unit(i) == Finish(id(i), type, bs[i].lines, meta(i))
           us == SheetUnits(docs[s], s, type, parent, prefix)
<1>1. bs \in Seq(Block)
  BY NumberedRowsType, RowBlocksType DEF BlocksOf
<1>2. us = [i \in DOMAIN bs |-> unit(i)]
  BY Zenon DEF SheetUnits, BlocksOf
<1> HIDE DEF bs, us
<1>3. Len(bs) \in Nat /\ DOMAIN bs = 1..Len(bs) /\ \A i \in DOMAIN bs : bs[i] \in Block
  BY <1>1
<1>4. ASSUME NEW i \in DOMAIN bs
      PROVE  Plainly(unit(i), type, parent, prefix) /\ unit(i).id = id(i) /\ unit(i).meta = meta(i)
             /\ InLines(unit(i).parts) = InLines(bs[i].lines)
  <2>2. bs[i].lines \in Lines
    BY <1>3 DEF Block
  <2>6. IsMeta(meta(i))
    BY Zenon, MetaFacts
  <2> HIDE DEF id, meta
  <2>3. unit(i).id = id(i) /\ unit(i).type = type /\ unit(i).meta = meta(i) /\ IsUnit(unit(i)) /\ InLines(unit(i).parts) = InLines(bs[i].lines)
    BY <2>2, <2>6, FinishFacts
  <2>4. meta(i).parent = parent /\ meta(i).folders = {}
    BY DEF meta, NoMeta
  <2>5. \E x : unit(i).id = Append(prefix, x)
    BY Zenon, <2>3 DEF id
  <2> QED BY <2>3, <2>4, <2>5 DEF Plainly
<1>5. \A i \in DOMAIN bs : meta(i).rows = <<bs[i].start, bs[i].end>>
  BY DEF NoMeta
<1> HIDE DEF unit, meta
<1>6. us = [i \in 1..Len(bs) |-> us[i]] /\ DOMAIN us = DOMAIN bs /\ \A i \in DOMAIN bs : us[i] = unit(i)
  BY Zenon, <1>2, <1>3
<1>7. IsList(us)
  BY <1>3, <1>6, ListOf
<1>8. \A i \in DOMAIN us : OfBlock(us[i], docs, prefix, s, i)
  BY <1>4, <1>5, <1>6 DEF OfBlock, bs
<1> QED BY <1>4, <1>6, <1>7, <1>8 DEF us, bs

\* A page is a unit, unless it is blank.
LEMMA PageUnitFacts ==
  ASSUME NEW page \in Lines, NEW i, NEW type, NEW parent, NEW prefix
  PROVE  LET us == PageUnit(page, i, type, parent, prefix) IN
         /\ IsList(us) /\ Held(us) = InLines(page)
         /\ \A u \in ToSet(us) : /\ Plainly(u, type, parent, prefix)
                                 /\ u.id = Append(prefix, <<"p", i>>) /\ InLines(u.parts) = InLines(page)
<1> DEFINE us == PageUnit(page, i, type, parent, prefix)
           meta == [NoMeta EXCEPT !.parent = parent]
           id == Append(prefix, <<"p", i>>)
           u1 == Finish(id, type, page, meta)
<1>1. CASE Blank(Join(page))
  <2>1. us = <<>> /\ InLines(page) = {}
    BY <1>1, JoinFacts DEF PageUnit
  <2> HIDE DEF us
  <2> QED BY <2>1, SmallLists DEF Held, us
<1>2. CASE ~Blank(Join(page))
  <2>1. us = <<u1>>
    BY <1>2 DEF PageUnit
  <2>2. meta.parent = parent /\ meta.folders = {} /\ IsMeta(meta)
    BY MetaFacts DEF NoMeta
  <2> HIDE DEF meta, id, us
  <2>3. u1.id = id /\ u1.type = type /\ u1.meta = meta /\ IsUnit(u1) /\ InLines(u1.parts) = InLines(page)
    BY <2>2, FinishFacts
  <2>4. \E x : u1.id = Append(prefix, x)
    BY Zenon, <2>3 DEF id
  <2> HIDE DEF u1
  <2>5. Plainly(u1, type, parent, prefix)
    BY <2>2, <2>3, <2>4 DEF Plainly
  <2>6. IsList(us) /\ ToSet(us) = {u1}
    BY <2>1, SmallLists
  <2>7. Held(us) = InLines(page)
    BY <2>3, <2>6 DEF Held
  <2> QED BY <2>3, <2>5, <2>6, <2>7 DEF us, id
<1> QED BY <1>1, <1>2

\* Blocks of a text are units.
LEMMA BlockUnitsFacts ==
  ASSUME NEW blocks \in Lines, NEW type, NEW parent, NEW prefix
  PROVE  LET us == BlockUnits(blocks, type, parent, prefix) IN
         IsList(us) /\ Held(us) = InLines(blocks) /\ \A u \in ToSet(us) : Plainly(u, type, parent, prefix)
<1> DEFINE us == BlockUnits(blocks, type, parent, prefix)
           meta == [NoMeta EXCEPT !.parent = parent]
           id(i) == Append(prefix, <<"b", i>>)
           unit(i) == Finish(id(i), type, <<blocks[i]>>, meta)
<1>1. Len(blocks) \in Nat /\ DOMAIN blocks = 1..Len(blocks) /\ \A i \in DOMAIN blocks : blocks[i] \in Text
  BY InLinesFacts
<1>2. us = [i \in DOMAIN blocks |-> unit(i)]
  BY Zenon DEF BlockUnits
<1>3. meta.parent = parent /\ meta.folders = {} /\ IsMeta(meta)
  BY MetaFacts DEF NoMeta
<1> HIDE DEF us, meta
<1>4. ASSUME NEW i \in DOMAIN blocks
      PROVE  Plainly(unit(i), type, parent, prefix) /\ InLines(unit(i).parts) = Visible(blocks[i])
  <2>1. <<blocks[i]>> \in Lines /\ InLines(<<blocks[i]>>) = Visible(blocks[i])
    BY <1>1, VisibleFacts
  <2> HIDE DEF id
  <2>2. unit(i).id = id(i) /\ unit(i).type = type /\ unit(i).meta = meta /\ IsUnit(unit(i)) /\ InLines(unit(i).parts) = Visible(blocks[i])
    BY <1>3, <2>1, FinishFacts
  <2>3. \E x : unit(i).id = Append(prefix, x)
    BY Zenon, <2>2 DEF id
  <2> HIDE DEF unit
  <2> QED BY <1>3, <2>2, <2>3 DEF Plainly
<1> HIDE DEF unit
<1>5. us = [i \in 1..Len(blocks) |-> us[i]] /\ DOMAIN us = DOMAIN blocks /\ \A i \in DOMAIN blocks : us[i] = unit(i)
  BY Zenon, <1>1, <1>2
<1>6. IsList(us) /\ ToSet(us) = {us[i] : i \in DOMAIN blocks}
  BY <1>1, <1>5, ListOf
<1>7. Held(us) = UNION {Visible(blocks[i]) : i \in DOMAIN blocks}
  <2>1. Held(us) = UNION {InLines(us[i].parts) : i \in DOMAIN blocks}
    BY Zenon, <1>6 DEF Held
  <2>2. \A i \in DOMAIN blocks : InLines(us[i].parts) = Visible(blocks[i])
    BY <1>4, <1>5
  <2> QED BY Zenon, <2>1, <2>2
<1>8. Held(us) = InLines(blocks)
  BY Zenon, <1>7 DEF InLines
<1> QED BY <1>4, <1>5, <1>6, <1>8 DEF us

\* Sections are split one by one.
LEMMA SectionBlocksFacts ==
  ASSUME NEW sections \in Seq(Lines)
  PROVE  SectionBlocks(sections) \in Lines
         /\ InLines(SectionBlocks(sections)) = UNION {InLines(sections[i]) : i \in DOMAIN sections}
<1> DEFINE N == Len(sections)
           ss == [i \in DOMAIN sections |-> SplitText(sections[i])]
<1>1. N \in Nat /\ DOMAIN sections = 1..N /\ \A i \in DOMAIN sections : sections[i] \in Lines
  OBVIOUS
<1>2. \A i \in DOMAIN sections : SplitText(sections[i]) \in Lines /\ InLines(SplitText(sections[i])) = InLines(sections[i])
  BY <1>1, SplitTextFacts
<1> HIDE DEF N
<1>3. ss \in [1..N -> Lines] /\ DOMAIN ss = DOMAIN sections /\ \A i \in DOMAIN sections : ss[i] = SplitText(sections[i])
  BY <1>1, <1>2
<1>4. SectionBlocks(sections) = FlattenSeq(ss)
  BY Zenon DEF SectionBlocks
<1> HIDE DEF ss
<1>5. ss \in Seq(Lines)
  BY <1>1, <1>3
<1>6. InLines(FlattenSeq(ss)) = UNION {InLines(ss[i]) : i \in DOMAIN sections} /\ FlattenSeq(ss) \in Lines
  BY <1>3, <1>5, FlattenLines
<1>7. \A i \in DOMAIN sections : InLines(ss[i]) = InLines(sections[i])
  BY <1>2, <1>3
<1> QED BY Zenon, <1>4, <1>6, <1>7

\* What documents hold, as it comes to their units.
DocsHold(docs) ==
  IF docs = <<>> THEN {}
  ELSE IF docs[1].type = "sheet" THEN UNION {UNION {InLines(BlocksOf(docs[s])[i].lines) : i \in DOMAIN BlocksOf(docs[s])} : s \in DOMAIN docs}
  ELSE IF docs[1].type \in {"pages", "docx"} THEN UNION {InLines(docs[1].pages[i]) : i \in DOMAIN docs[1].pages}
  ELSE InLines(docs[1].content)

\* What lists of units hold together.
LEMMA HeldTogether ==
  ASSUME NEW ss, IsList(ss), \A i \in DOMAIN ss : IsList(ss[i])
  PROVE  Held(FlattenSeq(ss)) = UNION {Held(ss[i]) : i \in DOMAIN ss}
<1>1. ToSet(FlattenSeq(ss)) = UNION {ToSet(ss[i]) : i \in DOMAIN ss}
  BY FlattenLists
<1>2. Held(FlattenSeq(ss)) = UNION {InLines(u.parts) : u \in UNION {ToSet(ss[i]) : i \in DOMAIN ss}}
  BY Zenon, <1>1 DEF Held
<1>3. UNION {InLines(u.parts) : u \in UNION {ToSet(ss[i]) : i \in DOMAIN ss}} =
        UNION {UNION {InLines(u.parts) : u \in ToSet(ss[i])} : i \in DOMAIN ss}
  OBVIOUS
<1>4. \A i \in DOMAIN ss : Held(ss[i]) = UNION {InLines(u.parts) : u \in ToSet(ss[i])}
  BY DEF Held
<1> QED BY Zenon, <1>2, <1>3, <1>4

\* The units of parsed documents hold what the documents hold, each at its place.
LEMMA DocumentUnitsFacts ==
  ASSUME NEW docs, IsDocs(docs), NEW type, NEW parent, NEW prefix
  PROVE  LET us == DocumentUnits(docs, type, parent, prefix) IN
         /\ IsList(us) /\ Held(us) = DocsHold(docs)
         /\ \A u \in ToSet(us) :
              /\ Plainly(u, type, parent, prefix)
              /\ docs[1].type = "sheet" => OfSheet(u, docs, prefix)
              /\ docs[1].type = "pages" => OfPage(u, docs[1].pages, prefix)
<1> DEFINE us == DocumentUnits(docs, type, parent, prefix)
<1>0. docs # <<>>
  BY DEF IsDocs
<1>1. CASE docs[1].type = "sheet"
  <2> DEFINE n == Len(docs)
             ss == [s \in DOMAIN docs |-> SheetUnits(docs[s], s, type, parent, prefix)]
  <2>1. n \in Nat /\ DOMAIN docs = 1..n
    BY ListFacts DEF IsDocs
  <2>2. ss = [s \in 1..n |-> ss[s]] /\ DOMAIN ss = 1..n /\ \A s \in 1..n : ss[s] = SheetUnits(docs[s], s, type, parent, prefix)
    BY Zenon, <2>1
  <2>3. us = FlattenSeq(ss)
    BY Zenon, <1>1 DEF DocumentUnits
  <2> HIDE DEF ss, us
  <2>4. \A s \in 1..n : /\ IsList(ss[s]) /\ DOMAIN ss[s] = DOMAIN BlocksOf(docs[s])
                        /\ \A i \in DOMAIN ss[s] : Plainly(ss[s][i], type, parent, prefix) /\ OfBlock(ss[s][i], docs, prefix, s, i)
    <3>1. SUFFICES ASSUME NEW s \in 1..n
                   PROVE  /\ IsList(ss[s]) /\ DOMAIN ss[s] = DOMAIN BlocksOf(docs[s])
                          /\ \A i \in DOMAIN ss[s] : Plainly(ss[s][i], type, parent, prefix) /\ OfBlock(ss[s][i], docs, prefix, s, i)
      OBVIOUS
    <3>2. docs[s].content \in Lines /\ docs[s].numbers \in Seq(Nat)
      BY <1>1, <2>1, <3>1 DEF IsDocs
    <3>3. ss[s] = SheetUnits(docs[s], s, type, parent, prefix)
      BY <2>2
    <3> QED BY <3>2, <3>3, SheetUnitsFacts
  <2>5. IsList(ss)
    BY <2>1, <2>2, ListOf
  <2>6. IsList(us) /\ ToSet(us) = UNION {ToSet(ss[s]) : s \in 1..n} /\ Held(us) = UNION {Held(ss[s]) : s \in 1..n}
    BY <2>2, <2>3, <2>4, <2>5, FlattenLists, HeldTogether
  <2>7. \A s \in 1..n : ToSet(ss[s]) = {ss[s][i] : i \in DOMAIN BlocksOf(docs[s])}
    BY Zenon, <2>4 DEF ToSet
  <2>8. \A s \in 1..n : Held(ss[s]) = UNION {InLines(BlocksOf(docs[s])[i].lines) : i \in DOMAIN BlocksOf(docs[s])}
    <3>1. SUFFICES ASSUME NEW s \in 1..n
                   PROVE  Held(ss[s]) = UNION {InLines(BlocksOf(docs[s])[i].lines) : i \in DOMAIN BlocksOf(docs[s])}
      BY Zenon
    <3>2. Held(ss[s]) = UNION {InLines(ss[s][i].parts) : i \in DOMAIN BlocksOf(docs[s])}
      BY Zenon, <2>7 DEF Held
    <3>3. \A i \in DOMAIN BlocksOf(docs[s]) : InLines(ss[s][i].parts) = InLines(BlocksOf(docs[s])[i].lines)
      BY <2>4 DEF OfBlock
    <3> QED BY Zenon, <3>2, <3>3
  <2>9. Held(us) = DocsHold(docs)
    <3> DEFINE B(s) == UNION {InLines(BlocksOf(docs[s])[i].lines) : i \in DOMAIN BlocksOf(docs[s])}
    <3>1. DocsHold(docs) = UNION {B(s) : s \in DOMAIN docs}
      BY Zenon, <1>0, <1>1 DEF DocsHold
    <3>2. \A s \in 1..n : Held(ss[s]) = B(s)
      BY Zenon, <2>8
    <3> HIDE DEF B
    <3> QED BY Zenon, <2>1, <2>6, <3>1, <3>2
  <2>10. ASSUME NEW u \in ToSet(us) PROVE Plainly(u, type, parent, prefix) /\ OfSheet(u, docs, prefix)
    <3>1. PICK s \in 1..n : u \in ToSet(ss[s])
      BY <2>6, <2>10
    <3>2. PICK i \in DOMAIN BlocksOf(docs[s]) : u = ss[s][i]
      BY <2>7, <3>1
    <3>3. Plainly(u, type, parent, prefix) /\ OfBlock(u, docs, prefix, s, i)
      BY <2>4, <3>2
    <3> QED BY <2>1, <3>3 DEF OfSheet
  <2> QED BY <1>1, <2>6, <2>9, <2>10 DEF us
<1>2. CASE docs[1].type = "pages"
  <2> DEFINE pages == docs[1].pages
             n == Len(pages)
             ss == [i \in DOMAIN pages |-> PageUnit(pages[i], i, type, parent, prefix)]
  <2>1. pages \in Seq(Lines)
    BY <1>2 DEF IsDocs
  <2>2. us = FlattenSeq(ss)
    BY Zenon, <1>2 DEF DocumentUnits
  <2>3. DocsHold(docs) = UNION {InLines(pages[i]) : i \in DOMAIN pages}
    BY <1>0, <1>2 DEF DocsHold
  <2> HIDE DEF pages, us
  <2>4. n \in Nat /\ DOMAIN pages = 1..n /\ \A i \in 1..n : pages[i] \in Lines
    BY <2>1
  <2>5. ss = [i \in 1..n |-> ss[i]] /\ DOMAIN ss = 1..n /\ \A i \in 1..n : ss[i] = PageUnit(pages[i], i, type, parent, prefix)
    BY Zenon, <2>4
  <2> HIDE DEF ss
  <2>6. \A i \in 1..n : /\ IsList(ss[i]) /\ Held(ss[i]) = InLines(pages[i])
                        /\ \A u \in ToSet(ss[i]) : /\ Plainly(u, type, parent, prefix)
                                                   /\ u.id = Append(prefix, <<"p", i>>) /\ InLines(u.parts) = InLines(pages[i])
    BY <2>4, <2>5, PageUnitFacts
  <2>7. IsList(ss)
    BY <2>4, <2>5, ListOf
  <2>8. IsList(us) /\ ToSet(us) = UNION {ToSet(ss[i]) : i \in 1..n} /\ Held(us) = UNION {Held(ss[i]) : i \in 1..n}
    BY <2>2, <2>5, <2>6, <2>7, FlattenLists, HeldTogether
  <2>9. Held(us) = DocsHold(docs)
    BY Zenon, <2>3, <2>4, <2>6, <2>8
  <2>10. ASSUME NEW u \in ToSet(us) PROVE Plainly(u, type, parent, prefix) /\ OfPage(u, pages, prefix)
    <3>1. PICK i \in 1..n : u \in ToSet(ss[i])
      BY <2>8, <2>10
    <3> QED BY <2>4, <2>6, <3>1 DEF OfPage
  <2> QED BY <1>2, <2>8, <2>9, <2>10 DEF us, pages
<1>3. CASE docs[1].type = "docx"
  <2> DEFINE blocks == SectionBlocks(docs[1].pages)
  <2>1. us = BlockUnits(blocks, type, parent, prefix)
    BY <1>3 DEF DocumentUnits
  <2>2. blocks \in Lines /\ InLines(blocks) = DocsHold(docs)
    BY <1>0, <1>3, SectionBlocksFacts DEF IsDocs, DocsHold
  <2> HIDE DEF blocks, us
  <2> QED BY <1>3, <2>1, <2>2, BlockUnitsFacts DEF us
<1>4. CASE docs[1].type \notin {"sheet", "pages", "docx"}
  <2> DEFINE blocks == SplitText(docs[1].content)
  <2>1. us = BlockUnits(blocks, type, parent, prefix)
    BY <1>4 DEF DocumentUnits
  <2>2. blocks \in Lines /\ InLines(blocks) = DocsHold(docs)
    BY <1>0, <1>4, SplitTextFacts DEF IsDocs, DocsHold
  <2> HIDE DEF blocks, us
  <2> QED BY <1>4, <2>1, <2>2, BlockUnitsFacts DEF us
<1> QED BY <1>1, <1>2, <1>3, <1>4

----------------------------------------------------------------------------
(* Results put together. *)

\* Each attachment is counted once, and none of them is an orphan.
Balanced == {s \in [Counters -> Nat] : s.total = s.parsed + s.excluded + s.failed /\ s.orphans = 0}

IsBuilt(r) == IsList(r.units) /\ r.stats \in Balanced

\* No count, and counts added.
LEMMA CountsFacts ==
  NoStats \in Balanced /\ \A s, t \in Balanced : AddStats(s, t) \in Balanced
<1>1. NoStats \in Balanced
  BY DEF NoStats, Balanced, Counters
<1>2. ASSUME NEW s \in Balanced, NEW t \in Balanced PROVE AddStats(s, t) \in Balanced
  BY DEF AddStats, Balanced, Counters
<1> QED BY <1>1, <1>2

\* The parent of an attachment is there, and every unit is within the limit.
Closed(U) == \A u \in U : IsUnit(u) /\ (u.type = "attachment" => \E v \in U : v.id = u.meta.parent)

\* What is built of a mail or a chat.
Good(r) == IsBuilt(r) /\ Closed(ToSet(r.units)) /\ \A u \in ToSet(r.units) : u.id[1] # "doc"

\* Results put together have the units of all.
LEMMA TogetherFacts ==
  ASSUME NEW results, IsList(results), \A i \in DOMAIN results : IsBuilt(results[i])
  PROVE  LET r == Together(results) IN
         /\ IsBuilt(r)
         /\ ToSet(r.units) = UNION {ToSet(results[i].units) : i \in DOMAIN results}
         /\ Held(r.units) = UNION {Held(results[i].units) : i \in DOMAIN results}
         /\ (\A i \in DOMAIN results : Good(results[i])) => Good(r)
<1> DEFINE N == Len(results)
           r == Together(results)
           T == [i \in 0..N |-> Balanced]
           G == [i \in 1..N |-> [s \in Balanced |-> AddStats(s, results[i].stats)]]
           ss == [i \in DOMAIN results |-> results[i].units]
<1>1. N \in Nat /\ DOMAIN results = 1..N /\ \A i \in 1..N : results[i].stats \in Balanced
      /\ IsList(results[i].units) /\ i - 1 \in 0..N /\ i \in 0..N /\ i # 0
  BY ListFacts DEF IsBuilt
<1> HIDE DEF N
<1>2. (\A i \in 0..N : T[i] = Balanced) /\ 0 \in 0..N /\ N \in 0..N
  BY <1>1
<1>3. \A i \in 1..N : \A s \in Balanced : G[i][s] = AddStats(s, results[i].stats)
  BY Zenon
<1> HIDE DEF T, G
<1>4. NoStats \in Balanced /\ \A i \in 1..N : \A s \in Balanced : AddStats(s, results[i].stats) \in Balanced
  BY <1>1, CountsFacts
<1>5. Leads(N, NoStats, G, T)
  <2>1. ASSUME NEW i \in 1..N, NEW s \in T[i - 1] PROVE G[i][s] \in T[i]
    <3>1. T[i - 1] = Balanced /\ T[i] = Balanced
      BY <1>1, <1>2
    <3>2. s \in Balanced
      BY <2>1, <3>1
    <3>3. G[i][s] = AddStats(s, results[i].stats) /\ AddStats(s, results[i].stats) \in Balanced
      BY Zenon, <3>2, <1>3, <1>4
    <3> HIDE DEF r, ss
    <3> QED BY <3>1, <3>3
  <2>2. NoStats \in T[0]
    BY Zenon, <1>2, <1>4
  <2> QED BY Zenon, <2>1, <2>2 DEF Leads
<1>6. PICK f : Run(N, NoStats, G, T, f)
  BY <1>1, <1>5, LoopRuns
<1>7. f = [n \in 0..N |-> IF n = 0 THEN NoStats ELSE AddStats(f[n - 1], results[n].stats)]
  <2> DEFINE h == [n \in 0..N |-> IF n = 0 THEN NoStats ELSE AddStats(f[n - 1], results[n].stats)]
  <2>1. \A n \in 0..N : n # 0 => n \in 1..N
    BY <1>1
  <2>2. \A n \in 1..N : f[n - 1] \in Balanced
    BY <1>1, <1>2, <1>6 DEF Run
  <2>3. \A n \in 0..N : f[n] = h[n]
    BY Zenon, <1>3, <1>6, <2>1, <2>2 DEF Run
  <2>4. f = [n \in 0..N |-> f[n]] /\ h = [n \in 0..N |-> h[n]]
    BY Zenon, <1>6 DEF Run
  <2> HIDE DEF h
  <2>5. f = h
    BY <2>3, <2>4
  <2> QED BY Zenon, <2>5 DEF h
<1>8. \E g : /\ g = [n \in 0..N |-> IF n = 0 THEN NoStats ELSE AddStats(g[n - 1], results[n].stats)]
             /\ r = Built(FlattenSeq(ss), g[N])
  BY Zenon, <1>7 DEF Together, N
<1>9. PICK g : /\ g = [n \in 0..N |-> IF n = 0 THEN NoStats ELSE AddStats(g[n - 1], results[n].stats)]
               /\ r = Built(FlattenSeq(ss), g[N])
  BY Zenon, <1>8
<1>10. \A n \in 0..N : g[n] \in Balanced
  <2>1. \A n \in 0..N : g[n] = IF n = 0 THEN NoStats ELSE AddStats(g[n - 1], results[n].stats)
    BY Zenon, <1>9
  <2>2. g[0] = NoStats /\ \A n \in 1..N : g[n] = AddStats(g[n - 1], results[n].stats)
    BY Zenon, <2>1, <1>1, <1>2
  <2>3. g[0] \in T[0]
    BY <1>2, <1>4, <2>2
  <2>4. \A n \in 1..N : g[n - 1] \in T[n - 1] => g[n] \in T[n]
    <3>1. SUFFICES ASSUME NEW n \in 1..N, g[n - 1] \in T[n - 1] PROVE g[n] \in T[n]
      BY Zenon
    <3>2. T[n - 1] = Balanced /\ T[n] = Balanced
      BY <1>1, <1>2
    <3> QED BY Zenon, <3>1, <3>2, <1>4, <2>2
  <2>5. \A n \in 0..N : g[n] \in T[n]
    BY <1>1, <2>3, <2>4, LoopKeeps
  <2> QED BY <1>2, <2>5
<1>11. r.units = FlattenSeq(ss) /\ r.stats = g[N]
  <2> HIDE DEF r, ss
  <2> QED BY <1>9 DEF Built
<1>12. ss = [i \in 1..N |-> ss[i]] /\ DOMAIN ss = 1..N /\ \A i \in 1..N : ss[i] = results[i].units
  BY Zenon, <1>1
<1> HIDE DEF ss, r
<1>13. IsList(ss) /\ \A i \in 1..N : IsList(ss[i])
  BY <1>1, <1>12, ListOf
<1>14. /\ IsList(r.units) /\ ToSet(r.units) = UNION {ToSet(results[i].units) : i \in 1..N}
       /\ Held(r.units) = UNION {Held(results[i].units) : i \in 1..N}
  <2>1. /\ IsList(r.units) /\ ToSet(r.units) = UNION {ToSet(ss[i]) : i \in 1..N}
        /\ Held(r.units) = UNION {Held(ss[i]) : i \in 1..N}
    BY <1>11, <1>12, <1>13, FlattenLists, HeldTogether
  <2> QED BY Zenon, <2>1, <1>12
<1>15. IsBuilt(r)
  BY <1>2, <1>10, <1>11, <1>14 DEF IsBuilt
<1>16. ASSUME \A i \in 1..N : Good(results[i]) PROVE Good(r)
  <2>1. ASSUME NEW u \in ToSet(r.units)
        PROVE  IsUnit(u) /\ u.id[1] # "doc" /\ (u.type = "attachment" => \E v \in ToSet(r.units) : v.id = u.meta.parent)
    <3>1. PICK i \in 1..N : u \in ToSet(results[i].units)
      BY <1>14
    <3>2. IsUnit(u) /\ u.id[1] # "doc" /\ (u.type = "attachment" => \E v \in ToSet(results[i].units) : v.id = u.meta.parent)
      BY <1>16, <3>1 DEF Good, Closed
    <3> QED BY <1>14, <3>2
  <2> QED BY <1>15, <2>1 DEF Good, Closed
<1> QED BY <1>1, <1>14, <1>15, <1>16 DEF r

\* Two results.
LEMMA TwoTogether ==
  ASSUME NEW a, NEW b, IsBuilt(a), IsBuilt(b)
  PROVE  LET r == Together(<<a, b>>) IN
         /\ IsBuilt(r)
         /\ ToSet(r.units) = ToSet(a.units) \cup ToSet(b.units)
         /\ Held(r.units) = Held(a.units) \cup Held(b.units)
<1> DEFINE rs == <<a, b>>
<1>1. rs \in Seq({a, b})
  OBVIOUS
<1>2. DOMAIN rs = {1, 2} /\ rs[1] = a /\ rs[2] = b
  OBVIOUS
<1> HIDE DEF rs
<1>3. IsList(rs)
  BY <1>1, SeqIsList
<1>4. \A i \in DOMAIN rs : IsBuilt(rs[i])
  BY <1>2
<1> DEFINE r == Together(rs)
<1>5. /\ IsBuilt(r)
      /\ ToSet(r.units) = UNION {ToSet(rs[i].units) : i \in DOMAIN rs}
      /\ Held(r.units) = UNION {Held(rs[i].units) : i \in DOMAIN rs}
  BY <1>3, <1>4, TogetherFacts
<1> HIDE DEF r
<1>6. UNION {ToSet(rs[i].units) : i \in DOMAIN rs} = ToSet(a.units) \cup ToSet(b.units)
  BY Zenon, <1>2
<1>7. UNION {Held(rs[i].units) : i \in DOMAIN rs} = Held(a.units) \cup Held(b.units)
  BY Zenon, <1>2
<1> QED BY <1>5, <1>6, <1>7 DEF r, rs

----------------------------------------------------------------------------
(* Attachments. *)

\* An attachment as it was parsed.
IsParsed(att) == att.outcome \in {"excluded", "failed", "parsed"} /\ (att.outcome = "parsed" => IsDocs(att.docs))

AttHolds(att) == IF att.outcome = "parsed" THEN DocsHold(att.docs) ELSE {}

\* A unit of an attachment.
AttUnit(u, parent) ==
  IsUnit(u) /\ u.type = "attachment" /\ u.meta.parent = parent /\ u.meta.folders = {} /\ u.id[1] = "att"

\* What is counted of an attachment, or of an advertisement, is in balance.
LEMMA CountedFacts ==
  /\ \A att : att.outcome \in {"excluded", "failed", "parsed"} => AttachmentCounts(att) \in Balanced
  /\ \A mail : IsList(mail.atts) => AdCounts(mail) \in Balanced
<1> DEFINE F == [Counters -> Nat]
<1>1. ASSUME NEW att, att.outcome \in {"excluded", "failed", "parsed"}
      PROVE  AttachmentCounts(att) \in Balanced
  <2> DEFINE d == [NoStats EXCEPT !.total = 1, ![att.outcome] = 1]
  <2>1. att.outcome \in Counters
    BY <1>1 DEF Counters
  <2>2. /\ d \in F /\ d.total = 1 /\ d.orphans = 0
        /\ \A k \in {"excluded", "failed", "parsed"} : d[k] = IF k = att.outcome THEN 1 ELSE 0
    BY <1>1, <2>1 DEF NoStats, Counters
  <2> HIDE DEF d
  <2>3. d.parsed + d.excluded + d.failed = 1
    BY <1>1, <2>2
  <2>4. d \in Balanced
    BY <2>2, <2>3 DEF Balanced
  <2> QED BY <2>4 DEF d, AttachmentCounts
<1>2. ASSUME NEW mail, IsList(mail.atts) PROVE AdCounts(mail) \in Balanced
  <2> DEFINE n == Len(mail.atts)
             d == [NoStats EXCEPT !.ads = 1, !.adAttachments = n]
  <2>1. n \in Nat
    BY <1>2, ListFacts
  <2> HIDE DEF n
  <2>2. d \in F /\ d.total = 0 /\ d.parsed = 0 /\ d.excluded = 0 /\ d.failed = 0 /\ d.orphans = 0
    BY <2>1 DEF NoStats, Counters
  <2> HIDE DEF d
  <2>3. d \in Balanced
    BY <2>2 DEF Balanced
  <2> QED BY <2>3 DEF d, n, AdCounts
<1> QED BY <1>1, <1>2

\* Nothing is built.
LEMMA NoUnits == IsList(<<>>) /\ ToSet(<<>>) = {} /\ Held(<<>>) = {}
BY SmallLists DEF Held

\* An id that begins with three elements begins with the first of them.
LEMMA LongerId ==
  ASSUME NEW a, NEW b, NEW c, NEW x
  PROVE  Append(<<a, b, c>>, x)[1] = a
<1>1. <<a, b, c>> \in Seq({a, b, c, x})
  OBVIOUS
<1> QED BY <1>1, AppendProperties

\* The units of an attachment name its parent.
LEMMA BuildAttachmentFacts ==
  ASSUME NEW att, IsParsed(att), NEW ordinal, NEW key, NEW parent
  PROVE  LET r == BuildAttachment(att, ordinal, key, parent) IN
         IsBuilt(r) /\ Held(r.units) = AttHolds(att) /\ \A u \in ToSet(r.units) : AttUnit(u, parent)
<1> DEFINE r == BuildAttachment(att, ordinal, key, parent)
           s == AttachmentCounts(att)
<1>1. s \in Balanced
  BY CountedFacts DEF IsParsed
<1> HIDE DEF s
<1>2. CASE att.outcome # "parsed"
  <2>1. r = Built(<<>>, s)
    BY Zenon, <1>2 DEF BuildAttachment, s
  <2> HIDE DEF r
  <2>2. r.units = <<>> /\ r.stats = s
    BY <2>1 DEF Built
  <2> QED BY <1>1, <1>2, <2>2, NoUnits DEF IsBuilt, AttHolds, r
<1>3. CASE att.outcome = "parsed"
  <2> DEFINE prefix == MakeAttachmentId(key, ordinal)
             us == DocumentUnits(att.docs, "attachment", parent, prefix)
  <2>1. r = Built(us, s)
    BY <1>3 DEF BuildAttachment, s
  <2>2. IsList(us) /\ Held(us) = AttHolds(att) /\ \A u \in ToSet(us) : Plainly(u, "attachment", parent, prefix)
    BY <1>3, DocumentUnitsFacts DEF IsParsed, AttHolds
  <2>3. \A x : Append(prefix, x)[1] = "att"
    BY LongerId DEF MakeAttachmentId
  <2> HIDE DEF us, prefix, r
  <2>4. \A u \in ToSet(us) : AttUnit(u, parent)
    BY <2>2, <2>3 DEF Plainly, AttUnit
  <2>5. r.units = us /\ r.stats = s
    BY <2>1 DEF Built
  <2> QED BY <1>1, <2>2, <2>4, <2>5 DEF IsBuilt, r
<1> QED BY <1>2, <1>3

\* All that is attached.
AttsHold(atts) == UNION {AttHolds(att) : att \in ToSet(atts)}

\* The attachments of a mail or a chat name it.
LEMMA AttachmentsFacts ==
  ASSUME NEW atts, IsList(atts), \A att \in ToSet(atts) : IsParsed(att), NEW id
  PROVE  LET r == Attachments(atts, id) IN
         IsBuilt(r) /\ Held(r.units) = AttsHold(atts) /\ \A u \in ToSet(r.units) : AttUnit(u, id)
<1> DEFINE N == Len(atts)
           r == Attachments(atts, id)
           ss == [k \in DOMAIN atts |-> BuildAttachment(atts[k], k, id, id)]
<1>1. N \in Nat /\ DOMAIN atts = 1..N /\ ToSet(atts) = {atts[k] : k \in 1..N}
  BY ListFacts
<1> HIDE DEF N
<1>2. ss = [k \in 1..N |-> ss[k]] /\ DOMAIN ss = 1..N /\ \A k \in 1..N : ss[k] = BuildAttachment(atts[k], k, id, id)
  BY Zenon, <1>1
<1>3. r = Together(ss)
  BY Zenon DEF Attachments
<1> HIDE DEF ss, r
<1>4. \A k \in 1..N : IsBuilt(ss[k]) /\ Held(ss[k].units) = AttHolds(atts[k]) /\ \A u \in ToSet(ss[k].units) : AttUnit(u, id)
  <2>1. \A k \in 1..N : IsParsed(atts[k])
    BY <1>1
  <2> QED BY <1>2, <2>1, BuildAttachmentFacts
<1>5. IsList(ss)
  BY <1>1, <1>2, ListOf
<1>6. /\ IsBuilt(r)
      /\ ToSet(r.units) = UNION {ToSet(ss[k].units) : k \in 1..N}
      /\ Held(r.units) = UNION {Held(ss[k].units) : k \in 1..N}
  BY <1>2, <1>3, <1>4, <1>5, TogetherFacts
<1>7. Held(r.units) = AttsHold(atts)
  <2>1. AttsHold(atts) = UNION {AttHolds(att) : att \in {atts[k] : k \in 1..N}}
    BY Zenon, <1>1 DEF AttsHold
  <2>2. AttsHold(atts) = UNION {AttHolds(atts[k]) : k \in 1..N}
    BY Zenon, <2>1
  <2> QED BY Zenon, <1>4, <1>6, <2>2
<1>8. \A u \in ToSet(r.units) : AttUnit(u, id)
  BY Zenon, <1>4, <1>6
<1> QED BY <1>6, <1>7, <1>8 DEF r

----------------------------------------------------------------------------
(* Chats in the order of their times. *)

\* Every message is at a time, or at none.
Timed(S) == \A m \in S : m.time \in Int

Sorted(s) == \A i, j \in 1..Len(s) : i < j => s[i].time <= s[j].time

\* A message goes between those before it and those after it.
LEMMA InsertedFacts ==
  ASSUME NEW S, Timed(S), NEW s \in Seq(S), Sorted(s), NEW m \in S
  PROVE  /\ Inserted(s, m) \in Seq(S) /\ Sorted(Inserted(s, m))
         /\ Len(Inserted(s, m)) = Len(s) + 1
         /\ ToSet(Inserted(s, m)) = ToSet(s) \cup {m}
<1> DEFINE N == Len(s)
           P == {i \in 1..N : s[i].time <= m.time}
           Q == {n \in Nat : n <= N => \E p \in 0..n : P \cap 1..n = 1..p}
<1>1. N \in Nat /\ DOMAIN s = 1..N /\ \A i \in 1..N : s[i] \in S
  OBVIOUS
<1>2. m.time \in Int /\ \A i \in 1..N : s[i].time \in Int
  BY <1>1 DEF Timed
<1>3. \A i, j \in 1..N : i < j => s[i].time <= s[j].time
  BY DEF Sorted
<1> HIDE DEF N
<1>4. \A i, j \in 1..N : i < j /\ j \in P => i \in P
  BY <1>2, <1>3
<1>5. P \subseteq 1..N /\ \A i \in 1..N : i \in P <=> s[i].time <= m.time
  OBVIOUS
<1>6. Inserted(s, m) = SubSeq(s, 1, Cardinality(P)) \o <<m>> \o SubSeq(s, Cardinality(P) + 1, Len(s))
  BY <1>1 DEF Inserted
<1> HIDE DEF P
<1>7. 0 \in Q
  BY <1>1
<1>8. ASSUME NEW n \in Nat, n \in Q PROVE n + 1 \in Q
  <2>1. SUFFICES ASSUME n + 1 <= N PROVE \E p \in 0..(n + 1) : P \cap 1..(n + 1) = 1..p
    OBVIOUS
  <2>2. CASE n + 1 \in P
    <3>1. P \cap 1..(n + 1) = 1..(n + 1)
      BY <1>1, <1>4, <2>1, <2>2
    <3> QED BY <3>1
  <2>3. CASE n + 1 \notin P
    <3>1. PICK p \in 0..n : P \cap 1..n = 1..p
      BY <1>8, <1>1, <2>1
    <3>2. P \cap 1..(n + 1) = P \cap 1..n
      BY <2>3
    <3> QED BY <3>1, <3>2
  <2> QED BY <2>2, <2>3
<1>9. \A n \in Nat : n \in Q
  <2> HIDE DEF Q
  <2> QED BY <1>7, <1>8, Induct
<1>10. PICK p \in 0..N : P = 1..p
  <2>1. PICK p \in 0..N : P \cap 1..N = 1..p
    BY <1>1, <1>9
  <2> QED BY <1>5, <2>1
<1>11. Cardinality(P) = p
  <2>1. Cardinality(1..p) = p
    BY <1>1, FS_Interval
  <2> QED BY <1>10, <2>1
<1> DEFINE a == SubSeq(s, 1, p)
           b == SubSeq(s, p + 1, N)
           t == (a \o <<m>>) \o b
<1>12. Inserted(s, m) = t
  BY <1>6, <1>11 DEF N
<1>13. a \in Seq(S) /\ Len(a) = p /\ \A i \in 1..p : a[i] = s[i]
  BY <1>1 DEF N
<1>14. b \in Seq(S) /\ Len(b) = N - p /\ \A i \in 1..(N - p) : b[i] = s[p + i]
  BY <1>1 DEF N
<1>15. <<m>> \in Seq(S) /\ Len(<<m>>) = 1 /\ <<m>>[1] = m
  OBVIOUS
<1> HIDE DEF a, b
<1>16. (a \o <<m>>) \in Seq(S) /\ Len(a \o <<m>>) = p + 1 /\ (a \o <<m>>)[p + 1] = m
       /\ \A i \in 1..p : (a \o <<m>>)[i] = s[i]
  BY <1>1, <1>13, <1>15
<1> DEFINE am == a \o <<m>>
<1> HIDE DEF am
<1>17. am \in Seq(S) /\ Len(am) = p + 1 /\ am[p + 1] = m /\ \A i \in 1..p : am[i] = s[i]
  BY <1>16 DEF am
<1>18. /\ (am \o b) \in Seq(S) /\ Len(am \o b) = N + 1 /\ (am \o b)[p + 1] = m
       /\ (\A i \in 1..p : (am \o b)[i] = s[i])
       /\ \A i \in (p + 2)..(N + 1) : (am \o b)[i] = s[i - 1]
  <2>0. Len(am) + Len(b) = N + 1 /\ Len(am) \in Nat /\ p \in Nat
    BY <1>1, <1>14, <1>17
  <2>1. (am \o b) \in Seq(S) /\ Len(am \o b) = N + 1
    BY <1>14, <1>17, <2>0, ConcatProperties
  <2>2. \A i \in 1..(p + 1) : (am \o b)[i] = am[i]
    BY <1>1, <1>14, <1>17
  <2>3. \A i \in 1..(N - p) : (am \o b)[p + 1 + i] = b[i]
    BY <1>1, <1>14, <1>17
  <2>4. \A i \in (p + 2)..(N + 1) : i - (p + 1) \in 1..(N - p) /\ p + 1 + (i - (p + 1)) = i /\ p + (i - (p + 1)) = i - 1
    BY <1>1
  <2>5. p + 1 \in 1..(p + 1) /\ \A i \in 1..p : i \in 1..(p + 1)
    BY <1>1
  <2>6. \A i \in (p + 2)..(N + 1) : (am \o b)[i] = s[i - 1]
    <3>1. SUFFICES ASSUME NEW i \in (p + 2)..(N + 1) PROVE (am \o b)[i] = s[i - 1]
      OBVIOUS
    <3>2. PICK k \in 1..(N - p) : p + 1 + k = i /\ p + k = i - 1
      BY <2>4
    <3>3. (am \o b)[p + 1 + k] = b[k] /\ b[k] = s[p + k]
      BY <1>14, <2>3
    <3> QED BY Zenon, <3>2, <3>3
  <2> QED BY <1>17, <2>1, <2>2, <2>5, <2>6
<1>19. t = am \o b
  BY DEF am
<1> HIDE DEF t
<1>20. /\ t \in Seq(S) /\ Len(t) = N + 1 /\ t[p + 1] = m
       /\ (\A i \in 1..p : t[i] = s[i])
       /\ \A i \in (p + 2)..(N + 1) : t[i] = s[i - 1]
  BY <1>18, <1>19
<1>21. Sorted(t)
  <2>1. ASSUME NEW i \in 1..(N + 1), NEW j \in 1..(N + 1), i < j PROVE t[i].time <= t[j].time
    <3>1. (\A k \in 1..p : s[k].time <= m.time) /\ \A k \in (p + 1)..N : ~(s[k].time <= m.time)
      BY <1>1, <1>5, <1>10
    <3>2. CASE j <= p
      BY <3>2, <2>1, <1>1, <1>3, <1>20
    <3>3. CASE j = p + 1
      BY <3>3, <3>1, <2>1, <1>1, <1>20
    <3>4. CASE j > p + 1 /\ i <= p
      BY <3>4, <2>1, <1>1, <1>3, <1>20
    <3>5. CASE j > p + 1 /\ i = p + 1
      <4>1. t[j] = s[j - 1] /\ j - 1 \in (p + 1)..N
        BY <3>5, <1>1, <1>20
      <4> QED BY <3>5, <4>1, <3>1, <1>1, <1>2, <1>20
    <3>6. CASE i > p + 1
      <4>1. t[j] = s[j - 1] /\ t[i] = s[i - 1] /\ j - 1 \in 1..N /\ i - 1 \in 1..N /\ i - 1 < j - 1
        BY <3>6, <2>1, <1>1, <1>20
      <4> QED BY <4>1, <1>3
    <3> QED BY <2>1, <1>1, <3>2, <3>3, <3>4, <3>5, <3>6
  <2> QED BY <1>20, <2>1 DEF Sorted
<1>22. ToSet(t) = ToSet(s) \cup {m}
  <2>1. ToSet(t) = {t[i] : i \in 1..(N + 1)} /\ ToSet(s) = {s[i] : i \in 1..N}
    BY <1>20, Members DEF N
  <2>2. \A i \in 1..(N + 1) : t[i] = m \/ \E k \in 1..N : t[i] = s[k]
    <3>1. \A i \in 1..(N + 1) : i \in 1..p \/ i = p + 1 \/ (i \in (p + 2)..(N + 1) /\ i - 1 \in 1..N)
      BY <1>1
    <3> QED BY <1>1, <1>20, <3>1
  <2>3. \A k \in 1..N : \E i \in 1..(N + 1) : t[i] = s[k]
    <3>1. \A k \in 1..N : k \in 1..p \/ (k + 1 \in (p + 2)..(N + 1) /\ (k + 1) - 1 = k)
      BY <1>1
    <3>2. \A k \in 1..N : k \in 1..(N + 1) /\ k + 1 \in 1..(N + 1)
      BY <1>1
    <3> QED BY <1>20, <3>1, <3>2
  <2>4. p + 1 \in 1..(N + 1)
    BY <1>1
  <2> QED BY <1>20, <2>1, <2>2, <2>3, <2>4
<1> QED BY <1>12, <1>20, <1>21, <1>22 DEF N

\* Sorting keeps the messages.
LEMMA ByTimeFacts ==
  ASSUME NEW S, Timed(S), NEW msgs \in Seq(S)
  PROVE  /\ ByTime(msgs) \in Seq(S) /\ Sorted(ByTime(msgs))
         /\ Len(ByTime(msgs)) = Len(msgs)
         /\ ToSet(ByTime(msgs)) = ToSet(msgs)
<1> DEFINE N == Len(msgs)
           T == [i \in 0..N |-> {s \in Seq(S) : Sorted(s) /\ Len(s) = i /\ ToSet(s) = {msgs[k] : k \in 1..i}}]
           G == [i \in 1..N |-> [s \in Seq(S) |-> Inserted(s, msgs[i])]]
<1>1. N \in Nat /\ DOMAIN msgs = 1..N /\ \A i \in 1..N : msgs[i] \in S /\ i - 1 \in 0..N /\ i \in 0..N
  OBVIOUS
<1> HIDE DEF N
<1>2. \A i \in 0..N : T[i] = {s \in Seq(S) : Sorted(s) /\ Len(s) = i /\ ToSet(s) = {msgs[k] : k \in 1..i}}
  BY Zenon
<1>3. \A i \in 1..N : \A s \in Seq(S) : G[i][s] = Inserted(s, msgs[i])
  BY Zenon
<1> HIDE DEF T, G
<1>4. <<>> \in T[0]
  <2>1. <<>> \in Seq(S) /\ Len(<<>>) = 0 /\ Sorted(<<>>)
    BY DEF Sorted
  <2>2. ToSet(<<>>) = {msgs[k] : k \in 1..0} /\ 0 \in 0..N
    BY <1>1, SmallLists
  <2> QED BY <1>2, <2>1, <2>2
<1>5. ASSUME NEW i \in 1..N, NEW s \in T[i - 1] PROVE Inserted(s, msgs[i]) \in T[i]
  <2>1. s \in Seq(S) /\ Sorted(s) /\ Len(s) = i - 1 /\ ToSet(s) = {msgs[k] : k \in 1..(i - 1)}
    BY <1>1, <1>2
  <2> DEFINE r == Inserted(s, msgs[i])
  <2>2. r \in Seq(S) /\ Sorted(r) /\ Len(r) = Len(s) + 1 /\ ToSet(r) = ToSet(s) \cup {msgs[i]}
    <3>1. msgs[i] \in S
      BY <1>1
    <3>2. s \in Seq(S) /\ Sorted(s) /\ Timed(S)
      BY <2>1
    <3> HIDE DEF r
    <3>3. \A m \in S : Inserted(s, m) \in Seq(S) /\ Sorted(Inserted(s, m))
      BY Zenon, <3>2, InsertedFacts
    <3>4. \A m \in S : Len(Inserted(s, m)) = Len(s) + 1
      BY <3>2, InsertedFacts
    <3>5. \A m \in S : ToSet(Inserted(s, m)) = ToSet(s) \cup {m}
      BY <3>2, InsertedFacts
    <3> QED BY Zenon, <3>1, <3>3, <3>4, <3>5 DEF r
  <2> HIDE DEF r
  <2>3. (1..i) = (1..(i - 1)) \cup {i} /\ (i - 1) + 1 = i
    BY <1>1
  <2>4. ToSet(r) = {msgs[k] : k \in 1..i}
    BY <2>1, <2>2, <2>3
  <2>5. r \in T[i]
    BY <1>1, <1>2, <2>1, <2>2, <2>3, <2>4
  <2> QED BY <2>5 DEF r
<1>6. Leads(N, <<>>, G, T)
  <2>1. ASSUME NEW i \in 1..N, NEW acc \in T[i - 1] PROVE G[i][acc] \in T[i]
    <3>1. acc \in Seq(S)
      BY <1>1, <1>2
    <3> QED BY <1>3, <1>5, <3>1
  <2> QED BY Zenon, <1>4, <2>1 DEF Leads
<1>7. PICK f : Run(N, <<>>, G, T, f)
  BY <1>1, <1>6, LoopRuns
<1>8. f = [n \in 0..N |-> IF n = 0 THEN <<>> ELSE Inserted(f[n - 1], msgs[n])]
  <2> DEFINE h == [n \in 0..N |-> IF n = 0 THEN <<>> ELSE Inserted(f[n - 1], msgs[n])]
  <2>1. \A n \in 0..N : n # 0 => n \in 1..N
    BY <1>1
  <2>2. \A n \in 1..N : f[n - 1] \in Seq(S)
    BY <1>1, <1>2, <1>7 DEF Run
  <2>3. \A n \in 0..N : f[n] = IF n = 0 THEN <<>> ELSE Inserted(f[n - 1], msgs[n])
    BY Zenon, <1>3, <1>7, <2>1, <2>2 DEF Run
  <2>4. \A n \in 0..N : f[n] = h[n]
    BY Zenon, <2>3
  <2>5. f = [n \in 0..N |-> f[n]] /\ h = [n \in 0..N |-> h[n]]
    BY Zenon, <1>7 DEF Run
  <2> HIDE DEF h
  <2>6. f = h
    BY <2>4, <2>5
  <2> QED BY Zenon, <2>6 DEF h
<1>9. \E g : /\ g = [n \in 0..N |-> IF n = 0 THEN <<>> ELSE Inserted(g[n - 1], msgs[n])]
             /\ ByTime(msgs) = g[N]
  BY Zenon, <1>8 DEF ByTime, N
<1>10. PICK g : /\ g = [n \in 0..N |-> IF n = 0 THEN <<>> ELSE Inserted(g[n - 1], msgs[n])]
                /\ ByTime(msgs) = g[N]
  BY Zenon, <1>9
<1>11. \A n \in 0..N : g[n] \in T[n]
  <2>1. \A n \in 0..N : g[n] = IF n = 0 THEN <<>> ELSE Inserted(g[n - 1], msgs[n])
    BY Zenon, <1>10
  <2>2. 0 \in 0..N /\ \A n \in 1..N : n # 0 /\ n \in 0..N
    BY <1>1
  <2>3. g[0] = <<>> /\ \A n \in 1..N : g[n] = Inserted(g[n - 1], msgs[n])
    BY Zenon, <2>1, <2>2
  <2>4. g[0] \in T[0] /\ \A n \in 1..N : g[n - 1] \in T[n - 1] => g[n] \in T[n]
    BY Zenon, <1>4, <1>5, <2>3
  <2> QED BY <1>1, <2>4, LoopKeeps
<1>12. N \in 0..N /\ ToSet(msgs) = {msgs[k] : k \in 1..N}
  BY <1>1, Members DEF N
<1> QED BY <1>2, <1>10, <1>11, <1>12 DEF N

----------------------------------------------------------------------------
(* Sequences of sessions. *)

\* One more member is put behind the others.
LEMMA FlattenedOneMore ==
  ASSUME NEW S, NEW ss \in Seq(Seq(S)), NEW s \in Seq(S)
  PROVE  FlattenSeq(Append(ss, s)) = FlattenSeq(ss) \o s
<1> DEFINE N == Len(ss)
           new == Append(ss, s)
<1>1. N \in Nat /\ new \in Seq(Seq(S)) /\ Len(new) = N + 1 /\ new[N + 1] = s /\ \A i \in 1..N : new[i] = ss[i]
  BY AppendProperties
<1>2. PICK f \in [0..N -> Seq(S)] :
        f[0] = <<>> /\ (\A n \in 1..N : f[n] = f[n - 1] \o ss[n]) /\ FlattenSeq(ss) = f[N]
  BY Flattened
<1>3. PICK g \in [0..(N + 1) -> Seq(S)] :
        g[0] = <<>> /\ (\A n \in 1..(N + 1) : g[n] = g[n - 1] \o new[n]) /\ FlattenSeq(new) = g[N + 1]
  BY <1>1, Flattened
<1> HIDE DEF N, new
<1> DEFINE T == [n \in 0..N |-> {f[n]}]
<1>4. \A n \in 0..N : T[n] = {f[n]}
  BY Zenon
<1> HIDE DEF T
<1>5. g[0] \in T[0] /\ \A n \in 1..N : g[n - 1] \in T[n - 1] => g[n] \in T[n]
  <2>1. 0 \in 0..N /\ \A n \in 1..N : n \in 0..N /\ n - 1 \in 0..N /\ n \in 1..(N + 1)
    BY <1>1
  <2>2. \A n \in 1..N : g[n] = g[n - 1] \o ss[n] /\ f[n] = f[n - 1] \o ss[n]
    BY Zenon, <1>1, <1>2, <1>3, <2>1
  <2>3. ASSUME NEW n \in 1..N, g[n - 1] \in T[n - 1] PROVE g[n] \in T[n]
    <3>1. g[n - 1] = f[n - 1]
      BY <1>4, <2>1, <2>3
    <3>2. g[n] = f[n] /\ n \in 0..N
      BY Zenon, <2>1, <2>2, <3>1
    <3> QED BY <1>4, <3>2
  <2> QED BY <1>2, <1>3, <1>4, <2>1, <2>3
<1>6. \A n \in 0..N : g[n] \in T[n]
  BY <1>1, <1>5, LoopKeeps
<1>7. g[N] = f[N] /\ (N + 1) - 1 = N /\ N + 1 \in 1..(N + 1)
  <2>1. N \in 0..N /\ (N + 1) - 1 = N /\ N + 1 \in 1..(N + 1)
    BY <1>1
  <2>2. g[N] \in T[N] /\ T[N] = {f[N]}
    BY Zenon, <1>4, <1>6, <2>1
  <2> QED BY <2>1, <2>2
<1>8. g[N + 1] = g[N] \o s
  BY Zenon, <1>1, <1>3, <1>7
<1> QED BY Zenon, <1>2, <1>3, <1>7, <1>8 DEF new

\* Sessions of messages, each of them with one at least.
Sessions(S) == {ss \in Seq(Seq(S)) : Chains(ss) /\ \A k \in 1..Len(ss) : ss[k] # <<>>}

\* A message goes behind those that are in sessions already.
LEMMA AddMessageFacts ==
  ASSUME NEW S, NEW ss \in Sessions(S), NEW m \in S
  PROVE  AddMessage(ss, m) \in Sessions(S) /\ FlattenSeq(AddMessage(ss, m)) = FlattenSeq(ss) \o <<m>>
<1> DEFINE N == Len(ss)
           r == AddMessage(ss, m)
<1>1. /\ ss \in Seq(Seq(S)) /\ N \in Nat /\ DOMAIN ss = 1..N
      /\ \A k \in 1..N : ss[k] \in Seq(S) /\ ss[k] # <<>> /\ Len(ss[k]) \in Nat \ {0}
  BY DEF Sessions
<1>2. Chains(ss)
  BY DEF Sessions
<1>3. \A k \in 1..N : /\ \A i \in 1..(Len(ss[k]) - 1) : ~Far(ss[k][i], ss[k][i + 1])
                      /\ k > 1 => Far(Last(ss[k - 1]), ss[k][1])
  BY Zenon, <1>1, <1>2 DEF Chains
<1>7. \A k \in 1..N : \A i \in 1..(Len(ss[k]) - 1) : ~Far(ss[k][i], ss[k][i + 1])
  BY Zenon, <1>3
<1>8. \A k \in 1..N : k > 1 => Far(Last(ss[k - 1]), ss[k][1])
  BY Zenon, <1>3
<1>4. <<m>> \in Seq(S) /\ Len(<<m>>) = 1 /\ <<m>>[1] = m /\ <<m>> # <<>>
  OBVIOUS
<1>5. CASE ~Joins(ss, m)
  <2>1. r = Append(ss, <<m>>)
    BY <1>5 DEF AddMessage
  <2>2. N > 0 => Far(Last(ss[N]), m)
    BY <1>1, <1>5 DEF Joins, Last
  <2> HIDE DEF N, r
  <2>3. r \in Seq(Seq(S)) /\ Len(r) = N + 1 /\ DOMAIN r = 1..(N + 1) /\ r[N + 1] = <<m>> /\ \A k \in 1..N : r[k] = ss[k]
    BY <1>1, <1>4, <2>1, AppendProperties DEF N
  <2>4. ASSUME NEW k \in 1..(N + 1)
        PROVE  /\ r[k] # <<>>
               /\ \A i \in 1..(Len(r[k]) - 1) : ~Far(r[k][i], r[k][i + 1])
               /\ k > 1 => Far(Last(r[k - 1]), r[k][1])
    <3>1. CASE k \in 1..N
      <4>1. k > 1 => k - 1 \in 1..N
        BY <1>1
      <4>2. r[k] = ss[k] /\ k \in 1..N /\ (k > 1 => r[k - 1] = ss[k - 1])
        BY <2>3, <3>1, <4>1
      <4> QED
        <5>1. \A i \in 1..(Len(r[k]) - 1) : ~Far(r[k][i], r[k][i + 1])
          BY Zenon, <1>7, <4>2
        <5>2. k > 1 => Far(Last(r[k - 1]), r[k][1])
          BY Zenon, <1>8, <4>2
        <5>3. r[k] # <<>>
          BY Zenon, <1>1, <4>2
        <5> QED BY <5>1, <5>2, <5>3
    <3>2. CASE k = N + 1
      <4>1. Len(r[k]) = 1 /\ r[k][1] = m /\ r[k] # <<>>
        BY <1>4, <2>3, <3>2
      <4>2. k > 1 => N > 0 /\ k - 1 = N /\ N \in 1..N
        BY <1>1, <3>2
      <4>3. k > 1 => Far(Last(r[k - 1]), r[k][1])
        BY <2>2, <2>3, <4>1, <4>2
      <4> QED BY <4>1, <4>3
    <3> QED BY <1>1, <3>1, <3>2
  <2>5. Chains(r)
    BY Zenon, <2>3, <2>4 DEF Chains
  <2>6. FlattenSeq(r) = FlattenSeq(ss) \o <<m>>
    BY <1>1, <1>4, <2>1, FlattenedOneMore
  <2> QED BY <2>3, <2>4, <2>5, <2>6 DEF Sessions, r
<1>6. CASE Joins(ss, m)
  <2> DEFINE front == Front(ss)
             last == Last(ss)
             more == Append(last, m)
  <2>1. r = Append(front, more)
    BY <1>6 DEF AddMessage
  <2>2. N > 0 /\ ~Far(Last(last), m)
    BY <1>1, <1>6 DEF Joins, Last
  <2>3. last = ss[N] /\ N \in 1..N /\ last \in Seq(S) /\ Len(last) \in Nat \ {0} /\ last # <<>>
    BY <1>1, <2>2 DEF Last
  <2>4. front \in Seq(Seq(S)) /\ Len(front) = N - 1 /\ \A k \in 1..(N - 1) : front[k] = ss[k]
    BY <1>1, <2>2 DEF Front
  <2>5. last[Len(last)] = Last(last)
    BY DEF Last
  <2> HIDE DEF N, r, front, last
  <2>6. more \in Seq(S) /\ Len(more) = Len(last) + 1 /\ more[Len(last) + 1] = m
        /\ \A i \in 1..Len(last) : more[i] = last[i]
    BY <2>3, AppendProperties
  <2> HIDE DEF more
  <2>7. r \in Seq(Seq(S)) /\ Len(r) = N /\ DOMAIN r = 1..N /\ r[N] = more /\ \A k \in 1..(N - 1) : r[k] = ss[k]
    BY <1>1, <2>1, <2>2, <2>4, <2>6, AppendProperties
  <2>8. ss = Append(front, last)
    <3>1. Append(front, last) \in Seq(Seq(S)) /\ Len(Append(front, last)) = N /\ Append(front, last)[N] = last
          /\ \A k \in 1..(N - 1) : Append(front, last)[k] = ss[k]
      <4>1. last \in Seq(S) /\ front \in Seq(Seq(S)) /\ Len(front) + 1 = N
        BY <1>1, <2>3, <2>4
      <4>2. Append(front, last) \in Seq(Seq(S)) /\ Len(Append(front, last)) = N
        BY <4>1, AppendProperties
      <4>3. Append(front, last)[N] = last
        BY <4>1, AppendProperties
      <4>4. \A k \in 1..Len(front) : Append(front, last)[k] = front[k]
        BY <4>1, AppendProperties
      <4>5. \A k \in 1..(N - 1) : k \in 1..Len(front)
        BY <2>4
      <4> QED BY Zenon, <2>4, <4>2, <4>3, <4>4, <4>5
    <3> DEFINE q == Append(front, last)
    <3> HIDE DEF q
    <3>2. q \in Seq(Seq(S)) /\ Len(q) = N /\ \A k \in 1..N : q[k] = ss[k]
      BY <1>1, <2>3, <3>1 DEF q
    <3>3. q = ss
      BY <1>1, <3>2 DEF N
    <3> QED BY <3>3 DEF q
  <2>9. ASSUME NEW k \in 1..N
        PROVE  /\ r[k] # <<>>
               /\ \A i \in 1..(Len(r[k]) - 1) : ~Far(r[k][i], r[k][i + 1])
               /\ k > 1 => Far(Last(r[k - 1]), r[k][1])
    <3>1. k > 1 => k - 1 \in 1..(N - 1) /\ k - 1 \in 1..N
      BY <1>1
    <3>2. CASE k \in 1..(N - 1)
      <4>1. r[k] = ss[k] /\ k \in 1..N /\ (k > 1 => r[k - 1] = ss[k - 1])
        BY <2>7, <3>1, <3>2
      <4> QED
        <5>1. \A i \in 1..(Len(r[k]) - 1) : ~Far(r[k][i], r[k][i + 1])
          BY Zenon, <1>7, <4>1
        <5>2. k > 1 => Far(Last(r[k - 1]), r[k][1])
          BY Zenon, <1>8, <4>1
        <5>3. r[k] # <<>>
          BY Zenon, <1>1, <4>1
        <5> QED BY <5>1, <5>2, <5>3
    <3>3. CASE k = N
      <4>1. r[k] = more /\ more # <<>>
        BY <2>3, <2>6, <2>7, <3>3
      <4>2. ASSUME NEW i \in 1..(Len(more) - 1) PROVE ~Far(more[i], more[i + 1])
        <5>1. CASE i = Len(last)
          BY <2>2, <2>3, <2>5, <2>6, <5>1
        <5>2. CASE i # Len(last)
          <6>1. i \in 1..(Len(last) - 1) /\ i \in 1..Len(last) /\ i + 1 \in 1..Len(last)
            BY <2>3, <2>6, <5>2
          <6>2. more[i] = last[i] /\ more[i + 1] = last[i + 1]
            BY <2>6, <6>1
          <6>3. ~Far(last[i], last[i + 1])
            BY Zenon, <1>7, <2>3, <6>1
          <6> QED BY <6>2, <6>3
        <5> QED BY <5>1, <5>2
      <4>3. more[1] = ss[N][1]
        BY <2>3, <2>6
      <4>4. k > 1 => Far(Last(r[k - 1]), r[k][1])
        <5>1. k > 1 => r[k - 1] = ss[k - 1]
          BY <2>7, <3>1, <3>3
        <5>2. r[k][1] = ss[k][1]
          BY <3>3, <4>1, <4>3
        <5> QED BY Zenon, <1>8, <5>1, <5>2
      <4> QED BY <4>1, <4>2, <4>4
    <3> QED BY <1>1, <3>2, <3>3
  <2>10. Chains(r)
    BY Zenon, <2>7, <2>9 DEF Chains
  <2>11. FlattenSeq(r) = FlattenSeq(ss) \o <<m>>
    <3> DEFINE fr == FlattenSeq(front)
    <3>1. FlattenSeq(r) = fr \o more /\ FlattenSeq(ss) = fr \o last
      BY <2>1, <2>3, <2>4, <2>6, <2>8, FlattenedOneMore
    <3>2. fr \in Seq(S)
      BY <2>4, FlattenFacts
    <3> HIDE DEF fr
    <3>3. fr \o Append(last, m) = (fr \o last) \o <<m>>
      BY <2>3, <3>2
    <3> QED BY <3>1, <3>3 DEF more
  <2> QED BY <2>7, <2>9, <2>10, <2>11 DEF Sessions, r
<1> QED BY <1>5, <1>6

\* The sessions have the messages in their order.
LEMMA SplitSessionsFacts ==
  ASSUME NEW S, NEW msgs \in Seq(S)
  PROVE  SplitSessions(msgs) \in Sessions(S) /\ FlattenSeq(SplitSessions(msgs)) = msgs
<1> DEFINE N == Len(msgs)
           T == [i \in 0..N |-> {ss \in Sessions(S) : FlattenSeq(ss) = SubSeq(msgs, 1, i)}]
           G == [i \in 1..N |-> [ss \in Sessions(S) |-> AddMessage(ss, msgs[i])]]
<1>1. N \in Nat /\ DOMAIN msgs = 1..N /\ \A i \in 1..N : msgs[i] \in S /\ i - 1 \in 0..N /\ i \in 0..N
  OBVIOUS
<1>12. N \in 0..N /\ SubSeq(msgs, 1, N) = msgs /\ SubSeq(msgs, 1, 0) = <<>>
  OBVIOUS
<1>13. ASSUME NEW i \in 1..N PROVE SubSeq(msgs, 1, i) = SubSeq(msgs, 1, i - 1) \o <<msgs[i]>>
  BY <1>1
<1> HIDE DEF N
<1>2. \A i \in 0..N : T[i] = {ss \in Sessions(S) : FlattenSeq(ss) = SubSeq(msgs, 1, i)}
  BY Zenon
<1>3. \A i \in 1..N : \A ss \in Sessions(S) : G[i][ss] = AddMessage(ss, msgs[i])
  BY Zenon
<1> HIDE DEF T, G
<1>4. <<>> \in T[0]
  <2>1. <<>> \in Seq(Seq(S)) /\ Len(<<>>) = 0 /\ DOMAIN <<>> = {}
    OBVIOUS
  <2>2. Chains(<<>>)
    BY Zenon, <2>1 DEF Chains
  <2>3. <<>> \in Sessions(S)
    BY <2>1, <2>2 DEF Sessions
  <2>4. FlattenSeq(<<>>) = <<>>
    BY DEF FlattenSeq
  <2>5. 0 \in 0..N
    BY <1>1
  <2> QED BY <1>2, <1>12, <2>3, <2>4, <2>5
<1>5. ASSUME NEW i \in 1..N, NEW ss \in T[i - 1] PROVE AddMessage(ss, msgs[i]) \in T[i]
  <2>1. ss \in Sessions(S) /\ FlattenSeq(ss) = SubSeq(msgs, 1, i - 1)
    BY <1>1, <1>2
  <2> DEFINE r == AddMessage(ss, msgs[i])
  <2>2. r \in Sessions(S) /\ FlattenSeq(r) = FlattenSeq(ss) \o <<msgs[i]>>
    BY <1>1, <2>1, AddMessageFacts
  <2> HIDE DEF r
  <2>3. FlattenSeq(r) = SubSeq(msgs, 1, i)
    BY Zenon, <1>13, <2>1, <2>2
  <2>4. r \in T[i]
    BY <1>1, <1>2, <2>2, <2>3
  <2> QED BY <2>4 DEF r
<1>6. Leads(N, <<>>, G, T)
  <2>1. ASSUME NEW i \in 1..N, NEW acc \in T[i - 1] PROVE G[i][acc] \in T[i]
    <3>1. acc \in Sessions(S)
      BY <1>1, <1>2
    <3> QED BY <1>3, <1>5, <3>1
  <2> QED BY Zenon, <1>4, <2>1 DEF Leads
<1>7. PICK f : Run(N, <<>>, G, T, f)
  BY <1>1, <1>6, LoopRuns
<1>8. f = [n \in 0..N |-> IF n = 0 THEN <<>> ELSE AddMessage(f[n - 1], msgs[n])]
  <2> DEFINE h == [n \in 0..N |-> IF n = 0 THEN <<>> ELSE AddMessage(f[n - 1], msgs[n])]
  <2>1. \A n \in 0..N : n # 0 => n \in 1..N
    BY <1>1
  <2>2. \A n \in 1..N : f[n - 1] \in Sessions(S)
    BY <1>1, <1>2, <1>7 DEF Run
  <2>3. \A n \in 0..N : f[n] = IF n = 0 THEN <<>> ELSE AddMessage(f[n - 1], msgs[n])
    BY Zenon, <1>3, <1>7, <2>1, <2>2 DEF Run
  <2>4. \A n \in 0..N : f[n] = h[n]
    BY Zenon, <2>3
  <2>5. f = [n \in 0..N |-> f[n]] /\ h = [n \in 0..N |-> h[n]]
    BY Zenon, <1>7 DEF Run
  <2> HIDE DEF h
  <2>6. f = h
    BY <2>4, <2>5
  <2> QED BY Zenon, <2>6 DEF h
<1>9. \E g : /\ g = [n \in 0..N |-> IF n = 0 THEN <<>> ELSE AddMessage(g[n - 1], msgs[n])]
             /\ SplitSessions(msgs) = g[N]
  BY Zenon, <1>8 DEF SplitSessions, N
<1>10. PICK g : /\ g = [n \in 0..N |-> IF n = 0 THEN <<>> ELSE AddMessage(g[n - 1], msgs[n])]
                /\ SplitSessions(msgs) = g[N]
  BY Zenon, <1>9
<1>11. \A n \in 0..N : g[n] \in T[n]
  <2>1. \A n \in 0..N : g[n] = IF n = 0 THEN <<>> ELSE AddMessage(g[n - 1], msgs[n])
    BY Zenon, <1>10
  <2>2. 0 \in 0..N /\ \A n \in 1..N : n # 0 /\ n \in 0..N
    BY <1>1
  <2>3. g[0] = <<>> /\ \A n \in 1..N : g[n] = AddMessage(g[n - 1], msgs[n])
    BY Zenon, <2>1, <2>2
  <2>4. g[0] \in T[0] /\ \A n \in 1..N : g[n - 1] \in T[n - 1] => g[n] \in T[n]
    BY Zenon, <1>4, <1>5, <2>3
  <2> QED BY <1>1, <2>4, LoopKeeps
<1> QED BY <1>2, <1>10, <1>11, <1>12

\* As many elements stand at some places as there are places.
LEMMA ThoseCount ==
  ASSUME NEW S, NEW s \in Seq(S), NEW P, P \subseteq DOMAIN s
  PROVE  Len(Those(s, P)) = Cardinality(P)
<1> DEFINE N == Len(s)
<1>1. PICK at \in Seq(1..Len(s)) :
           /\ Len(Those(s, P)) = Len(at)
           /\ \A k \in 1..(Len(at) - 1) : at[k] < at[k + 1]
           /\ ToSet(at) = P \cap 1..Len(s)
  BY ThoseInOrder
<1> DEFINE n == Len(at)
           f == [k \in 1..n |-> at[k]]
<1>2. n \in Nat /\ at \in Seq(Int) /\ \A k \in 1..n : at[k] \in Int
  OBVIOUS
<1>3. \A j, k \in 1..n : j < k => at[j] < at[k]
  BY <1>1, <1>2, Increasing
<1>4. ToSet(at) = P /\ ToSet(at) = {at[k] : k \in 1..n}
  <2>1. DOMAIN s = 1..Len(s)
    OBVIOUS
  <2>2. ToSet(at) = {at[k] : k \in 1..n}
    BY Members
  <2> QED BY <1>1, <2>1, <2>2
<1> HIDE DEF n
<1>5. f \in Bijection(1..n, P)
  <2>1. f \in [1..n -> P]
    BY <1>4
  <2>2. \A j, k \in 1..n : f[j] = f[k] => j = k
    BY <1>2, <1>3
  <2>3. \A x \in P : \E k \in 1..n : f[k] = x
    BY <1>4
  <2> HIDE DEF f
  <2> QED BY Zenon, <2>1, <2>2, <2>3 DEF Bijection, Injection, Surjection, IsInjective
<1>6. ExistsBijection(1..n, P)
  BY Zenon, <1>5 DEF ExistsBijection
<1> QED BY <1>1, <1>2, <1>6, FS_CountingElements DEF n

\* The sessions of a room are what they should be.
LEMMA SessionsFacts ==
  ASSUME NEW S, Timed(S), NEW chats \in Seq(S), NEW room
  PROVE  /\ SessionsOf(chats, room) \in Sessions(S)
         /\ SessionsOfRoom(chats, room)
         /\ ToSet(FlattenSeq(SessionsOf(chats, room))) = {m \in ToSet(chats) : m.room = room}
<1> DEFINE P == {i \in DOMAIN chats : chats[i].room = room}
           found == Those(chats, P)
           msgs == ByTime(found)
           sessions == SessionsOf(chats, room)
<1>1. found \in Seq(S) /\ ToSet(found) = {chats[i] : i \in P \cap DOMAIN chats}
  BY ThoseFacts
<1>2. Len(found) = Cardinality(P)
  BY ThoseCount
<1>3. ToSet(found) = {m \in ToSet(chats) : m.room = room}
  <2>1. ToSet(chats) = {chats[i] : i \in DOMAIN chats}
    BY DEF ToSet
  <2> HIDE DEF found
  <2> QED BY <1>1, <2>1
<1>4. sessions = SplitSessions(msgs)
  BY Zenon DEF SessionsOf
<1> HIDE DEF P, found
<1>5. msgs \in Seq(S) /\ Sorted(msgs)
  BY Zenon, <1>1, ByTimeFacts
<1>6. Len(msgs) = Len(found)
  BY <1>1, ByTimeFacts
<1>7. ToSet(msgs) = ToSet(found)
  BY <1>1, ByTimeFacts
<1> HIDE DEF msgs, sessions
<1>8. sessions \in Sessions(S) /\ FlattenSeq(sessions) = msgs
  BY <1>4, <1>5, SplitSessionsFacts
<1>9. Chains(sessions)
  BY <1>8 DEF Sessions
<1>10. InTimeOrder(msgs)
  <2>1. \A i \in 1..(Len(msgs) - 1) : i \in 1..Len(msgs) /\ i + 1 \in 1..Len(msgs) /\ i < i + 1
    BY <1>5
  <2> QED BY Zenon, <1>5, <2>1 DEF InTimeOrder, Sorted
<1>11. SessionsOfRoom(chats, room)
  BY Zenon, <1>2, <1>3, <1>6, <1>7, <1>8, <1>9, <1>10 DEF SessionsOfRoom, sessions, P
<1> QED BY <1>3, <1>7, <1>8, <1>11 DEF sessions

----------------------------------------------------------------------------
(* Mails and chats. *)

AreParsed(atts) == IsList(atts) /\ \A att \in ToSet(atts) : IsParsed(att)

\* A unit with its attachments.
LEMMA WithAttachments ==
  ASSUME NEW u, IsUnit(u), u.type # "attachment", u.id[1] # "doc", NEW atts, AreParsed(atts)
  PROVE  LET r == Together(<<Built(<<u>>, NoStats), Attachments(atts, u.id)>>) IN
         Good(r) /\ u \in ToSet(r.units) /\ Held(r.units) = InLines(u.parts) \cup AttsHold(atts)
<1> DEFINE a == Built(<<u>>, NoStats)
           b == Attachments(atts, u.id)
           r == Together(<<a, b>>)
<1>1. a.units = <<u>> /\ a.stats = NoStats
  BY DEF Built
<1>2. IsBuilt(b) /\ Held(b.units) = AttsHold(atts) /\ \A v \in ToSet(b.units) : AttUnit(v, u.id)
  BY AttachmentsFacts DEF AreParsed
<1> HIDE DEF a, b
<1>3. IsBuilt(a) /\ ToSet(a.units) = {u} /\ Held(a.units) = InLines(u.parts)
  <2>1. IsList(<<u>>) /\ ToSet(<<u>>) = {u}
    BY SmallLists
  <2> QED BY <1>1, <2>1, CountsFacts DEF IsBuilt, Held
<1>4. IsBuilt(r) /\ ToSet(r.units) = {u} \cup ToSet(b.units) /\ Held(r.units) = InLines(u.parts) \cup AttsHold(atts)
  BY <1>2, <1>3, TwoTogether
<1> HIDE DEF r
<1>5. ASSUME NEW v \in ToSet(r.units)
      PROVE  IsUnit(v) /\ v.id[1] # "doc" /\ (v.type = "attachment" => \E w \in ToSet(r.units) : w.id = v.meta.parent)
  <2>1. CASE v = u
    BY <2>1
  <2>2. CASE AttUnit(v, u.id)
    <3>1. u \in ToSet(r.units)
      BY <1>4
    <3> QED BY <2>2, <3>1 DEF AttUnit
  <2> QED BY <1>2, <1>4, <2>1, <2>2
<1> QED BY <1>4, <1>5 DEF Good, Closed, r, a, b

\* A mail as it was parsed, and can be built.
IsParsedMail(mail) == mail.body \in Lines /\ IsList(mail.atts) /\ (~mail.ad => AreParsed(mail.atts))

MailHolds(mail) == IF mail.ad THEN {} ELSE InLines(mail.body) \cup AttsHold(mail.atts)

\* The unit of a mail.
MailUnit(u, mail) ==
  u.id = MakeEmailId(mail.mid, mail.key) /\ u.type = "email" /\ u.meta.folders = {mail.folder}

\* A mail that is no advertisement is a unit, and so is what is attached to it.
LEMMA BuildEmailFacts ==
  ASSUME NEW mail, IsParsedMail(mail)
  PROVE  LET r == BuildEmail(mail) IN
         /\ Good(r) /\ Held(r.units) = MailHolds(mail)
         /\ ~mail.ad => \E u \in ToSet(r.units) : MailUnit(u, mail)
<1> DEFINE r == BuildEmail(mail)
<1>1. CASE mail.ad
  <2> DEFINE s == AdCounts(mail)
  <2>1. r = Built(<<>>, s)
    BY <1>1 DEF BuildEmail
  <2>2. s \in Balanced
    BY CountedFacts DEF IsParsedMail
  <2> HIDE DEF s, r
  <2>3. r.units = <<>> /\ r.stats = s
    BY <2>1 DEF Built
  <2> QED BY <1>1, <2>2, <2>3, NoUnits DEF Good, Closed, IsBuilt, MailHolds, r
<1>2. CASE ~mail.ad
  <2> DEFINE id == MakeEmailId(mail.mid, mail.key)
             meta == [NoMeta EXCEPT !.folders = {mail.folder}]
             u == Finish(id, "email", mail.body, meta)
  <2>1. r = Together(<<Built(<<u>>, NoStats), Attachments(mail.atts, id)>>)
    BY Zenon, <1>2 DEF BuildEmail
  <2>2. meta.folders = {mail.folder} /\ id[1] = "em" /\ IsMeta(meta)
    BY MetaFacts DEF NoMeta, MakeEmailId
  <2> HIDE DEF id, meta, r
  <2>3. u.id = id /\ u.type = "email" /\ u.meta = meta /\ IsUnit(u) /\ InLines(u.parts) = InLines(mail.body)
    BY <2>2, FinishFacts DEF IsParsedMail
  <2> HIDE DEF u
  <2>4. Good(r) /\ u \in ToSet(r.units) /\ Held(r.units) = InLines(u.parts) \cup AttsHold(mail.atts)
    <3>1. u.type # "attachment" /\ u.id[1] # "doc" /\ AreParsed(mail.atts)
      BY <1>2, <2>2, <2>3 DEF IsParsedMail
    <3>2. r = Together(<<Built(<<u>>, NoStats), Attachments(mail.atts, u.id)>>)
      BY Zenon, <2>1, <2>3
    <3> QED BY <2>3, <3>1, <3>2, WithAttachments
  <2>5. MailUnit(u, mail)
    BY <2>2, <2>3 DEF MailUnit, id
  <2> QED BY <1>2, <2>3, <2>4, <2>5 DEF MailHolds, r
<1> QED BY <1>1, <1>2

\* Chats as they were parsed.
AreChats(S) == \A m \in S : m.time \in Int /\ m.body \in Text /\ AreParsed(m.atts)

ChatHolds(m) == Visible(m.body) \cup AttsHold(m.atts)

\* A session holds its messages and what is attached to them.
LEMMA BuildSessionFacts ==
  ASSUME NEW S, AreChats(S), NEW session \in Seq(S), NEW room
  PROVE  LET r == BuildSession(room, session) IN
         Good(r) /\ Held(r.units) = UNION {ChatHolds(m) : m \in ToSet(session)}
<1> DEFINE n == Len(session)
           id == MakeChatId(room, SessionStart(session))
           lines == [i \in DOMAIN session |-> session[i].body]
           all == [i \in DOMAIN session |-> session[i].atts]
           atts == FlattenSeq(all)
           u == Finish(id, "chat", lines, NoMeta)
           r == BuildSession(room, session)
<1>1. n \in Nat /\ DOMAIN session = 1..n /\ \A i \in 1..n : session[i] \in S
  OBVIOUS
<1>2. ToSet(session) = {session[i] : i \in 1..n}
  BY Members
<1>3. \A i \in 1..n : session[i].body \in Text /\ AreParsed(session[i].atts)
  BY <1>1 DEF AreChats
<1>4. r = Together(<<Built(<<u>>, NoStats), Attachments(atts, id)>>)
  BY Zenon DEF BuildSession
<1>5. id[1] = "ch"
  BY DEF MakeChatId
<1> HIDE DEF n, id, r
<1>6. lines \in Lines /\ InLines(lines) = UNION {Visible(session[i].body) : i \in 1..n}
  <2>1. lines \in [1..n -> Text] /\ DOMAIN lines = 1..n /\ \A i \in 1..n : lines[i] = session[i].body
    BY <1>1, <1>3
  <2> HIDE DEF lines
  <2>2. lines \in Seq(Text)
    BY <1>1, <2>1
  <2>3. InLines(lines) = UNION {Visible(lines[i]) : i \in 1..n}
    BY Zenon, <2>1 DEF InLines
  <2>4. InLines(lines) = UNION {Visible(session[i].body) : i \in 1..n}
    BY Zenon, <2>1, <2>3
  <2> QED BY <2>2, <2>4 DEF Lines
<1>7. all = [i \in 1..n |-> all[i]] /\ DOMAIN all = 1..n /\ \A i \in 1..n : all[i] = session[i].atts
  BY Zenon, <1>1
<1> HIDE DEF lines, all
<1>8. IsList(all) /\ \A i \in 1..n : IsList(all[i])
  BY <1>1, <1>3, <1>7, ListOf DEF AreParsed
<1>9. IsList(atts) /\ ToSet(atts) = UNION {ToSet(all[i]) : i \in 1..n}
  BY <1>7, <1>8, FlattenLists
<1> HIDE DEF atts
<1>10. AreParsed(atts)
  <2>1. \A i \in 1..n : \A att \in ToSet(all[i]) : IsParsed(att)
    BY <1>3, <1>7 DEF AreParsed
  <2> QED BY <1>9, <2>1 DEF AreParsed
<1>11. AttsHold(atts) = UNION {AttsHold(session[i].atts) : i \in 1..n}
  <2>1. AttsHold(atts) = UNION {AttHolds(att) : att \in UNION {ToSet(all[i]) : i \in 1..n}}
    BY Zenon, <1>9 DEF AttsHold
  <2>2. UNION {AttHolds(att) : att \in UNION {ToSet(all[i]) : i \in 1..n}}
          = UNION {UNION {AttHolds(att) : att \in ToSet(all[i])} : i \in 1..n}
    OBVIOUS
  <2>3. \A i \in 1..n : AttsHold(session[i].atts) = UNION {AttHolds(att) : att \in ToSet(all[i])}
    BY <1>7 DEF AttsHold
  <2> QED BY Zenon, <2>1, <2>2, <2>3
<1>12. u.id = id /\ u.type = "chat" /\ IsUnit(u) /\ InLines(u.parts) = InLines(lines)
  <2>1. IsMeta(NoMeta)
    BY MetaFacts
  <2> QED BY <1>6, <2>1, FinishFacts
<1> HIDE DEF u
<1>13. Good(r) /\ Held(r.units) = InLines(u.parts) \cup AttsHold(atts)
  <2>1. u.type # "attachment" /\ u.id[1] # "doc"
    BY <1>5, <1>12
  <2>2. r = Together(<<Built(<<u>>, NoStats), Attachments(atts, u.id)>>)
    BY Zenon, <1>4, <1>12
  <2> QED BY <1>10, <1>12, <2>1, <2>2, WithAttachments
<1>14. Held(r.units) = UNION {ChatHolds(m) : m \in ToSet(session)}
  <2>1. UNION {ChatHolds(m) : m \in ToSet(session)} = UNION {ChatHolds(session[i]) : i \in 1..n}
    BY Zenon, <1>2
  <2>2. UNION {ChatHolds(session[i]) : i \in 1..n}
          = (UNION {Visible(session[i].body) : i \in 1..n}) \cup UNION {AttsHold(session[i].atts) : i \in 1..n}
    BY DEF ChatHolds
  <2> QED BY Zenon, <1>6, <1>11, <1>12, <1>13, <2>1, <2>2
<1> QED BY <1>13, <1>14 DEF r

\* The rooms sessions are built for hold their messages.
LEMMA BuildRoomFacts ==
  ASSUME NEW S, AreChats(S), NEW chats \in Seq(S), NEW room
  PROVE  LET r == BuildRoom(chats, room) IN
         Good(r) /\ Held(r.units) = UNION {ChatHolds(m) : m \in {c \in ToSet(chats) : c.room = room}}
<1> DEFINE ss == SessionsOf(chats, room)
           n == Len(ss)
           rs == [i \in DOMAIN ss |-> BuildSession(room, ss[i])]
           r == BuildRoom(chats, room)
           msgs == FlattenSeq(ss)
<1>1. Timed(S)
  BY DEF Timed, AreChats
<1>2. ss \in Sessions(S) /\ ToSet(msgs) = {m \in ToSet(chats) : m.room = room}
  BY <1>1, SessionsFacts
<1>3. r = Together(rs)
  BY Zenon DEF BuildRoom
<1> HIDE DEF ss, r
<1>4. ss \in Seq(Seq(S)) /\ n \in Nat /\ DOMAIN ss = 1..n /\ \A i \in 1..n : ss[i] \in Seq(S)
  BY <1>2 DEF Sessions
<1>5. ToSet(msgs) = UNION {ToSet(ss[i]) : i \in 1..n}
  BY <1>4, FlattenFacts
<1> HIDE DEF n, msgs
<1>6. rs = [i \in 1..n |-> rs[i]] /\ DOMAIN rs = 1..n /\ \A i \in 1..n : rs[i] = BuildSession(room, ss[i])
  BY Zenon, <1>4
<1> HIDE DEF rs
<1>7. \A i \in 1..n : Good(rs[i]) /\ Held(rs[i].units) = UNION {ChatHolds(m) : m \in ToSet(ss[i])}
  BY <1>4, <1>6, BuildSessionFacts
<1>8. IsList(rs) /\ \A i \in 1..n : IsBuilt(rs[i])
  BY <1>4, <1>6, <1>7, ListOf DEF Good
<1>9. Good(r) /\ Held(r.units) = UNION {Held(rs[i].units) : i \in 1..n}
  BY <1>3, <1>6, <1>7, <1>8, TogetherFacts
<1>10. Held(r.units) = UNION {ChatHolds(m) : m \in ToSet(msgs)}
  <2>1. Held(r.units) = UNION {UNION {ChatHolds(m) : m \in ToSet(ss[i])} : i \in 1..n}
    BY Zenon, <1>7, <1>9
  <2>2. UNION {UNION {ChatHolds(m) : m \in ToSet(ss[i])} : i \in 1..n}
          = UNION {ChatHolds(m) : m \in UNION {ToSet(ss[i]) : i \in 1..n}}
    OBVIOUS
  <2> QED BY Zenon, <1>5, <2>1, <2>2
<1> QED BY Zenon, <1>2, <1>9, <1>10 DEF r

\* Each room is built once.
LEMMA RoomsOfFacts ==
  ASSUME NEW S, NEW chats \in Seq(S)
  PROVE  IsList(RoomsOf(chats)) /\ ToSet(RoomsOf(chats)) = {m.room : m \in ToSet(chats)}
<1> DEFINE n == Len(chats)
           rooms == [i \in DOMAIN chats |-> chats[i].room]
           P == {i \in DOMAIN chats : \A j \in 1..(i - 1) : chats[j].room # chats[i].room}
<1>1. n \in Nat /\ DOMAIN chats = 1..n /\ ToSet(chats) = {chats[i] : i \in 1..n}
  BY Members
<1>2. RoomsOf(chats) = Those(rooms, P)
  BY Zenon DEF RoomsOf
<1> HIDE DEF n
<1>3. rooms = [i \in 1..n |-> rooms[i]] /\ DOMAIN rooms = 1..n /\ \A i \in 1..n : rooms[i] = chats[i].room
  BY Zenon, <1>1
<1>4. \A i \in 1..n : \E k \in P : chats[k].room = chats[i].room
  <2>1. SUFFICES ASSUME NEW i \in 1..n PROVE \E k \in P : chats[k].room = chats[i].room
    OBVIOUS
  <2> DEFINE X == {k \in 1..n : chats[k].room = chats[i].room}
  <2>2. X \subseteq Nat /\ X # {}
    BY <1>1
  <2>3. PICK k \in X : \A j \in X : k <= j
    BY <2>2, Least
  <2>4. k \in 1..n /\ chats[k].room = chats[i].room
    OBVIOUS
  <2>5. \A j \in 1..(k - 1) : j \in 1..n /\ ~(k <= j)
    BY <1>1, <2>4
  <2>6. \A j \in 1..(k - 1) : chats[j].room # chats[k].room
    BY <2>3, <2>4, <2>5
  <2> QED BY <1>1, <2>4, <2>6
<1>5. P \subseteq 1..n
  BY <1>1
<1> HIDE DEF P, rooms
<1>6. IsList(rooms)
  BY <1>1, <1>3, ListOf
<1>7. IsList(Those(rooms, P)) /\ ToSet(Those(rooms, P)) = {rooms[i] : i \in P \cap 1..n}
  BY <1>3, <1>6, ThoseLists
<1>8. {rooms[i] : i \in P \cap 1..n} = {chats[i].room : i \in 1..n}
  BY <1>3, <1>4, <1>5
<1>9. {m.room : m \in ToSet(chats)} = {chats[i].room : i \in 1..n}
  BY Zenon, <1>1
<1> QED BY Zenon, <1>2, <1>7, <1>8, <1>9

\* All chats are in some session of some room.
LEMMA BuildChatsFacts ==
  ASSUME NEW S, AreChats(S), NEW chats \in Seq(S)
  PROVE  LET r == BuildChats(chats) IN
         Good(r) /\ Held(r.units) = UNION {ChatHolds(m) : m \in ToSet(chats)}
<1> DEFINE rooms == RoomsOf(chats)
           n == Len(rooms)
           rs == [i \in DOMAIN rooms |-> BuildRoom(chats, rooms[i])]
           r == BuildChats(chats)
           In(room) == UNION {ChatHolds(m) : m \in {c \in ToSet(chats) : c.room = room}}
<1>1. IsList(rooms) /\ ToSet(rooms) = {m.room : m \in ToSet(chats)}
  BY RoomsOfFacts
<1>2. r = Together(rs)
  BY Zenon DEF BuildChats
<1> HIDE DEF rooms, r
<1>3. n \in Nat /\ DOMAIN rooms = 1..n /\ ToSet(rooms) = {rooms[i] : i \in 1..n}
  BY <1>1, ListFacts
<1> HIDE DEF n
<1>4. rs = [i \in 1..n |-> rs[i]] /\ DOMAIN rs = 1..n /\ \A i \in 1..n : rs[i] = BuildRoom(chats, rooms[i])
  BY Zenon, <1>3
<1> HIDE DEF rs
<1>5. \A i \in 1..n : Good(rs[i]) /\ Held(rs[i].units) = In(rooms[i])
  BY <1>4, BuildRoomFacts
<1>6. IsList(rs) /\ \A i \in 1..n : IsBuilt(rs[i])
  BY <1>3, <1>4, <1>5, ListOf DEF Good
<1>7. Good(r) /\ Held(r.units) = UNION {Held(rs[i].units) : i \in 1..n}
  BY <1>2, <1>4, <1>5, <1>6, TogetherFacts
<1>8. Held(r.units) = UNION {In(room) : room \in ToSet(rooms)}
  <2> HIDE DEF In
  <2>1. Held(r.units) = UNION {In(rooms[i]) : i \in 1..n}
    BY Zenon, <1>5, <1>7
  <2> QED BY Zenon, <1>3, <2>1
<1>9. UNION {In(room) : room \in {m.room : m \in ToSet(chats)}} = UNION {ChatHolds(m) : m \in ToSet(chats)}
  <2> DEFINE X == ToSet(chats)
  <2>1. \A room, x : x \in In(room) <=> \E m \in X : m.room = room /\ x \in ChatHolds(m)
    OBVIOUS
  <2> HIDE DEF X, In
  <2>2. UNION {In(room) : room \in {m.room : m \in X}} = UNION {ChatHolds(m) : m \in X}
    <3>1. ASSUME NEW x \in UNION {In(room) : room \in {m.room : m \in X}}
          PROVE  x \in UNION {ChatHolds(m) : m \in X}
      <4>1. PICK room \in {m.room : m \in X} : x \in In(room)
        BY <3>1
      <4> QED BY <2>1, <4>1
    <3>2. ASSUME NEW x \in UNION {ChatHolds(m) : m \in X}
          PROVE  x \in UNION {In(room) : room \in {m.room : m \in X}}
      <4>1. PICK m \in X : x \in ChatHolds(m)
        BY <3>2
      <4>2. x \in In(m.room)
        BY <2>1, <4>1
      <4> QED BY <4>2
    <3> QED BY <3>1, <3>2
  <2> QED BY <2>2 DEF X
<1> QED BY Zenon, <1>1, <1>7, <1>8, <1>9 DEF r

\* What is put together of three.
LEMMA ThreeTogether ==
  ASSUME NEW a, NEW b, NEW c, Good(a), Good(b), Good(c)
  PROVE  LET r == Together(<<a, b, c>>) IN
         /\ Good(r)
         /\ ToSet(r.units) = ToSet(a.units) \cup ToSet(b.units) \cup ToSet(c.units)
         /\ Held(r.units) = Held(a.units) \cup Held(b.units) \cup Held(c.units)
<1> DEFINE rs == <<a, b, c>>
<1>1. rs \in Seq({a, b, c})
  OBVIOUS
<1>2. DOMAIN rs = {1, 2, 3} /\ rs[1] = a /\ rs[2] = b /\ rs[3] = c
  OBVIOUS
<1> HIDE DEF rs
<1>3. IsList(rs)
  BY <1>1, SeqIsList
<1>4. \A i \in DOMAIN rs : Good(rs[i])
  BY <1>2
<1>5. \A i \in DOMAIN rs : IsBuilt(rs[i])
  BY <1>4 DEF Good
<1> DEFINE r == Together(rs)
<1>6. /\ Good(r)
      /\ ToSet(r.units) = UNION {ToSet(rs[i].units) : i \in DOMAIN rs}
      /\ Held(r.units) = UNION {Held(rs[i].units) : i \in DOMAIN rs}
  BY <1>3, <1>4, <1>5, TogetherFacts
<1> HIDE DEF r
<1>7. UNION {ToSet(rs[i].units) : i \in DOMAIN rs} = ToSet(a.units) \cup ToSet(b.units) \cup ToSet(c.units)
  BY Zenon, <1>2
<1>8. UNION {Held(rs[i].units) : i \in DOMAIN rs} = Held(a.units) \cup Held(b.units) \cup Held(c.units)
  BY Zenon, <1>2
<1> QED BY <1>6, <1>7, <1>8 DEF r, rs

\* Nothing put together is nothing.
LEMMA NoneTogether == LET r == Together(<<>>) IN Good(r) /\ ToSet(r.units) = {} /\ Held(r.units) = {}
<1> DEFINE r == Together(<<>>)
<1>1. IsList(<<>>) /\ DOMAIN <<>> = {}
  BY SmallLists
<1>2. \A i \in DOMAIN <<>> : Good(<<>>[i]) /\ IsBuilt(<<>>[i])
  BY <1>1
<1>3. /\ Good(r)
      /\ ToSet(r.units) = UNION {ToSet(<<>>[i].units) : i \in DOMAIN <<>>}
      /\ Held(r.units) = UNION {Held(<<>>[i].units) : i \in DOMAIN <<>>}
  BY <1>1, <1>2, TogetherFacts
<1> HIDE DEF r
<1> QED BY Zenon, <1>1, <1>3 DEF r

\* The flat list has what records hold under the ids of the objects.
LEMMA FlatListFacts ==
  ASSUME NEW records, IsList(records), \A record \in ToSet(records) : IsList(record.atts), NEW kind
  PROVE  /\ IsList(FlatList(kind, records))
         /\ \A x \in ToSet(FlatList(kind, records)) : x.id \in Ids(kind, records)
<1> DEFINE n == Len(records)
           In(i) == [k \in DOMAIN records[i].atts |-> [id |-> <<kind, i, k>>, att |-> records[i].atts[k]]]
           ss == [i \in DOMAIN records |-> In(i)]
<1>1. n \in Nat /\ DOMAIN records = 1..n /\ \A i \in 1..n : IsList(records[i].atts)
  BY ListFacts
<1>2. FlatList(kind, records) = FlattenSeq(ss)
  BY Zenon DEF FlatList
<1> HIDE DEF n
<1>3. ss = [i \in 1..n |-> ss[i]] /\ \A i \in 1..n : ss[i] = In(i)
  BY Zenon, <1>1
<1> HIDE DEF ss
<1>4. IsList(ss) /\ DOMAIN ss = 1..n
  BY <1>1, <1>3, ListOf
<1>5. ASSUME NEW i \in 1..n
      PROVE  IsList(In(i)) /\ \A x \in ToSet(In(i)) : x.id \in Ids(kind, records)
  <2> DEFINE m == Len(records[i].atts)
             list == In(i)
  <2>1. m \in Nat /\ DOMAIN records[i].atts = 1..m
    BY <1>1, ListFacts
  <2> HIDE DEF m
  <2>2. list = [k \in 1..m |-> list[k]] /\ \A k \in 1..m : list[k] = [id |-> <<kind, i, k>>, att |-> records[i].atts[k]]
    BY Zenon, <2>1
  <2> HIDE DEF list
  <2>3. IsList(list) /\ ToSet(list) = {list[k] : k \in 1..m}
    BY <2>1, <2>2, ListOf
  <2>4. \A k \in 1..m : list[k].id = <<kind, i, k>>
    BY <2>2
  <2>5. \A k \in 1..m : <<kind, i, k>> \in Ids(kind, records)
    BY <1>1, <2>1 DEF Ids
  <2> QED BY <2>3, <2>4, <2>5 DEF list
<1> HIDE DEF In
<1>6. \A i \in DOMAIN ss : IsList(ss[i])
  BY <1>3, <1>4, <1>5
<1>7. IsList(FlattenSeq(ss)) /\ ToSet(FlattenSeq(ss)) = UNION {ToSet(ss[i]) : i \in DOMAIN ss}
  BY <1>4, <1>6, FlattenLists
<1>8. \A x \in ToSet(FlattenSeq(ss)) : x.id \in Ids(kind, records)
  <2>1. SUFFICES ASSUME NEW x \in ToSet(FlattenSeq(ss)) PROVE x.id \in Ids(kind, records)
    OBVIOUS
  <2>2. PICK i \in 1..n : x \in ToSet(ss[i])
    BY <1>4, <1>7
  <2> QED BY <1>3, <1>5, <2>2
<1> QED BY <1>2, <1>7, <1>8

\* What is in the flat list belongs to a mail or a chat.
LEMMA NoOrphans ==
  ASSUME NEW mails, IsList(mails), \A mail \in ToSet(mails) : IsParsedMail(mail),
         NEW chats, IsList(chats), AreChats(ToSet(chats))
  PROVE  LET result == PstParseResult(mails, chats) IN
         Those(result.atts, {i \in DOMAIN result.atts : result.atts[i].id \notin Linked(result)}) = <<>>
<1> DEFINE fm == FlatList("mail", mails)
           fc == FlatList("chat", chats)
           atts == fm \o fc
           result == PstParseResult(mails, chats)
           P == {i \in DOMAIN atts : atts[i].id \notin Linked(result)}
<1>1. result.mails = mails /\ result.chats = chats /\ result.atts = atts
  BY DEF PstParseResult
<1> HIDE DEF result
<1>2. Linked(result) = Ids("mail", mails) \cup Ids("chat", chats)
  BY <1>1 DEF Linked
<1>3. IsList(fm) /\ \A x \in ToSet(fm) : x.id \in Ids("mail", mails)
  BY FlatListFacts DEF IsParsedMail
<1>4. IsList(fc) /\ \A x \in ToSet(fc) : x.id \in Ids("chat", chats)
  BY FlatListFacts DEF AreChats, AreParsed
<1> HIDE DEF fm, fc
<1>5. IsList(atts) /\ ToSet(atts) = ToSet(fm) \cup ToSet(fc)
  <2> DEFINE S == ToSet(fm) \cup ToSet(fc)
  <2>1. ToSet(fm) \subseteq S /\ ToSet(fc) \subseteq S
    OBVIOUS
  <2> HIDE DEF S
  <2>2. fm \in Seq(S) /\ fc \in Seq(S)
    BY <1>3, <1>4, <2>1, ListIsSeq
  <2>3. atts \in Seq(S) /\ ToSet(atts) = ToSet(fm) \cup ToSet(fc)
    BY <2>2, Appended, ConcatProperties
  <2> QED BY <2>3, SeqIsList
<1> HIDE DEF atts
<1>6. \A x \in ToSet(atts) : x.id \in Linked(result)
  BY <1>2, <1>3, <1>4, <1>5
<1>7. P = {}
  <2>1. DOMAIN atts = 1..Len(atts) /\ ToSet(atts) = {atts[i] : i \in 1..Len(atts)}
    BY <1>5, ListFacts
  <2> QED BY <1>6, <2>1
<1> DEFINE none == Those(atts, P)
<1>8. IsList(none) /\ ToSet(none) = {atts[i] : i \in P \cap DOMAIN atts}
  BY <1>5, ThoseLists
<1> HIDE DEF P, none
<1>9. none = <<>>
  <2>1. Len(none) \in Nat /\ ToSet(none) = {none[i] : i \in 1..Len(none)} /\ ToSet(none) = {}
    BY <1>7, <1>8, ListFacts
  <2>2. Len(none) = 0
    <3>1. \A i \in 1..Len(none) : none[i] \in {}
      BY <2>1
    <3> QED BY <2>1, <3>1
  <2>3. none \in Seq({})
    BY Zenon, <1>8, <2>1 DEF IsList
  <2> QED BY <2>2, <2>3
<1> QED BY <1>1, <1>9 DEF none, P, result

ArchiveHolds(mails, chats) ==
  (UNION {MailHolds(mail) : mail \in ToSet(mails)}) \cup UNION {ChatHolds(m) : m \in ToSet(chats)}

\* Mails built one by one.
LEMMA BuildMailsFacts ==
  ASSUME NEW mails, IsList(mails), \A mail \in ToSet(mails) : IsParsedMail(mail)
  PROVE  LET r == Together([i \in DOMAIN mails |-> BuildEmail(mails[i])]) IN
         /\ Good(r) /\ Held(r.units) = UNION {MailHolds(mail) : mail \in ToSet(mails)}
         /\ \A mail \in ToSet(mails) : ~mail.ad => \E u \in ToSet(r.units) : MailUnit(u, mail)
<1> DEFINE n == Len(mails)
           rs == [i \in DOMAIN mails |-> BuildEmail(mails[i])]
           r == Together(rs)
<1>1. n \in Nat /\ DOMAIN mails = 1..n /\ ToSet(mails) = {mails[i] : i \in 1..n}
  BY ListFacts
<1> HIDE DEF n
<1>2. rs = [i \in 1..n |-> rs[i]] /\ DOMAIN rs = 1..n /\ \A i \in 1..n : rs[i] = BuildEmail(mails[i])
  BY Zenon, <1>1
<1> HIDE DEF rs
<1>3. \A i \in 1..n : IsParsedMail(mails[i])
  BY <1>1
<1>4. \A i \in 1..n : Good(rs[i]) /\ Held(rs[i].units) = MailHolds(mails[i])
  BY <1>2, <1>3, BuildEmailFacts
<1>5. \A i \in 1..n : ~mails[i].ad => \E u \in ToSet(rs[i].units) : MailUnit(u, mails[i])
  BY <1>2, <1>3, BuildEmailFacts
<1>6. IsList(rs) /\ \A i \in 1..n : IsBuilt(rs[i])
  BY <1>1, <1>2, <1>4, ListOf DEF Good
<1>7. /\ Good(r) /\ Held(r.units) = UNION {Held(rs[i].units) : i \in 1..n}
      /\ ToSet(r.units) = UNION {ToSet(rs[i].units) : i \in 1..n}
  BY <1>2, <1>4, <1>6, TogetherFacts
<1> HIDE DEF r
<1>8. Held(r.units) = UNION {MailHolds(mail) : mail \in ToSet(mails)}
  <2>1. Held(r.units) = UNION {MailHolds(mails[i]) : i \in 1..n}
    BY Zenon, <1>4, <1>7
  <2> QED BY Zenon, <1>1, <2>1
<1>9. ASSUME NEW mail \in ToSet(mails), ~mail.ad PROVE \E u \in ToSet(r.units) : MailUnit(u, mail)
  <2>1. PICK i \in 1..n : mail = mails[i]
    BY <1>1
  <2>2. PICK u \in ToSet(rs[i].units) : MailUnit(u, mail)
    BY <1>5, <1>9, <2>1
  <2> QED BY <1>7, <2>2
<1> QED BY <1>7, <1>8, <1>9 DEF r, rs

\* An archive is built of its mails and chats, and nothing else.
LEMMA BuildFromPstFacts ==
  ASSUME NEW mails, IsList(mails), \A mail \in ToSet(mails) : IsParsedMail(mail),
         NEW chats, IsList(chats), AreChats(ToSet(chats)), NEW path
  PROVE  LET r == BuildFromPst(PstParseResult(mails, chats), path) IN
         /\ Good(r) /\ Held(r.units) = ArchiveHolds(mails, chats)
         /\ \A mail \in ToSet(mails) : ~mail.ad => \E u \in ToSet(r.units) : MailUnit(u, mail)
<1> DEFINE result == PstParseResult(mails, chats)
           orphans == Those(result.atts, {i \in DOMAIN result.atts : result.atts[i].id \notin Linked(result)})
           a == Together([i \in DOMAIN mails |-> BuildEmail(mails[i])])
           b == BuildChats(chats)
           c(os) == Together([k \in DOMAIN os |-> BuildOrphan(os[k].att, k, path)])
           r == BuildFromPst(result, path)
<1>1. result.mails = mails /\ result.chats = chats
  BY DEF PstParseResult
<1>2. orphans = <<>>
  BY NoOrphans
<1>3. r = Together(<<Together([i \in DOMAIN result.mails |-> BuildEmail(result.mails[i])]),
                     BuildChats(result.chats), c(orphans)>>)
  BY Zenon DEF BuildFromPst
<1> HIDE DEF result, orphans, r
<1>4. c(<<>>) = Together(<<>>)
  <2>1. [k \in DOMAIN <<>> |-> BuildOrphan(<<>>[k].att, k, path)] = <<>>
    OBVIOUS
  <2> QED BY Zenon, <2>1
<1> HIDE DEF c
<1>5. r = Together(<<a, b, Together(<<>>)>>)
  BY Zenon, <1>1, <1>2, <1>3, <1>4
<1>6. /\ Good(a) /\ Held(a.units) = UNION {MailHolds(mail) : mail \in ToSet(mails)}
      /\ \A mail \in ToSet(mails) : ~mail.ad => \E u \in ToSet(a.units) : MailUnit(u, mail)
  BY BuildMailsFacts
<1>7. Good(b) /\ Held(b.units) = UNION {ChatHolds(m) : m \in ToSet(chats)}
  <2> DEFINE S == ToSet(chats)
  <2>1. chats \in Seq(S)
    BY DEF IsList
  <2>2. AreChats(S)
    OBVIOUS
  <2> HIDE DEF S
  <2>3. Good(b) /\ Held(b.units) = UNION {ChatHolds(m) : m \in ToSet(chats)}
    BY <2>1, <2>2, BuildChatsFacts
  <2> QED BY <2>3
<1> HIDE DEF a, b
<1>8. /\ Good(r)
      /\ ToSet(r.units) = ToSet(a.units) \cup ToSet(b.units) \cup {}
      /\ Held(r.units) = Held(a.units) \cup Held(b.units) \cup {}
  <2> DEFINE none == Together(<<>>)
  <2>1. Good(none) /\ ToSet(none.units) = {} /\ Held(none.units) = {}
    BY NoneTogether
  <2>2. r = Together(<<a, b, none>>)
    BY <1>5
  <2> HIDE DEF none
  <2>3. Good(a) /\ Good(b)
    BY <1>6, <1>7
  <2>4. Good(r)
    BY Zenon, <2>1, <2>2, <2>3, ThreeTogether
  <2>5. ToSet(r.units) = ToSet(a.units) \cup ToSet(b.units) \cup ToSet(none.units)
    BY <2>1, <2>2, <2>3, ThreeTogether
  <2>6. Held(r.units) = Held(a.units) \cup Held(b.units) \cup Held(none.units)
    BY <2>1, <2>2, <2>3, ThreeTogether
  <2> QED BY <2>1, <2>4, <2>5, <2>6
<1>9. Held(r.units) = ArchiveHolds(mails, chats)
  BY <1>6, <1>7, <1>8 DEF ArchiveHolds
<1>10. \A mail \in ToSet(mails) : ~mail.ad => \E u \in ToSet(r.units) : MailUnit(u, mail)
  BY <1>6, <1>8
<1> QED BY <1>8, <1>9, <1>10 DEF r, result

----------------------------------------------------------------------------
(* Files. *)

\* What a parser makes of a document: nothing of a workbook without sheets.
ReadDocs(docs) == docs = <<>> \/ IsDocs(docs)

\* A file as it was parsed, and can be built.
IsParsedFile(p) ==
  /\ p.type \in {"pst", "email", "document"}
  /\ p.type = "pst" => /\ p = PstParseResult(p.mails, p.chats)
                       /\ IsList(p.mails) /\ \A mail \in ToSet(p.mails) : IsParsedMail(mail)
                       /\ IsList(p.chats) /\ AreChats(ToSet(p.chats))
  /\ p.type = "email" => IsParsedMail(p)
  /\ p.type = "document" => ReadDocs(p.docs)

FileHolds(p) ==
  IF p.type = "pst" THEN ArchiveHolds(p.mails, p.chats)
  ELSE IF p.type = "email" THEN MailHolds(p)
  ELSE DocsHold(p.docs)

\* A unit of a document file.
DocUnit(u, docs, prefix) ==
  /\ docs # <<>>
  /\ Plainly(u, "document", NoParent, prefix)
  /\ docs[1].type = "sheet" => OfSheet(u, docs, prefix)
  /\ docs[1].type = "pages" => OfPage(u, docs[1].pages, prefix)

\* The units of a file hold what was parsed of it.
LEMMA BuildFileFacts ==
  ASSUME NEW p, IsParsedFile(p), NEW path
  PROVE  LET r == BuildFile(p, path) IN
         /\ IsBuilt(r) /\ Closed(ToSet(r.units)) /\ Held(r.units) = FileHolds(p)
         /\ p.type # "document" => \A u \in ToSet(r.units) : u.id[1] # "doc"
         /\ p.type = "pst" => \A mail \in ToSet(p.mails) : ~mail.ad => \E u \in ToSet(r.units) : MailUnit(u, mail)
         /\ p.type = "document" => \A u \in ToSet(r.units) : DocUnit(u, p.docs, MakeDocumentId(path))
<1> DEFINE r == BuildFile(p, path)
<1>1. CASE p.type = "pst"
  <2>1. r = BuildFromPst(PstParseResult(p.mails, p.chats), path)
    BY Zenon, <1>1 DEF BuildFile, IsParsedFile
  <2> HIDE DEF r
  <2>2. /\ IsList(p.mails) /\ \A mail \in ToSet(p.mails) : IsParsedMail(mail)
        /\ IsList(p.chats) /\ AreChats(ToSet(p.chats))
    BY Zenon, <1>1 DEF IsParsedFile
  <2>3. /\ Good(r) /\ Held(r.units) = ArchiveHolds(p.mails, p.chats)
        /\ \A mail \in ToSet(p.mails) : ~mail.ad => \E u \in ToSet(r.units) : MailUnit(u, mail)
    BY <2>1, <2>2, BuildFromPstFacts
  <2> QED BY <1>1, <2>3 DEF Good, FileHolds, r
<1>2. CASE p.type = "email"
  <2>1. r = BuildEmail(p)
    BY <1>2 DEF BuildFile
  <2> HIDE DEF r
  <2>2. Good(r) /\ Held(r.units) = MailHolds(p)
    BY <1>2, <2>1, BuildEmailFacts DEF IsParsedFile
  <2> QED BY <1>2, <2>2 DEF Good, FileHolds, r
<1>3. CASE p.type = "document"
  <2> DEFINE prefix == MakeDocumentId(path)
             us == BuildDocument(p.docs, path)
  <2>1. r = Built(us, NoStats)
    BY <1>3 DEF BuildFile
  <2>2. ReadDocs(p.docs)
    BY <1>3 DEF IsParsedFile
  <2>3. IsList(us) /\ Held(us) = DocsHold(p.docs) /\ \A u \in ToSet(us) : DocUnit(u, p.docs, prefix)
    <3>1. CASE p.docs = <<>>
      <4>1. us = <<>> /\ DocsHold(p.docs) = {}
        BY <3>1 DEF BuildDocument, DocsHold
      <4> HIDE DEF us
      <4> QED BY <4>1, NoUnits
    <3>2. CASE IsDocs(p.docs)
      <4>1. us = DocumentUnits(p.docs, "document", NoParent, prefix)
        BY <3>2 DEF BuildDocument, IsDocs
      <4>2. p.docs # <<>>
        BY <3>2 DEF IsDocs
      <4> HIDE DEF us, prefix
      <4> QED BY <3>2, <4>1, <4>2, DocumentUnitsFacts DEF DocUnit
    <3> QED BY <2>2, <3>1, <3>2 DEF ReadDocs
  <2> HIDE DEF r, us, prefix
  <2>4. r.units = us /\ r.stats = NoStats
    BY <2>1 DEF Built
  <2>5. \A u \in ToSet(us) : IsUnit(u) /\ u.type = "document"
    BY <2>3 DEF DocUnit, Plainly
  <2>6. Closed(ToSet(us))
    BY <2>5 DEF Closed
  <2>7. IsBuilt(r)
    BY <2>3, <2>4, CountsFacts DEF IsBuilt
  <2> QED BY <1>3, <2>3, <2>4, <2>6, <2>7 DEF FileHolds, r, prefix
<1> QED BY <1>1, <1>2, <1>3 DEF IsParsedFile

----------------------------------------------------------------------------
(* Files that the builder does not raise an exception for. *)

\* An attachment as it was parsed, with documents or without.
IsRead(att) == att.outcome \in {"excluded", "failed", "parsed"} /\ (att.outcome = "parsed" => ReadDocs(att.docs))

AreRead(atts) == IsList(atts) /\ \A att \in ToSet(atts) : IsRead(att)

IsReadMail(mail) == mail.body \in Lines /\ AreRead(mail.atts)

AreReadChats(S) == \A m \in S : m.time \in Int /\ m.body \in Text /\ AreRead(m.atts)

\* A file as it was parsed, built or not.
IsReadFile(p) ==
  /\ p.type \in {"pst", "email", "document"}
  /\ p.type = "pst" => /\ p = PstParseResult(p.mails, p.chats)
                       /\ IsList(p.mails) /\ \A mail \in ToSet(p.mails) : IsReadMail(mail)
                       /\ IsList(p.chats) /\ AreReadChats(ToSet(p.chats))
  /\ p.type = "email" => IsReadMail(p)
  /\ p.type = "document" => ReadDocs(p.docs)

\* Where every attachment that was parsed has a document, all of them can be built.
LEMMA RaisesNot ==
  ASSUME NEW record, AreRead(record.atts), ~Raises(record)
  PROVE  AreParsed(record.atts)
<1> DEFINE atts == record.atts
           n == Len(atts)
<1>1. DOMAIN atts = 1..n /\ ToSet(atts) = {atts[k] : k \in 1..n} /\ IsList(atts)
  BY ListFacts DEF AreRead
<1>2. \A k \in 1..n : IsRead(atts[k]) /\ ~(atts[k].outcome = "parsed" /\ atts[k].docs = <<>>)
  BY <1>1 DEF AreRead, Raises, Breaks
<1>3. \A k \in 1..n : IsParsed(atts[k])
  BY <1>2 DEF IsRead, IsParsed, ReadDocs
<1> QED BY <1>1, <1>3 DEF AreParsed

\* So it is with the whole of a file.
LEMMA BuildRaisesNot ==
  ASSUME NEW p, IsReadFile(p), ~BuildRaises(p)
  PROVE  IsParsedFile(p)
<1>1. CASE p.type = "pst"
  <2>1. /\ \A i \in DOMAIN p.mails : ~p.mails[i].ad => ~Raises(p.mails[i])
        /\ \A i \in DOMAIN p.chats : ~Raises(p.chats[i])
    BY <1>1 DEF BuildRaises
  <2>2. /\ p = PstParseResult(p.mails, p.chats)
        /\ IsList(p.mails) /\ \A mail \in ToSet(p.mails) : IsReadMail(mail)
        /\ IsList(p.chats) /\ AreReadChats(ToSet(p.chats))
    BY Zenon, <1>1 DEF IsReadFile
  <2>3. ToSet(p.mails) = {p.mails[i] : i \in DOMAIN p.mails} /\ ToSet(p.chats) = {p.chats[i] : i \in DOMAIN p.chats}
    BY DEF ToSet
  <2>4. \A mail \in ToSet(p.mails) : IsParsedMail(mail)
    BY <2>1, <2>2, <2>3, RaisesNot DEF IsReadMail, IsParsedMail, AreRead
  <2>5. AreChats(ToSet(p.chats))
    BY <2>1, <2>2, <2>3, RaisesNot DEF AreReadChats, AreChats
  <2> QED BY <1>1, <2>2, <2>4, <2>5 DEF IsParsedFile
<1>2. CASE p.type = "email"
  <2>1. ~p.ad => ~Raises(p)
    BY <1>2 DEF BuildRaises
  <2>2. IsReadMail(p)
    BY <1>2 DEF IsReadFile
  <2>3. IsParsedMail(p)
    BY <2>1, <2>2, RaisesNot DEF IsReadMail, IsParsedMail, AreRead
  <2> QED BY <1>2, <2>3 DEF IsParsedFile
<1>3. CASE p.type = "document"
  BY <1>3 DEF IsReadFile, IsParsedFile
<1> QED BY <1>1, <1>2, <1>3 DEF IsReadFile

\* A step, and a list of steps, count nothing wrong.
IsStep(step) == step.units = <<>> /\ step.stats \in Balanced

AreSteps(steps) == IsList(steps) /\ \A step \in ToSet(steps) : IsStep(step)

\* Steps put together are steps.
LEMMA StepsTogether ==
  ASSUME NEW ss, IsList(ss), \A i \in DOMAIN ss : AreSteps(ss[i])
  PROVE  AreSteps(FlattenSeq(ss))
<1>1. \A i \in DOMAIN ss : IsList(ss[i]) /\ \A step \in ToSet(ss[i]) : IsStep(step)
  BY Zenon DEF AreSteps
<1>2. IsList(FlattenSeq(ss)) /\ ToSet(FlattenSeq(ss)) = UNION {ToSet(ss[i]) : i \in DOMAIN ss}
  BY <1>1, FlattenLists
<1> QED BY Zenon, <1>1, <1>2 DEF AreSteps

\* The attachments of a mail or a chat, and of a mail or an advertisement.
LEMMA RecordSteps ==
  ASSUME NEW record, AreRead(record.atts)
  PROVE  AreSteps(AttachmentSteps(record)) /\ AreSteps(MailSteps(record))
<1> DEFINE n == Len(record.atts)
           steps == [k \in DOMAIN record.atts |-> Step(AttachmentCounts(record.atts[k]), Breaks(record.atts[k]))]
<1>1. n \in Nat /\ DOMAIN record.atts = 1..n /\ ToSet(record.atts) = {record.atts[k] : k \in 1..n}
  BY ListFacts DEF AreRead
<1>2. \A k \in 1..n : AttachmentCounts(record.atts[k]) \in Balanced
  BY <1>1, CountedFacts DEF AreRead, IsRead
<1> HIDE DEF n
<1>3. steps = [k \in 1..n |-> steps[k]]
      /\ \A k \in 1..n : steps[k] = Step(AttachmentCounts(record.atts[k]), Breaks(record.atts[k]))
  BY Zenon, <1>1
<1>4. AttachmentSteps(record) = steps
  BY Zenon DEF AttachmentSteps
<1> HIDE DEF steps
<1>5. IsList(steps) /\ ToSet(steps) = {steps[k] : k \in 1..n}
  BY <1>1, <1>3, ListOf
<1>6. \A s, b : Step(s, b).units = <<>> /\ Step(s, b).stats = s
  BY DEF Step
<1>7. \A k \in 1..n : IsStep(steps[k])
  BY <1>2, <1>3, <1>6 DEF IsStep
<1>8. AreSteps(AttachmentSteps(record))
  BY <1>4, <1>5, <1>7 DEF AreSteps
<1>9. ASSUME record.ad PROVE AreSteps(MailSteps(record))
  <2> DEFINE step == Step(AdCounts(record), FALSE)
  <2>1. MailSteps(record) = <<step>>
    BY Zenon, <1>9 DEF MailSteps
  <2>2. IsStep(step)
    BY <1>6, CountedFacts DEF IsStep, AreRead
  <2> HIDE DEF step
  <2> QED BY <2>1, <2>2, SmallLists DEF AreSteps
<1>10. ASSUME ~record.ad PROVE AreSteps(MailSteps(record))
  BY Zenon, <1>8, <1>10 DEF MailSteps
<1> QED BY <1>8, <1>9, <1>10

\* The chats, room by room and session by session.
LEMMA ChatsInOrderFacts ==
  ASSUME NEW S, Timed(S), NEW chats \in Seq(S)
  PROVE  ChatsInOrder(chats) \in Seq(S)
<1> DEFINE rooms == RoomsOf(chats)
           n == Len(rooms)
           ss == [r \in DOMAIN rooms |-> FlattenSeq(SessionsOf(chats, rooms[r]))]
<1>1. n \in Nat /\ DOMAIN rooms = 1..n
  BY RoomsOfFacts, ListFacts
<1>2. ChatsInOrder(chats) = FlattenSeq(ss)
  BY Zenon DEF ChatsInOrder
<1>3. \A room : FlattenSeq(SessionsOf(chats, room)) \in Seq(S)
  <2>1. \A room : SessionsOf(chats, room) \in Seq(Seq(S))
    BY SessionsFacts DEF Sessions
  <2> QED BY <2>1, FlattenFacts
<1> HIDE DEF rooms, n
<1>4. ss \in [1..n -> Seq(S)]
  BY <1>1, <1>3
<1> HIDE DEF ss
<1>5. ss \in Seq(Seq(S))
  BY <1>1, <1>4
<1> QED BY <1>2, <1>5, FlattenFacts

\* All that a file counts is a list of steps.
LEMMA StepsOfFacts ==
  ASSUME NEW p, IsReadFile(p)
  PROVE  AreSteps(StepsOf(p))
<1>1. CASE p.type = "pst"
  <2> DEFINE mails == p.mails
             chats == ChatsInOrder(p.chats)
             a == [i \in DOMAIN mails |-> MailSteps(mails[i])]
             b == [i \in DOMAIN chats |-> AttachmentSteps(chats[i])]
             S == ToSet(p.chats)
  <2>1. /\ IsList(mails) /\ \A mail \in ToSet(mails) : IsReadMail(mail)
        /\ IsList(p.chats) /\ AreReadChats(S)
    BY Zenon, <1>1 DEF IsReadFile
  <2>2. StepsOf(p) = FlattenSeq(a) \o FlattenSeq(b)
    BY <1>1 DEF StepsOf, ArchiveSteps
  <2>3. p.chats \in Seq(S) /\ Timed(S)
    BY <2>1 DEF IsList, AreReadChats, Timed
  <2> HIDE DEF S
  <2>4. chats \in Seq(S)
    BY <2>3, ChatsInOrderFacts
  <2> HIDE DEF chats, mails
  <2>5. IsList(chats) /\ ToSet(chats) \subseteq S
    BY <2>4, SeqIsList
  <2>6. AreSteps(FlattenSeq(a))
    <3> DEFINE n == Len(mails)
    <3>1. n \in Nat /\ DOMAIN mails = 1..n /\ ToSet(mails) = {mails[i] : i \in 1..n}
      BY <2>1, ListFacts
    <3> HIDE DEF n
    <3>2. a = [i \in 1..n |-> a[i]] /\ DOMAIN a = 1..n /\ \A i \in 1..n : a[i] = MailSteps(mails[i])
      BY Zenon, <3>1
    <3> HIDE DEF a
    <3>3. \A i \in 1..n : AreSteps(a[i])
      BY <2>1, <3>1, <3>2, RecordSteps DEF IsReadMail
    <3> QED BY <3>1, <3>2, <3>3, ListOf, StepsTogether
  <2>7. AreSteps(FlattenSeq(b))
    <3> DEFINE n == Len(chats)
    <3>1. n \in Nat /\ DOMAIN chats = 1..n /\ ToSet(chats) = {chats[i] : i \in 1..n}
      BY <2>5, ListFacts
    <3> HIDE DEF n
    <3>2. b = [i \in 1..n |-> b[i]] /\ DOMAIN b = 1..n /\ \A i \in 1..n : b[i] = AttachmentSteps(chats[i])
      BY Zenon, <3>1
    <3> HIDE DEF b
    <3>3. \A i \in 1..n : AreRead(chats[i].atts)
      BY <2>1, <2>5, <3>1 DEF AreReadChats
    <3>4. \A i \in 1..n : AreSteps(b[i])
      BY <3>2, <3>3, RecordSteps
    <3> QED BY <3>1, <3>2, <3>4, ListOf, StepsTogether
  <2> DEFINE x == FlattenSeq(a)
             y == FlattenSeq(b)
             T == ToSet(x) \cup ToSet(y)
  <2> HIDE DEF x, y
  <2>8. x \in Seq(T) /\ y \in Seq(T) /\ \A step \in T : IsStep(step)
    <3>1. IsList(x) /\ IsList(y) /\ (\A step \in ToSet(x) : IsStep(step)) /\ \A step \in ToSet(y) : IsStep(step)
      BY <2>6, <2>7 DEF x, y, AreSteps
    <3>2. ToSet(x) \subseteq T /\ ToSet(y) \subseteq T
      OBVIOUS
    <3> QED BY <3>1, <3>2, ListIsSeq
  <2>9. StepsOf(p) = x \o y
    BY <2>2 DEF x, y
  <2> HIDE DEF T
  <2>10. x \o y \in Seq(T)
    BY <2>8
  <2> QED BY <2>8, <2>9, <2>10, SeqIsList DEF AreSteps
<1>2. CASE p.type = "email"
  <2>1. StepsOf(p) = MailSteps(p)
    BY <1>2 DEF StepsOf
  <2>2. AreRead(p.atts)
    BY <1>2 DEF IsReadFile, IsReadMail
  <2> QED BY Zenon, <2>1, <2>2, RecordSteps
<1>3. CASE p.type = "document"
  <2>1. StepsOf(p) = <<>>
    BY <1>3 DEF StepsOf
  <2> QED BY <2>1, SmallLists DEF AreSteps
<1> QED BY <1>1, <1>2, <1>3 DEF IsReadFile

\* What was counted before the builder raised an exception is in balance.
LEMMA CountsUntilRaiseFacts ==
  ASSUME NEW p, IsReadFile(p)
  PROVE  CountsUntilRaise(p) \in Balanced
<1> DEFINE steps == StepsOf(p)
           P == {i \in DOMAIN steps : \A j \in 1..(i - 1) : ~steps[j].breaks}
           some == Those(steps, P)
<1>1. IsList(steps) /\ \A step \in ToSet(steps) : IsStep(step)
  BY StepsOfFacts DEF AreSteps
<1>2. CountsUntilRaise(p) = Together(some).stats
  BY Zenon DEF CountsUntilRaise
<1> HIDE DEF P, steps
<1>3. IsList(some) /\ ToSet(some) = {steps[i] : i \in P \cap DOMAIN steps}
  BY <1>1, ThoseLists
<1>4. ToSet(steps) = {steps[i] : i \in DOMAIN steps} /\ ToSet(some) = {some[i] : i \in DOMAIN some}
  BY DEF ToSet
<1> HIDE DEF some
<1>5. \A i \in DOMAIN some : IsStep(some[i])
  BY <1>1, <1>3, <1>4
<1>6. \A i \in DOMAIN some : IsBuilt(some[i])
  BY <1>5, NoUnits DEF IsStep, IsBuilt
<1>7. IsBuilt(Together(some))
  BY <1>3, <1>6, TogetherFacts
<1> QED BY <1>2, <1>7 DEF IsBuilt

----------------------------------------------------------------------------
(* What the parsers make of a document. *)

\* The documents hold all that the file does.
Holds(f, docs) == ReadDocs(docs) /\ DocTokens(f) \subseteq DocsHold(docs)

\* One document of pages or of sections.
LEMMA PagesDocument ==
  ASSUME NEW pages \in Seq(Lines), NEW type \in {"pages", "docx"},
         NEW docs, docs = <<Parsed(type, <<>>, pages, <<>>)>>
  PROVE  /\ IsDocs(docs) /\ DocsHold(docs) = UNION {InLines(pages[i]) : i \in DOMAIN pages}
         /\ docs[1].type = type /\ docs[1].pages = pages
<1>1. IsList(docs) /\ docs[1].type = type /\ docs[1].pages = pages
  BY SmallLists DEF Parsed
<1> QED BY <1>1 DEF IsDocs, DocsHold

\* One text.
LEMMA TextDocument ==
  ASSUME NEW lines \in Lines, NEW docs, docs = <<Parsed("text", lines, <<>>, <<>>)>>
  PROVE  IsDocs(docs) /\ DocsHold(docs) = InLines(lines)
<1>1. IsList(docs) /\ docs[1].type = "text" /\ docs[1].content = lines
  BY SmallLists DEF Parsed
<1> QED BY <1>1 DEF IsDocs, DocsHold

\* A page holds its text layer, or what OCR finds.
LEMMA PdfFacts ==
  ASSUME NEW f, IsDocument(f), ~Unreadable(f), FormatOf(f) = ".pdf"
  PROVE  LET docs == ExtractPdf(f) IN
         /\ Holds(f, docs) /\ docs[1].type = "pages"
         /\ ~f.encrypted => /\ DOMAIN docs[1].pages = DOMAIN f.pages
                            /\ \A i \in DOMAIN f.pages : InLines(docs[1].pages[i]) = PageTokens(f.pages[i])
         /\ f.encrypted => DOMAIN docs[1].pages = {}
<1> DEFINE Page == [fails : BOOLEAN, text : Text, ocr : Text]
           ocr == [i \in DOMAIN f.pages |-> IF Sparse(f.pages[i]) THEN f.pages[i].ocr ELSE <<>>]
           full == PagesFull(f.pages, ocr)
           texts == IF f.encrypted THEN <<>> ELSE full
           pages == [i \in DOMAIN texts |-> <<texts[i]>>]
           n == Len(f.pages)
           docs == ExtractPdf(f)
<1>1. f.pages \in Seq(Page)
  BY DEF IsDocument
<1> HIDE DEF Page
<1>2. n \in Nat /\ DOMAIN f.pages = 1..n /\ \A i \in 1..n : f.pages[i] \in Page
  BY <1>1
<1>3. \A i \in 1..n : ocr[i] = IF Sparse(f.pages[i]) THEN f.pages[i].ocr ELSE <<>>
  BY Zenon, <1>2
<1>4. full = [i \in 1..n |-> full[i]] /\ DOMAIN full = 1..n
      /\ \A i \in 1..n : full[i] = IF TextLayer(f.pages[i]) # <<>> THEN TextLayer(f.pages[i]) ELSE ocr[i]
  <2> HIDE DEF ocr
  <2>1. full = [i \in 1..n |-> IF TextLayer(f.pages[i]) # <<>> THEN TextLayer(f.pages[i]) ELSE ocr[i]]
    BY Zenon, <1>2 DEF PagesFull
  <2> HIDE DEF full
  <2> QED BY Zenon, <2>1
<1>5. docs = <<Parsed("pages", <<>>, pages, <<>>)>>
  BY Zenon DEF ExtractPdf
<1> HIDE DEF ocr, full, n
<1>6. ASSUME NEW i \in 1..n PROVE full[i] \in Text /\ Visible(full[i]) = PageTokens(f.pages[i])
  <2> DEFINE p == f.pages[i]
  <2>1. p.fails \in BOOLEAN /\ p.text \in Text /\ p.ocr \in Text
    BY <1>2 DEF Page
  <2>2. full[i] = IF TextLayer(p) # <<>> THEN TextLayer(p) ELSE IF Sparse(p) THEN p.ocr ELSE <<>>
    BY <1>3, <1>4
  <2> HIDE DEF p
  <2>3. CASE p.fails
    <3>1. full[i] = <<>>
      BY <2>2, <2>3 DEF TextLayer, Sparse
    <3> QED BY <2>3, <3>1, VisibleFacts DEF PageTokens, p
  <2>4. CASE ~p.fails /\ p.text = <<>>
    <3>1. full[i] = p.ocr
      BY <2>2, <2>4 DEF TextLayer, Sparse, OcrThreshold
    <3> QED BY <2>1, <2>4, <3>1 DEF PageTokens, p
  <2>5. CASE ~p.fails /\ p.text # <<>>
    <3>1. full[i] = p.text
      BY <2>2, <2>5 DEF TextLayer
    <3> QED BY <2>1, <2>5, <3>1 DEF PageTokens, p
  <2> QED BY <2>3, <2>4, <2>5
<1>7. /\ pages \in Seq(Lines)
      /\ ~f.encrypted => DOMAIN pages = 1..n /\ \A i \in 1..n : InLines(pages[i]) = PageTokens(f.pages[i])
      /\ f.encrypted => DOMAIN pages = {}
  <2>1. CASE f.encrypted
    <3>1. texts = <<>>
      BY <2>1
    <3>2. pages = <<>>
      BY <3>1
    <3> HIDE DEF pages
    <3> QED BY <2>1, <3>2
  <2>2. CASE ~f.encrypted
    <3>1. texts = full
      BY <2>2
    <3>2. DOMAIN pages = 1..n /\ pages = [i \in 1..n |-> pages[i]] /\ \A i \in 1..n : pages[i] = <<full[i]>>
      BY Zenon, <1>4, <3>1
    <3> HIDE DEF pages
    <3>3. \A i \in 1..n : pages[i] \in Lines /\ InLines(pages[i]) = PageTokens(f.pages[i])
      BY <1>6, <3>2, VisibleFacts
    <3>4. pages \in Seq(Lines)
      <4>1. pages \in [1..n -> Lines]
        BY <3>2, <3>3
      <4> QED BY <1>2, <4>1
    <3> QED BY <2>2, <3>2, <3>3, <3>4
  <2> QED BY <2>1, <2>2
<1> HIDE DEF pages, texts, docs
<1>8. IsDocs(docs) /\ DocsHold(docs) = UNION {InLines(pages[i]) : i \in DOMAIN pages}
      /\ docs[1].type = "pages" /\ docs[1].pages = pages
  BY <1>5, <1>7, PagesDocument
<1>9. DocTokens(f) \subseteq DocsHold(docs)
  <2>1. CASE f.encrypted
    BY <2>1 DEF DocTokens
  <2>2. CASE ~f.encrypted
    <3>1. DocTokens(f) = UNION {PageTokens(p) : p \in ToSet(f.pages)}
      BY <2>2 DEF DocTokens
    <3>2. ToSet(f.pages) = {f.pages[i] : i \in 1..n}
      BY <1>1, Members DEF n
    <3>3. DocTokens(f) = UNION {PageTokens(f.pages[i]) : i \in 1..n}
      BY Zenon, <3>1, <3>2
    <3>4. DocsHold(docs) = UNION {PageTokens(f.pages[i]) : i \in 1..n}
      BY Zenon, <1>7, <1>8, <2>2
    <3> QED BY <3>3, <3>4
  <2> QED BY <2>1, <2>2
<1> QED BY <1>2, <1>7, <1>8, <1>9 DEF Holds, ReadDocs, docs

\* A slide holds its texts.
LEMMA PptxFacts ==
  ASSUME NEW f, IsDocument(f), ~Unreadable(f), FormatOf(f) = ".pptx"
  PROVE  Holds(f, ExtractPptx(f))
<1> DEFINE n == Len(f.slides)
           pages == [i \in DOMAIN f.slides |-> NotBlank(f.slides[i])]
           docs == ExtractPptx(f)
<1>1. f.slides \in Seq(Lines)
  BY DEF IsDocument
<1>2. n \in Nat /\ DOMAIN f.slides = 1..n /\ \A i \in 1..n : f.slides[i] \in Lines
  BY <1>1
<1>3. ToSet(f.slides) = {f.slides[i] : i \in 1..n}
  BY <1>1, Members
<1> HIDE DEF n
<1>4. docs = <<Parsed("pages", <<>>, pages, <<>>)>>
  BY Zenon DEF ExtractPptx
<1>5. DOMAIN pages = 1..n /\ pages = [i \in 1..n |-> pages[i]] /\ \A i \in 1..n : pages[i] = NotBlank(f.slides[i])
  BY Zenon, <1>2
<1> HIDE DEF pages, docs
<1>6. \A i \in 1..n : pages[i] \in Lines /\ InLines(pages[i]) = InLines(f.slides[i])
  BY <1>2, <1>5, NotBlankFacts
<1>7. pages \in Seq(Lines)
  <2>1. pages \in [1..n -> Lines]
    BY <1>5, <1>6
  <2> QED BY <1>2, <2>1
<1>8. IsDocs(docs) /\ DocsHold(docs) = UNION {InLines(pages[i]) : i \in DOMAIN pages}
  BY <1>4, <1>7, PagesDocument
<1>9. DocTokens(f) = DocsHold(docs)
  <2>1. DocTokens(f) = UNION {InLines(slide) : slide \in ToSet(f.slides)}
    BY DEF DocTokens
  <2>2. DocTokens(f) = UNION {InLines(f.slides[i]) : i \in 1..n}
    BY Zenon, <1>3, <2>1
  <2>3. DocsHold(docs) = UNION {InLines(f.slides[i]) : i \in 1..n}
    BY Zenon, <1>5, <1>6, <1>8
  <2> QED BY Zenon, <2>2, <2>3
<1> QED BY <1>8, <1>9 DEF Holds, ReadDocs, docs

\* A sequence is its last element behind the others.
LEMMA FrontAndLast ==
  ASSUME NEW S, NEW s \in Seq(S), s # <<>>
  PROVE  Front(s) \in Seq(S) /\ Last(s) \in S /\ s = Append(Front(s), Last(s))
<1> DEFINE n == Len(s)
           a == SubSeq(s, 1, n - 1)
<1>1. n \in Nat \ {0} /\ n \in 1..n /\ 1 \in 1..n /\ s[n] \in S /\ \A i \in 1..(n - 1) : s[i] \in S
  OBVIOUS
<1>2. a \in Seq(S)
  BY <1>1, SubSeqProperties
<1>3. s = a \o <<s[n]>>
  <2>1. SubSeq(s, 1, n) = SubSeq(s, 1, n - 1) \o <<s[n]>>
    BY <1>1, SubSeqRecursiveSecond
  <2> QED BY <2>1, SubSeqFull
<1>4. Front(s) = a /\ Last(s) = s[n]
  BY DEF Front, Last
<1> HIDE DEF a, n
<1>5. a \o <<s[n]>> = Append(a, s[n])
  BY <1>1, <1>2
<1> QED BY <1>1, <1>2, <1>3, <1>4, <1>5

\* What sections hold together.
InAll(ss) == UNION {InLines(ss[i]) : i \in DOMAIN ss}

\* Sections behind sections.
LEMMA SectionsAppended ==
  ASSUME NEW s \in Seq(Lines), NEW t \in Seq(Lines)
  PROVE  s \o t \in Seq(Lines) /\ InAll(s \o t) = InAll(s) \cup InAll(t)
<1>1. \A r \in Seq(Lines) : InAll(r) = UNION {InLines(x) : x \in ToSet(r)}
  <2>1. SUFFICES ASSUME NEW r \in Seq(Lines) PROVE InAll(r) = UNION {InLines(x) : x \in ToSet(r)}
    OBVIOUS
  <2>2. ToSet(r) = {r[i] : i \in DOMAIN r}
    BY Zenon DEF ToSet
  <2> QED BY Zenon, <2>2 DEF InAll
<1>2. s \o t \in Seq(Lines)
  BY ConcatProperties
<1>3. ToSet(s \o t) = ToSet(s) \cup ToSet(t)
  BY Appended
<1> DEFINE st == s \o t
<1> HIDE DEF st
<1>4. InAll(st) = UNION {InLines(x) : x \in ToSet(s) \cup ToSet(t)}
  BY Zenon, <1>1, <1>2, <1>3 DEF st
<1>5. UNION {InLines(x) : x \in ToSet(s) \cup ToSet(t)} =
        (UNION {InLines(x) : x \in ToSet(s)}) \cup UNION {InLines(x) : x \in ToSet(t)}
  OBVIOUS
<1>6. InAll(st) = InAll(s) \cup InAll(t)
  BY Zenon, <1>1, <1>4, <1>5
<1> QED BY <1>2, <1>6 DEF st

\* Of no section, and of one.
LEMMA FewSections == InAll(<<>>) = {} /\ \A lines \in Lines : <<lines>> \in Seq(Lines) /\ InAll(<<lines>>) = InLines(lines)
<1>1. InAll(<<>>) = {}
  <2>1. DOMAIN <<>> = {}
    OBVIOUS
  <2> QED BY Zenon, <2>1 DEF InAll
<1>2. ASSUME NEW lines \in Lines PROVE <<lines>> \in Seq(Lines) /\ InAll(<<lines>>) = InLines(lines)
  <2>1. <<lines>> \in Seq(Lines) /\ DOMAIN <<lines>> = {1} /\ <<lines>>[1] = lines
    OBVIOUS
  <2>2. InAll(<<lines>>) = UNION {InLines(lines) : i \in {1}}
    BY Zenon, <2>1 DEF InAll
  <2> QED BY <2>1, <2>2
<1> QED BY <1>1, <1>2

\* A paragraph adds its tokens.
LEMMA AddParagraphFacts ==
  ASSUME NEW ss \in Seq(Lines), ss # <<>>, NEW p, p.text \in Text
  PROVE  LET r == AddParagraph(ss, p) IN
         r \in Seq(Lines) /\ r # <<>> /\ InAll(r) = InAll(ss) \cup Visible(p.text)
<1> DEFINE r == AddParagraph(ss, p)
           a == Front(ss)
           b == Last(ss)
           more == Append(b, p.text)
<1>1. a \in Seq(Lines) /\ b \in Lines /\ ss = Append(a, b)
  BY FrontAndLast
<1>2. \A s \in Seq(Lines) : \A x \in Lines :
        Append(s, x) \in Seq(Lines) /\ Append(s, x) # <<>> /\ InAll(Append(s, x)) = InAll(s) \cup InLines(x)
  <2>1. SUFFICES ASSUME NEW s \in Seq(Lines), NEW x \in Lines
                 PROVE  Append(s, x) \in Seq(Lines) /\ Append(s, x) # <<>> /\ InAll(Append(s, x)) = InAll(s) \cup InLines(x)
    OBVIOUS
  <2>2. Append(s, x) = s \o <<x>> /\ Append(s, x) # <<>> /\ Append(s, x) \in Seq(Lines)
    OBVIOUS
  <2>3. <<x>> \in Seq(Lines) /\ InAll(<<x>>) = InLines(x)
    BY FewSections
  <2> QED BY <2>2, <2>3, SectionsAppended
<1>3. CASE Blank(p.text)
  BY <1>3 DEF AddParagraph, Blank
<1>4. CASE ~Blank(p.text) /\ p.heading /\ b # <<>>
  <2>1. r = Append(ss, <<p.text>>)
    BY <1>4 DEF AddParagraph
  <2>2. <<p.text>> \in Lines /\ InLines(<<p.text>>) = Visible(p.text)
    BY VisibleFacts
  <2> HIDE DEF r, b, a
  <2> QED BY <1>2, <2>1, <2>2 DEF r
<1>5. CASE ~Blank(p.text) /\ ~(p.heading /\ b # <<>>)
  <2>1. r = Append(a, more)
    BY <1>5 DEF AddParagraph
  <2> HIDE DEF r, b, a
  <2>2. more \in Lines /\ InLines(more) = InLines(b) \cup Visible(p.text)
    BY <1>1, LineAdded
  <2> HIDE DEF more
  <2>3. r \in Seq(Lines) /\ r # <<>> /\ InAll(r) = InAll(a) \cup InLines(more)
    BY <1>1, <1>2, <2>1, <2>2
  <2>4. InAll(ss) = InAll(a) \cup InLines(b)
    BY <1>1, <1>2
  <2>5. r \in Seq(Lines) /\ r # <<>> /\ InAll(r) = InAll(ss) \cup Visible(p.text)
    BY <2>2, <2>3, <2>4
  <2> QED BY <2>5 DEF r
<1> QED BY <1>3, <1>4, <1>5

Paragraphs == Seq([heading : BOOLEAN, text : Text])

\* Sections hold all of the paragraphs.
LEMMA SectionsOfFacts ==
  ASSUME NEW ps \in Paragraphs
  PROVE  SectionsOf(ps) \in Seq(Lines) /\ InAll(SectionsOf(ps)) = UNION {Visible(p.text) : p \in ToSet(ps)}
<1> DEFINE N == Len(ps)
           S == Seq(Lines) \ {<<>>}
           start == << <<>> >>
           T == [i \in 0..N |-> {ss \in S : InAll(ss) = UNION {Visible(ps[k].text) : k \in 1..i}}]
           G == [i \in 1..N |-> [ss \in S |-> AddParagraph(ss, ps[i])]]
<1>1. N \in Nat /\ DOMAIN ps = 1..N /\ \A i \in 1..N : ps[i].text \in Text /\ i - 1 \in 0..N /\ i \in 0..N
  <2> DEFINE P == [heading : BOOLEAN, text : Text]
  <2>1. \A p \in P : p.text \in Text
    OBVIOUS
  <2>2. ps \in Seq(P)
    BY DEF Paragraphs
  <2> HIDE DEF P
  <2> QED BY <2>1, <2>2
<1>13. ToSet(ps) = {ps[k] : k \in 1..N}
  BY Zenon, <1>1 DEF ToSet
<1> HIDE DEF N
<1>2. \A i \in 0..N : T[i] = {ss \in S : InAll(ss) = UNION {Visible(ps[k].text) : k \in 1..i}}
  BY Zenon
<1>3. \A i \in 1..N : \A ss \in S : G[i][ss] = AddParagraph(ss, ps[i])
  BY Zenon
<1> HIDE DEF T, G
<1>4. start \in T[0]
  <2>1. start \in S /\ InAll(start) = {}
    <3>1. start \in Seq(Lines) /\ InAll(start) = InLines(<<>>)
      BY FewSections, VisibleFacts
    <3>2. start # <<>>
      OBVIOUS
    <3> QED BY <3>1, <3>2, VisibleFacts
  <2>2. UNION {Visible(ps[k].text) : k \in 1..0} = {} /\ 0 \in 0..N
    <3>1. (1..0) = {} /\ 0 \in 0..N
      BY <1>1
    <3> QED BY Zenon, <3>1
  <2> HIDE DEF start, S
  <2> QED BY <1>2, <2>1, <2>2
<1>5. ASSUME NEW i \in 1..N, NEW ss \in T[i - 1] PROVE AddParagraph(ss, ps[i]) \in T[i]
  <2>1. ss \in S /\ InAll(ss) = UNION {Visible(ps[k].text) : k \in 1..(i - 1)}
    BY <1>1, <1>2
  <2> DEFINE r == AddParagraph(ss, ps[i])
  <2>2. r \in S /\ InAll(r) = InAll(ss) \cup Visible(ps[i].text)
    <3>1. ss \in Seq(Lines) /\ ss # <<>> /\ ps[i].text \in Text
      BY <1>1, <2>1
    <3>2. r \in Seq(Lines) /\ r # <<>> /\ InAll(r) = InAll(ss) \cup Visible(ps[i].text)
      BY <3>1, AddParagraphFacts
    <3> QED BY <3>2
  <2> HIDE DEF r, S
  <2>3. (1..i) = (1..(i - 1)) \cup {i}
    BY <1>1
  <2>4. UNION {Visible(ps[k].text) : k \in 1..i} = (UNION {Visible(ps[k].text) : k \in 1..(i - 1)}) \cup Visible(ps[i].text)
    BY Zenon, <2>3
  <2>5. r \in T[i]
    BY <1>1, <1>2, <2>1, <2>2, <2>4
  <2> QED BY <2>5 DEF r
<1> HIDE DEF S
<1>6. Leads(N, start, G, T)
  <2>1. ASSUME NEW i \in 1..N, NEW acc \in T[i - 1] PROVE G[i][acc] \in T[i]
    <3>1. acc \in S
      BY <1>1, <1>2
    <3> QED BY <1>3, <1>5, <3>1
  <2> QED BY Zenon, <1>4, <2>1 DEF Leads
<1>7. PICK f : Run(N, start, G, T, f)
  BY <1>1, <1>6, LoopRuns
<1>8. f = [n \in 0..N |-> IF n = 0 THEN start ELSE AddParagraph(f[n - 1], ps[n])]
  <2> DEFINE h == [n \in 0..N |-> IF n = 0 THEN start ELSE AddParagraph(f[n - 1], ps[n])]
  <2>1. \A n \in 0..N : n # 0 => n \in 1..N
    BY <1>1
  <2>2. \A n \in 1..N : f[n - 1] \in S
    BY <1>1, <1>2, <1>7 DEF Run
  <2>3. \A n \in 0..N : f[n] = IF n = 0 THEN start ELSE AddParagraph(f[n - 1], ps[n])
    BY Zenon, <1>3, <1>7, <2>1, <2>2 DEF Run
  <2>4. \A n \in 0..N : f[n] = h[n]
    BY Zenon, <2>3
  <2>5. f = [n \in 0..N |-> f[n]] /\ h = [n \in 0..N |-> h[n]]
    BY Zenon, <1>7 DEF Run
  <2> HIDE DEF h
  <2>6. f = h
    BY <2>4, <2>5
  <2> QED BY Zenon, <2>6 DEF h
<1>9. \E g : /\ g = [n \in 0..N |-> IF n = 0 THEN start ELSE AddParagraph(g[n - 1], ps[n])]
             /\ SectionsOf(ps) = g[N]
  BY Zenon, <1>8 DEF SectionsOf, N
<1>10. PICK g : /\ g = [n \in 0..N |-> IF n = 0 THEN start ELSE AddParagraph(g[n - 1], ps[n])]
                /\ SectionsOf(ps) = g[N]
  BY Zenon, <1>9
<1>11. \A n \in 0..N : g[n] \in T[n]
  <2>1. \A n \in 0..N : g[n] = IF n = 0 THEN start ELSE AddParagraph(g[n - 1], ps[n])
    BY Zenon, <1>10
  <2>2. 0 \in 0..N /\ \A n \in 1..N : n # 0 /\ n \in 0..N
    BY <1>1
  <2>3. g[0] = start /\ \A n \in 1..N : g[n] = AddParagraph(g[n - 1], ps[n])
    BY Zenon, <2>1, <2>2
  <2> HIDE DEF start
  <2>4. g[0] \in T[0] /\ \A n \in 1..N : g[n - 1] \in T[n - 1] => g[n] \in T[n]
    BY Zenon, <1>4, <1>5, <2>3
  <2> QED BY <1>1, <2>4, LoopKeeps
<1>12. N \in 0..N /\ UNION {Visible(p.text) : p \in ToSet(ps)} = UNION {Visible(ps[k].text) : k \in 1..N}
  <2>1. N \in 0..N
    BY <1>1
  <2> QED BY Zenon, <1>13, <2>1
<1>14. SectionsOf(ps) \in S /\ InAll(SectionsOf(ps)) = UNION {Visible(p.text) : p \in ToSet(ps)}
  <2> HIDE DEF start
  <2>1. g[N] \in T[N]
    BY <1>11, <1>12
  <2>2. g[N] \in S /\ InAll(g[N]) = UNION {Visible(ps[k].text) : k \in 1..N}
    BY <1>2, <1>12, <2>1
  <2> QED BY Zenon, <1>10, <1>12, <2>2
<1> QED BY <1>14 DEF S

\* Sections and tables hold the paragraphs and the tables.
LEMMA DocxFacts ==
  ASSUME NEW f, IsDocument(f), ~Unreadable(f), FormatOf(f) = ".docx"
  PROVE  Holds(f, ExtractDocx(f)) /\ ExtractDocx(f)[1].type = "docx"
<1> DEFINE ss == SectionsOf(f.paragraphs)
           tables == NotBlank(f.tables)
           P == {i \in DOMAIN ss : ss[i] # <<>>}
           a == Those(ss, P)
           b == IF tables = <<>> THEN <<>> ELSE <<tables>>
           docs == ExtractDocx(f)
<1>1. f.paragraphs \in Paragraphs /\ f.tables \in Lines
  BY DEF IsDocument, Paragraphs
<1>2. docs = <<Parsed("docx", <<>>, a \o b, <<>>)>>
  BY Zenon DEF ExtractDocx
<1>3. ss \in Seq(Lines) /\ InAll(ss) = UNION {Visible(p.text) : p \in ToSet(f.paragraphs)}
  BY <1>1, SectionsOfFacts
<1>4. tables \in Lines /\ InLines(tables) = InLines(f.tables)
  BY <1>1, NotBlankFacts
<1> HIDE DEF ss, tables, docs
<1>5. a \in Seq(Lines) /\ InAll(a) = InAll(ss)
  <2>1. a \in Seq(Lines) /\ ToSet(a) = {ss[i] : i \in P \cap DOMAIN ss}
    BY <1>3, ThoseFacts
  <2> HIDE DEF a
  <2>2. \A i \in DOMAIN ss : i \in P \/ InLines(ss[i]) = {}
    BY VisibleFacts
  <2>3. P \subseteq DOMAIN ss
    OBVIOUS
  <2> HIDE DEF P
  <2>4. ToSet(a) = {a[i] : i \in DOMAIN a}
    BY Zenon DEF ToSet
  <2>5. InAll(a) = UNION {InLines(x) : x \in ToSet(a)}
    BY Zenon, <2>4 DEF InAll
  <2>6. InAll(a) = UNION {InLines(x) : x \in {ss[i] : i \in P \cap DOMAIN ss}}
    BY Zenon, <2>1, <2>5
  <2>7. UNION {InLines(x) : x \in {ss[i] : i \in P \cap DOMAIN ss}} = UNION {InLines(ss[i]) : i \in P \cap DOMAIN ss}
    BY Zenon
  <2>8. UNION {InLines(ss[i]) : i \in P \cap DOMAIN ss} = UNION {InLines(ss[i]) : i \in DOMAIN ss}
    BY <2>2
  <2>9. InAll(a) = InAll(ss)
    BY Zenon, <2>6, <2>7, <2>8 DEF InAll
  <2> QED BY <2>1, <2>9
<1>6. b \in Seq(Lines) /\ InAll(b) = InLines(tables)
  <2>1. CASE tables = <<>>
    <3>1. b = <<>> /\ <<>> \in Seq(Lines)
      BY <2>1
    <3> HIDE DEF b
    <3> QED BY <2>1, <3>1, FewSections, VisibleFacts
  <2>2. CASE tables # <<>>
    <3>1. b = <<tables>>
      BY <2>2
    <3> HIDE DEF b
    <3> QED BY <1>4, <3>1, FewSections
  <2> QED BY <2>1, <2>2
<1> DEFINE pages == a \o b
<1> HIDE DEF a, b
<1>7. pages \in Seq(Lines) /\ InAll(pages) = InAll(a) \cup InAll(b)
  BY <1>5, <1>6, SectionsAppended
<1>8. docs = <<Parsed("docx", <<>>, pages, <<>>)>>
  BY <1>2
<1> HIDE DEF pages
<1>9. IsDocs(docs) /\ DocsHold(docs) = InAll(pages) /\ docs[1].type = "docx"
  BY <1>7, <1>8, PagesDocument DEF InAll
<1>10. DocTokens(f) = (UNION {Visible(p.text) : p \in ToSet(f.paragraphs)}) \cup InLines(f.tables)
  BY DEF DocTokens
<1>11. DocTokens(f) = DocsHold(docs)
  BY Zenon, <1>3, <1>4, <1>5, <1>6, <1>7, <1>9, <1>10
<1> QED BY <1>9, <1>11 DEF Holds, ReadDocs, docs

\* A text is what it is.
LEMMA TextFacts ==
  ASSUME NEW f, IsDocument(f), ~Unreadable(f), FormatOf(f) \in {".txt", ".html"}
  PROVE  Holds(f, ExtractText(f)) /\ ExtractText(f)[1].type = "text"
<1>1. f.lines \in Lines
  BY DEF IsDocument
<1>2. DocTokens(f) = InLines(f.lines)
  BY DEF DocTokens
<1> DEFINE docs == ExtractText(f)
<1>3. docs = <<Parsed("text", f.lines, <<>>, <<>>)>>
  BY Zenon DEF ExtractText
<1>4. docs[1].type = "text"
  BY <1>3 DEF Parsed
<1> HIDE DEF docs
<1>5. IsDocs(docs) /\ DocsHold(docs) = InLines(f.lines)
  BY <1>1, <1>3, TextDocument
<1> QED BY <1>2, <1>4, <1>5 DEF Holds, ReadDocs, docs

\* A mail in its parts.
IsMime(msg) == IsList(msg) /\ \A part \in ToSet(msg) : part.text \in Text

\* The body of a mail is text.
LEMMA EmlBodyType ==
  ASSUME NEW msg, IsMime(msg)
  PROVE  EmlBody(msg) \in Lines
<1>1. ASSUME NEW type PROVE BodyParts(msg, type) \in Lines
  <2> DEFINE parts == Walk(msg)
             P == {i \in DOMAIN parts : parts[i].type = type /\ ~parts[i].attached /\ ~parts[i].fails}
             found == Those(parts, P)
             n == Len(found)
             lines == [i \in DOMAIN found |-> found[i].text]
  <2>1. BodyParts(msg, type) = lines
    BY Zenon DEF BodyParts
  <2>2. IsList(parts) /\ ToSet(parts) \subseteq ToSet(msg)
    <3>1. Len(msg) \in Nat /\ DOMAIN msg = 1..Len(msg) /\ ToSet(msg) = {msg[i] : i \in 1..Len(msg)}
      BY ListFacts DEF IsMime
    <3>2. PICK Q : parts = Those(msg, Q)
      BY Zenon DEF Walk
    <3> HIDE DEF parts
    <3>3. IsList(parts) /\ ToSet(parts) = {msg[i] : i \in Q \cap DOMAIN msg}
      BY <3>2, ThoseLists DEF IsMime
    <3> QED BY <3>1, <3>3
  <2> HIDE DEF parts, P
  <2>3. IsList(found) /\ ToSet(found) = {parts[i] : i \in P \cap DOMAIN parts}
    BY <2>2, ThoseLists
  <2>4. ToSet(found) \subseteq ToSet(parts)
    <3>1. Len(parts) \in Nat /\ DOMAIN parts = 1..Len(parts) /\ ToSet(parts) = {parts[i] : i \in 1..Len(parts)}
      BY <2>2, ListFacts
    <3> HIDE DEF found
    <3> QED BY <2>3, <3>1
  <2> HIDE DEF found
  <2>5. n \in Nat /\ DOMAIN found = 1..n /\ ToSet(found) = {found[i] : i \in 1..n}
    BY <2>3, ListFacts
  <2>6. \A i \in 1..n : found[i].text \in Text
    BY <2>2, <2>4, <2>5 DEF IsMime
  <2> HIDE DEF n
  <2>7. lines \in [1..n -> Text]
    BY <2>5, <2>6
  <2> HIDE DEF lines
  <2>8. lines \in Seq(Text)
    BY <2>5, <2>7
  <2> QED BY <2>1, <2>8 DEF Lines
<1> QED BY <1>1 DEF EmlBody

\* So is the body of a message.
LEMMA BodyOrHtmlFacts ==
  ASSUME NEW m, m.body \in Lines, m.html \in Lines
  PROVE  /\ BodyOrHtml(m) \in Lines
         /\ InLines(BodyOrHtml(m)) = InLines(IF InLines(m.body) = {} THEN m.html ELSE m.body)
<1>1. Blank(Join(m.body)) <=> InLines(m.body) = {}
  BY JoinFacts
<1> QED BY <1>1 DEF BodyOrHtml

\* And the body of a message that pypff reads.
LEMMA PypffBodyFacts ==
  ASSUME NEW m, m.body \in Lines, m.html \in Lines
  PROVE  /\ PypffBody(m) \in Lines
         /\ InLines(PypffBody(m)) = InLines(IF Join(m.body) = <<>> THEN m.html ELSE m.body)
         /\ Join(m.body) = <<>> => InLines(m.body) = {}
<1>1. Visible(Join(m.body)) = InLines(m.body)
  BY JoinFacts
<1>2. Visible(<<>>) = {}
  BY DEF Visible, ToSet
<1> QED BY Zenon, <1>1, <1>2 DEF PypffBody

\* An attached mail is a text under its headers.
LEMMA AttachedMailFacts ==
  ASSUME NEW f, IsDocument(f), ~Unreadable(f), FormatOf(f) \in {".eml", ".msg"}
  PROVE  Holds(f, AttachedDocument(f))
<1>1. ASSUME NEW body \in Lines, NEW docs, docs = <<Parsed("text", << <<HeaderLine>> >> \o body, <<>>, <<>>)>>
      PROVE  IsDocs(docs) /\ InLines(body) \subseteq DocsHold(docs)
  <2> DEFINE top == << <<HeaderLine>> >>
             all == top \o body
  <2>1. top \in Lines
    <3>1. <<HeaderLine>> \in Text
      <4>1. HeaderLine \in Token
        BY VisibleFacts
      <4> QED BY <4>1 DEF Text
    <3> QED BY <3>1, VisibleFacts
  <2> HIDE DEF top
  <2>2. all \in Lines /\ InLines(all) = InLines(top) \cup InLines(body)
    BY <2>1, LinesAppended
  <2>3. docs = <<Parsed("text", all, <<>>, <<>>)>>
    BY <1>1 DEF top
  <2> HIDE DEF all
  <2>4. IsDocs(docs) /\ DocsHold(docs) = InLines(all)
    BY <2>2, <2>3, TextDocument
  <2> QED BY <2>2, <2>4
<1> DEFINE docs == AttachedDocument(f)
<1>2. CASE FormatOf(f) = ".eml"
  <2> DEFINE body == EmlBody(f.msg)
  <2>1. f.msg \in Seq(ToSet(f.msg)) /\ \A part \in ToSet(f.msg) : part.text \in Text
    BY <1>2 DEF IsDocument
  <2>2. body \in Lines
    BY <2>1, EmlBodyType DEF IsMime, IsList
  <2>3. docs = <<Parsed("text", << <<HeaderLine>> >> \o body, <<>>, <<>>)>>
    BY <1>2 DEF AttachedDocument
  <2>4. DocTokens(f) = InLines(body)
    BY <1>2 DEF DocTokens
  <2> HIDE DEF docs, body
  <2>5. IsDocs(docs) /\ InLines(body) \subseteq DocsHold(docs)
    BY <1>1, <2>2, <2>3
  <2> QED BY <2>4, <2>5 DEF Holds, ReadDocs, docs
<1>3. CASE FormatOf(f) = ".msg"
  <2> DEFINE body == BodyOrHtml(f)
  <2>1. f.body \in Lines /\ f.html \in Lines
    BY <1>3 DEF IsDocument
  <2>2. body \in Lines /\ InLines(body) = InLines(IF InLines(f.body) = {} THEN f.html ELSE f.body)
    BY <2>1, BodyOrHtmlFacts
  <2>3. docs = <<Parsed("text", << <<HeaderLine>> >> \o body, <<>>, <<>>)>>
    BY <1>3 DEF AttachedDocument
  <2>4. DocTokens(f) = InLines(IF InLines(f.body) = {} THEN f.html ELSE f.body)
    BY <1>3 DEF DocTokens
  <2> HIDE DEF docs, body
  <2>5. IsDocs(docs) /\ InLines(body) \subseteq DocsHold(docs)
    BY <1>1, <2>2, <2>3
  <2> QED BY <2>2, <2>4, <2>5 DEF Holds, ReadDocs, docs
<1> QED BY <1>2, <1>3

\* Sequences of one element each make the sequence of their elements.
LEMMA Singletons ==
  ASSUME NEW S, NEW s \in Seq(S), NEW ss, ss = [k \in DOMAIN s |-> <<s[k]>>]
  PROVE  FlattenSeq(ss) = s
<1> DEFINE n == Len(s)
           T == [i \in 0..n |-> {t \in Seq(S) : Len(t) = i /\ \A k \in 1..i : t[k] = s[k]}]
<1>1. n \in Nat /\ DOMAIN s = 1..n /\ \A i \in 1..n : s[i] \in S /\ i - 1 \in 0..n /\ i \in 0..n /\ i \in Nat
  OBVIOUS
<1>2. \A i \in 1..n : ss[i] = <<s[i]>> /\ <<s[i]>> \in Seq(S)
  BY <1>1
<1>3. \A i \in 0..n : T[i] = {t \in Seq(S) : Len(t) = i /\ \A k \in 1..i : t[k] = s[k]}
  BY Zenon
<1> HIDE DEF n, T
<1>4. ss \in [1..n -> Seq(S)]
  BY <1>1, <1>2
<1>5. ss \in Seq(Seq(S)) /\ Len(ss) = n
  BY <1>1, <1>4
<1>6. PICK f \in [0..n -> Seq(S)] :
        f[0] = <<>> /\ (\A i \in 1..n : f[i] = f[i - 1] \o ss[i]) /\ FlattenSeq(ss) = f[n]
  BY <1>5, Flattened
<1>7. f[0] \in T[0]
  <2>1. 0 \in 0..n /\ <<>> \in Seq(S) /\ Len(<<>>) = 0 /\ 1..0 = {}
    BY <1>1
  <2> QED BY <1>3, <1>6, <2>1
<1>8. ASSUME NEW i \in 1..n, f[i - 1] \in T[i - 1] PROVE f[i] \in T[i]
  <2> DEFINE t == f[i - 1]
  <2>1. t \in Seq(S) /\ Len(t) = i - 1 /\ \A k \in 1..(i - 1) : t[k] = s[k]
    BY <1>1, <1>3, <1>8
  <2>2. f[i] = t \o <<s[i]>> /\ s[i] \in S /\ i \in Nat
    BY Zenon, <1>1, <1>2, <1>6
  <2> HIDE DEF t
  <2>3. f[i] \in Seq(S) /\ Len(f[i]) = i /\ \A k \in 1..i : f[i][k] = s[k]
    BY <2>1, <2>2
  <2> QED BY <1>1, <1>3, <2>3
<1>9. \A i \in 0..n : f[i] \in T[i]
  BY <1>1, <1>7, <1>8, LoopKeeps
<1>10. f[n] \in Seq(S) /\ Len(f[n]) = n /\ \A k \in 1..n : f[n][k] = s[k]
  <2>1. n \in 0..n
    BY <1>1
  <2>2. f[n] \in T[n] /\ T[n] = {t \in Seq(S) : Len(t) = n /\ \A k \in 1..n : t[k] = s[k]}
    BY Zenon, <1>3, <1>9, <2>1
  <2> QED BY <2>2
<1>11. f[n] = s
  BY <1>1, <1>10 DEF n
<1> QED BY <1>6, <1>11

----------------------------------------------------------------------------
(* Sheets as they are parsed. *)

IncreasingTo(numbers, m) ==
  numbers \in Seq(1..m) /\ \A j, k \in 1..Len(numbers) : j < k => numbers[j] < numbers[k]

\* The rows that hold something, in their order.
LEMMA RowsKeptFacts ==
  ASSUME NEW rows \in Seq(Lines)
  PROVE  /\ IncreasingTo(RowsKept(rows), Len(rows))
         /\ ToSet(RowsKept(rows)) = {i \in 1..Len(rows) : InLines(rows[i]) # {}}
<1> DEFINE n == Len(rows)
           s == [i \in 1..n |-> i]
           P == {i \in 1..n : ~Blank(Join(rows[i]))}
           numbers == RowsKept(rows)
<1>1. n \in Nat /\ DOMAIN rows = 1..n /\ \A i \in 1..n : rows[i] \in Lines
  OBVIOUS
<1>2. numbers = Those(s, P)
  BY Zenon, <1>1 DEF RowsKept
<1>3. P = {i \in 1..n : InLines(rows[i]) # {}} /\ P \subseteq 1..n
  <2>1. \A i \in 1..n : Blank(Join(rows[i])) <=> InLines(rows[i]) = {}
    BY <1>1, JoinFacts
  <2> QED BY <2>1
<1>4. \A i \in 1..n : s[i] = i
  BY Zenon
<1>5. s \in Seq(1..n) /\ Len(s) = n
  BY <1>1
<1> HIDE DEF n, s, P, numbers
<1>6. PICK at \in Seq(1..n) :
        /\ numbers \in Seq(1..n) /\ Len(numbers) = Len(at)
        /\ \A k \in 1..Len(at) : numbers[k] = s[at[k]]
        /\ \A k \in 1..(Len(at) - 1) : at[k] < at[k + 1]
        /\ ToSet(at) = P \cap 1..n
  <2>1. \E at \in Seq(1..Len(s)) :
           /\ Those(s, P) \in Seq(1..n)
           /\ Len(Those(s, P)) = Len(at)
           /\ \A k \in 1..Len(at) : Those(s, P)[k] = s[at[k]]
           /\ \A k \in 1..(Len(at) - 1) : at[k] < at[k + 1]
           /\ ToSet(at) = P \cap 1..Len(s)
    BY Zenon, <1>5, ThoseInOrder
  <2> QED BY Zenon, <2>1, <1>2, <1>5
<1>7. \A k \in 1..Len(at) : at[k] \in 1..n /\ numbers[k] = at[k]
  <2>1. \A k \in 1..Len(at) : at[k] \in 1..n
    BY ElementOfSeq
  <2> QED BY Zenon, <1>4, <1>6, <2>1
<1>8. numbers = at
  BY <1>6, <1>7
<1>9. at \in Seq(Int)
  BY <1>6, <1>1
<1>10. \A j, k \in 1..Len(at) : j < k => at[j] < at[k]
  BY <1>6, <1>9, Increasing
<1> QED BY <1>3, <1>6, <1>8, <1>10 DEF IncreasingTo, n, numbers

\* The lines of a sheet are those of its numbered rows.
LEMMA ExtractSheetType ==
  ASSUME NEW rows \in Seq(Lines), NEW start \in Nat \ {0}
  PROVE  LET sheet == ExtractSheet(rows, start) IN
         sheet.content \in Lines /\ sheet.numbers \in Seq(Nat) /\ sheet.type = "sheet"
<1> DEFINE kept == RowsKept(rows)
           numbers == RowNumbers(kept, start)
           ss == [k \in DOMAIN kept |-> rows[kept[k]]]
<1>1. ExtractSheet(rows, start) = Parsed("sheet", FlattenSeq(ss), <<>>, numbers)
  BY Zenon DEF ExtractSheet
<1>2. kept \in Seq(1..Len(rows)) /\ Len(rows) \in Nat
  BY RowsKeptFacts DEF IncreasingTo
<1> HIDE DEF kept
<1>3. Len(kept) \in Nat /\ DOMAIN kept = 1..Len(kept)
      /\ \A k \in 1..Len(kept) : rows[kept[k]] \in Lines /\ kept[k] + start - 1 \in Nat
  BY <1>2
<1>4. ss \in [1..Len(kept) -> Lines] /\ numbers \in [1..Len(kept) -> Nat]
  BY <1>3 DEF RowNumbers
<1> HIDE DEF ss, numbers
<1>5. ss \in Seq(Seq(Text))
  <2>1. ss \in [1..Len(kept) -> Seq(Text)] /\ Len(kept) \in Nat
    BY Zenon, <1>3, <1>4 DEF Lines
  <2> QED BY <2>1
<1>6. FlattenSeq(ss) \in Lines
  BY <1>5, FlattenFacts DEF Lines
<1>7. numbers \in Seq(Nat)
  BY <1>3, <1>4
<1> QED BY <1>1, <1>6, <1>7 DEF Parsed

PairsOf(rows, start) ==
  [k \in DOMAIN RowsKept(rows) |-> [row |-> rows[RowsKept(rows)[k]][1], no |-> RowsKept(rows)[k] + start - 1]]

\* In a sheet of short rows, each of them of one line, the lines and the numbers of the rows go together.
LEMMA PlainPairs ==
  ASSUME NEW rows \in Seq(Lines), Plain(rows), NEW start \in Nat \ {0}, NEW sheet, sheet = ExtractSheet(rows, start)
  PROVE  /\ NumberedRows(sheet.content, sheet.numbers) = PairsOf(rows, start)
         /\ PairsOf(rows, start) \in Seq(Pair) /\ Len(PairsOf(rows, start)) = Len(RowsKept(rows))
         /\ \A k \in 1..Len(RowsKept(rows)) :
              /\ PairsOf(rows, start)[k].no = RowsKept(rows)[k] + start - 1
              /\ Visible(PairsOf(rows, start)[k].row) = InLines(rows[RowsKept(rows)[k]])
              /\ Len(PairsOf(rows, start)[k].row) <= Budget
<1> DEFINE numbers == RowsKept(rows)
           n == Len(numbers)
           lines == [k \in 1..n |-> rows[numbers[k]][1]]
           ss == [k \in DOMAIN numbers |-> rows[numbers[k]]]
           cited == RowNumbers(numbers, start)
           pairs == PairsOf(rows, start)
<1>1. /\ numbers \in Seq(1..Len(rows)) /\ Len(rows) \in Nat
      /\ ToSet(numbers) = {i \in 1..Len(rows) : InLines(rows[i]) # {}}
  <2>1. IncreasingTo(numbers, Len(rows)) /\ ToSet(numbers) = {i \in 1..Len(rows) : InLines(rows[i]) # {}}
    BY Zenon, RowsKeptFacts
  <2>2. Len(rows) \in Nat
    OBVIOUS
  <2> QED BY Zenon, <2>1, <2>2 DEF IncreasingTo
<1>2. sheet.content = FlattenSeq(ss) /\ sheet.numbers = cited
  <2>1. sheet = Parsed("sheet", FlattenSeq(ss), <<>>, cited)
    BY Zenon DEF ExtractSheet
  <2> HIDE DEF ss, cited
  <2> QED BY <2>1 DEF Parsed
<1>3. pairs = [k \in 1..n |-> [row |-> lines[k], no |-> numbers[k] + start - 1]]
  <2>1. DOMAIN numbers = 1..n
    <3> HIDE DEF numbers
    <3> QED BY <1>1
  <2> QED BY <2>1 DEF PairsOf
<1> HIDE DEF numbers
<1>4. /\ n \in Nat /\ DOMAIN numbers = 1..n /\ ToSet(numbers) = {numbers[k] : k \in 1..n}
      /\ \A k \in 1..n : numbers[k] \in 1..Len(rows)
  <2>0. numbers \in Seq(1..Len(rows))
    BY Zenon, <1>1
  <2>1. n \in Nat /\ DOMAIN numbers = 1..n /\ ToSet(numbers) = {numbers[k] : k \in 1..n}
    BY Zenon, <2>0, Members DEF n
  <2>2. \A k \in 1..n : numbers[k] \in 1..Len(rows)
    BY Zenon, <2>0, ElementOfSeq DEF n
  <2> QED BY <2>1, <2>2
<1>5. \A k \in 1..n : lines[k] = rows[numbers[k]][1]
  BY Zenon
<1>0. cited = [k \in 1..n |-> numbers[k] + start - 1]
  BY Zenon, <1>4 DEF RowNumbers
<1> HIDE DEF n, lines, pairs, cited
<1>12. cited \in Seq(Nat) /\ Len(cited) = n /\ \A k \in 1..n : cited[k] = numbers[k] + start - 1 /\ cited[k] \in Nat
  <2>1. \A k \in 1..n : numbers[k] + start - 1 \in Nat
    BY <1>1, <1>4
  <2>2. cited \in [1..n -> Nat]
    BY <1>0, <2>1
  <2> QED BY <1>0, <1>4, <2>1, <2>2
<1>6. ASSUME NEW k \in 1..n
      PROVE  /\ rows[numbers[k]] = <<lines[k]>> /\ lines[k] \in Text
             /\ Visible(lines[k]) = InLines(rows[numbers[k]]) /\ ~Blank(lines[k]) /\ Len(lines[k]) <= Budget
  <2> DEFINE row == rows[numbers[k]]
  <2>1. numbers[k] \in 1..Len(rows) /\ row \in Lines /\ InLines(row) # {}
    BY <1>1, <1>4
  <2>2. Len(row) <= 1 /\ Len(Join(row)) <= Budget
    BY <2>1 DEF Plain
  <2>3. lines[k] = row[1]
    BY <1>5
  <2> HIDE DEF row
  <2>4. row # <<>>
    BY <2>1, VisibleFacts
  <2>5. Len(row) = 1 /\ row = <<row[1]>> /\ row[1] \in Text
    <3>1. row \in Seq(Text)
      BY <2>1 DEF Lines
    <3>2. Len(row) \in Nat /\ Len(row) # 0
      BY <3>1, <2>4, EmptySeq
    <3>0. Len(row) <= 1
      BY Zenon, <2>2
    <3>8. \A i \in Nat : i # 0 /\ i <= 1 => i = 1
      OBVIOUS
    <3>3. Len(row) = 1
      BY Zenon, <3>0, <3>2, <3>8
    <3>4. row[1] \in Text
      <4>1. 1 \in 1..Len(row)
        BY <3>3
      <4> QED BY Zenon, <3>1, <4>1, ElementOfSeq
    <3>5. <<row[1]>> \in Seq(Text) /\ Len(<<row[1]>>) = 1 /\ <<row[1]>>[1] = row[1]
      BY <3>4
    <3>6. \A i \in 1..1 : i = 1
      OBVIOUS
    <3>7. row = <<row[1]>>
      BY <3>1, <3>3, <3>5, <3>6, SeqEqual
    <3> QED BY <3>3, <3>4, <3>7
  <2>6. Visible(row[1]) = InLines(row)
    BY <2>5, VisibleFacts
  <2>7. Join(row) = row[1]
    <3> DEFINE x == row[1]
               one == [i \in DOMAIN <<x>> |-> IF i = 1 THEN <<x>>[i] ELSE [j \in 1..NewlineTokens |-> NL] \o <<x>>[i]]
    <3>1. Join(<<x>>) = FlattenSeq(one)
      BY Zenon DEF Join
    <3>2. one = [j \in DOMAIN <<x>> |-> <<x>>[j]]
      OBVIOUS
    <3>3. one = <<x>>
      BY <3>2
    <3> HIDE DEF one
    <3>4. FlattenSeq(<<x>>) = x
      <4>1. x \in Seq(Token)
        BY <2>5 DEF Text
      <4> HIDE DEF x
      <4>2. <<x>> \in Seq(Seq(Token)) /\ Len(<<x>>) = 1 /\ <<x>>[1] = x
        BY <4>1
      <4>3. PICK f \in [0..1 -> Seq(Token)] :
              f[0] = <<>> /\ (\A i \in 1..1 : f[i] = f[i - 1] \o <<x>>[i]) /\ FlattenSeq(<<x>>) = f[1]
        BY <4>2, Flattened
      <4>4. f[1] = <<>> \o x
        <5>1. 1 \in 1..1 /\ 1 - 1 = 0
          OBVIOUS
        <5> QED BY <4>2, <4>3, <5>1
      <4> QED BY <4>1, <4>3, <4>4, ConcatEmptySeq
    <3>5. Join(<<x>>) = x
      BY Zenon, <3>1, <3>3, <3>4
    <3> QED BY Zenon, <3>5, <2>5
  <2> QED BY <2>1, <2>2, <2>3, <2>5, <2>6, <2>7 DEF Blank, row
<1>7. lines \in Lines /\ Len(lines) = n
  <2>1. lines \in [1..n -> Text]
    BY <1>6 DEF lines
  <2> QED BY <2>1, <1>4 DEF Lines
<1>8. sheet.content = lines
  <2>1. ss = [k \in DOMAIN lines |-> <<lines[k]>>]
    <3>1. DOMAIN lines = 1..n
      BY <1>4 DEF lines
    <3> QED BY <3>1, <1>4, <1>6
  <2> HIDE DEF ss
  <2>2. lines \in Seq(Text)
    BY <1>7 DEF Lines
  <2> QED BY <1>2, <2>1, <2>2, Singletons
<1>9. pairs \in Seq(Pair) /\ Len(pairs) = n
  <2>1. \A k \in 1..n : [row |-> lines[k], no |-> numbers[k] + start - 1] \in Pair
    BY <1>6, <1>12 DEF Pair
  <2>2. pairs \in [1..n -> Pair]
    BY <1>3, <2>1
  <2> QED BY <2>2, <1>4
<1>10. NumberedRows(lines, cited) = pairs
  <2> DEFINE m == IF cited = <<>> \/ Len(lines) <= Len(cited) THEN Len(lines) ELSE Len(cited)
             q == [i \in 1..m |-> [row |-> lines[i], no |-> IF cited = <<>> THEN i ELSE cited[i]]]
             P == {i \in 1..m : ~Blank(lines[i])}
             tt == [i \in DOMAIN q |-> IF i \in P THEN <<q[i]>> ELSE <<>>]
  <2>1. m = n
    BY <1>4, <1>7, <1>12
  <2>2. NumberedRows(lines, cited) = Those(q, P)
    BY Zenon DEF NumberedRows
  <2>3. q = pairs
    <3>1. \A i \in 1..n : cited # <<>>
      BY <1>4, <1>12
    <3>2. q = [i \in 1..n |-> [row |-> lines[i], no |-> IF cited = <<>> THEN i ELSE cited[i]]]
      BY Zenon, <2>1
    <3> QED BY <3>1, <3>2, <1>3, <1>12
  <2>4. P = 1..n
    <3>1. P = {i \in 1..n : ~Blank(lines[i])}
      BY Zenon, <2>1
    <3> QED BY <3>1, <1>6
  <2>5. Those(q, P) = FlattenSeq(tt)
    BY Zenon DEF Those
  <2> HIDE DEF m, q, P
  <2>6. DOMAIN q = 1..n
    BY <2>3, <1>9
  <2>7. tt = [i \in DOMAIN pairs |-> <<pairs[i]>>]
    BY <2>3, <2>4, <2>6
  <2> HIDE DEF tt
  <2>8. FlattenSeq(tt) = pairs
    BY <2>7, <1>9, Singletons
  <2> QED BY Zenon, <2>2, <2>5, <2>8
<1>11. \A k \in 1..n : pairs[k].no = numbers[k] + start - 1 /\ pairs[k].row = lines[k]
  BY <1>3
<1> QED BY <1>2, <1>6, <1>8, <1>9, <1>10, <1>11 DEF pairs, n, numbers

\* A block of a sheet holds the header and the rows that it cites, by numbers off too high.
Cites(block, rows, off) ==
  InLines(block.lines) =
    InLines(rows[FirstRow(rows)]) \cup UNION {InLines(rows[j]) : j \in (block.start - off)..(block.end - off)}

BlocksHold(blocks) == UNION {InLines(blocks[i].lines) : i \in DOMAIN blocks}

\* The header is the first of the numbered rows.
LEMMA FirstRowFacts ==
  ASSUME NEW rows \in Seq(Lines), RowsKept(rows) # <<>>
  PROVE  FirstRow(rows) = RowsKept(rows)[1]
<1> DEFINE numbers == RowsKept(rows)
           n == Len(numbers)
           First(i) == i \in 1..Len(rows) /\ ~Blank(Join(rows[i])) /\ \A j \in 1..(i - 1) : Blank(Join(rows[j]))
<1>1. IncreasingTo(numbers, Len(rows)) /\ ToSet(numbers) = {i \in 1..Len(rows) : InLines(rows[i]) # {}}
  BY Zenon, RowsKeptFacts
<1>2. DOMAIN rows = 1..Len(rows) /\ Len(rows) \in Nat /\ \A i \in 1..Len(rows) : Blank(Join(rows[i])) <=> InLines(rows[i]) = {}
  BY JoinFacts
<1> HIDE DEF numbers
<1>3. numbers \in Seq(1..Len(rows)) /\ \A j, k \in 1..n : j < k => numbers[j] < numbers[k]
  BY Zenon, <1>1 DEF IncreasingTo
<1>4. n \in Nat /\ ToSet(numbers) = {numbers[k] : k \in 1..n}
  BY Zenon, <1>3, Members
<1>5. n # 0
  <2>1. numbers # <<>>
    BY DEF numbers
  <2> QED BY <1>3, <2>1, EmptySeq
<1>6. 1 \in 1..n
  BY <1>4, <1>5
<1>7. \A k \in 1..n : numbers[k] \in 1..Len(rows)
  BY Zenon, <1>3, ElementOfSeq
<1> HIDE DEF n
<1>8. numbers[1] \in 1..Len(rows) /\ \A k \in 1..n : numbers[1] <= numbers[k]
  BY <1>2, <1>3, <1>4, <1>6, <1>7
<1>9. First(numbers[1])
  <2>1. numbers[1] \in ToSet(numbers)
    BY Zenon, <1>4, <1>6
  <2>2. ~Blank(Join(rows[numbers[1]]))
    BY <1>1, <1>2, <2>1
  <2>3. ASSUME NEW j \in 1..(numbers[1] - 1) PROVE Blank(Join(rows[j]))
    <3>1. j \in 1..Len(rows) /\ j < numbers[1]
      BY <1>2, <1>8
    <3>2. j \notin ToSet(numbers)
      BY <1>2, <1>4, <1>7, <1>8, <3>1
    <3> QED BY <1>1, <1>2, <3>1, <3>2
  <2> QED BY <1>8, <2>2, <2>3
<1>10. \A i : First(i) => i = numbers[1]
  <2>1. SUFFICES ASSUME NEW i \in 1..Len(rows), First(i) PROVE i = numbers[1]
    OBVIOUS
  <2>2. ~(i < numbers[1])
    BY <1>2, <1>8, <1>9, <2>1
  <2>3. ~(numbers[1] < i)
    BY <1>2, <1>8, <1>9, <2>1
  <2> QED BY <1>2, <1>8, <2>2, <2>3
<1>11. FirstRow(rows) = CHOOSE i \in 1..Len(rows) : ~Blank(Join(rows[i])) /\ \A j \in 1..(i - 1) : Blank(Join(rows[j]))
  BY Zenon, <1>2 DEF FirstRow
<1>12. First(FirstRow(rows))
  BY <1>9, <1>11
<1> QED BY <1>10, <1>12 DEF numbers

\* Blocks of a sheet of short rows cite the rows that they hold, and hold all of them.
LEMMA PlainSheetFacts ==
  ASSUME NEW rows \in Seq(Lines), Plain(rows), NEW start \in Nat \ {0}, NEW sheet, sheet = ExtractSheet(rows, start)
  PROVE  /\ \A i \in DOMAIN BlocksOf(sheet) : Cites(BlocksOf(sheet)[i], rows, start - 1)
         /\ UNION {InLines(rows[j]) : j \in 1..Len(rows)} \subseteq BlocksHold(BlocksOf(sheet))
<1> DEFINE numbers == RowsKept(rows)
           n == Len(numbers)
           pairs == PairsOf(rows, start)
           blocks == BlocksOf(sheet)
<1>1. /\ NumberedRows(sheet.content, sheet.numbers) = pairs
      /\ pairs \in Seq(Pair) /\ Len(pairs) = n
      /\ \A k \in 1..n :
           pairs[k].no = numbers[k] + start - 1 /\ Visible(pairs[k].row) = InLines(rows[numbers[k]]) /\ Len(pairs[k].row) <= Budget
  BY PlainPairs
<1>2. IncreasingTo(numbers, Len(rows)) /\ ToSet(numbers) = {i \in 1..Len(rows) : InLines(rows[i]) # {}}
  BY Zenon, RowsKeptFacts
<1>3. blocks = RowBlocks(pairs)
  BY Zenon, <1>1 DEF BlocksOf
<1>4. numbers # <<>> => FirstRow(rows) = numbers[1]
  BY Zenon, FirstRowFacts
<1> HIDE DEF numbers, pairs, blocks
<1>5. numbers \in Seq(1..Len(rows)) /\ \A j, k \in 1..n : j < k => numbers[j] < numbers[k]
  BY Zenon, <1>2 DEF IncreasingTo
<1>6. n \in Nat /\ ToSet(numbers) = {numbers[k] : k \in 1..n}
  BY Zenon, <1>5, Members
<1>7. \A k \in 1..n : numbers[k] \in 1..Len(rows)
  BY Zenon, <1>5, ElementOfSeq
<1>8. /\ \A i \in DOMAIN blocks : \E a, b \in 1..n : a <= b /\ Covers(blocks[i], pairs[1], pairs, a, b)
      /\ \A k \in 1..n : \E i \in DOMAIN blocks : Visible(pairs[k].row) \subseteq InLines(blocks[i].lines)
  <2>1. \A k \in 1..Len(pairs) : Len(pairs[k].row) <= MaxPartTokens \div 2 - 1
    BY <1>1 DEF Budget
  <2>2. pairs \in Seq(Pair)
    BY <1>1
  <2>3. /\ \A i \in DOMAIN RowBlocks(pairs) : \E a, b \in 1..Len(pairs) :
             a <= b /\ Covers(RowBlocks(pairs)[i], pairs[1], pairs, a, b)
        /\ \A k \in 1..Len(pairs) : \E i \in DOMAIN RowBlocks(pairs) :
             Visible(pairs[k].row) \subseteq InLines(RowBlocks(pairs)[i].lines)
    BY Zenon, <2>1, <2>2, PlainRowBlocks
  <2>4. Len(pairs) = n
    BY <1>1
  <2> HIDE DEF n
  <2> QED BY Zenon, <1>3, <2>3, <2>4
<1>9. numbers = <<>> => n = 0
  BY EmptySeq
<1> HIDE DEF n
<1>10. ASSUME NEW i \in DOMAIN blocks PROVE Cites(blocks[i], rows, start - 1)
  <2> DEFINE b == blocks[i]
  <2>1. PICK x, y \in 1..n : x <= y /\ Covers(b, pairs[1], pairs, x, y)
    BY <1>8
  <2>2. 1 \in 1..n /\ numbers # <<>>
    BY <1>6, <1>9, <2>1
  <2>3. b.start - (start - 1) = numbers[x] /\ b.end - (start - 1) = numbers[y]
    <3>1. b.start = numbers[x] + start - 1 /\ b.end = numbers[y] + start - 1
      BY <1>1, <2>1 DEF Covers
    <3>2. numbers[x] \in Nat /\ numbers[y] \in Nat
      BY <1>7, <2>1
    <3> HIDE DEF b
    <3> QED BY <3>1, <3>2
  <2>4. InLines(b.lines) = InLines(rows[numbers[1]]) \cup Rows(pairs, x, y)
    BY <1>1, <2>1, <2>2 DEF Covers
  <2>5. Rows(pairs, x, y) = UNION {InLines(rows[numbers[k]]) : k \in x..y}
    <3>1. \A k \in x..y : k \in 1..n
      BY <1>6, <2>1
    <3>2. \A k \in x..y : Visible(pairs[k].row) = InLines(rows[numbers[k]])
      BY <1>1, <3>1
    <3> QED BY Zenon, <3>2 DEF Rows
  <2>6. UNION {InLines(rows[numbers[k]]) : k \in x..y} \subseteq UNION {InLines(rows[j]) : j \in numbers[x]..numbers[y]}
    <3>1. \A k \in x..y : numbers[k] \in numbers[x]..numbers[y]
      <4>1. SUFFICES ASSUME NEW k \in x..y PROVE numbers[k] \in numbers[x]..numbers[y]
        OBVIOUS
      <4>2. k \in 1..n /\ x \in 1..n /\ y \in 1..n /\ (k = x \/ x < k) /\ (k = y \/ k < y)
        BY <1>6, <2>1
      <4>3. numbers[x] \in Nat /\ numbers[y] \in Nat /\ numbers[k] \in Nat
        BY <1>7, <4>2
      <4>4. numbers[x] <= numbers[k]
        BY <1>5, <4>2, <4>3
      <4>5. numbers[k] <= numbers[y]
        BY <1>5, <4>2, <4>3
      <4> QED BY <4>3, <4>4, <4>5
    <3> QED BY Zenon, <3>1
  <2>7. UNION {InLines(rows[j]) : j \in numbers[x]..numbers[y]} \subseteq UNION {InLines(rows[numbers[k]]) : k \in x..y}
    <3>1. ASSUME NEW j \in numbers[x]..numbers[y], InLines(rows[j]) # {}
          PROVE  \E k \in x..y : j = numbers[k]
      <4>1. x \in 1..n /\ y \in 1..n /\ numbers[x] \in 1..Len(rows) /\ numbers[y] \in 1..Len(rows)
        BY <1>7, <2>1
      <4>2. j \in 1..Len(rows)
        BY <4>1
      <4>3. PICK k \in 1..n : j = numbers[k]
        BY <1>2, <1>6, <3>1, <4>2
      <4>4. ~(k < x) /\ ~(y < k)
        BY <1>5, <4>1, <4>2, <4>3
      <4>5. k \in x..y
        BY <1>6, <4>1, <4>3, <4>4
      <4> QED BY <4>3, <4>5
    <3> QED BY <3>1
  <2>8. (b.start - (start - 1))..(b.end - (start - 1)) = numbers[x]..numbers[y]
    BY Zenon, <2>3
  <2>9. UNION {InLines(rows[j]) : j \in (b.start - (start - 1))..(b.end - (start - 1))} = UNION {InLines(rows[j]) : j \in numbers[x]..numbers[y]}
    BY Zenon, <2>8
  <2>10. UNION {InLines(rows[j]) : j \in (b.start - (start - 1))..(b.end - (start - 1))} = Rows(pairs, x, y)
    BY Zenon, <2>5, <2>6, <2>7, <2>9
  <2>11. FirstRow(rows) = numbers[1]
    BY <1>4, <2>2
  <2> QED BY Zenon, <2>4, <2>10, <2>11 DEF Cites
<1>11. ASSUME NEW j \in 1..Len(rows) PROVE InLines(rows[j]) \subseteq BlocksHold(blocks)
  <2>1. CASE InLines(rows[j]) = {}
    BY <2>1
  <2>2. CASE InLines(rows[j]) # {}
    <3>1. PICK k \in 1..n : j = numbers[k]
      BY <1>2, <1>6, <2>2
    <3>2. PICK i \in DOMAIN blocks : Visible(pairs[k].row) \subseteq InLines(blocks[i].lines)
      BY <1>8
    <3>3. InLines(blocks[i].lines) \subseteq BlocksHold(blocks)
      BY DEF BlocksHold
    <3> QED BY <1>1, <3>1, <3>2, <3>3
  <2> QED BY <2>1, <2>2
<1> QED BY <1>10, <1>11 DEF blocks

\* Sheets in their order; those of short rows keep all they hold.
LEMMA SheetsFacts ==
  ASSUME NEW f, IsDocument(f), ~Unreadable(f), FormatOf(f) \in {".xlsx", ".xls"}
  PROVE  LET docs == ExtractSheets(f) IN
         /\ Holds(f, docs) /\ (docs # <<>> => docs[1].type = "sheet") /\ DOMAIN docs = DOMAIN f.sheets
         /\ \A s \in DOMAIN f.sheets : Plain(f.sheets[s].rows) =>
              \A i \in DOMAIN BlocksOf(docs[s]) : Cites(BlocksOf(docs[s])[i], f.sheets[s].rows, CountsFrom(f, s) - 1)
<1> DEFINE n == Len(f.sheets)
           docs == ExtractSheets(f)
           rows(s) == f.sheets[s].rows
           Sheet == [rows : Seq(Lines), min : Nat \ {0}]
<1>1. f.sheets \in Seq(Sheet)
  BY DEF IsDocument
<1> HIDE DEF Sheet
<1>2. n \in Nat /\ DOMAIN f.sheets = 1..n /\ ToSet(f.sheets) = {f.sheets[s] : s \in 1..n}
  BY Zenon, <1>1, Members
<1>3. \A s \in 1..n : rows(s) \in Seq(Lines) /\ CountsFrom(f, s) \in Nat \ {0}
  <2>1. \A s \in 1..n : f.sheets[s] \in Sheet
    BY Zenon, <1>1, ElementOfSeq
  <2> QED BY <2>1 DEF Sheet, CountsFrom
<1>4. docs = [s \in 1..n |-> ExtractSheet(rows(s), CountsFrom(f, s))]
  BY Zenon, <1>2 DEF ExtractSheets
<1> HIDE DEF docs, n
<1>5. docs = [s \in 1..n |-> docs[s]] /\ \A s \in 1..n : docs[s] = ExtractSheet(rows(s), CountsFrom(f, s))
  BY Zenon, <1>4
<1>6. IsList(docs) /\ DOMAIN docs = 1..n /\ Len(docs) = n
  BY <1>2, <1>5, ListOf
<1> HIDE DEF rows
<1>7. \A s \in 1..n : docs[s].content \in Lines /\ docs[s].numbers \in Seq(Nat) /\ docs[s].type = "sheet"
  BY Zenon, <1>3, <1>5, ExtractSheetType
<1>8. docs # <<>> => docs[1].type = "sheet"
  <2>1. docs # <<>> => n # 0
    BY <1>6, EmptySeq DEF IsList
  <2>2. n # 0 => 1 \in 1..n
    BY <1>2
  <2> QED BY <1>7, <2>1, <2>2
<1>9. ReadDocs(docs)
  BY <1>6, <1>7, <1>8 DEF ReadDocs, IsDocs
<1>10. \A s \in 1..n : Plain(rows(s)) =>
         /\ \A i \in DOMAIN BlocksOf(docs[s]) : Cites(BlocksOf(docs[s])[i], rows(s), CountsFrom(f, s) - 1)
         /\ UNION {InLines(rows(s)[j]) : j \in 1..Len(rows(s))} \subseteq BlocksHold(BlocksOf(docs[s]))
  BY Zenon, <1>3, <1>5, PlainSheetFacts
<1>11. \A s \in 1..n : SheetTokens(rows(s)) \subseteq BlocksHold(BlocksOf(docs[s]))
  <2>1. SUFFICES ASSUME NEW s \in 1..n, Plain(rows(s)) PROVE SheetTokens(rows(s)) \subseteq BlocksHold(BlocksOf(docs[s]))
    BY DEF SheetTokens
  <2>2. DOMAIN rows(s) = 1..Len(rows(s))
    BY <1>3
  <2>3. SheetTokens(rows(s)) = UNION {InLines(rows(s)[i]) : i \in 1..Len(rows(s))}
    BY Zenon, <2>1, <2>2 DEF SheetTokens
  <2> QED BY Zenon, <1>10, <2>1, <2>3
<1>12. DocTokens(f) \subseteq DocsHold(docs)
  <2>1. DocTokens(f) = UNION {SheetTokens(sheet.rows) : sheet \in ToSet(f.sheets)}
    BY DEF DocTokens
  <2>2. UNION {SheetTokens(sheet.rows) : sheet \in ToSet(f.sheets)} = UNION {SheetTokens(rows(s)) : s \in 1..n}
    BY <1>2 DEF rows
  <2>3. UNION {SheetTokens(rows(s)) : s \in 1..n} \subseteq UNION {BlocksHold(BlocksOf(docs[s])) : s \in 1..n}
    BY Zenon, <1>11
  <2>4. CASE docs = <<>>
    <3>1. 1..n = {}
      BY <1>6, <2>4
    <3> QED BY Zenon, <2>1, <2>2, <3>1
  <2>5. CASE docs # <<>>
    <3>1. DocsHold(docs) = UNION {BlocksHold(BlocksOf(docs[s])) : s \in DOMAIN docs}
      BY Zenon, <1>8, <2>5 DEF DocsHold, BlocksHold
    <3> QED BY Zenon, <1>6, <2>1, <2>2, <2>3, <3>1
  <2> QED BY Zenon, <2>4, <2>5
<1> QED BY Zenon, <1>2, <1>6, <1>8, <1>9, <1>10, <1>12 DEF Holds, docs, rows

\* Every format has a parser that keeps what it holds.
LEMMA ParseDocumentFacts ==
  ASSUME NEW f, IsDocument(f), ~Unreadable(f), FormatOf(f) \notin {"none", ".eml", ".msg"}
  PROVE  Holds(f, ParseDocument(f))
<1>1. FormatOf(f) \in SupportedTypes \cup {"none"}
  BY DEF FormatOf, DetectFormat
<1>2. FormatOf(f) \in {".pdf", ".docx", ".pptx", ".xlsx", ".xls", ".txt", ".html"}
  BY <1>1 DEF SupportedTypes
<1>3. CASE FormatOf(f) = ".pdf"
  BY <1>3, PdfFacts DEF ParseDocument
<1>4. CASE FormatOf(f) = ".docx"
  BY <1>4, DocxFacts DEF ParseDocument
<1>5. CASE FormatOf(f) = ".pptx"
  BY <1>5, PptxFacts DEF ParseDocument
<1>6. CASE FormatOf(f) \in {".xlsx", ".xls"}
  <2>1. ParseDocument(f) = ExtractSheets(f)
    BY <1>6 DEF ParseDocument
  <2>2. Holds(f, ExtractSheets(f))
    BY Zenon, <1>6, SheetsFacts
  <2> QED BY <2>1, <2>2
<1>7. CASE FormatOf(f) \in {".txt", ".html"}
  <2>1. ParseDocument(f) = ExtractText(f)
    BY <1>7 DEF ParseDocument
  <2>2. Holds(f, ExtractText(f))
    BY Zenon, <1>7, TextFacts
  <2> QED BY <2>1, <2>2
<1> QED BY <1>2, <1>3, <1>4, <1>5, <1>6, <1>7

\* A document that can be read, and has a format at all.
CanBeRead(f) == FormatOf(f) # "none" /\ ~Unreadable(f)

\* An attachment is parsed if it is of some use, and then keeps what it holds.
LEMMA ParseAttachmentFacts ==
  ASSUME NEW part, IsAttached(part)
  PROVE  LET att == ParseAttachment(RawAttachment(part)) IN
         /\ IsRead(att)
         /\ ~part.fails /\ ~part.excluded /\ CanBeRead(part.file) => DocTokens(part.file) \subseteq AttHolds(att)
<1> DEFINE raw == RawAttachment(part)
           att == ParseAttachment(raw)
           f == part.file
<1>1. raw.excluded = part.excluded /\ raw.empty = part.fails /\ raw.file = f
  BY DEF RawAttachment
<1>2. att.outcome = Outcome(raw) /\ (Outcome(raw) = "parsed" => att.docs = AttachedDocument(f))
  BY <1>1 DEF ParseAttachment
<1> HIDE DEF raw, att
<1>3. Outcome(raw) = IF part.excluded \/ part.fails \/ FormatOf(f) = "none" THEN "excluded"
                     ELSE IF Unreadable(f) THEN "failed" ELSE "parsed"
  BY Zenon, <1>1 DEF Outcome
<1>4. IsDocument(f)
  BY DEF IsAttached
<1>5. ASSUME CanBeRead(f) PROVE Holds(f, AttachedDocument(f))
  <2>1. FormatOf(f) # "none" /\ ~Unreadable(f)
    BY <1>5 DEF CanBeRead
  <2>2. CASE FormatOf(f) \in {".eml", ".msg"}
    BY Zenon, <1>4, <2>1, <2>2, AttachedMailFacts
  <2>3. CASE FormatOf(f) \notin {".eml", ".msg"}
    <3>1. AttachedDocument(f) = ParseDocument(f)
      BY <2>3 DEF AttachedDocument
    <3> QED BY <1>4, <2>1, <2>3, <3>1, ParseDocumentFacts
  <2> QED BY <2>2, <2>3
<1>6. Outcome(raw) = "parsed" <=> ~part.excluded /\ ~part.fails /\ CanBeRead(f)
  BY <1>3 DEF CanBeRead
<1>7. Outcome(raw) \in {"excluded", "failed", "parsed"}
  BY <1>3
<1>8. Outcome(raw) = "parsed" => ReadDocs(att.docs) /\ DocTokens(f) \subseteq DocsHold(att.docs)
  BY Zenon, <1>2, <1>5, <1>6 DEF Holds
<1>9. IsRead(att)
  BY Zenon, <1>2, <1>7, <1>8 DEF IsRead
<1>10. ~part.fails /\ ~part.excluded /\ CanBeRead(f) => DocTokens(f) \subseteq AttHolds(att)
  BY Zenon, <1>2, <1>6, <1>8 DEF AttHolds
<1> QED BY Zenon, <1>9, <1>10 DEF att, raw

\* So do all the attachments of a mail.
LEMMA ParseAttachmentsFacts ==
  ASSUME NEW parts, IsList(parts), \A part \in ToSet(parts) : IsAttached(part)
  PROVE  LET atts == ParseAttachments(RawAttachments(parts)) IN
         AreRead(atts) /\ AttachmentTokens(ToSet(parts)) \subseteq AttsHold(atts)
<1> DEFINE n == Len(parts)
           raws == RawAttachments(parts)
           atts == ParseAttachments(raws)
           P(i) == ParseAttachment(RawAttachment(parts[i]))
<1>1. n \in Nat /\ DOMAIN parts = 1..n /\ ToSet(parts) = {parts[i] : i \in 1..n}
  BY ListFacts
<1>2. raws = [i \in 1..n |-> RawAttachment(parts[i])]
  BY Zenon, <1>1 DEF RawAttachments
<1> HIDE DEF raws, n
<1>3. DOMAIN raws = 1..n /\ \A i \in 1..n : raws[i] = RawAttachment(parts[i])
  BY Zenon, <1>2
<1>4. atts = [i \in 1..n |-> ParseAttachment(raws[i])]
  BY Zenon, <1>3 DEF ParseAttachments
<1> HIDE DEF atts
<1>5. atts = [i \in 1..n |-> atts[i]] /\ \A i \in 1..n : atts[i] = P(i)
  BY Zenon, <1>3, <1>4
<1>6. IsList(atts) /\ ToSet(atts) = {atts[i] : i \in 1..n}
  BY <1>1, <1>5, ListOf
<1>7. \A i \in 1..n : IsAttached(parts[i])
  BY <1>1
<1>8. \A i \in 1..n :
        /\ IsRead(P(i))
        /\ ~parts[i].fails /\ ~parts[i].excluded /\ CanBeRead(parts[i].file) => DocTokens(parts[i].file) \subseteq AttHolds(P(i))
  BY Zenon, <1>7, ParseAttachmentFacts
<1> HIDE DEF P
<1>9. AreRead(atts)
  BY Zenon, <1>5, <1>6, <1>8 DEF AreRead
<1>10. \A i \in 1..n : AttHolds(P(i)) \subseteq AttsHold(atts)
  BY Zenon, <1>5, <1>6 DEF AttsHold
<1>11. \A a \in ToSet(parts) : ~a.fails /\ ~a.excluded /\ CanBeRead(a.file) => DocTokens(a.file) \subseteq AttsHold(atts)
  BY Zenon, <1>1, <1>8, <1>10
<1>12. AttachmentTokens(ToSet(parts)) \subseteq AttsHold(atts)
  BY <1>11 DEF AttachmentTokens, CanBeRead
<1> QED BY Zenon, <1>9, <1>12 DEF atts, raws

\* The attachments that fail have nothing to lose.
LEMMA LessFailing ==
  ASSUME NEW atts
  PROVE  AttachmentTokens({a \in atts : ~a.fails}) = AttachmentTokens(atts)
BY DEF AttachmentTokens

\* Attachments of a message, with or without those that fail.
LEMMA AttachmentsOfMessage ==
  ASSUME NEW m, IsMessage(m)
  PROVE  /\ AreRead(PypffAttachments(m)) /\ AttachmentTokens(ToSet(m.atts)) \subseteq AttsHold(PypffAttachments(m))
         /\ AreRead(EmlAttachments(m)) /\ AttachmentTokens(ToSet(m.atts)) \subseteq AttsHold(EmlAttachments(m))
<1> DEFINE P == {i \in DOMAIN m.atts : ~m.atts[i].fails}
           some == Those(m.atts, P)
<1>1. IsList(m.atts) /\ \A a \in ToSet(m.atts) : IsAttached(a)
  BY DEF IsMessage, IsList
<1>2. PypffAttachments(m) = ParseAttachments(RawAttachments(some)) /\ EmlAttachments(m) = ParseAttachments(RawAttachments(m.atts))
  BY Zenon DEF PypffAttachments, EmlAttachments
<1>3. IsList(some) /\ ToSet(some) = {m.atts[i] : i \in P \cap DOMAIN m.atts}
  BY <1>1, ThoseLists
<1>4. DOMAIN m.atts = 1..Len(m.atts) /\ ToSet(m.atts) = {m.atts[i] : i \in 1..Len(m.atts)}
  BY <1>1, ListFacts
<1> HIDE DEF some
<1>5. ToSet(some) = {a \in ToSet(m.atts) : ~a.fails}
  BY <1>3, <1>4
<1>6. \A a \in ToSet(some) : IsAttached(a)
  BY <1>1, <1>5
<1>7. AreRead(PypffAttachments(m)) /\ AttachmentTokens(ToSet(some)) \subseteq AttsHold(PypffAttachments(m))
  BY Zenon, <1>2, <1>3, <1>6, ParseAttachmentsFacts
<1>8. AreRead(EmlAttachments(m)) /\ AttachmentTokens(ToSet(m.atts)) \subseteq AttsHold(EmlAttachments(m))
  BY Zenon, <1>1, <1>2, ParseAttachmentsFacts
<1>9. AttachmentTokens(ToSet(some)) = AttachmentTokens(ToSet(m.atts))
  BY Zenon, <1>5, LessFailing
<1> QED BY Zenon, <1>7, <1>8, <1>9

----------------------------------------------------------------------------
(* Mail archives. *)

MailOf(m, path) == IF backend = "pypff" THEN PypffToEmail(m, path) ELSE EmlToEmail(m, path)

ChatOf(m, path) == IF backend = "pypff" THEN PypffToChat(m, path) ELSE EmlToChat(m, path)

Backends == {"pypff", "libratom"}

\* A mail keeps what its message holds.
LEMMA MailOfFacts ==
  ASSUME backend \in Backends, NEW m, IsMessage(m), NEW path
  PROVE  /\ IsReadMail(MailOf(m, path))
         /\ MessageTokens(m, FALSE) \subseteq MailHolds(MailOf(m, path))
<1> DEFINE mail == MailOf(m, path)
<1>1. m.body \in Lines /\ m.html \in Lines
  BY DEF IsMessage
<1>2. /\ PypffBody(m) \in Lines
      /\ InLines(PypffBody(m)) = InLines(IF Join(m.body) = <<>> THEN m.html ELSE m.body)
      /\ Join(m.body) = <<>> => InLines(m.body) = {}
  BY <1>1, PypffBodyFacts
<1>3. Blank(Join(m.body)) <=> InLines(m.body) = {}
  BY <1>1, JoinFacts
<1>4. /\ AreRead(PypffAttachments(m)) /\ AttachmentTokens(ToSet(m.atts)) \subseteq AttsHold(PypffAttachments(m))
      /\ AreRead(EmlAttachments(m)) /\ AttachmentTokens(ToSet(m.atts)) \subseteq AttsHold(EmlAttachments(m))
  BY AttachmentsOfMessage
<1> DEFINE held == InLines(m.body) \cup (IF InLines(m.body) = {} /\ ~HtmlUnread(m, FALSE) THEN InLines(m.html) ELSE {})
<1>5. MessageTokens(m, FALSE) \subseteq IF m.ad THEN {} ELSE held \cup AttachmentTokens(ToSet(m.atts))
  BY DEF MessageTokens
<1>6. mail.ad = m.ad /\ mail.body \in Lines /\ held \subseteq InLines(mail.body)
  <2>1. CASE backend = "pypff"
    <3>1. mail.ad = m.ad /\ mail.body = PypffBody(m)
      BY <2>1 DEF MailOf, PypffToEmail
    <3>2. HtmlUnread(m, FALSE) <=> Join(m.body) # <<>>
      BY <2>1 DEF HtmlUnread
    <3> HIDE DEF mail
    <3> QED BY <1>2, <3>1, <3>2
  <2>2. CASE backend = "libratom"
    <3>1. mail.ad = m.ad /\ mail.body = IF InLines(m.body) = {} /\ ~m.multipart THEN m.html ELSE m.body
      BY <1>3, <2>2 DEF MailOf, EmlToEmail
    <3>2. HtmlUnread(m, FALSE) <=> m.multipart
      BY <2>2 DEF HtmlUnread
    <3> HIDE DEF mail
    <3> QED BY <1>1, <3>1, <3>2
  <2> QED BY <2>1, <2>2 DEF Backends
<1>7. AreRead(mail.atts) /\ AttachmentTokens(ToSet(m.atts)) \subseteq AttsHold(mail.atts)
  BY <1>4 DEF MailOf, PypffToEmail, EmlToEmail
<1> HIDE DEF mail, held
<1>8. IsReadMail(mail)
  BY <1>6, <1>7 DEF IsReadMail
<1>9. MailHolds(mail) = IF m.ad THEN {} ELSE InLines(mail.body) \cup AttsHold(mail.atts)
  BY Zenon, <1>6 DEF MailHolds
<1>10. MessageTokens(m, FALSE) \subseteq MailHolds(mail)
  BY <1>5, <1>6, <1>7, <1>9
<1> QED BY <1>8, <1>10 DEF mail

\* So does a chat.
LEMMA ChatOfFacts ==
  ASSUME backend \in Backends, NEW m, IsMessage(m), NEW path
  PROVE  LET chat == ChatOf(m, path) IN
         /\ chat.time \in Int /\ chat.body \in Text /\ AreRead(chat.atts)
         /\ MessageTokens(m, TRUE) \subseteq ChatHolds(chat)
<1> DEFINE chat == ChatOf(m, path)
<1>1. m.body \in Lines /\ m.html \in Lines /\ m.time \in Int
  BY DEF IsMessage, NoTime
<1>2. /\ PypffBody(m) \in Lines
      /\ InLines(PypffBody(m)) = InLines(IF Join(m.body) = <<>> THEN m.html ELSE m.body)
      /\ Join(m.body) = <<>> => InLines(m.body) = {}
  BY <1>1, PypffBodyFacts
<1>3. \A lines \in Lines : Join(lines) \in Text /\ Visible(Join(lines)) = InLines(lines)
  BY JoinFacts
<1>4. /\ AreRead(PypffAttachments(m)) /\ AttachmentTokens(ToSet(m.atts)) \subseteq AttsHold(PypffAttachments(m))
      /\ AreRead(EmlAttachments(m)) /\ AttachmentTokens(ToSet(m.atts)) \subseteq AttsHold(EmlAttachments(m))
  BY AttachmentsOfMessage
<1> DEFINE held == InLines(m.body) \cup (IF InLines(m.body) = {} /\ ~HtmlUnread(m, TRUE) THEN InLines(m.html) ELSE {})
<1>5. MessageTokens(m, TRUE) \subseteq held \cup AttachmentTokens(ToSet(m.atts))
  BY DEF MessageTokens
<1>6. chat.time = m.time /\ chat.body \in Text /\ held \subseteq Visible(chat.body)
  <2>1. CASE backend = "pypff"
    <3>1. chat.time = m.time /\ chat.body = Join(PypffBody(m))
      BY <2>1 DEF ChatOf, PypffToChat
    <3>2. chat.body \in Text /\ Visible(chat.body) = InLines(PypffBody(m))
      BY Zenon, <1>2, <1>3, <3>1
    <3>3. HtmlUnread(m, TRUE) <=> Join(m.body) # <<>>
      BY <2>1 DEF HtmlUnread
    <3> HIDE DEF chat
    <3> QED BY <1>2, <3>1, <3>2, <3>3
  <2>2. CASE backend = "libratom"
    <3>1. chat.time = m.time /\ chat.body = Join(m.body)
      BY <2>2 DEF ChatOf, EmlToChat
    <3>2. chat.body \in Text /\ Visible(chat.body) = InLines(m.body)
      BY Zenon, <1>1, <1>3, <3>1
    <3>3. HtmlUnread(m, TRUE)
      BY <2>2 DEF HtmlUnread
    <3> HIDE DEF chat
    <3> QED BY <3>1, <3>2, <3>3
  <2> QED BY <2>1, <2>2 DEF Backends
<1>7. AreRead(chat.atts) /\ AttachmentTokens(ToSet(m.atts)) \subseteq AttsHold(chat.atts)
  BY <1>4 DEF ChatOf, PypffToChat, EmlToChat
<1> HIDE DEF chat, held
<1>8. MessageTokens(m, TRUE) \subseteq ChatHolds(chat)
  BY <1>5, <1>6, <1>7 DEF ChatHolds
<1> QED BY Zenon, <1>1, <1>6, <1>7, <1>8 DEF chat

Found(f, teams) == MessagesIn(Walked(f), teams)

\* The messages that were found are those of the folders that were reached, but for those that fail.
LEMMA FoundFacts ==
  ASSUME NEW f, IsArchive(f), NEW teams
  PROVE  /\ IsList(Found(f, teams))
         /\ \A x \in ToSet(Found(f, teams)) : IsMessage(x.msg)
         /\ \A folder \in Reached(f) : \A m \in ToSet(folder.messages) :
              folder.teams = teams /\ ~m.fails => \E x \in ToSet(Found(f, teams)) : x.msg = m
<1> DEFINE P == {i \in DOMAIN f.folders : f.opens /\ \A k \in 1..(i - 1) : ~f.folders[k].breaks}
           folders == Walked(f)
           n == Len(folders)
           In(i) == IF folders[i].teams = teams THEN InFolder(folders[i]) ELSE <<>>
           ss == [i \in DOMAIN folders |-> In(i)]
<1>1. IsList(f.folders) /\ \A folder \in ToSet(f.folders) : IsList(folder.messages) /\ \A m \in ToSet(folder.messages) : IsMessage(m)
  BY DEF IsArchive, IsList
<1>2. folders = Those(f.folders, P)
  BY Zenon DEF Walked
<1>3. Found(f, teams) = FlattenSeq(ss)
  BY Zenon DEF Found, MessagesIn
<1>4. Reached(f) = {f.folders[i] : i \in P}
  BY Zenon DEF Reached, Opened
<1>5. P \subseteq DOMAIN f.folders
  OBVIOUS
<1> HIDE DEF folders, P
<1>6. IsList(folders) /\ ToSet(folders) = {f.folders[i] : i \in P \cap DOMAIN f.folders}
  BY <1>1, <1>2, ThoseLists
<1>7. ToSet(folders) = Reached(f)
  BY <1>4, <1>5, <1>6
<1>8. n \in Nat /\ DOMAIN folders = 1..n /\ ToSet(folders) = {folders[i] : i \in 1..n}
  BY <1>6, ListFacts
<1>9. Reached(f) \subseteq ToSet(f.folders)
  BY <1>4, <1>5 DEF ToSet
<1>10. ASSUME NEW folder \in Reached(f)
       PROVE  /\ IsList(InFolder(folder))
              /\ \A x \in ToSet(InFolder(folder)) : IsMessage(x.msg)
              /\ \A m \in ToSet(folder.messages) : ~m.fails => \E x \in ToSet(InFolder(folder)) : x.msg = m
  <2> DEFINE msgs == folder.messages
             Q == {i \in DOMAIN msgs : ~msgs[i].fails}
             some == Readable(folder)
             k == Len(some)
             list == InFolder(folder)
  <2>1. IsList(msgs) /\ \A m \in ToSet(msgs) : IsMessage(m)
    BY <1>1, <1>9
  <2>2. some = Those(msgs, Q)
    BY Zenon DEF Readable
  <2> HIDE DEF some
  <2>3. IsList(some) /\ ToSet(some) = {msgs[i] : i \in Q \cap DOMAIN msgs}
    BY <2>1, <2>2, ThoseLists
  <2>4. DOMAIN msgs = 1..Len(msgs) /\ ToSet(msgs) = {msgs[i] : i \in 1..Len(msgs)}
    BY <2>1, ListFacts
  <2>5. k \in Nat /\ DOMAIN some = 1..k /\ ToSet(some) = {some[i] : i \in 1..k}
    BY <2>3, ListFacts
  <2>6. list = [i \in 1..k |-> [msg |-> some[i], path |-> folder.path]]
    BY Zenon, <2>5 DEF InFolder, some
  <2> HIDE DEF list, k
  <2>7. list = [i \in 1..k |-> list[i]]
    BY Zenon, <2>6
  <2>8. IsList(list) /\ ToSet(list) = {list[i] : i \in 1..k}
    BY <2>5, <2>7, ListOf
  <2>9. \A i \in 1..k : list[i].msg = some[i]
    BY <2>6
  <2>10. ToSet(some) = {m \in ToSet(msgs) : ~m.fails}
    BY <2>3, <2>4
  <2>11. \A x \in ToSet(list) : IsMessage(x.msg)
    BY <2>1, <2>5, <2>8, <2>9, <2>10
  <2>12. \A m \in ToSet(msgs) : ~m.fails => \E x \in ToSet(list) : x.msg = m
    BY <2>5, <2>8, <2>9, <2>10
  <2> QED BY Zenon, <2>8, <2>11, <2>12 DEF list
<1>11. \A i \in 1..n : folders[i] \in Reached(f)
  BY <1>7, <1>8
<1>12. \A i \in 1..n : ss[i] = In(i)
  BY Zenon, <1>8
<1>13. ss = [i \in 1..n |-> ss[i]]
  BY Zenon, <1>8
<1> HIDE DEF ss, n
<1>14. IsList(ss) /\ DOMAIN ss = 1..n
  BY <1>8, <1>13, ListOf
<1>15. \A i \in 1..n : IsList(ss[i])
  <2>1. IsList(<<>>)
    BY SmallLists
  <2> QED BY Zenon, <1>10, <1>11, <1>12, <2>1
<1>16. IsList(FlattenSeq(ss)) /\ ToSet(FlattenSeq(ss)) = UNION {ToSet(ss[i]) : i \in DOMAIN ss}
  BY <1>14, <1>15, FlattenLists
<1>17. \A x : x \in ToSet(FlattenSeq(ss)) <=> \E i \in 1..n : x \in ToSet(ss[i])
  BY <1>14, <1>16
<1>18. \A x \in ToSet(FlattenSeq(ss)) : IsMessage(x.msg)
  <2>1. ToSet(<<>>) = {}
    BY SmallLists
  <2>2. \A i \in 1..n : \A x \in ToSet(ss[i]) : IsMessage(x.msg)
    BY <1>10, <1>11, <1>12, <2>1
  <2> QED BY Zenon, <1>17, <2>2
<1>19. ASSUME NEW folder \in Reached(f), NEW m \in ToSet(folder.messages), folder.teams = teams, ~m.fails
       PROVE  \E x \in ToSet(FlattenSeq(ss)) : x.msg = m
  <2>1. PICK i \in 1..n : folder = folders[i]
    BY <1>7, <1>8
  <2>2. ss[i] = InFolder(folder)
    BY <1>12, <1>19, <2>1
  <2>3. PICK x \in ToSet(InFolder(folder)) : x.msg = m
    BY <1>10, <1>19
  <2>4. x \in ToSet(FlattenSeq(ss))
    BY <1>17, <2>2, <2>3
  <2> QED BY <2>3, <2>4
<1> QED BY <1>3, <1>16, <1>18, <1>19

\* An archive is parsed into mails and chats that keep what was found in it.
LEMMA ArchiveFacts ==
  ASSUME backend \in Backends, NEW f, IsArchive(f), f.suffix = ".pst"
  PROVE  LET p == ParsePst(f, backend) IN
         /\ IsReadFile(p) /\ p.type = "pst" /\ p.mails = PstMails(f, backend) /\ p.chats = PstChats(f, backend)
         /\ Promised(f) \subseteq FileHolds(p)
<1> DEFINE p == ParsePst(f, backend)
           mails == PstMails(f, backend)
           chats == PstChats(f, backend)
           fm == Found(f, FALSE)
           fc == Found(f, TRUE)
           nm == Len(fm)
           nc == Len(fc)
<1>1. p = PstParseResult(mails, chats)
  BY Zenon DEF ParsePst
<1> HIDE DEF mails, chats
<1>2. p.type = "pst" /\ p.mails = mails /\ p.chats = chats
  BY <1>1 DEF PstParseResult
<1> HIDE DEF p
<1>3. /\ IsList(fm) /\ \A x \in ToSet(fm) : IsMessage(x.msg)
      /\ IsList(fc) /\ \A x \in ToSet(fc) : IsMessage(x.msg)
  BY Zenon, FoundFacts
<1>4. \A folder \in Reached(f) : \A m \in ToSet(folder.messages) : ~m.fails =>
        /\ folder.teams = FALSE => \E x \in ToSet(fm) : x.msg = m
        /\ folder.teams = TRUE => \E x \in ToSet(fc) : x.msg = m
  <2>1. \A teams : \A folder \in Reached(f) : \A m \in ToSet(folder.messages) :
          folder.teams = teams /\ ~m.fails => \E x \in ToSet(Found(f, teams)) : x.msg = m
    BY Zenon, FoundFacts
  <2> QED BY <2>1
<1>5. mails = [i \in DOMAIN fm |-> MailOf(fm[i].msg, fm[i].path)]
  BY Zenon DEF mails, PstMails, MailOf, Found
<1>6. chats = [i \in DOMAIN fc |-> ChatOf(fc[i].msg, fc[i].path)]
  BY Zenon DEF chats, PstChats, ChatOf, Found
<1> HIDE DEF fm, fc
<1>7. /\ nm \in Nat /\ DOMAIN fm = 1..nm /\ ToSet(fm) = {fm[i] : i \in 1..nm}
      /\ nc \in Nat /\ DOMAIN fc = 1..nc /\ ToSet(fc) = {fc[i] : i \in 1..nc}
  BY <1>3, ListFacts
<1> HIDE DEF nm, nc
<1>8. /\ mails = [i \in 1..nm |-> mails[i]] /\ \A i \in 1..nm : mails[i] = MailOf(fm[i].msg, fm[i].path)
      /\ chats = [i \in 1..nc |-> chats[i]] /\ \A i \in 1..nc : chats[i] = ChatOf(fc[i].msg, fc[i].path)
  BY Zenon, <1>5, <1>6, <1>7
<1>9. IsList(mails) /\ ToSet(mails) = {mails[i] : i \in 1..nm}
  BY <1>7, <1>8, ListOf
<1>10. IsList(chats) /\ ToSet(chats) = {chats[i] : i \in 1..nc}
  BY <1>7, <1>8, ListOf
<1>11. \A i \in 1..nm : IsMessage(fm[i].msg)
  BY <1>3, <1>7
<1>12. \A i \in 1..nc : IsMessage(fc[i].msg)
  BY <1>3, <1>7
<1>13. \A i \in 1..nm : IsReadMail(mails[i]) /\ MessageTokens(fm[i].msg, FALSE) \subseteq MailHolds(mails[i])
  <2>1. SUFFICES ASSUME NEW i \in 1..nm
                 PROVE  IsReadMail(mails[i]) /\ MessageTokens(fm[i].msg, FALSE) \subseteq MailHolds(mails[i])
    OBVIOUS
  <2> DEFINE m == fm[i].msg
             path == fm[i].path
  <2>2. IsMessage(m) /\ mails[i] = MailOf(m, path)
    BY Zenon, <1>8, <1>11
  <2> HIDE DEF m, path
  <2>3. IsReadMail(MailOf(m, path)) /\ MessageTokens(m, FALSE) \subseteq MailHolds(MailOf(m, path))
    BY <2>2, MailOfFacts
  <2> QED BY Zenon, <2>2, <2>3 DEF m
<1>14. \A i \in 1..nc : /\ chats[i].time \in Int /\ chats[i].body \in Text /\ AreRead(chats[i].atts)
                        /\ MessageTokens(fc[i].msg, TRUE) \subseteq ChatHolds(chats[i])
  <2>1. SUFFICES ASSUME NEW i \in 1..nc
                 PROVE  /\ chats[i].time \in Int /\ chats[i].body \in Text /\ AreRead(chats[i].atts)
                        /\ MessageTokens(fc[i].msg, TRUE) \subseteq ChatHolds(chats[i])
    OBVIOUS
  <2> DEFINE m == fc[i].msg
             path == fc[i].path
  <2>2. IsMessage(m) /\ chats[i] = ChatOf(m, path)
    BY Zenon, <1>8, <1>12
  <2> HIDE DEF m, path
  <2>3. LET chat == ChatOf(m, path) IN
        /\ chat.time \in Int /\ chat.body \in Text /\ AreRead(chat.atts)
        /\ MessageTokens(m, TRUE) \subseteq ChatHolds(chat)
    BY <2>2, ChatOfFacts
  <2> QED BY Zenon, <2>2, <2>3 DEF m
<1>15. (\A mail \in ToSet(mails) : IsReadMail(mail)) /\ AreReadChats(ToSet(chats))
  BY Zenon, <1>9, <1>10, <1>13, <1>14 DEF AreReadChats
<1>16. IsReadFile(p)
  BY <1>1, <1>2, <1>9, <1>10, <1>15 DEF IsReadFile
<1>17. FileHolds(p) = ArchiveHolds(mails, chats)
  BY Zenon, <1>2 DEF FileHolds
<1>18. /\ \A i \in 1..nm : MailHolds(mails[i]) \subseteq ArchiveHolds(mails, chats)
       /\ \A i \in 1..nc : ChatHolds(chats[i]) \subseteq ArchiveHolds(mails, chats)
  BY Zenon, <1>9, <1>10 DEF ArchiveHolds
<1>19. ASSUME NEW folder \in Reached(f), NEW m \in ToSet(folder.messages)
       PROVE  MessageTokens(m, folder.teams) \subseteq ArchiveHolds(mails, chats)
  <2>1. folder.teams \in BOOLEAN
    BY DEF Reached, Opened, IsArchive, ToSet
  <2>2. CASE m.fails
    BY <2>2 DEF MessageTokens
  <2>3. CASE ~m.fails /\ folder.teams = FALSE
    <3>1. PICK x \in ToSet(fm) : x.msg = m
      BY <1>4, <2>3
    <3>2. PICK i \in 1..nm : x = fm[i]
      BY <1>7
    <3>3. MessageTokens(m, FALSE) \subseteq MailHolds(mails[i])
      BY Zenon, <1>13, <3>1, <3>2
    <3> QED BY Zenon, <1>18, <2>3, <3>3
  <2>4. CASE ~m.fails /\ folder.teams = TRUE
    <3>1. PICK x \in ToSet(fc) : x.msg = m
      BY <1>4, <2>4
    <3>2. PICK i \in 1..nc : x = fc[i]
      BY <1>7
    <3>3. MessageTokens(m, TRUE) \subseteq ChatHolds(chats[i])
      BY Zenon, <1>14, <3>1, <3>2
    <3> QED BY Zenon, <1>18, <2>4, <3>3
  <2> QED BY <2>1, <2>2, <2>3, <2>4
<1>20. Promised(f) = UNION {UNION {MessageTokens(m, folder.teams) : m \in ToSet(folder.messages)} : folder \in Reached(f)}
  BY Zenon DEF Promised
<1>21. Promised(f) \subseteq FileHolds(p)
  BY <1>17, <1>19, <1>20
<1> QED BY Zenon, <1>2, <1>16, <1>21 DEF p, mails, chats

\* What is attached to a mail, and not to one attached to it.
LEMMA MimeAttachmentsFacts ==
  ASSUME NEW msg, IsList(msg)
  PROVE  IsList(MimeAttachments(msg)) /\ ToSet(MimeAttachments(msg)) = Attached(msg)
<1> DEFINE P == {i \in DOMAIN msg :
                   IsAttachment(msg[i]) /\ \A k \in DOMAIN msg : IsAttachment(msg[k]) => ~Inside(msg[i], msg[k])}
<1>1. MimeAttachments(msg) = Those(msg, P)
  BY Zenon DEF MimeAttachments
<1>2. DOMAIN msg = 1..Len(msg) /\ ToSet(msg) = {msg[i] : i \in DOMAIN msg}
  BY ListFacts
<1>3. \A i \in DOMAIN msg : i \in P <=> msg[i] \in Attached(msg)
  BY <1>2 DEF Attached
<1>4. Attached(msg) \subseteq ToSet(msg)
  BY DEF Attached
<1> HIDE DEF P
<1>5. IsList(Those(msg, P)) /\ ToSet(Those(msg, P)) = {msg[i] : i \in P \cap DOMAIN msg}
  BY ThoseLists
<1>6. {msg[i] : i \in P \cap DOMAIN msg} = Attached(msg)
  BY <1>2, <1>3, <1>4
<1> QED BY Zenon, <1>1, <1>5, <1>6

IsMailFile(f) == f.suffix # ".pst" /\ FormatOf(f) \in {".eml", ".msg"} /\ ~Unreadable(f) /\ IsDocument(f) /\ IsMail(f)

\* A mail keeps its body and what is attached to it.
LEMMA MailFileFacts ==
  ASSUME NEW f, IsMailFile(f)
  PROVE  LET p == ParseFile(f, backend) IN
         IsReadFile(p) /\ p.type = "email" /\ Promised(f) \subseteq FileHolds(p)
<1> DEFINE p == ParseFile(f, backend)
           mail == IF FormatOf(f) = ".eml" THEN ExtractEml(f) ELSE ExtractMsg(f)
           atts == ParseAttachments(mail.atts)
<1>1. f.suffix # ".pst" /\ FormatOf(f) \in {".eml", ".msg"} /\ ~Unreadable(f) /\ IsDocument(f) /\ IsMail(f)
  BY DEF IsMailFile
<1>2. p = [type |-> "email", mid |-> mail.mid, key |-> mail.key, ad |-> mail.ad,
           folder |-> Front(RelativeSourcePath(f.root, f.rel)), body |-> mail.body, atts |-> atts]
  <2>1. FormatOf(f) # "none"
    BY <1>1
  <2> QED BY Zenon, <1>1, <2>1 DEF ParseFile
<1>3. p.type = "email" /\ p.ad = mail.ad /\ p.body = mail.body /\ p.atts = atts
  BY <1>2
<1> HIDE DEF p
<1> DEFINE promised == DocTokens(f) \cup
             AttachmentTokens(IF FormatOf(f) = ".eml" THEN Attached(f.msg) ELSE {a \in ToSet(f.items) : ~a.item})
<1>4. Promised(f) = IF f.ad THEN {} ELSE promised
  BY Zenon, <1>1 DEF Promised
<1>5. mail.ad = f.ad /\ mail.body \in Lines /\ AreRead(atts) /\ promised \subseteq InLines(mail.body) \cup AttsHold(atts)
  <2>1. CASE FormatOf(f) = ".eml"
    <3> DEFINE found == MimeAttachments(f.msg)
               raws == RawAttachments(found)
    <3>1. IsList(f.msg) /\ \A part \in ToSet(f.msg) : part.text \in Text
      BY <1>1, <2>1 DEF IsDocument, IsList
    <3>2. \A part \in ToSet(f.msg) : IsAttachment(part) => IsAttached(part)
      BY <1>1, <2>1 DEF IsMail
    <3>3. IsList(found) /\ ToSet(found) = Attached(f.msg)
      BY <3>1, MimeAttachmentsFacts
    <3>4. \A a \in ToSet(found) : IsAttached(a)
      BY <3>2, <3>3 DEF Attached
    <3>5. mail = Mail(f, EmlBody(f.msg), raws)
      BY Zenon, <2>1 DEF ExtractEml
    <3> HIDE DEF found
    <3>6. AreRead(ParseAttachments(raws)) /\ AttachmentTokens(ToSet(found)) \subseteq AttsHold(ParseAttachments(raws))
      BY Zenon, <3>3, <3>4, ParseAttachmentsFacts
    <3> HIDE DEF mail, raws
    <3>7. mail.ad = f.ad /\ mail.body = EmlBody(f.msg) /\ mail.atts = raws
      BY <3>5 DEF Mail
    <3>8. EmlBody(f.msg) \in Lines
      BY <3>1, EmlBodyType DEF IsMime
    <3>9. DocTokens(f) = InLines(EmlBody(f.msg))
      BY <2>1 DEF DocTokens
    <3>10. promised = DocTokens(f) \cup AttachmentTokens(Attached(f.msg))
      BY <2>1
    <3>11. atts = ParseAttachments(raws)
      BY Zenon, <3>7
    <3> HIDE DEF atts, promised
    <3>12. promised \subseteq InLines(mail.body) \cup AttsHold(atts)
      BY <3>3, <3>6, <3>7, <3>9, <3>10, <3>11
    <3> QED BY <3>6, <3>7, <3>8, <3>11, <3>12
  <2>2. CASE FormatOf(f) = ".msg"
    <3> DEFINE P == {i \in DOMAIN f.items : ~f.items[i].item /\ ~f.items[i].fails}
               found == Those(f.items, P)
               raws == RawAttachments(found)
               own == {a \in ToSet(f.items) : ~a.item}
    <3>1. f.body \in Lines /\ f.html \in Lines
      BY <1>1, <2>2 DEF IsDocument
    <3>2. IsList(f.items) /\ \A a \in ToSet(f.items) : ~a.item => IsAttached(a)
      BY <1>1, <2>2 DEF IsMail, IsList
    <3>3. IsList(found) /\ ToSet(found) = {f.items[i] : i \in P \cap DOMAIN f.items}
      BY <3>2, ThoseLists
    <3>4. DOMAIN f.items = 1..Len(f.items) /\ ToSet(f.items) = {f.items[i] : i \in 1..Len(f.items)}
      BY <3>2, ListFacts
    <3>5. mail = Mail(f, BodyOrHtml(f), raws)
      BY Zenon, <2>2, <1>1 DEF ExtractMsg
    <3> HIDE DEF found
    <3>6. ToSet(found) = {a \in own : ~a.fails}
      BY <3>3, <3>4
    <3>7. \A a \in ToSet(found) : IsAttached(a)
      BY <3>2, <3>6
    <3>8. AreRead(ParseAttachments(raws)) /\ AttachmentTokens(ToSet(found)) \subseteq AttsHold(ParseAttachments(raws))
      BY Zenon, <3>3, <3>7, ParseAttachmentsFacts
    <3> HIDE DEF mail, raws, own, P
    <3>9. AttachmentTokens(ToSet(found)) = AttachmentTokens(own)
      BY Zenon, <3>6, LessFailing
    <3>10. mail.ad = f.ad /\ mail.body = BodyOrHtml(f) /\ mail.atts = raws
      BY <3>5 DEF Mail
    <3>11. BodyOrHtml(f) \in Lines /\ InLines(BodyOrHtml(f)) = InLines(IF InLines(f.body) = {} THEN f.html ELSE f.body)
      BY <3>1, BodyOrHtmlFacts
    <3>12. DocTokens(f) = InLines(IF InLines(f.body) = {} THEN f.html ELSE f.body)
      BY <2>2 DEF DocTokens
    <3>13. promised = DocTokens(f) \cup AttachmentTokens(own)
      BY <2>2 DEF own
    <3>14. atts = ParseAttachments(raws)
      BY Zenon, <3>10
    <3> HIDE DEF atts, promised
    <3>15. promised \subseteq InLines(mail.body) \cup AttsHold(atts)
      BY <3>8, <3>9, <3>10, <3>11, <3>12, <3>13, <3>14
    <3> QED BY <3>8, <3>10, <3>11, <3>14, <3>15
  <2> QED BY <1>1, <2>1, <2>2
<1> HIDE DEF mail, atts, promised
<1>6. IsReadMail(p)
  BY Zenon, <1>3, <1>5 DEF IsReadMail
<1>7. IsReadFile(p)
  BY <1>3, <1>6 DEF IsReadFile
<1>8. FileHolds(p) = IF f.ad THEN {} ELSE InLines(mail.body) \cup AttsHold(atts)
  BY <1>3, <1>5 DEF FileHolds, MailHolds
<1>9. Promised(f) \subseteq FileHolds(p)
  BY <1>4, <1>5, <1>8
<1> QED BY Zenon, <1>3, <1>7, <1>9 DEF p

IsDocFile(f) == f.suffix # ".pst" /\ CanBeRead(f) /\ FormatOf(f) \notin {".eml", ".msg"}

\* A file that is parsed keeps what it promises.
LEMMA ParseFileFacts ==
  ASSUME backend \in Backends, NEW f, IsFile(f), ParseFile(f, backend) # Failed
  PROVE  LET p == ParseFile(f, backend) IN
         /\ IsReadFile(p) /\ Promised(f) \subseteq FileHolds(p)
         /\ p.type = "pst" <=> f.suffix = ".pst"
         /\ f.suffix = ".pst" => p.mails = PstMails(f, backend) /\ p.chats = PstChats(f, backend)
         /\ p.type = "document" <=> IsDocFile(f)
         /\ IsDocFile(f) => IsDocument(f) /\ p.docs = ParseDocument(f)
<1> DEFINE p == ParseFile(f, backend)
<1>1. CASE f.suffix = ".pst"
  <2>1. p = ParsePst(f, backend)
    BY Zenon, <1>1 DEF ParseFile
  <2>2. IsArchive(f)
    BY <1>1 DEF IsFile
  <2>3. /\ IsReadFile(ParsePst(f, backend)) /\ ParsePst(f, backend).type = "pst"
        /\ ParsePst(f, backend).mails = PstMails(f, backend) /\ ParsePst(f, backend).chats = PstChats(f, backend)
        /\ Promised(f) \subseteq FileHolds(ParsePst(f, backend))
    BY Zenon, <1>1, <2>2, ArchiveFacts
  <2> HIDE DEF p
  <2>4. IsReadFile(p) /\ p.type = "pst" /\ p.mails = PstMails(f, backend) /\ p.chats = PstChats(f, backend)
        /\ Promised(f) \subseteq FileHolds(p)
    BY Zenon, <2>1, <2>3
  <2> QED BY <1>1, <2>4 DEF IsDocFile, p
<1>2. CASE f.suffix # ".pst"
  <2>1. CanBeRead(f)
    BY Zenon, <1>2 DEF ParseFile, CanBeRead
  <2>2. IsDocument(f) /\ (FormatOf(f) \in {".eml", ".msg"} => IsMail(f))
    BY <1>2, <2>1 DEF IsFile, CanBeRead
  <2>3. CASE FormatOf(f) \in {".eml", ".msg"}
    <3>1. IsMailFile(f)
      BY <1>2, <2>1, <2>2, <2>3 DEF IsMailFile, CanBeRead
    <3>2. IsReadFile(p) /\ p.type = "email" /\ Promised(f) \subseteq FileHolds(p)
      BY Zenon, <3>1, MailFileFacts
    <3> HIDE DEF p
    <3> QED BY <1>2, <2>3, <3>2 DEF IsDocFile, p
  <2>4. CASE FormatOf(f) \notin {".eml", ".msg"}
    <3>1. p = [type |-> "document", docs |-> ParseDocument(f)]
      BY Zenon, <1>2, <2>1, <2>4 DEF ParseFile, CanBeRead
    <3>2. p.type = "document" /\ p.docs = ParseDocument(f)
      BY <3>1
    <3> HIDE DEF p
    <3>3. Holds(f, ParseDocument(f))
      BY <2>1, <2>2, <2>4, ParseDocumentFacts DEF CanBeRead
    <3>4. IsReadFile(p) /\ FileHolds(p) = DocsHold(p.docs)
      BY <3>2, <3>3 DEF IsReadFile, FileHolds, Holds
    <3>5. Promised(f) = DocTokens(f)
      BY Zenon, <1>2, <2>4 DEF Promised
    <3>6. Promised(f) \subseteq FileHolds(p)
      BY <3>2, <3>3, <3>4, <3>5 DEF Holds
    <3> QED BY <1>2, <2>1, <2>2, <2>4, <3>2, <3>4, <3>6 DEF IsDocFile, p
  <2> QED BY <2>3, <2>4
<1> QED BY <1>1, <1>2

----------------------------------------------------------------------------
(* Collected units. *)

\* The first unit of an id stands for the others, but for the folders.
Stands(v, u) ==
  v.id = u.id /\ v.type = u.type /\ v.parts = u.parts /\ v.meta.parent = u.meta.parent /\ v.meta.rows = u.meta.rows

\* Some unit has an id that units have.
LEMMA FirstOfFacts ==
  ASSUME NEW new, IsList(new), NEW id \in {u.id : u \in ToSet(new)}
  PROVE  FirstOf(new, id) \in ToSet(new) /\ FirstOf(new, id).id = id
<1> DEFINE n == Len(new)
           X == {i \in 1..n : new[i].id = id}
           First(i) == i \in 1..n /\ new[i].id = id /\ \A j \in 1..(i - 1) : new[j].id # id
<1>1. n \in Nat /\ DOMAIN new = 1..n /\ ToSet(new) = {new[i] : i \in 1..n}
  BY ListFacts
<1> HIDE DEF n
<1>2. X \subseteq Nat /\ X # {}
  BY <1>1
<1>3. PICK i \in X : \A j \in X : i <= j
  BY Zenon, <1>2, Least
<1>4. First(i)
  BY <1>1, <1>3
<1> DEFINE k == CHOOSE k \in 1..n : new[k].id = id /\ \A j \in 1..(k - 1) : new[j].id # id
<1>5. First(k)
  BY <1>4
<1>6. FirstOf(new, id) = new[k]
  BY Zenon, <1>1 DEF FirstOf
<1> HIDE DEF k
<1> QED BY <1>1, <1>5, <1>6

\* A unit that is there stays, a new one is one of those that came, and mails remember their folders.
LEMMA CollectFacts ==
  ASSUME NEW us, \A id \in DOMAIN us : IsUnit(us[id]),
         NEW new, IsList(new), \A u \in ToSet(new) : IsUnit(u)
  PROVE  LET c == Collect(us, new) IN
         /\ DOMAIN c = DOMAIN us \cup {u.id : u \in ToSet(new)}
         /\ \A id \in DOMAIN c : IsUnit(c[id])
         /\ \A id \in DOMAIN us : Stands(c[id], us[id]) /\ us[id].meta.folders \subseteq c[id].meta.folders
         /\ \A id \in DOMAIN c \ DOMAIN us : \E u \in ToSet(new) : u.id = id /\ Stands(c[id], u)
         /\ \A u \in ToSet(new) : u.type = "email" => u.meta.folders \subseteq c[u.id].meta.folders
<1> DEFINE c == Collect(us, new)
           ids == DOMAIN us \cup {u.id : u \in ToSet(new)}
           old(id) == IF id \in DOMAIN us THEN us[id] ELSE FirstOf(new, id)
           mails == {u \in ToSet(new) : u.type = "email"}
           more(id) == UNION {u.meta.folders : u \in {v \in mails : v.id = id}}
           kept(id) == [old(id) EXCEPT !.meta.folders = @ \cup more(id)]
<1>1. c = [id \in ids |-> kept(id)]
  BY Zenon DEF Collect
<1>2. \A id \in ids : id \notin DOMAIN us => old(id) \in ToSet(new) /\ old(id).id = id
  BY FirstOfFacts
<1>3. \A id \in ids : IsUnit(old(id))
  BY <1>2
<1>4. \A id \in DOMAIN us : old(id) = us[id]
  OBVIOUS
<1>5. \A u \in mails : u.meta.folders \subseteq more(u.id)
  OBVIOUS
<1>6. mails = {u \in ToSet(new) : u.type = "email"}
  OBVIOUS
<1> HIDE DEF old, more, mails
<1>7. ASSUME NEW id \in ids
      PROVE  /\ IsUnit(kept(id)) /\ Stands(kept(id), old(id))
             /\ kept(id).meta.folders = old(id).meta.folders \cup more(id)
  <2> DEFINE u == old(id)
             v == kept(id)
             all == u.meta.folders \cup more(id)
  <2>1. IsUnit(u)
    BY <1>3, <1>7
  <2>2. DOMAIN u = {"id", "type", "meta", "parts"} /\ DOMAIN u.meta = {"folders", "parent", "rows"}
    BY <2>1 DEF IsUnit, IsMeta
  <2>3. v = [u EXCEPT !.meta = [u.meta EXCEPT !.folders = all]]
    BY <2>2
  <2> HIDE DEF u, all, v
  <2>4. DOMAIN v = DOMAIN u /\ DOMAIN v.meta = DOMAIN u.meta /\ v.meta.folders = all
    BY <2>2, <2>3
  <2>5. v.id = u.id /\ v.type = u.type /\ v.parts = u.parts /\ v.meta.parent = u.meta.parent /\ v.meta.rows = u.meta.rows
    BY <2>2, <2>3
  <2>6. IsUnit(v)
    BY <2>1, <2>2, <2>4, <2>5 DEF IsUnit, IsMeta
  <2> QED BY <2>4, <2>5, <2>6 DEF Stands, u, v, all
<1> HIDE DEF kept, c
<1>8. DOMAIN c = ids /\ \A id \in ids : c[id] = kept(id)
  BY Zenon, <1>1
<1>9. DOMAIN us \subseteq ids /\ \A u \in ToSet(new) : u.id \in ids
  OBVIOUS
<1>10. \A id \in DOMAIN c : IsUnit(c[id])
  BY Zenon, <1>7, <1>8
<1>11. ASSUME NEW id \in DOMAIN us PROVE Stands(c[id], us[id]) /\ us[id].meta.folders \subseteq c[id].meta.folders
  BY <1>4, <1>7, <1>8, <1>9
<1>12. ASSUME NEW id \in DOMAIN c \ DOMAIN us PROVE \E u \in ToSet(new) : u.id = id /\ Stands(c[id], u)
  BY <1>2, <1>7, <1>8
<1>13. ASSUME NEW u \in ToSet(new), u.type = "email" PROVE u.meta.folders \subseteq c[u.id].meta.folders
  BY <1>5, <1>6, <1>7, <1>8, <1>9, <1>13
<1> QED BY <1>8, <1>10, <1>11, <1>12, <1>13 DEF c

UnitsOf(f) == ToSet(Result(f).units)

\* What the collected units have to do with the files that were read.
FilesInv ==
  /\ backend \in Backends
  /\ ok \subseteq DOMAIN Files
  /\ \A f \in ok : ~RaisesFor(f)
  /\ stats \in Balanced
  /\ \A id \in DOMAIN units : IsUnit(units[id]) /\ \E f \in ok : \E u \in UnitsOf(f) : u.id = id /\ Stands(units[id], u)
  /\ \A f \in ok : \A u \in UnitsOf(f) :
       u.id \in DOMAIN units /\ (u.type = "email" => u.meta.folders \subseteq units[u.id].meta.folders)

\* What is made of a file that neither the parser nor the builder fails for.
LEMMA ResultFacts ==
  ASSUME backend \in Backends, NEW f \in DOMAIN Files, ~RaisesFor(f)
  PROVE  LET p == ParseFile(Files[f], backend)
             r == Result(f)
         IN  /\ IsBuilt(r) /\ Closed(UnitsOf(f)) /\ Promised(Files[f]) \subseteq Held(r.units)
             /\ Files[f].suffix = ".pst" =>
                  \A mail \in ToSet(PstMails(Files[f], backend)) : ~mail.ad => \E u \in UnitsOf(f) : MailUnit(u, mail)
             /\ \A u \in UnitsOf(f) : u.id[1] = "doc" =>
                  /\ IsDocument(Files[f]) /\ IsDocFile(Files[f])
                  /\ DocUnit(u, ParseDocument(Files[f]), MakeDocumentId(Path(f)))
<1> DEFINE p == ParseFile(Files[f], backend)
           r == Result(f)
           file == Files[f]
<1>1. IsFile(file)
  BY Zenon, EvidenceAssumption
<1> HIDE DEF file
<1>2. /\ IsParsedFile(p) /\ Promised(file) \subseteq FileHolds(p)
      /\ p.type = "pst" <=> file.suffix = ".pst"
      /\ file.suffix = ".pst" => p.mails = PstMails(file, backend) /\ p.chats = PstChats(file, backend)
      /\ p.type = "document" <=> IsDocFile(file)
      /\ IsDocFile(file) => IsDocument(file) /\ p.docs = ParseDocument(file)
  <2>1. ParseFile(file, backend) # Failed /\ ~BuildRaises(p)
    BY Zenon DEF RaisesFor, file
  <2>2. LET q == ParseFile(file, backend) IN
        /\ IsReadFile(q) /\ Promised(file) \subseteq FileHolds(q)
        /\ q.type = "pst" <=> file.suffix = ".pst"
        /\ file.suffix = ".pst" => q.mails = PstMails(file, backend) /\ q.chats = PstChats(file, backend)
        /\ q.type = "document" <=> IsDocFile(file)
        /\ IsDocFile(file) => IsDocument(file) /\ q.docs = ParseDocument(file)
    BY <1>1, <2>1, ParseFileFacts
  <2>3. IsReadFile(p)
    BY Zenon, <2>2 DEF file
  <2>4. IsParsedFile(p)
    BY Zenon, <2>1, <2>3, BuildRaisesNot
  <2> QED BY Zenon, <2>2, <2>4 DEF file
<1>3. r = BuildFile(p, Path(f))
  BY Zenon DEF Result
<1> HIDE DEF p, r
<1>4. /\ IsBuilt(r) /\ Closed(ToSet(r.units)) /\ Held(r.units) = FileHolds(p)
      /\ p.type # "document" => \A u \in ToSet(r.units) : u.id[1] # "doc"
      /\ p.type = "pst" => \A mail \in ToSet(p.mails) : ~mail.ad => \E u \in ToSet(r.units) : MailUnit(u, mail)
      /\ p.type = "document" => \A u \in ToSet(r.units) : DocUnit(u, p.docs, MakeDocumentId(Path(f)))
  BY Zenon, <1>2, <1>3, BuildFileFacts
<1>5. UnitsOf(f) = ToSet(r.units)
  BY Zenon DEF UnitsOf, r
<1>6. IsBuilt(r) /\ Closed(UnitsOf(f)) /\ Promised(file) \subseteq Held(r.units)
  BY Zenon, <1>2, <1>4, <1>5
<1>7. file.suffix = ".pst" =>
        \A mail \in ToSet(PstMails(file, backend)) : ~mail.ad => \E u \in UnitsOf(f) : MailUnit(u, mail)
  BY Zenon, <1>2, <1>4, <1>5
<1>8. \A u \in UnitsOf(f) : u.id[1] = "doc" =>
        IsDocument(file) /\ IsDocFile(file) /\ DocUnit(u, ParseDocument(file), MakeDocumentId(Path(f)))
  BY Zenon, <1>2, <1>4, <1>5
<1> QED BY Zenon, <1>6, <1>7, <1>8 DEF p, r, file

\* A file is done: its units are collected and its counts added, or its error is kept.
LEMMA FileStep ==
  ASSUME FilesInv, NEW f \in DOMAIN Files, FileDone(f)
  PROVE  FilesInv'
<1>1. backend \in Backends /\ backend' = backend
  BY DEF FilesInv, FileDone
<1>2. \A g : UnitsOf(g)' = UnitsOf(g) /\ (RaisesFor(g)' <=> RaisesFor(g))
  BY Zenon, <1>1 DEF UnitsOf, Result, Path, RaisesFor
<1>3. CASE RaisesFor(f)
  <2> DEFINE p == ParseFile(Files[f], backend)
  <2>1. /\ ok' = ok /\ units' = units
        /\ stats' = IF p = Failed THEN stats ELSE AddStats(stats, CountsUntilRaise(p))
    BY Zenon, <1>3 DEF FileDone, Fail
  <2>2. stats \in Balanced
    BY Zenon DEF FilesInv
  <2>3. IsFile(Files[f])
    BY Zenon, EvidenceAssumption
  <2>4. p # Failed => IsReadFile(p)
    BY <1>1, <2>3, ParseFileFacts
  <2> HIDE DEF p
  <2>5. stats' \in Balanced
    BY <2>1, <2>2, <2>4, CountsFacts, CountsUntilRaiseFacts
  <2> QED BY <1>1, <1>2, <2>1, <2>5 DEF FilesInv
<1>4. CASE ~RaisesFor(f)
  <2> DEFINE r == Result(f)
             c == Collect(units, r.units)
  <2>1. ok' = ok \cup {f} /\ units' = c /\ stats' = AddStats(stats, r.stats)
    BY Zenon, <1>4 DEF FileDone, Merge
  <2>2. IsBuilt(r) /\ Closed(UnitsOf(f))
    BY Zenon, <1>1, <1>4, ResultFacts
  <2>3. UnitsOf(f) = ToSet(r.units)
    BY Zenon DEF UnitsOf
  <2> HIDE DEF r
  <2>4. IsList(r.units) /\ r.stats \in Balanced /\ \A u \in ToSet(r.units) : IsUnit(u)
    BY <2>2, <2>3 DEF IsBuilt, Closed
  <2>5. stats' \in Balanced
    BY <2>1, <2>4, CountsFacts DEF FilesInv
  <2>6. ok' \subseteq DOMAIN Files /\ \A g \in ok' : ~RaisesFor(g)'
    BY <1>2, <1>4, <2>1 DEF FilesInv
  <2>7. \A id \in DOMAIN units : IsUnit(units[id])
    BY Zenon DEF FilesInv
  <2>8. /\ DOMAIN c = DOMAIN units \cup {u.id : u \in ToSet(r.units)}
        /\ \A id \in DOMAIN c : IsUnit(c[id])
        /\ \A id \in DOMAIN units : Stands(c[id], units[id]) /\ units[id].meta.folders \subseteq c[id].meta.folders
        /\ \A id \in DOMAIN c \ DOMAIN units : \E u \in ToSet(r.units) : u.id = id /\ Stands(c[id], u)
        /\ \A u \in ToSet(r.units) : u.type = "email" => u.meta.folders \subseteq c[u.id].meta.folders
    BY Zenon, <2>4, <2>7, CollectFacts
  <2> HIDE DEF c
  <2>9. ASSUME NEW id \in DOMAIN c PROVE IsUnit(c[id]) /\ \E g \in ok \cup {f} : \E u \in UnitsOf(g) : u.id = id /\ Stands(c[id], u)
    <3>1. CASE id \in DOMAIN units
      <4>1. PICK g \in ok : \E u \in UnitsOf(g) : u.id = id /\ Stands(units[id], u)
        BY <3>1 DEF FilesInv
      <4>2. PICK u \in UnitsOf(g) : u.id = id /\ Stands(units[id], u)
        BY <4>1
      <4>3. Stands(c[id], u)
        BY Zenon, <2>8, <3>1, <4>2 DEF Stands
      <4> QED BY <2>8, <4>2, <4>3
    <3>2. CASE id \notin DOMAIN units
      BY <2>3, <2>8, <3>2
    <3> QED BY <3>1, <3>2
  <2>10. ASSUME NEW g \in ok \cup {f}, NEW u \in UnitsOf(g)
         PROVE  u.id \in DOMAIN c /\ (u.type = "email" => u.meta.folders \subseteq c[u.id].meta.folders)
    <3>1. CASE g = f
      BY <2>3, <2>8, <3>1
    <3>2. CASE g \in ok
      <4>1. u.id \in DOMAIN units /\ (u.type = "email" => u.meta.folders \subseteq units[u.id].meta.folders)
        BY <3>2 DEF FilesInv
      <4> QED BY <2>8, <4>1
    <3> QED BY <3>1, <3>2
  <2>11. /\ \A id \in DOMAIN units' : IsUnit(units'[id]) /\ \E g \in ok' : \E u \in UnitsOf(g) : u.id = id /\ Stands(units'[id], u)
         /\ \A g \in ok' : \A u \in UnitsOf(g) :
              u.id \in DOMAIN units' /\ (u.type = "email" => u.meta.folders \subseteq units'[u.id].meta.folders)
    BY Zenon, <2>1, <2>9, <2>10
  <2> QED BY <1>1, <1>2, <2>5, <2>6, <2>11 DEF FilesInv
<1> QED BY <1>3, <1>4

\* The collected units are always those of the files that were read.
THEOREM FilesInvariant == FilesSpec => []FilesInv
<1>1. FilesInit => FilesInv
  BY CountsFacts DEF FilesInit, FilesInv, Backends
<1>2. FilesInv /\ [FilesNext]_fileVars => FilesInv'
  <2>1. SUFFICES ASSUME FilesInv, [FilesNext]_fileVars PROVE FilesInv'
    OBVIOUS
  <2>2. CASE FilesNext
    BY <2>1, <2>2, FileStep DEF FilesNext
  <2>3. CASE UNCHANGED fileVars
    BY <2>1, <2>3 DEF fileVars, FilesInv, UnitsOf, Result, Path, RaisesFor
  <2> QED BY <2>1, <2>2, <2>3
<1> QED BY <1>1, <1>2, PTL DEF FilesSpec

----------------------------------------------------------------------------
(* What follows for what is indexed. *)

\* A part is within the limit of tokens, but for those of its first character.
THEOREM PartsWithinLimit == FilesSpec => []WithinLimit
<1>1. FilesInv => WithinLimit
  <2>1. SUFFICES ASSUME FilesInv, NEW id \in DOMAIN units, NEW k \in DOMAIN units[id].parts
                 PROVE  Fits(units[id].parts[k], MaxPartTokens)
    BY DEF WithinLimit, Fits
  <2>2. IsUnit(units[id])
    BY <2>1 DEF FilesInv
  <2>3. units[id].parts[k] \in ToSet(units[id].parts)
    BY Zenon, <2>1 DEF ToSet
  <2> QED BY <2>2, <2>3 DEF IsUnit
<1> QED BY <1>1, FilesInvariant, PTL

\* No attachment is taken for one without a parent, and the mail or chat that it belongs to is indexed.
THEOREM AttachmentsHaveParents == FilesSpec => []ParentsKept
<1>1. FilesInv => ParentsKept
  <2>1. SUFFICES ASSUME FilesInv PROVE ParentsKept
    OBVIOUS
  <2>2. stats.orphans = 0
    BY <2>1 DEF FilesInv, Balanced
  <2>3. ASSUME NEW id \in DOMAIN units, units[id].type = "attachment" PROVE units[id].meta.parent \in DOMAIN units
    <3>1. PICK f \in ok : \E u \in UnitsOf(f) : u.id = id /\ Stands(units[id], u)
      BY <2>1, <2>3 DEF FilesInv
    <3>2. PICK u \in UnitsOf(f) : u.id = id /\ Stands(units[id], u)
      BY <3>1
    <3>3. u.type = "attachment" /\ units[id].meta.parent = u.meta.parent
      BY <2>3, <3>2 DEF Stands
    <3>4. Closed(UnitsOf(f))
      BY <2>1, ResultFacts DEF FilesInv
    <3>5. PICK v \in UnitsOf(f) : v.id = u.meta.parent
      BY <3>3, <3>4 DEF Closed
    <3>6. v.id \in DOMAIN units
      BY <2>1 DEF FilesInv
    <3> QED BY <3>3, <3>5, <3>6
  <2> QED BY <2>2, <2>3 DEF ParentsKept
<1> QED BY <1>1, FilesInvariant, PTL

\* A mail knows the folders of all its copies.
THEOREM FoldersAreMerged == FilesSpec => []FoldersMerged
<1>1. FilesInv => FoldersMerged
  <2>1. SUFFICES ASSUME FilesInv, NEW f \in ok, Files[f].suffix = ".pst",
                        NEW mail \in ToSet(PstMails(Files[f], backend)), ~mail.ad
                 PROVE  mail.folder \in units[MakeEmailId(mail.mid, mail.key)].meta.folders
    BY DEF FoldersMerged
  <2>2. backend \in Backends /\ f \in DOMAIN Files /\ ~RaisesFor(f)
    BY <2>1 DEF FilesInv
  <2>3. PICK u \in UnitsOf(f) : MailUnit(u, mail)
    BY Zenon, <2>1, <2>2, ResultFacts
  <2>4. u.id = MakeEmailId(mail.mid, mail.key) /\ u.type = "email" /\ mail.folder \in u.meta.folders
    BY <2>3 DEF MailUnit
  <2>5. u.meta.folders \subseteq units[u.id].meta.folders
    BY <2>1, <2>4 DEF FilesInv
  <2> QED BY <2>4, <2>5
<1> QED BY <1>1, FilesInvariant, PTL

\* Chats of a room are in one session as long as no pause between them is too long.
THEOREM SessionsAlwaysChains == FilesSpec => []SessionsAreChains
<1>1. FilesInv => SessionsAreChains
  <2>1. SUFFICES ASSUME FilesInv, NEW f \in ok, Files[f].suffix = ".pst",
                        NEW chat \in ToSet(PstChats(Files[f], backend))
                 PROVE  SessionsOfRoom(PstChats(Files[f], backend), chat.room)
    BY DEF SessionsAreChains
  <2> DEFINE chats == PstChats(Files[f], backend)
             p == ParsePst(Files[f], backend)
  <2>2. backend \in Backends /\ f \in DOMAIN Files
    BY <2>1 DEF FilesInv
  <2>3. IsArchive(Files[f])
    BY <2>1, <2>2, EvidenceAssumption DEF IsFile
  <2>4. IsReadFile(p) /\ p.type = "pst" /\ p.chats = chats
    BY Zenon, <2>1, <2>2, <2>3, ArchiveFacts
  <2> HIDE DEF p, chats
  <2>5. chats \in Seq(ToSet(chats)) /\ AreReadChats(ToSet(chats))
    BY <2>4 DEF IsReadFile, IsList
  <2>6. Timed(ToSet(chats))
    BY <2>5 DEF AreReadChats, Timed
  <2>7. SessionsOfRoom(chats, chat.room)
    BY <2>5, <2>6, SessionsFacts
  <2> QED BY <2>7 DEF chats
<1> QED BY <1>1, FilesInvariant, PTL

\* What a file holds is indexed, but for a unit whose id another unit has.
THEOREM NothingIsLost == FilesSpec => []NothingLost
<1>1. FilesInv => NothingLost
  <2>1. SUFFICES ASSUME FilesInv, NEW f \in ok, NEW t \in Promised(Files[f]), t \notin Indexed
                 PROVE  LostToNamesake(f, t)
    BY Zenon DEF NothingLost
  <2>2. Promised(Files[f]) \subseteq Held(Result(f).units)
    BY <2>1, ResultFacts DEF FilesInv
  <2>3. PICK u \in UnitsOf(f) : t \in InLines(u.parts)
    BY <2>1, <2>2 DEF Held, UnitsOf
  <2>4. \A v : UnitTokens(v) = InLines(v.parts)
    BY Zenon DEF UnitTokens, InLines
  <2>5. u.id \in DOMAIN units
    BY <2>1 DEF FilesInv
  <2>6. PICK g \in ok : \E v \in UnitsOf(g) : v.id = u.id /\ Stands(units[u.id], v)
    BY <2>1, <2>5 DEF FilesInv
  <2>7. PICK v \in UnitsOf(g) : v.id = u.id /\ Stands(units[u.id], v)
    BY <2>6
  <2>8. t \notin UnitTokens(units[u.id])
    BY Zenon, <2>1, <2>5 DEF Indexed
  <2>9. v.parts # u.parts
    BY <2>3, <2>4, <2>7, <2>8 DEF Stands
  <2>10. t \in UnitTokens(u) /\ Clash(u, v)
    BY <2>3, <2>4, <2>7, <2>9 DEF Clash
  <2> QED BY Zenon, <2>6, <2>7, <2>10 DEF LostToNamesake, UnitsOf
<1> QED BY <1>1, FilesInvariant, PTL

\* An id that was made longer has one more place.
LEMMA ThirdPlace ==
  ASSUME NEW a, NEW b, NEW x
  PROVE  Append(<<a, b>>, x)[2] = b /\ Append(<<a, b>>, x)[3] = x
<1>1. ASSUME NEW S, NEW s \in Seq(S), NEW y \in S, Len(s) = 2
      PROVE  Append(s, y)[2] = s[2] /\ Append(s, y)[3] = y
  <2>1. 2 \in 1..Len(s) /\ Len(s) + 1 = 3
    BY <1>1
  <2>2. \A i \in 1..Len(s) : Append(s, y)[i] = s[i]
    BY AppendProperties
  <2>3. Append(s, y)[Len(s) + 1] = y
    BY AppendProperties
  <2> QED BY Zenon, <2>1, <2>2, <2>3
<1>2. <<a, b>> \in Seq({a, b, x}) /\ x \in {a, b, x} /\ Len(<<a, b>>) = 2 /\ <<a, b>>[2] = b
  OBVIOUS
<1> QED BY Zenon, <1>1, <1>2

\* Pages and blocks are found at the places that their ids name.
THEOREM PlacesAreCited == FilesSpec => []PlacesCited
<1>1. FilesInv => PlacesCited
  <2>1. SUFFICES ASSUME FilesInv, NEW f \in ok, SamePath(f) = {f}, NEW id \in DOMAIN units, id[1] = "doc", id[2] = Path(f)
                 PROVE  /\ FormatOf(Files[f]) = ".pdf" => UnitTokens(units[id]) = PageTokens(Files[f].pages[id[3][2]])
                        /\ FormatOf(Files[f]) \in {".xlsx", ".xls"} =>
                             LET s == id[3][2] IN
                             HoldsRows(units[id], Files[f].sheets[s].rows, CitedRows(units[id], CountsFrom(Files[f], s) - 1))
    BY Zenon DEF PlacesCited
  <2>2. PICK g \in ok : \E u \in UnitsOf(g) : u.id = id /\ Stands(units[id], u)
    BY <2>1 DEF FilesInv
  <2>3. PICK u \in UnitsOf(g) : u.id = id /\ Stands(units[id], u)
    BY <2>2
  <2>4. backend \in Backends /\ g \in DOMAIN Files /\ ~RaisesFor(g)
    BY <2>1 DEF FilesInv
  <2> DEFINE file == Files[g]
             docs == ParseDocument(file)
             prefix == MakeDocumentId(Path(g))
  <2>5. IsDocument(file) /\ IsDocFile(file) /\ DocUnit(u, docs, prefix)
    BY Zenon, <2>1, <2>3, <2>4, ResultFacts
  <2>6. \A x : Append(prefix, x)[2] = Path(g) /\ Append(prefix, x)[3] = x
    <3>1. prefix = <<"doc", Path(g)>>
      BY DEF MakeDocumentId
    <3> QED BY <3>1, ThirdPlace
  <2> HIDE DEF prefix
  <2>7. PICK x : id = Append(prefix, x)
    BY Zenon, <2>3, <2>5 DEF DocUnit, Plainly
  <2>8. g = f
    <3>1. Path(g) = Path(f)
      BY Zenon, <2>1, <2>6, <2>7
    <3>2. g \in SamePath(f)
      BY Zenon, <2>2, <3>1 DEF SamePath
    <3> QED BY Zenon, <2>1, <3>2
  <2>9. UnitTokens(units[id]) = InLines(u.parts) /\ units[id].meta.rows = u.meta.rows
    BY Zenon, <2>3 DEF UnitTokens, InLines, Stands
  <2>10. ~Unreadable(file)
    BY <2>5 DEF IsDocFile, CanBeRead
  <2>11. ASSUME FormatOf(file) = ".pdf" PROVE UnitTokens(units[id]) = PageTokens(file.pages[id[3][2]])
    <3>1. docs = ExtractPdf(file)
      BY <2>11 DEF ParseDocument
    <3> HIDE DEF docs, file
    <3>2. /\ docs[1].type = "pages"
          /\ ~file.encrypted => /\ DOMAIN docs[1].pages = DOMAIN file.pages
                                /\ \A i \in DOMAIN file.pages : InLines(docs[1].pages[i]) = PageTokens(file.pages[i])
          /\ file.encrypted => DOMAIN docs[1].pages = {}
      BY Zenon, <2>5, <2>10, <2>11, <3>1, PdfFacts
    <3>3. OfPage(u, docs[1].pages, prefix)
      BY <2>5, <3>2 DEF DocUnit
    <3>4. PICK i \in DOMAIN docs[1].pages : u.id = Append(prefix, <<"p", i>>) /\ InLines(u.parts) = InLines(docs[1].pages[i])
      BY <3>3 DEF OfPage
    <3>5. id[3] = <<"p", i>>
      BY Zenon, <2>3, <2>6, <3>4
    <3>6. id[3][2] = i
      BY <3>5
    <3> QED BY <2>9, <3>2, <3>4, <3>6
  <2>12. ASSUME FormatOf(file) \in {".xlsx", ".xls"}, Plain(file.sheets[id[3][2]].rows)
         PROVE  LET s == id[3][2] IN
                UnitTokens(units[id]) = InLines(file.sheets[s].rows[FirstRow(file.sheets[s].rows)])
                  \cup UNION {InLines(file.sheets[s].rows[i]) : i \in CitedRows(units[id], CountsFrom(file, s) - 1)}
    <3>1. docs = ExtractSheets(file)
      BY <2>12 DEF ParseDocument
    <3> HIDE DEF docs, file
    <3>2. /\ (docs # <<>> => docs[1].type = "sheet") /\ DOMAIN docs = DOMAIN file.sheets
          /\ \A s \in DOMAIN file.sheets : Plain(file.sheets[s].rows) =>
               \A i \in DOMAIN BlocksOf(docs[s]) : Cites(BlocksOf(docs[s])[i], file.sheets[s].rows, CountsFrom(file, s) - 1)
      BY Zenon, <2>5, <2>10, <2>12, <3>1, SheetsFacts
    <3>3. OfSheet(u, docs, prefix)
      BY <2>5, <3>2 DEF DocUnit
    <3>4. PICK s \in DOMAIN docs : \E i \in DOMAIN BlocksOf(docs[s]) : OfBlock(u, docs, prefix, s, i)
      BY Zenon, <3>3 DEF OfSheet
    <3>5. PICK i \in DOMAIN BlocksOf(docs[s]) : OfBlock(u, docs, prefix, s, i)
      BY <3>4
    <3> DEFINE b == BlocksOf(docs[s])[i]
    <3>6. u.id = Append(prefix, <<"s", s, b.start, b.end>>) /\ InLines(u.parts) = InLines(b.lines) /\ u.meta.rows = <<b.start, b.end>>
      BY Zenon, <3>5 DEF OfBlock
    <3>7. id[3] = <<"s", s, b.start, b.end>>
      BY Zenon, <2>3, <2>6, <3>6
    <3>8. id[3][2] = s
      BY <3>7
    <3>9. Cites(b, file.sheets[s].rows, CountsFrom(file, s) - 1)
      BY Zenon, <2>12, <3>2, <3>5, <3>8
    <3> HIDE DEF b
    <3>10. units[id].meta.rows[1] = b.start /\ units[id].meta.rows[2] = b.end
      BY <2>9, <3>6
    <3> DEFINE Told(t) ==
                 UnitTokens(units[id]) = InLines(file.sheets[t].rows[FirstRow(file.sheets[t].rows)])
                   \cup UNION {InLines(file.sheets[t].rows[j]) : j \in CitedRows(units[id], CountsFrom(file, t) - 1)}
    <3>11. \A off : CitedRows(units[id], off) = (b.start - off)..(b.end - off)
      BY Zenon, <3>10 DEF CitedRows
    <3>12. UnitTokens(units[id]) = InLines(b.lines)
      BY Zenon, <2>9, <3>6
    <3>13. Told(s)
      BY Zenon, <3>9, <3>11, <3>12 DEF Cites
    <3> HIDE DEF Told
    <3>14. Told(id[3][2])
      BY Zenon, <3>8, <3>13
    <3> QED BY Zenon, <3>14 DEF Told
  <2> QED BY Zenon, <2>8, <2>11, <2>12 DEF HoldsRows
<1> QED BY <1>1, FilesInvariant, PTL
===============================================================================
