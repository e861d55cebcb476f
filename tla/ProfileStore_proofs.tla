------------------------- MODULE ProfileStore_proofs -------------------------
(***************************************************************************)
(* Proofs about ProfileStore: for any models, profiles and parts, and any  *)
(* number of runs, rebuilds and questions, an answered question was        *)
(* compared with the right vectors (AnswersMatch), and PUT listed the      *)
(* cases it had to (ListIsRight).                                          *)
(*                                                                         *)
(* A matrix is right when it has, for each part of the index, the vector   *)
(* of the model it names. SlotsRight says that of the profiles on disk,    *)
(* KeptRight of what the API process has read, RunRight, BuildRight and    *)
(* SearchRight of what a run, the script and a question carry from one     *)
(* step to the next. All hold until something comes between two steps that *)
(* the checks do not see.                                                  *)
(***************************************************************************)
EXTENDS ProfileStore, SequenceTheorems, TLAPS

----------------------------------------------------------------------------
(* The inductive invariant. *)

AllParts == UNION {ToSet(corpus) : corpus \in Corpora}
Labels == Models \cup {""}
Vectors == [part : AllParts, model : Labels]
ProfileSet == [label : Labels, rows : Seq(Vectors)]
PairSet == AllParts \X Vectors

TypeOK ==
  /\ model \in Models
  /\ parts \in Seq(Corpora)
  /\ kept \in Seq([Profiles -> ProfileSet]) /\ Len(kept) = Len(parts)
  /\ slot \in [Profiles -> [final : ProfileSet, old : ProfileSet]]
  /\ tmp \in ProfileSet
  /\ run \in [pc : {"idle", "load", "meta", "dense", "embed"}, spec : Labels, seen : Nat, reuse : SUBSET PairSet]
  /\ put \in [pc : {"idle", "set"}, to : Labels, listed : BOOLEAN, sure : BOOLEAN]
  /\ put.pc = "set" => put.to \in Models
  /\ build \in [pc : {"idle", "meta", "embed", "away", "swap", "touch"}, profile : Profiles,
                parts : Seq(AllParts), reuse : SUBSET PairSet]
  /\ search \in [pc : {"idle", "check", "dense", "refused", "answered"}, spec : Labels, seen : Nat,
                 rows : Seq(Vectors), clean : BOOLEAN]
  /\ unsafe \in BOOLEAN

\* What was loaded was there; a matrix that was read has a row for each part.
Lengths ==
  /\ run.pc \in {"meta", "dense"} => run.seen \in 1..Now
  /\ search.pc \in {"check", "dense", "answered"} => search.seen \in 1..Now
  /\ build.pc # "idle" => Now > 0
  /\ \A s \in 1..Now : \A p \in Profiles : kept[s][p] # None => Len(kept[s][p].rows) = Len(parts[s])

Rows(corpus, m) == [i \in DOMAIN corpus |-> Vector(corpus[i], m)]

Right(profile, corpus) == profile.rows = Rows(corpus, profile.label)

TrueOf(reuse, m) == \A pair \in reuse : pair[2] = Vector(pair[1], m)

SlotsRight ==
  \A p \in Profiles : slot[p].final # None => Now > 0 /\ Right(slot[p].final, parts[Now])

\* Until a rebuilt profile is touched, what was read of the one before is out of date.
KeptRight ==
  Now > 0 => \A p \in Profiles : kept[Now][p] # None =>
    /\ Right(kept[Now][p], parts[Now])
    /\ slot[p].final # None /\ ~(build.pc = "touch" /\ build.profile = p) => kept[Now][p] = slot[p].final

RunRight ==
  /\ run.pc \in {"meta", "dense"} => run.seen = Now /\ Now > 0 /\ build.pc # "touch"
  /\ run.pc \in {"load", "meta"} => run.spec = model
  /\ run.pc = "dense" =>
       /\ slot[Service].final # None => slot[Service].final.label = run.spec
       /\ kept[Now][Service] # None => kept[Now][Service].label = run.spec
  /\ TrueOf(run.reuse, run.spec)

BuildRight ==
  /\ build.pc # "idle" => build.parts = parts[Now]
  /\ TrueOf(build.reuse, EnvModel)
  /\ tmp # None => build.pc \in {"away", "swap"} /\ tmp.label = EnvModel /\ Right(tmp, parts[Now])

SearchRight ==
  search.clean =>
    /\ search.pc \in {"check", "dense", "answered"} => search.seen = Now /\ build.pc # "touch"
    /\ search.pc = "dense" => slot[Service].final # None /\ slot[Service].final.label = search.spec
    /\ search.pc = "answered" => search.rows = Rows(parts[search.seen], search.spec)

Safe == SlotsRight /\ KeptRight /\ RunRight /\ BuildRight /\ SearchRight

\* What PUT said of a case without a run stays true until a run begins or a profile is rebuilt.
ListKept == put.sure => run.pc = "idle" /\ (put.listed <=> slot[Service].final.label # put.to)

IInv ==
  /\ TypeOK
  /\ Lengths
  /\ ListKept
  /\ ~unsafe => Safe

----------------------------------------------------------------------------
(* Vectors, pairs and matrices. *)

LEMMA CorpusFacts ==
  ASSUME NEW corpus \in Corpora
  PROVE  corpus \in Seq(AllParts)
BY ProfileAssumption DEF AllParts

LEMMA LabelFacts == None \in ProfileSet /\ EnvModel \in Models /\ EnvModel \in Labels /\ Service \in Profiles
<1>1. <<>> \in Seq(Vectors)
  BY EmptySeq
<1> QED BY <1>1, ProfileAssumption DEF None, ProfileSet, Labels, Profiles

LEMMA VectorForFacts ==
  ASSUME NEW part \in AllParts, NEW reuse \in SUBSET PairSet, NEW m \in Labels
  PROVE  /\ VectorFor(part, reuse, m) \in Vectors
         /\ \A l : TrueOf(reuse, l) /\ (m = l \/ \E pair \in reuse : pair[1] = part) =>
              VectorFor(part, reuse, m) = Vector(part, l)
<1>1. CASE \E pair \in reuse : pair[1] = part
  <2>1. PICK pair \in reuse : pair = (CHOOSE x \in reuse : x[1] = part) /\ pair[1] = part
    BY <1>1
  <2>2. VectorFor(part, reuse, m) = pair[2]
    BY <1>1, <2>1 DEF VectorFor
  <2>3. pair[2] \in Vectors
    BY <2>1 DEF PairSet
  <2> QED BY <2>1, <2>2, <2>3 DEF TrueOf
<1>2. CASE ~\E pair \in reuse : pair[1] = part
  BY <1>2 DEF VectorFor, Vector, Vectors
<1> QED BY <1>1, <1>2

\* The rows a run or the script puts together.
RowsOf(corpus, reuse, m) == [i \in DOMAIN corpus |-> VectorFor(corpus[i], reuse, m)]

AllFound(corpus, reuse) == \A i \in DOMAIN corpus : \E pair \in reuse : pair[1] = corpus[i]

LEMMA RowsFacts ==
  ASSUME NEW corpus \in Seq(AllParts), NEW reuse \in SUBSET PairSet, NEW m \in Labels
  PROVE  /\ RowsOf(corpus, reuse, m) \in Seq(Vectors) /\ Len(RowsOf(corpus, reuse, m)) = Len(corpus)
         /\ \A l : TrueOf(reuse, l) /\ (m = l \/ AllFound(corpus, reuse)) => RowsOf(corpus, reuse, m) = Rows(corpus, l)
<1> DEFINE rows == [i \in DOMAIN corpus |-> VectorFor(corpus[i], reuse, m)]
<1>1. DOMAIN corpus = 1..Len(corpus) /\ Len(corpus) \in Nat
  BY LenProperties
<1>2. \A i \in DOMAIN corpus : corpus[i] \in AllParts
  BY <1>1, ElementOfSeq
<1>3. \A i \in DOMAIN corpus : VectorFor(corpus[i], reuse, m) \in Vectors
  BY <1>2, VectorForFacts
<1>4. rows \in [1..Len(corpus) -> Vectors]
  BY <1>1, <1>3
<1>5. rows \in Seq(Vectors) /\ Len(rows) = Len(corpus)
  BY <1>1, <1>4
<1>6. ASSUME NEW l, TrueOf(reuse, l), m = l \/ AllFound(corpus, reuse)
      PROVE  rows = Rows(corpus, l)
  <2>1. \A i \in DOMAIN corpus : VectorFor(corpus[i], reuse, m) = Vector(corpus[i], l)
    BY <1>2, <1>6, VectorForFacts DEF AllFound
  <2> QED BY <2>1 DEF Rows
<1> QED BY <1>5, <1>6 DEF RowsOf

LEMMA PairsFacts ==
  ASSUME NEW of \in Seq(AllParts), NEW rows \in Seq(Vectors), Len(rows) = Len(of)
  PROVE  /\ Pairs(of, rows) \in SUBSET PairSet
         /\ \A m : rows = Rows(of, m) => TrueOf(Pairs(of, rows), m)
<1>1. DOMAIN of = 1..Len(of) /\ \A i \in DOMAIN of : of[i] \in AllParts /\ rows[i] \in Vectors
  BY LenProperties, ElementOfSeq
<1>2. Pairs(of, rows) \in SUBSET PairSet
  BY <1>1 DEF Pairs, PairSet
<1>3. ASSUME NEW m, rows = Rows(of, m)
      PROVE  TrueOf(Pairs(of, rows), m)
  BY <1>1, <1>3 DEF Pairs, TrueOf, Rows
<1> QED BY <1>2, <1>3

LEMMA NowFacts == TypeOK => Now \in Nat /\ (Now > 0 => Now \in 1..Now)
BY DEF TypeOK, Now

LEMMA PartsFacts ==
  ASSUME TypeOK, NEW s \in 1..Now
  PROVE  parts[s] \in Corpora /\ parts[s] \in Seq(AllParts) /\ kept[s] \in [Profiles -> ProfileSet]
BY CorpusFacts DEF TypeOK, Now

LEMMA MatrixFacts ==
  ASSUME TypeOK, Lengths, NEW s \in 1..Now, NEW p \in Profiles, Fits(s, p)
  PROVE  /\ Matrix(s, p) \in ProfileSet
         /\ Matrix(s, p).rows \in Seq(Vectors) /\ Len(Matrix(s, p).rows) = Len(parts[s])
         /\ Pairs(parts[s], Matrix(s, p).rows) \in SUBSET PairSet
         /\ \A m : Matrix(s, p).rows = Rows(parts[s], m) => TrueOf(Pairs(parts[s], Matrix(s, p).rows), m)
<1>1. Matrix(s, p) \in ProfileSet
  BY PartsFacts DEF Matrix, TypeOK
<1>2. Matrix(s, p).rows \in Seq(Vectors)
  BY <1>1 DEF ProfileSet
<1>3. Len(Matrix(s, p).rows) = Len(parts[s])
  BY DEF Matrix, Fits, Lengths
<1> QED BY <1>1, <1>2, <1>3, PartsFacts, PairsFacts

LEMMA KeepFacts ==
  ASSUME TypeOK, Lengths, NEW s \in 1..Now, NEW p \in Profiles, Fits(s, p), Keep(s, p)
  PROVE  /\ kept' \in Seq([Profiles -> ProfileSet]) /\ Len(kept') = Len(parts)
         /\ kept'[s][p] = Matrix(s, p)
         /\ \A r \in 1..Now : \A q \in Profiles : r # s \/ q # p => kept'[r][q] = kept[r][q]
<1>1. /\ kept \in Seq([Profiles -> ProfileSet]) /\ s \in 1..Len(kept) /\ Len(kept) = Now
  BY DEF TypeOK, Now
<1> DEFINE new == [kept[s] EXCEPT ![p] = Matrix(s, p)]
<1>2. kept' = [kept EXCEPT ![s] = new]
  BY DEF Keep
<1>3. new \in [Profiles -> ProfileSet] /\ new[p] = Matrix(s, p) /\ \A q \in Profiles : q # p => new[q] = kept[s][q]
  BY PartsFacts, MatrixFacts
<1> HIDE DEF new
<1>4. /\ kept' \in Seq([Profiles -> ProfileSet]) /\ Len(kept') = Len(kept)
      /\ \A r \in 1..Len(kept) : kept'[r] = IF r = s THEN new ELSE kept[r]
  BY <1>1, <1>2, <1>3, ExceptSeq
<1> QED BY <1>1, <1>3, <1>4 DEF Now

\* The object of a new mtime has read nothing yet.
LEMMA AppendFacts ==
  ASSUME TypeOK, NEW corpus \in Corpora, parts' = Append(parts, corpus), kept' = Append(kept, Fresh)
  PROVE  /\ parts' \in Seq(Corpora) /\ kept' \in Seq([Profiles -> ProfileSet]) /\ Len(kept') = Len(parts')
         /\ Now \in Nat /\ Now' = Now + 1
         /\ parts'[Now'] = corpus /\ \A p \in Profiles : kept'[Now'][p] = None
         /\ \A s \in 1..Now : parts'[s] = parts[s] /\ kept'[s] = kept[s]
<1>1. Fresh \in [Profiles -> ProfileSet] /\ \A p \in Profiles : Fresh[p] = None
  BY LabelFacts DEF Fresh
<1>2. parts \in Seq(Corpora) /\ kept \in Seq([Profiles -> ProfileSet]) /\ Len(kept) = Len(parts) /\ Len(parts) \in Nat
  BY DEF TypeOK
<1>3. /\ parts' \in Seq(Corpora) /\ Len(parts') = Len(parts) + 1
      /\ parts'[Len(parts) + 1] = corpus /\ \A s \in 1..Len(parts) : parts'[s] = parts[s]
  BY <1>2, AppendProperties
<1>4. /\ kept' \in Seq([Profiles -> ProfileSet]) /\ Len(kept') = Len(kept) + 1
      /\ kept'[Len(kept) + 1] = Fresh /\ \A s \in 1..Len(kept) : kept'[s] = kept[s]
  BY <1>1, <1>2, AppendProperties
<1> QED BY <1>1, <1>2, <1>3, <1>4 DEF Now

LEMMA CarriedFacts ==
  ASSUME TypeOK, Lengths, NEW p \in Profiles, NEW corpus \in Corpora
  PROVE  /\ Carried(p, corpus) \in ProfileSet
         /\ Carried(p, corpus) # None /\ Right(Matrix(Now, p), parts[Now]) /\ Matrix(Now, p).label = slot[p].final.label
              => Right(Carried(p, corpus), corpus)
         /\ Carried(p, corpus) # None => Now > 0 /\ slot[p].final # None /\ Fits(Now, p)
<1> DEFINE reuse == IF Now > 0 /\ Reusable(p, model) /\ Fits(Now, p) THEN Pairs(parts[Now], Matrix(Now, p).rows) ELSE {}
           label == slot[p].final.label
<1>0. Now \in Nat /\ (Now > 0 => Now \in 1..Now)
  BY DEF TypeOK, Now
<1>1. reuse \in SUBSET PairSet
  BY <1>0, MatrixFacts
<1>2. "" \in Labels /\ corpus \in Seq(AllParts)
  BY CorpusFacts DEF Labels
<1>3. label \in Labels
  BY DEF TypeOK, ProfileSet
<1>4. Carried(p, corpus) = IF reuse # {} /\ AllFound(corpus, reuse)
                           THEN [label |-> label, rows |-> RowsOf(corpus, reuse, "")] ELSE None
  BY Zenon DEF Carried, AllFound, RowsOf
<1>5. Right(Matrix(Now, p), parts[Now]) => TrueOf(reuse, Matrix(Now, p).label)
  <2>1. CASE Now > 0 /\ Reusable(p, model) /\ Fits(Now, p)
    BY <1>0, <2>1, MatrixFacts DEF Right
  <2>2. CASE ~(Now > 0 /\ Reusable(p, model) /\ Fits(Now, p))
    BY <2>2 DEF TrueOf
  <2> QED BY <2>1, <2>2
<1>10. reuse # {} => Now > 0 /\ slot[p].final # None /\ Fits(Now, p)
  BY DEF Reusable
<1> HIDE DEF reuse, label
<1>6. /\ RowsOf(corpus, reuse, "") \in Seq(Vectors)
      /\ TrueOf(reuse, label) /\ AllFound(corpus, reuse) => RowsOf(corpus, reuse, "") = Rows(corpus, label)
  BY <1>1, <1>2, RowsFacts
<1>7. CASE Carried(p, corpus) = None
  BY <1>7, LabelFacts
<1>8. CASE Carried(p, corpus) # None
  <2> DEFINE new == RowsOf(corpus, reuse, "")
  <2>1. Carried(p, corpus) = [label |-> label, rows |-> new] /\ AllFound(corpus, reuse)
    BY <1>4, <1>8
  <2>6. reuse # {}
    BY <1>4, <1>8
  <2>2. new \in Seq(Vectors) /\ (TrueOf(reuse, label) => new = Rows(corpus, label))
    BY <1>6, <2>1
  <2> HIDE DEF new
  <2>3. Carried(p, corpus) \in ProfileSet
    BY <1>3, <2>1, <2>2 DEF ProfileSet
  <2>4. Right(Carried(p, corpus), corpus) <=> new = Rows(corpus, label)
    BY <2>1 DEF Right
  <2>5. Matrix(Now, p).label = slot[p].final.label => Matrix(Now, p).label = label
    BY DEF label
  <2> QED BY <1>5, <1>10, <2>2, <2>3, <2>4, <2>5, <2>6
<1> QED BY <1>7, <1>8

LEMMA PutListKept ==
  ASSUME IInv, NEW m \in Models, PutList(m)
  PROVE  IInv'
<1>1. TypeOK'
  <2>1. PICK listed \in BOOLEAN, sure \in BOOLEAN :
          put' = [pc |-> "set", to |-> m, listed |-> listed, sure |-> sure]
    <3>1. Listed(m) \in BOOLEAN /\ (Ready /\ build.pc = "idle") \in BOOLEAN
      BY Zenon DEF Listed
    <3>2. put' = [pc |-> "set", to |-> m, listed |-> Listed(m), sure |-> Ready /\ build.pc = "idle"]
      BY DEF PutList
    <3> QED BY Zenon, <3>1, <3>2
  <2>2. UNCHANGED <<model, parts, kept, slot, tmp, run, build, search, unsafe>>
    BY DEF PutList
  <2>3. put' \in [pc : {"idle", "set"}, to : Labels, listed : BOOLEAN, sure : BOOLEAN] /\ put'.to \in Models
    BY <2>1 DEF Labels
  <2> QED BY <2>2, <2>3 DEF IInv, TypeOK
<1>2. Lengths'
  BY NowFacts DEF IInv, TypeOK, Lengths, Now, PutList, Listed, Ready, Labels
<1>3. ListKept'
  BY DEF IInv, TypeOK, ListKept, PutList, Listed, Ready, Labels
<1>4. ASSUME ~unsafe'
      PROVE  Safe'
  <2>1. Safe /\ TypeOK /\ Lengths
    BY <1>4 DEF IInv, PutList, Listed, Ready, Labels
  <2>2. SlotsRight'
    BY <2>1 DEF Safe, SlotsRight, Now, PutList, Listed, Ready, Labels
  <2>3. KeptRight'
    BY <2>1 DEF Safe, KeptRight, TypeOK, Now, PutList, Listed, Ready, Labels
  <2>4. RunRight'
    BY <2>1, <1>4 DEF Safe, RunRight, TypeOK, Lengths, Now, PutList, Listed, Ready, Labels
  <2>5. BuildRight'
    BY <2>1, <1>4 DEF Safe, BuildRight, TypeOK, Lengths, Now, PutList, Listed, Ready, Labels
  <2>6. SearchRight'
    BY <2>1, <1>4 DEF Safe, SearchRight, TypeOK, Lengths, Now, PutList, Listed, Ready, Labels
  <2> QED BY <2>2, <2>3, <2>4, <2>5, <2>6 DEF Safe
<1> QED BY <1>1, <1>2, <1>3, <1>4 DEF IInv

LEMMA PutSetKept ==
  ASSUME IInv, PutSet
  PROVE  IInv'
<1>1. TypeOK'
  <2>1. TypeOK
    BY DEF IInv
  <2>2. model' \in Models
    BY <2>1 DEF TypeOK, PutSet
  <2>3. put' \in [pc : {"idle", "set"}, to : Labels, listed : BOOLEAN, sure : BOOLEAN] /\ put'.pc = "idle"
    BY <2>1 DEF TypeOK, PutSet
  <2>4. unsafe' \in BOOLEAN
    BY DEF PutSet
  <2> QED BY <2>1, <2>2, <2>3, <2>4 DEF TypeOK, PutSet
<1>2. Lengths'
  BY NowFacts DEF IInv, TypeOK, Lengths, Now, PutSet, Labels
<1>3. ListKept'
  BY DEF IInv, TypeOK, ListKept, PutSet, Labels
<1>4. ASSUME ~unsafe'
      PROVE  Safe'
  <2>1. Safe /\ TypeOK /\ Lengths
    BY <1>4 DEF IInv, PutSet, Labels
  <2>2. SlotsRight'
    BY <2>1 DEF Safe, SlotsRight, Now, PutSet, Labels
  <2>3. KeptRight'
    BY <2>1 DEF Safe, KeptRight, TypeOK, Now, PutSet, Labels
  <2>4. RunRight'
    BY <2>1, <1>4 DEF Safe, RunRight, TypeOK, Lengths, Now, PutSet, Labels
  <2>5. BuildRight'
    BY <2>1, <1>4 DEF Safe, BuildRight, TypeOK, Lengths, Now, PutSet, Labels
  <2>6. SearchRight'
    BY <2>1, <1>4 DEF Safe, SearchRight, TypeOK, Lengths, Now, PutSet, Labels
  <2> QED BY <2>2, <2>3, <2>4, <2>5, <2>6 DEF Safe
<1> QED BY <1>1, <1>2, <1>3, <1>4 DEF IInv

LEMMA RunStartKept ==
  ASSUME IInv, RunStart
  PROVE  IInv'
<1>1. TypeOK'
  BY LabelFacts, NowFacts DEF IInv, TypeOK, RunStart, Unsure, Labels
<1>2. Lengths'
  BY NowFacts DEF IInv, TypeOK, Lengths, Now, RunStart, Unsure, Labels
<1>3. ListKept'
  BY DEF IInv, TypeOK, ListKept, RunStart, Unsure, Labels
<1>4. ASSUME ~unsafe'
      PROVE  Safe'
  <2>1. Safe /\ TypeOK /\ Lengths
    BY <1>4 DEF IInv, RunStart, Unsure, Labels
  <2>2. SlotsRight'
    BY <2>1 DEF Safe, SlotsRight, Now, RunStart, Unsure, Labels
  <2>3. KeptRight'
    BY <2>1 DEF Safe, KeptRight, TypeOK, Now, RunStart, Unsure, Labels
  <2>4. RunRight'
    BY <2>1, <1>4 DEF TrueOf, Safe, RunRight, TypeOK, Lengths, Now, RunStart, Unsure, Labels
  <2>5. BuildRight'
    BY <2>1, <1>4 DEF Safe, BuildRight, TypeOK, Lengths, Now, RunStart, Unsure, Labels
  <2>6. SearchRight'
    BY <2>1, <1>4 DEF Safe, SearchRight, TypeOK, Lengths, Now, RunStart, Unsure, Labels
  <2> QED BY <2>2, <2>3, <2>4, <2>5, <2>6 DEF Safe
<1> QED BY <1>1, <1>2, <1>3, <1>4 DEF IInv

LEMMA RunLoadKept ==
  ASSUME IInv, RunLoad
  PROVE  IInv'
<1>1. TypeOK'
  BY LabelFacts, NowFacts DEF IInv, TypeOK, RunLoad
<1>2. Lengths'
  BY NowFacts DEF IInv, TypeOK, Lengths, Now, RunLoad
<1>3. ListKept'
  BY DEF IInv, TypeOK, ListKept, RunLoad
<1>4. ASSUME ~unsafe'
      PROVE  Safe'
  <2>1. Safe /\ TypeOK /\ Lengths
    BY <1>4 DEF IInv, RunLoad
  <2>2. SlotsRight'
    BY <2>1 DEF Safe, SlotsRight, Now, RunLoad
  <2>3. KeptRight'
    BY <2>1 DEF Safe, KeptRight, TypeOK, Now, RunLoad
  <2>4. RunRight'
    <3>1. build.pc # "touch" /\ UNCHANGED <<Now, model, build, slot, kept>>
      BY <1>4 DEF RunLoad, Now
    <3>2. run.spec = model /\ TrueOf(run.reuse, run.spec) /\ Now \in Nat
      BY <2>1, NowFacts DEF Safe, RunRight, RunLoad
    <3>3. /\ run'.spec = run.spec /\ run'.reuse = run.reuse /\ run'.seen = Now
          /\ run'.pc = IF Now = 0 THEN "embed" ELSE "meta"
      BY <2>1 DEF RunLoad, TypeOK
    <3> QED BY <3>1, <3>2, <3>3 DEF RunRight
  <2>5. BuildRight'
    BY <2>1, <1>4 DEF Safe, BuildRight, TypeOK, Lengths, Now, RunLoad
  <2>6. SearchRight'
    BY <2>1, <1>4 DEF Safe, SearchRight, TypeOK, Lengths, Now, RunLoad
  <2> QED BY <2>2, <2>3, <2>4, <2>5, <2>6 DEF Safe
<1> QED BY <1>1, <1>2, <1>3, <1>4 DEF IInv

LEMMA RunMetaKept ==
  ASSUME IInv, RunMeta
  PROVE  IInv'
<1>1. TypeOK'
  BY LabelFacts, NowFacts DEF IInv, TypeOK, RunMeta, Reusable
<1>2. Lengths'
  BY NowFacts DEF IInv, TypeOK, Lengths, Now, RunMeta, Reusable
<1>3. ListKept'
  BY DEF IInv, TypeOK, ListKept, RunMeta, Reusable
<1>4. ASSUME ~unsafe'
      PROVE  Safe'
  <2>1. Safe /\ TypeOK /\ Lengths
    BY <1>4 DEF IInv, RunMeta, Reusable
  <2>2. SlotsRight'
    BY <2>1 DEF Safe, SlotsRight, Now, RunMeta, Reusable
  <2>3. KeptRight'
    BY <2>1 DEF Safe, KeptRight, TypeOK, Now, RunMeta, Reusable
  <2>4. RunRight'
    BY <2>1, <1>4, LabelFacts DEF KeptRight, Safe, RunRight, TypeOK, Lengths, Now, RunMeta, Reusable
  <2>5. BuildRight'
    BY <2>1, <1>4 DEF Safe, BuildRight, TypeOK, Lengths, Now, RunMeta, Reusable
  <2>6. SearchRight'
    BY <2>1, <1>4 DEF Safe, SearchRight, TypeOK, Lengths, Now, RunMeta, Reusable
  <2> QED BY <2>2, <2>3, <2>4, <2>5, <2>6 DEF Safe
<1> QED BY <1>1, <1>2, <1>3, <1>4 DEF IInv

LEMMA RunFailsKept ==
  ASSUME IInv, RunFails
  PROVE  IInv'
<1>1. TypeOK'
  BY LabelFacts, NowFacts DEF IInv, TypeOK, RunFails
<1>2. Lengths'
  BY NowFacts DEF IInv, TypeOK, Lengths, Now, RunFails
<1>3. ListKept'
  BY DEF IInv, TypeOK, ListKept, RunFails
<1>4. ASSUME ~unsafe'
      PROVE  Safe'
  <2>1. Safe /\ TypeOK /\ Lengths
    BY <1>4 DEF IInv, RunFails
  <2>2. SlotsRight'
    BY <2>1 DEF Safe, SlotsRight, Now, RunFails
  <2>3. KeptRight'
    BY <2>1 DEF Safe, KeptRight, TypeOK, Now, RunFails
  <2>4. RunRight'
    BY <2>1, <1>4 DEF TrueOf, Safe, RunRight, TypeOK, Lengths, Now, RunFails
  <2>5. BuildRight'
    BY <2>1, <1>4 DEF Safe, BuildRight, TypeOK, Lengths, Now, RunFails
  <2>6. SearchRight'
    BY <2>1, <1>4 DEF Safe, SearchRight, TypeOK, Lengths, Now, RunFails
  <2> QED BY <2>2, <2>3, <2>4, <2>5, <2>6 DEF Safe
<1> QED BY <1>1, <1>2, <1>3, <1>4 DEF IInv

LEMMA BuildStartKept ==
  ASSUME IInv, NEW p \in Profiles, BuildStart(p)
  PROVE  IInv'
<1>1. TypeOK'
  BY LabelFacts, NowFacts, PartsFacts DEF IInv, TypeOK, BuildStart
<1>2. Lengths'
  BY NowFacts DEF IInv, TypeOK, Lengths, Now, BuildStart
<1>3. ListKept'
  BY DEF IInv, TypeOK, ListKept, BuildStart
<1>4. ASSUME ~unsafe'
      PROVE  Safe'
  <2>1. Safe /\ TypeOK /\ Lengths
    BY <1>4 DEF IInv, BuildStart
  <2>2. SlotsRight'
    BY <2>1 DEF Safe, SlotsRight, Now, BuildStart
  <2>3. KeptRight'
    BY <2>1 DEF Safe, KeptRight, TypeOK, Now, BuildStart
  <2>4. RunRight'
    BY <2>1, <1>4 DEF Safe, RunRight, TypeOK, Lengths, Now, BuildStart
  <2>5. BuildRight'
    BY <2>1, <1>4 DEF TrueOf, Safe, BuildRight, TypeOK, Lengths, Now, BuildStart
  <2>6. SearchRight'
    BY <2>1, <1>4 DEF Safe, SearchRight, TypeOK, Lengths, Now, BuildStart
  <2> QED BY <2>2, <2>3, <2>4, <2>5, <2>6 DEF Safe
<1> QED BY <1>1, <1>2, <1>3, <1>4 DEF IInv

LEMMA BuildKilledKept ==
  ASSUME IInv, BuildKilled
  PROVE  IInv'
<1>1. TypeOK'
  BY LabelFacts, NowFacts DEF IInv, TypeOK, BuildKilled
<1>2. Lengths'
  BY NowFacts DEF IInv, TypeOK, Lengths, Now, BuildKilled
<1>3. ListKept'
  BY DEF IInv, TypeOK, ListKept, BuildKilled
<1>4. ASSUME ~unsafe'
      PROVE  Safe'
  <2>1. Safe /\ TypeOK /\ Lengths
    BY <1>4 DEF IInv, BuildKilled
  <2>2. SlotsRight'
    BY <2>1 DEF Safe, SlotsRight, Now, BuildKilled
  <2>3. KeptRight'
    BY <2>1, <1>4 DEF Safe, KeptRight, TypeOK, Now, BuildKilled
  <2>4. RunRight'
    BY <2>1, <1>4 DEF Safe, RunRight, TypeOK, Lengths, Now, BuildKilled
  <2>5. BuildRight'
    BY <2>1, <1>4 DEF TrueOf, Safe, BuildRight, TypeOK, Lengths, Now, BuildKilled
  <2>6. SearchRight'
    BY <2>1, <1>4 DEF Safe, SearchRight, TypeOK, Lengths, Now, BuildKilled
  <2> QED BY <2>2, <2>3, <2>4, <2>5, <2>6 DEF Safe
<1> QED BY <1>1, <1>2, <1>3, <1>4 DEF IInv

LEMMA BuildAwayKept ==
  ASSUME IInv, BuildAway
  PROVE  IInv'
<1>1. TypeOK'
  BY LabelFacts, NowFacts DEF IInv, TypeOK, BuildAway, Unsure
<1>2. Lengths'
  BY NowFacts DEF IInv, TypeOK, Lengths, Now, BuildAway, Unsure
<1>3. ListKept'
  BY DEF IInv, TypeOK, ListKept, BuildAway, Unsure
<1>4. ASSUME ~unsafe'
      PROVE  Safe'
  <2>1. Safe /\ TypeOK /\ Lengths
    BY <1>4 DEF IInv, BuildAway, Unsure
  <2>2. SlotsRight'
    BY <2>1 DEF Safe, SlotsRight, Now, BuildAway, Unsure
  <2>3. KeptRight'
    BY <2>1 DEF Safe, KeptRight, TypeOK, Now, BuildAway, Unsure
  <2>4. RunRight'
    BY <2>1, <1>4 DEF Safe, RunRight, TypeOK, Lengths, Now, BuildAway, Unsure
  <2>5. BuildRight'
    BY <2>1, <1>4 DEF Safe, BuildRight, TypeOK, Lengths, Now, BuildAway, Unsure
  <2>6. SearchRight'
    BY <2>1, <1>4 DEF Safe, SearchRight, TypeOK, Lengths, Now, BuildAway, Unsure
  <2> QED BY <2>2, <2>3, <2>4, <2>5, <2>6 DEF Safe
<1> QED BY <1>1, <1>2, <1>3, <1>4 DEF IInv

LEMMA SearchLoadKept ==
  ASSUME IInv, SearchLoad
  PROVE  IInv'
<1>1. TypeOK'
  <2>1. PICK clean \in BOOLEAN : search' = [pc |-> "check", spec |-> model, seen |-> Now, rows |-> <<>>, clean |-> clean]
    <3>1. (build.pc # "touch") \in BOOLEAN
      BY Zenon
    <3> QED BY Zenon, <3>1 DEF SearchLoad
  <2>2. UNCHANGED <<model, parts, kept, slot, tmp, run, put, build, unsafe>>
    BY DEF SearchLoad
  <2>3. <<>> \in Seq(Vectors)
    BY EmptySeq
  <2>4. search' \in [pc : {"idle", "check", "dense", "refused", "answered"}, spec : Labels, seen : Nat,
                    rows : Seq(Vectors), clean : BOOLEAN]
    BY <2>1, <2>3, NowFacts DEF IInv, TypeOK, Labels
  <2> QED BY <2>2, <2>4 DEF IInv, TypeOK
<1>2. Lengths'
  BY NowFacts DEF IInv, TypeOK, Lengths, Now, SearchLoad, Labels
<1>3. ListKept'
  BY DEF IInv, TypeOK, ListKept, SearchLoad, Labels
<1>4. ASSUME ~unsafe'
      PROVE  Safe'
  <2>1. Safe /\ TypeOK /\ Lengths
    BY <1>4 DEF IInv, SearchLoad, Labels
  <2>2. SlotsRight'
    BY <2>1 DEF Safe, SlotsRight, Now, SearchLoad, Labels
  <2>3. KeptRight'
    BY <2>1 DEF Safe, KeptRight, TypeOK, Now, SearchLoad, Labels
  <2>4. RunRight'
    BY <2>1, <1>4 DEF Safe, RunRight, TypeOK, Lengths, Now, SearchLoad, Labels
  <2>5. BuildRight'
    BY <2>1, <1>4 DEF Safe, BuildRight, TypeOK, Lengths, Now, SearchLoad, Labels
  <2>6. SearchRight'
    BY <2>1, <1>4 DEF Safe, SearchRight, TypeOK, Lengths, Now, SearchLoad, Labels
  <2> QED BY <2>2, <2>3, <2>4, <2>5, <2>6 DEF Safe
<1> QED BY <1>1, <1>2, <1>3, <1>4 DEF IInv

LEMMA SearchCheckKept ==
  ASSUME IInv, SearchCheck
  PROVE  IInv'
<1>1. TypeOK'
  BY LabelFacts, NowFacts DEF IInv, TypeOK, SearchCheck
<1>2. Lengths'
  BY NowFacts DEF IInv, TypeOK, Lengths, Now, SearchCheck
<1>3. ListKept'
  BY DEF IInv, TypeOK, ListKept, SearchCheck
<1>4. ASSUME ~unsafe'
      PROVE  Safe'
  <2>1. Safe /\ TypeOK /\ Lengths
    BY <1>4 DEF IInv, SearchCheck
  <2>2. SlotsRight'
    BY <2>1 DEF Safe, SlotsRight, Now, SearchCheck
  <2>3. KeptRight'
    BY <2>1 DEF Safe, KeptRight, TypeOK, Now, SearchCheck
  <2>4. RunRight'
    BY <2>1, <1>4 DEF Safe, RunRight, TypeOK, Lengths, Now, SearchCheck
  <2>5. BuildRight'
    BY <2>1, <1>4 DEF Safe, BuildRight, TypeOK, Lengths, Now, SearchCheck
  <2>6. SearchRight'
    BY <2>1, <1>4 DEF Safe, SearchRight, TypeOK, Lengths, Now, SearchCheck
  <2> QED BY <2>2, <2>3, <2>4, <2>5, <2>6 DEF Safe
<1> QED BY <1>1, <1>2, <1>3, <1>4 DEF IInv

\* What an object of the current index reads, or has read, is right.
LEMMA MatrixRight ==
  ASSUME TypeOK, SlotsRight, KeptRight, Now > 0, NEW p \in Profiles, Fits(Now, p)
  PROVE  /\ Right(Matrix(Now, p), parts[Now])
         /\ slot[p].final # None /\ ~(build.pc = "touch" /\ build.profile = p) => Matrix(Now, p) = slot[p].final
BY DEF Matrix, Fits, SlotsRight, KeptRight

LEMMA KeepLengths ==
  ASSUME TypeOK, Lengths, NEW s \in 1..Now, NEW p \in Profiles, Fits(s, p), Keep(s, p), UNCHANGED parts
  PROVE  \A r \in 1..Now' : \A q \in Profiles : kept'[r][q] # None => Len(kept'[r][q].rows) = Len(parts'[r])
<1>1. Now' = Now
  BY DEF Now
<1>2. SUFFICES ASSUME NEW r \in 1..Now, NEW q \in Profiles, kept'[r][q] # None
               PROVE  Len(kept'[r][q].rows) = Len(parts[r])
  BY <1>1
<1>3. CASE r = s /\ q = p
  BY <1>3, KeepFacts, MatrixFacts
<1>4. CASE r # s \/ q # p
  BY <1>2, <1>4, KeepFacts DEF Lengths
<1> QED BY <1>3, <1>4

LEMMA KeepRight ==
  ASSUME TypeOK, Lengths, SlotsRight, KeptRight, NEW s \in 1..Now, NEW p \in Profiles, Fits(s, p), Keep(s, p),
         UNCHANGED <<parts, slot, build>>
  PROVE  KeptRight'
<1>1. Now' = Now /\ Now \in Nat
  BY NowFacts DEF Now
<1>2. SUFFICES ASSUME Now > 0, NEW q \in Profiles, kept'[Now][q] # None
               PROVE  /\ Right(kept'[Now][q], parts[Now])
                      /\ slot[q].final # None /\ ~(build.pc = "touch" /\ build.profile = q) => kept'[Now][q] = slot[q].final
  BY <1>1 DEF KeptRight, Right
<1>3. CASE s = Now /\ q = p
  BY <1>2, <1>3, KeepFacts, MatrixRight
<1>4. CASE s # Now \/ q # p
  <2>1. kept'[Now][q] = kept[Now][q]
    BY <1>1, <1>2, <1>4, KeepFacts
  <2> QED BY <1>2, <2>1 DEF KeptRight
<1> QED BY <1>3, <1>4

LEMMA RunDenseKept ==
  ASSUME IInv, RunDense
  PROVE  IInv'
<1>1. TypeOK /\ Lengths /\ run.seen \in 1..Now /\ Service \in Profiles /\ run.pc = "dense"
  BY LabelFacts DEF IInv, Lengths, RunDense
<1>2. UNCHANGED <<model, parts, slot, tmp, put, build, search, unsafe, Now>>
  BY DEF RunDense, Now
<1> DEFINE reuse == Pairs(parts[run.seen], Matrix(run.seen, Service).rows)
<1>3. CASE Fits(run.seen, Service)
  <2>1. Keep(run.seen, Service) /\ run' = [run EXCEPT !.pc = "embed", !.reuse = reuse]
    BY <1>3 DEF RunDense
  <2>2. reuse \in SUBSET PairSet
    BY <1>1, <1>3, MatrixFacts
  <2>3. /\ ~unsafe => Right(Matrix(Now, Service), parts[Now]) /\ Matrix(Now, Service).label = run.spec /\ run.seen = Now
        /\ run.seen = Now /\ Right(Matrix(Now, Service), parts[Now]) => TrueOf(reuse, Matrix(Now, Service).label)
    <3>1. ASSUME ~unsafe
          PROVE  Right(Matrix(Now, Service), parts[Now]) /\ Matrix(Now, Service).label = run.spec /\ run.seen = Now
      <4>1. SlotsRight /\ KeptRight /\ RunRight
        BY <3>1 DEF IInv, Safe
      <4>2. run.seen = Now /\ Now > 0
        BY <1>1, <4>1 DEF RunRight
      <4>3. Matrix(Now, Service).label = run.spec
        BY <1>1, <1>3, <4>1, <4>2 DEF RunRight, Matrix, Fits
      <4> QED BY <1>1, <1>3, <4>1, <4>2, <4>3, MatrixRight
    <3>2. run.seen = Now /\ Right(Matrix(Now, Service), parts[Now]) => TrueOf(reuse, Matrix(Now, Service).label)
      BY <1>1, <1>3, MatrixFacts DEF Right
    <3> QED BY <3>1, <3>2
  <2> HIDE DEF reuse
  <2>4. run' \in [pc : {"idle", "load", "meta", "dense", "embed"}, spec : Labels, seen : Nat, reuse : SUBSET PairSet]
    BY <1>1, <2>1, <2>2 DEF TypeOK
  <2>5. run'.pc = "embed" /\ run'.spec = run.spec /\ run'.reuse = reuse
    BY <1>1, <2>1 DEF TypeOK
  <2>6. TypeOK'
    BY <1>1, <1>2, <1>3, <2>1, <2>4, KeepFacts DEF TypeOK
  <2>7. Lengths'
    BY <1>1, <1>2, <1>3, <2>1, <2>5, KeepLengths DEF Lengths
  <2>8. ListKept'
    BY <1>1, <1>2 DEF IInv, ListKept
  <2>9. ASSUME ~unsafe'
        PROVE  Safe'
    <3>1. Safe /\ ~unsafe
      BY <1>2, <2>9 DEF IInv
    <3>2. SlotsRight'
      BY <1>2, <3>1 DEF Safe, SlotsRight
    <3>3. KeptRight'
      BY <1>1, <1>2, <1>3, <2>1, <3>1, KeepRight DEF Safe
    <3>4. RunRight'
      BY <2>3, <2>5, <3>1 DEF RunRight
    <3>5. BuildRight' /\ SearchRight'
      BY <1>2, <3>1 DEF Safe, BuildRight, SearchRight
    <3> QED BY <3>2, <3>3, <3>4, <3>5 DEF Safe
  <2> QED BY <2>6, <2>7, <2>8, <2>9 DEF IInv
<1>4. CASE ~Fits(run.seen, Service)
  <2>1. run' = [run EXCEPT !.pc = "embed"] /\ UNCHANGED kept
    BY <1>4 DEF RunDense
  <2>2. TypeOK'
    BY <1>1, <1>2, <2>1 DEF TypeOK
  <2>3. Lengths'
    BY <1>1, <1>2, <2>1 DEF TypeOK, Lengths
  <2>4. ListKept'
    BY <1>1, <1>2 DEF IInv, ListKept
  <2>5. ASSUME ~unsafe'
        PROVE  Safe'
    <3>1. Safe
      BY <1>2, <2>5 DEF IInv
    <3>2. SlotsRight' /\ KeptRight' /\ BuildRight' /\ SearchRight'
      BY <1>2, <2>1, <3>1 DEF Safe, SlotsRight, KeptRight, BuildRight, SearchRight
    <3>3. RunRight'
      BY <1>1, <1>2, <2>1, <3>1 DEF Safe, RunRight, TypeOK
    <3> QED BY <3>2, <3>3 DEF Safe
  <2> QED BY <2>2, <2>3, <2>4, <2>5 DEF IInv
<1> QED BY <1>3, <1>4

LEMMA SearchDenseKept ==
  ASSUME IInv, SearchDense
  PROVE  IInv'
<1>1. TypeOK /\ Lengths /\ search.seen \in 1..Now /\ Service \in Profiles /\ search.pc = "dense"
  BY LabelFacts DEF IInv, Lengths, SearchDense
<1>2. UNCHANGED <<model, parts, slot, tmp, run, put, build, unsafe, Now>>
  BY DEF SearchDense, Now
<1> DEFINE rows == Matrix(search.seen, Service).rows
<1>3. CASE Fits(search.seen, Service)
  <2>1. Keep(search.seen, Service) /\ search' = [search EXCEPT !.pc = "answered", !.rows = rows]
    BY <1>3 DEF SearchDense
  <2>2. rows \in Seq(Vectors)
    BY <1>1, <1>3, MatrixFacts
  <2>3. ASSUME ~unsafe, search.clean
        PROVE  search.seen = Now /\ build.pc # "touch" /\ rows = Rows(parts[search.seen], search.spec)
    <3>1. SlotsRight /\ KeptRight /\ SearchRight
      BY <2>3 DEF IInv, Safe
    <3>2. search.seen = Now /\ build.pc # "touch" /\ slot[Service].final # None /\ slot[Service].final.label = search.spec
      BY <1>1, <2>3, <3>1 DEF SearchRight
    <3>3. Now > 0
      BY <1>1, <3>2
    <3>4. Matrix(Now, Service) = slot[Service].final /\ Right(Matrix(Now, Service), parts[Now])
      BY <1>1, <1>3, <3>1, <3>2, <3>3, MatrixRight
    <3> QED BY <3>2, <3>4 DEF Right
  <2> HIDE DEF rows
  <2>4. /\ search' \in [pc : {"idle", "check", "dense", "refused", "answered"}, spec : Labels, seen : Nat,
                        rows : Seq(Vectors), clean : BOOLEAN]
        /\ search'.pc = "answered" /\ search'.rows = rows /\ search'.spec = search.spec /\ search'.seen = search.seen
        /\ search'.clean = search.clean
    BY <1>1, <2>1, <2>2 DEF TypeOK
  <2>5. TypeOK'
    BY <1>1, <1>2, <1>3, <2>1, <2>4, KeepFacts DEF TypeOK
  <2>6. Lengths'
    BY <1>1, <1>2, <1>3, <2>1, <2>4, KeepLengths DEF Lengths
  <2>7. ListKept'
    BY <1>2 DEF IInv, ListKept
  <2>8. ASSUME ~unsafe'
        PROVE  Safe'
    <3>1. Safe /\ ~unsafe
      BY <1>2, <2>8 DEF IInv
    <3>2. SlotsRight' /\ BuildRight'
      BY <1>2, <3>1 DEF Safe, SlotsRight, BuildRight
    <3>3. KeptRight'
      BY <1>1, <1>2, <1>3, <2>1, <3>1, KeepRight DEF Safe
    <3>4. RunRight'
      <4>1. run.pc = "dense" => run.seen = Now /\ Now > 0 /\ build.pc # "touch"
        BY <3>1 DEF Safe, RunRight
      <4>2. ASSUME run.pc = "dense", kept'[Now][Service] # None
            PROVE  kept'[Now][Service].label = run.spec
        <5>1. CASE search.seen = Now
          <6>1. kept'[Now][Service] = Matrix(Now, Service)
            BY <1>1, <1>3, <2>1, <5>1, KeepFacts
          <6>2. Matrix(Now, Service).label = run.spec
            BY <1>3, <3>1, <4>2, <5>1 DEF Safe, RunRight, Matrix, Fits
          <6> QED BY <6>1, <6>2
        <5>2. CASE search.seen # Now
          <6>1. kept'[Now][Service] = kept[Now][Service]
            BY <1>1, <1>3, <2>1, <4>1, <4>2, <5>2, NowFacts, KeepFacts
          <6> QED BY <3>1, <4>2, <6>1 DEF Safe, RunRight
        <5> QED BY <5>1, <5>2
      <4> QED BY <1>2, <3>1, <4>2 DEF Safe, RunRight
    <3>5. SearchRight'
      BY <1>2, <2>3, <2>4, <3>1 DEF SearchRight
    <3> QED BY <3>2, <3>3, <3>4, <3>5 DEF Safe
  <2> QED BY <2>5, <2>6, <2>7, <2>8 DEF IInv
<1>4. CASE ~Fits(search.seen, Service)
  <2>1. search' = [search EXCEPT !.pc = "refused"] /\ UNCHANGED kept
    BY <1>4 DEF SearchDense
  <2>2. TypeOK'
    BY <1>1, <1>2, <2>1 DEF TypeOK
  <2>3. Lengths'
    BY <1>1, <1>2, <2>1 DEF TypeOK, Lengths
  <2>4. ListKept'
    BY <1>2 DEF IInv, ListKept
  <2>5. ASSUME ~unsafe'
        PROVE  Safe'
    <3>1. Safe
      BY <1>2, <2>5 DEF IInv
    <3>2. SlotsRight' /\ KeptRight' /\ RunRight' /\ BuildRight'
      BY <1>2, <2>1, <3>1 DEF Safe, SlotsRight, KeptRight, RunRight, BuildRight
    <3>3. SearchRight'
      BY <1>1, <1>2, <2>1, <3>1 DEF Safe, SearchRight, TypeOK
    <3> QED BY <3>2, <3>3 DEF Safe
  <2> QED BY <2>2, <2>3, <2>4, <2>5 DEF IInv
<1> QED BY <1>3, <1>4

LEMMA BuildReuseKept ==
  ASSUME IInv, BuildReuse
  PROVE  IInv'
<1> DEFINE p == build.profile
           rows == slot[p].final.rows
           usable == Reusable(p, EnvModel) /\ Len(rows) = Len(parts[Now])
           reuse == IF usable THEN Pairs(parts[Now], rows) ELSE {}
<1>1. TypeOK /\ Lengths /\ Now \in 1..Now /\ p \in Profiles /\ build.pc = "meta"
  BY NowFacts DEF IInv, TypeOK, Lengths, BuildReuse
<1>2. UNCHANGED <<model, parts, kept, slot, tmp, run, put, search, unsafe, Now>>
  BY DEF BuildReuse, Now
<1>3. build' = [build EXCEPT !.pc = "embed", !.reuse = reuse]
  BY DEF BuildReuse
<1>4. rows \in Seq(Vectors) /\ parts[Now] \in Seq(AllParts)
  BY <1>1, PartsFacts DEF TypeOK, ProfileSet
<1>5. reuse \in SUBSET PairSet
  BY <1>4, PairsFacts
<1>6. ASSUME SlotsRight
      PROVE  TrueOf(reuse, EnvModel)
  <2>1. CASE usable
    <3>1. rows = Rows(parts[Now], EnvModel)
      BY <1>1, <1>6, <2>1 DEF SlotsRight, Right, Reusable
    <3> QED BY <1>4, <2>1, <3>1, PairsFacts
  <2>2. CASE ~usable
    BY <2>2 DEF TrueOf
  <2> QED BY <2>1, <2>2
<1> HIDE DEF p, rows, usable, reuse
<1>7. /\ build' \in [pc : {"idle", "meta", "embed", "away", "swap", "touch"}, profile : Profiles,
                     parts : Seq(AllParts), reuse : SUBSET PairSet]
      /\ build'.pc = "embed" /\ build'.profile = build.profile /\ build'.parts = build.parts /\ build'.reuse = reuse
  BY <1>1, <1>3, <1>5 DEF TypeOK
<1>8. TypeOK' /\ Lengths' /\ ListKept'
  BY <1>1, <1>2, <1>7 DEF IInv, TypeOK, Lengths, ListKept
<1>9. ASSUME ~unsafe'
      PROVE  Safe'
  <2>1. Safe
    BY <1>2, <1>9 DEF IInv
  <2>2. SlotsRight' /\ KeptRight' /\ RunRight' /\ SearchRight'
    BY <1>1, <1>2, <1>7, <2>1 DEF Safe, SlotsRight, KeptRight, RunRight, SearchRight
  <2>3. BuildRight'
    BY <1>1, <1>2, <1>6, <1>7, <2>1 DEF Safe, BuildRight
  <2> QED BY <2>2, <2>3 DEF Safe
<1> QED BY <1>8, <1>9 DEF IInv

LEMMA BuildWriteKept ==
  ASSUME IInv, BuildWrite
  PROVE  IInv'
<1> DEFINE rows == RowsOf(build.parts, build.reuse, EnvModel)
           Builds == [pc : {"idle", "meta", "embed", "away", "swap", "touch"}, profile : Profiles,
                      parts : Seq(AllParts), reuse : SUBSET PairSet]
<1>1. TypeOK /\ Lengths /\ Now \in 1..Now /\ build \in Builds /\ build.pc = "embed"
  BY NowFacts DEF IInv, TypeOK, Lengths, BuildWrite
<1>2. UNCHANGED <<model, parts, kept, slot, run, put, search, unsafe, Now>>
  BY DEF BuildWrite, Now
<1>3. /\ rows \in Seq(Vectors)
      /\ TrueOf(build.reuse, EnvModel) => rows = Rows(build.parts, EnvModel)
  BY <1>1, RowsFacts, LabelFacts
<1>4. \/ tmp' = [label |-> EnvModel, rows |-> rows] /\ build' = [build EXCEPT !.pc = "away"]
      \/ tmp' = tmp /\ build' = [build EXCEPT !.pc = "idle", !.reuse = {}]
  BY DEF BuildWrite, RowsOf
<1> HIDE DEF rows
<1>5. CASE tmp' = [label |-> EnvModel, rows |-> rows] /\ build' = [build EXCEPT !.pc = "away"]
  <2>1. tmp' \in ProfileSet /\ tmp'.label = EnvModel /\ tmp'.rows = rows
    BY <1>3, <1>5, LabelFacts DEF ProfileSet
  <2>2. /\ build' \in Builds /\ build'.pc = "away" /\ build'.profile = build.profile
        /\ build'.parts = build.parts /\ build'.reuse = build.reuse
    BY <1>1, <1>5
  <2>3. TypeOK' /\ Lengths' /\ ListKept'
    BY <1>1, <1>2, <2>1, <2>2 DEF IInv, TypeOK, Lengths, ListKept
  <2>4. ASSUME ~unsafe'
        PROVE  Safe'
    <3>1. Safe
      BY <1>2, <2>4 DEF IInv
    <3>2. SlotsRight' /\ KeptRight' /\ RunRight' /\ SearchRight'
      BY <1>1, <1>2, <2>2, <3>1 DEF Safe, SlotsRight, KeptRight, RunRight, SearchRight
    <3>3. BuildRight'
      BY <1>1, <1>2, <1>3, <2>1, <2>2, <3>1 DEF Safe, BuildRight, Right
    <3> QED BY <3>2, <3>3 DEF Safe
  <2> QED BY <2>3, <2>4 DEF IInv
<1>6. CASE tmp' = tmp /\ build' = [build EXCEPT !.pc = "idle", !.reuse = {}]
  <2>1. /\ build' \in Builds /\ build'.pc = "idle" /\ build'.profile = build.profile
        /\ build'.parts = build.parts /\ build'.reuse = {}
    BY <1>1, <1>6
  <2>2. TypeOK' /\ Lengths' /\ ListKept'
    BY <1>1, <1>2, <1>6, <2>1 DEF IInv, TypeOK, Lengths, ListKept
  <2>3. ASSUME ~unsafe'
        PROVE  Safe'
    <3>1. Safe
      BY <1>2, <2>3 DEF IInv
    <3>2. SlotsRight' /\ KeptRight' /\ RunRight' /\ SearchRight'
      BY <1>1, <1>2, <2>1, <3>1 DEF Safe, SlotsRight, KeptRight, RunRight, SearchRight
    <3>3. BuildRight'
      BY <1>1, <1>2, <1>6, <2>1, <3>1 DEF Safe, BuildRight, TrueOf
    <3> QED BY <3>2, <3>3 DEF Safe
  <2> QED BY <2>2, <2>3 DEF IInv
<1> QED BY <1>4, <1>5, <1>6

LEMMA BuildSwapKept ==
  ASSUME IInv, BuildSwap
  PROVE  IInv'
<1> DEFINE Builds == [pc : {"idle", "meta", "embed", "away", "swap", "touch"}, profile : Profiles,
                      parts : Seq(AllParts), reuse : SUBSET PairSet]
           p == build.profile
<1>1. TypeOK /\ Lengths /\ build \in Builds /\ build.pc = "swap" /\ p \in Profiles
  BY DEF IInv, TypeOK, BuildSwap
<1>2. /\ UNCHANGED <<model, parts, kept, run, Now>> /\ tmp' = None
      /\ search' = [search EXCEPT !.clean = FALSE] /\ put' = [put EXCEPT !.sure = FALSE]
      /\ unsafe' = (unsafe \/ run.pc \in {"meta", "dense"})
  BY DEF BuildSwap, Now, Unsure
<1>3. /\ search' \in [pc : {"idle", "check", "dense", "refused", "answered"}, spec : Labels, seen : Nat,
                      rows : Seq(Vectors), clean : BOOLEAN]
      /\ search'.pc = search.pc /\ search'.seen = search.seen /\ ~search'.clean
  BY <1>1, <1>2 DEF TypeOK
<1>4. /\ put' \in [pc : {"idle", "set"}, to : Labels, listed : BOOLEAN, sure : BOOLEAN]
      /\ put'.pc = put.pc /\ put'.to = put.to /\ ~put'.sure
  BY <1>1, <1>2 DEF TypeOK
<1>5. unsafe' \in BOOLEAN /\ (~unsafe' => ~unsafe /\ run.pc \notin {"meta", "dense"})
  BY <1>1, <1>2 DEF TypeOK
<1>6. ListKept' /\ SearchRight'
  BY <1>3, <1>4 DEF ListKept, SearchRight
<1>7. \/ tmp = None /\ slot' = slot /\ build' = [build EXCEPT !.pc = "idle", !.reuse = {}]
      \/ /\ tmp # None /\ slot' = [slot EXCEPT ![p] = [final |-> tmp, old |-> None]]
         /\ build' = [build EXCEPT !.pc = "touch"]
  BY DEF BuildSwap
<1>8. CASE tmp = None /\ slot' = slot /\ build' = [build EXCEPT !.pc = "idle", !.reuse = {}]
  <2>1. /\ build' \in Builds /\ build'.pc = "idle" /\ build'.profile = build.profile
        /\ build'.parts = build.parts /\ build'.reuse = {}
    BY <1>1, <1>8
  <2>2. TypeOK' /\ Lengths'
    BY <1>1, <1>2, <1>3, <1>4, <1>5, <1>8, <2>1, LabelFacts DEF TypeOK, Lengths
  <2>3. ASSUME ~unsafe'
        PROVE  Safe'
    <3>1. Safe
      BY <1>5, <2>3 DEF IInv
    <3>2. SlotsRight' /\ KeptRight' /\ RunRight'
      BY <1>1, <1>2, <1>5, <1>8, <2>1, <2>3, <3>1 DEF Safe, SlotsRight, KeptRight, RunRight
    <3>3. BuildRight'
      BY <1>2, <2>1 DEF BuildRight, TrueOf
    <3> QED BY <1>6, <3>2, <3>3 DEF Safe
  <2> QED BY <1>6, <2>2, <2>3 DEF IInv
<1>9. CASE /\ tmp # None /\ slot' = [slot EXCEPT ![p] = [final |-> tmp, old |-> None]]
           /\ build' = [build EXCEPT !.pc = "touch"]
  <2>1. /\ build' \in Builds /\ build'.pc = "touch" /\ build'.profile = p
        /\ build'.parts = build.parts /\ build'.reuse = build.reuse
    BY <1>1, <1>9
  <2>2. /\ slot' \in [Profiles -> [final : ProfileSet, old : ProfileSet]]
        /\ \A q \in Profiles : slot'[q].final = IF q = p THEN tmp ELSE slot[q].final
    BY <1>1, <1>9, LabelFacts DEF TypeOK
  <2>3. TypeOK' /\ Lengths'
    BY <1>1, <1>2, <1>3, <1>4, <1>5, <2>1, <2>2, LabelFacts DEF TypeOK, Lengths
  <2>4. ASSUME ~unsafe'
        PROVE  Safe'
    <3>1. Safe
      BY <1>5, <2>4 DEF IInv
    <3>2. SlotsRight'
      BY <1>1, <1>2, <1>9, <2>2, <3>1 DEF Safe, SlotsRight, BuildRight, Lengths
    <3>3. KeptRight'
      BY <1>1, <1>2, <2>1, <2>2, <3>1 DEF Safe, KeptRight
    <3>4. RunRight'
      BY <1>2, <1>5, <2>4, <3>1 DEF Safe, RunRight
    <3>5. BuildRight'
      BY <1>1, <1>2, <2>1, <3>1 DEF Safe, BuildRight
    <3> QED BY <1>6, <3>2, <3>3, <3>4, <3>5 DEF Safe
  <2> QED BY <1>6, <2>3, <2>4 DEF IInv
<1> QED BY <1>7, <1>8, <1>9

\* A new mtime: the steps that loaded before keep what they have, the new object has read nothing.
LEMMA NewMtimeKeepsLengths ==
  ASSUME TypeOK, Lengths, NEW corpus \in Corpora, parts' = Append(parts, corpus), kept' = Append(kept, Fresh)
  PROVE  /\ \A s \in 1..Now : s \in 1..Now'
         /\ \A s \in 1..Now' : \A p \in Profiles : kept'[s][p] # None => Len(kept'[s][p].rows) = Len(parts'[s])
<1>1. Now \in Nat /\ Now' = Now + 1
  BY AppendFacts
<1>2. ASSUME NEW s \in 1..Now', NEW p \in Profiles, kept'[s][p] # None
      PROVE  Len(kept'[s][p].rows) = Len(parts'[s])
  <2>1. s # Now'
    BY <1>2, AppendFacts
  <2>2. s \in 1..Now
    BY <1>1, <2>1
  <2>3. parts'[s] = parts[s] /\ kept'[s] = kept[s]
    BY Zenon, <2>2, AppendFacts
  <2>4. Len(kept[s][p].rows) = Len(parts[s])
    BY Zenon, <1>2, <2>2, <2>3 DEF Lengths
  <2> QED BY Zenon, <2>3, <2>4
<1>3. \A s \in 1..Now : s \in 1..Now'
  BY <1>1
<1> QED BY Zenon, <1>2, <1>3

LEMMA BuildTouchKept ==
  ASSUME IInv, BuildTouch
  PROVE  IInv'
<1> DEFINE Builds == [pc : {"idle", "meta", "embed", "away", "swap", "touch"}, profile : Profiles,
                      parts : Seq(AllParts), reuse : SUBSET PairSet]
<1>1. TypeOK /\ Lengths /\ Now \in 1..Now /\ build \in Builds /\ build.pc = "touch" /\ parts[Now] \in Corpora
  BY NowFacts, PartsFacts DEF IInv, TypeOK, Lengths, BuildTouch
<1>2. /\ UNCHANGED <<model, slot, tmp, run, put, search, unsafe>>
      /\ parts' = Append(parts, parts[Now]) /\ kept' = Append(kept, Fresh)
      /\ build' = [build EXCEPT !.pc = "idle", !.reuse = {}]
  BY DEF BuildTouch
<1>3. build' \in Builds /\ build'.pc = "idle" /\ build'.reuse = {}
  BY <1>1, <1>2
<1>4. /\ parts' \in Seq(Corpora) /\ kept' \in Seq([Profiles -> ProfileSet]) /\ Len(kept') = Len(parts')
      /\ Now' \in Nat /\ Now' > 0 /\ parts'[Now'] = parts[Now] /\ \A p \in Profiles : kept'[Now'][p] = None
  <2>1. Now' = Now + 1 /\ Now \in Nat
    BY <1>1, <1>2, AppendFacts
  <2>2. /\ parts' \in Seq(Corpora) /\ kept' \in Seq([Profiles -> ProfileSet]) /\ Len(kept') = Len(parts')
        /\ parts'[Now'] = parts[Now] /\ \A p \in Profiles : kept'[Now'][p] = None
    BY Zenon, <1>1, <1>2, AppendFacts
  <2> QED BY <2>1, <2>2
<1>5. /\ \A s \in 1..Now : s \in 1..Now'
      /\ \A s \in 1..Now' : \A p \in Profiles : kept'[s][p] # None => Len(kept'[s][p].rows) = Len(parts'[s])
  BY <1>1, <1>2, NewMtimeKeepsLengths
<1>6. TypeOK'
  BY <1>1, <1>2, <1>3, <1>4 DEF TypeOK
<1>7. Lengths'
  BY <1>1, <1>2, <1>3, <1>5 DEF Lengths
<1>8. ListKept'
  BY <1>2 DEF IInv, ListKept
<1>9. ASSUME ~unsafe'
      PROVE  Safe'
  <2>1. Safe
    BY <1>2, <1>9 DEF IInv
  <2>2. SlotsRight'
    BY <1>2, <1>4, <2>1 DEF Safe, SlotsRight, Right
  <2>3. KeptRight'
    BY <1>4 DEF KeptRight
  <2>4. RunRight'
    BY <1>1, <1>2, <2>1 DEF Safe, RunRight
  <2>5. BuildRight'
    BY <1>1, <1>2, <1>3, <2>1 DEF Safe, BuildRight, TrueOf
  <2>6. SearchRight'
    BY <1>1, <1>2, <2>1 DEF Safe, SearchRight
  <2> QED BY <2>2, <2>3, <2>4, <2>5, <2>6 DEF Safe
<1> QED BY <1>6, <1>7, <1>8, <1>9 DEF IInv

LEMMA RunWriteKept ==
  ASSUME IInv, RunWrite
  PROVE  IInv'
<1>1. TypeOK /\ Lengths /\ run.pc = "embed" /\ Now \in Nat
  BY NowFacts DEF IInv, RunWrite
<1> DEFINE Written(corpus) == [label |-> run.spec, rows |-> RowsOf(corpus, run.reuse, run.spec)]
<1>2. PICK corpus \in Corpora :
        /\ parts' = Append(parts, corpus)
        /\ slot' = [p \in Profiles |-> [old |-> None, final |-> IF p = Service THEN Written(corpus) ELSE Carried(p, corpus)]]
  BY DEF RunWrite, RowsOf
<1>3. /\ UNCHANGED <<model, put, build>> /\ kept' = Append(kept, Fresh) /\ tmp' = None
      /\ run' = [run EXCEPT !.pc = "idle", !.reuse = {}]
      /\ search' = [search EXCEPT !.clean = FALSE]
      /\ unsafe' = (unsafe \/ build.pc # "idle")
  BY DEF RunWrite
<1> DEFINE written == Written(corpus)
<1>4. /\ RowsOf(corpus, run.reuse, run.spec) \in Seq(Vectors)
      /\ TrueOf(run.reuse, run.spec) => RowsOf(corpus, run.reuse, run.spec) = Rows(corpus, run.spec)
  <2>1. corpus \in Seq(AllParts) /\ run.reuse \in SUBSET PairSet /\ run.spec \in Labels
    BY <1>1, CorpusFacts DEF TypeOK
  <2> QED BY <2>1, RowsFacts
<1>5. written \in ProfileSet /\ (TrueOf(run.reuse, run.spec) => Right(written, corpus))
  <2>1. run.spec \in Labels
    BY <1>1 DEF TypeOK
  <2> QED BY <1>4, <2>1 DEF ProfileSet, Right
<1> HIDE DEF written
<1>6. /\ slot' \in [Profiles -> [final : ProfileSet, old : ProfileSet]]
      /\ \A p \in Profiles : slot'[p].final = IF p = Service THEN written ELSE Carried(p, corpus)
  <2>1. \A p \in Profiles : Carried(p, corpus) \in ProfileSet
    BY <1>1, CarriedFacts
  <2>2. slot' = [p \in Profiles |-> [old |-> None, final |-> IF p = Service THEN written ELSE Carried(p, corpus)]]
    BY <1>2 DEF written
  <2> QED BY <1>5, <2>1, <2>2, LabelFacts
<1>7. /\ run' \in [pc : {"idle", "load", "meta", "dense", "embed"}, spec : Labels, seen : Nat, reuse : SUBSET PairSet]
      /\ run'.pc = "idle" /\ run'.reuse = {}
  BY <1>1, <1>3 DEF TypeOK
<1>8. /\ search' \in [pc : {"idle", "check", "dense", "refused", "answered"}, spec : Labels, seen : Nat,
                      rows : Seq(Vectors), clean : BOOLEAN]
      /\ search'.pc = search.pc /\ search'.seen = search.seen /\ ~search'.clean
  BY <1>1, <1>3 DEF TypeOK
<1>9. unsafe' \in BOOLEAN /\ (~unsafe' => ~unsafe /\ build.pc = "idle")
  BY <1>1, <1>3 DEF TypeOK
<1>10. /\ parts' \in Seq(Corpora) /\ kept' \in Seq([Profiles -> ProfileSet]) /\ Len(kept') = Len(parts')
       /\ Now' \in Nat /\ Now' > 0 /\ parts'[Now'] = corpus /\ \A p \in Profiles : kept'[Now'][p] = None
  <2>1. Now' = Now + 1
    BY <1>1, <1>2, <1>3, AppendFacts
  <2>2. /\ parts' \in Seq(Corpora) /\ kept' \in Seq([Profiles -> ProfileSet]) /\ Len(kept') = Len(parts')
        /\ parts'[Now'] = corpus /\ \A p \in Profiles : kept'[Now'][p] = None
    BY Zenon, <1>1, <1>2, <1>3, AppendFacts
  <2> QED BY <1>1, <2>1, <2>2
<1>11. /\ \A s \in 1..Now : s \in 1..Now'
       /\ \A s \in 1..Now' : \A p \in Profiles : kept'[s][p] # None => Len(kept'[s][p].rows) = Len(parts'[s])
  BY <1>1, <1>2, <1>3, NewMtimeKeepsLengths
<1>12. TypeOK'
  BY <1>1, <1>3, <1>6, <1>7, <1>8, <1>9, <1>10, LabelFacts DEF TypeOK
<1>13. Lengths'
  BY <1>1, <1>3, <1>7, <1>8, <1>10, <1>11 DEF Lengths
<1>14. ListKept'
  BY <1>1, <1>3 DEF IInv, ListKept
<1>15. ASSUME ~unsafe'
       PROVE  Safe'
  <2>1. Safe /\ build.pc = "idle"
    BY <1>9, <1>15 DEF IInv
  <2>2. SlotsRight'
    <3>1. ASSUME NEW p \in Profiles, slot'[p].final # None
          PROVE  Right(slot'[p].final, corpus)
      <4>1. CASE p = Service
        BY <1>5, <1>6, <2>1, <4>1 DEF Safe, RunRight
      <4>2. CASE p # Service
        <5>1. slot'[p].final = Carried(p, corpus) /\ Carried(p, corpus) # None
          BY <1>6, <3>1, <4>2
        <5>2. Now > 0 /\ slot[p].final # None /\ Fits(Now, p)
          BY <1>1, <5>1, CarriedFacts
        <5>3. Right(Matrix(Now, p), parts[Now]) /\ Matrix(Now, p) = slot[p].final
          BY <1>1, <2>1, <5>2, MatrixRight DEF Safe
        <5> QED BY <1>1, <5>1, <5>3, CarriedFacts
      <4> QED BY <4>1, <4>2
    <3> QED BY <1>10, <3>1 DEF SlotsRight, Right
  <2>3. KeptRight'
    BY <1>10 DEF KeptRight
  <2>4. RunRight'
    BY <1>7 DEF RunRight, TrueOf
  <2>5. BuildRight'
    BY <1>3, <2>1 DEF Safe, BuildRight
  <2>6. SearchRight'
    BY <1>8 DEF SearchRight
  <2> QED BY <2>2, <2>3, <2>4, <2>5, <2>6 DEF Safe
<1> QED BY <1>12, <1>13, <1>14, <1>15 DEF IInv

----------------------------------------------------------------------------
LEMMA InitHolds == Init => IInv
<1> SUFFICES ASSUME Init PROVE IInv
  OBVIOUS
<1>1. <<>> \in Seq(Vectors) /\ <<>> \in Seq(AllParts) /\ <<>> \in Seq(Corpora) /\ <<>> \in Seq([Profiles -> ProfileSet]) /\ Now = 0
  BY EmptySeq DEF Init, Now
<1>2. TypeOK
  BY <1>1, LabelFacts DEF Init, TypeOK, Labels
<1>3. /\ run.pc = "idle" /\ run.reuse = {} /\ build.pc = "idle" /\ build.reuse = {} /\ search.pc = "idle"
      /\ put.sure = FALSE /\ tmp = None /\ \A p \in Profiles : slot[p].final = None
  BY DEF Init
<1>4. ~(Now > 0) /\ \A s : s \notin 1..Now
  BY <1>1
<1>5. Lengths
  BY <1>3, <1>4 DEF Lengths
<1>6. ListKept
  BY <1>3 DEF ListKept
<1>7. SlotsRight /\ KeptRight /\ RunRight /\ BuildRight /\ SearchRight
  BY <1>3, <1>4 DEF SlotsRight, KeptRight, RunRight, BuildRight, SearchRight, TrueOf
<1> QED BY <1>2, <1>5, <1>6, <1>7 DEF IInv, Safe

LEMMA StutterKept == IInv /\ UNCHANGED vars => IInv'
<1> SUFFICES ASSUME IInv, UNCHANGED vars PROVE IInv'
  OBVIOUS
<1>1. UNCHANGED <<model, parts, kept, slot, tmp, run, put, build, search, unsafe, Now>>
  BY DEF vars, Now
<1> QED BY <1>1 DEF IInv, TypeOK, Lengths, ListKept, Safe, SlotsRight, KeptRight, RunRight, BuildRight, SearchRight

\* The invariant holds in every state, for every value of the constants and whatever comes in between.
THEOREM Inductive == Spec => []IInv
<1>1. IInv /\ [Next]_vars => IInv'
  <2> SUFFICES ASSUME IInv, [Next]_vars PROVE IInv'
    OBVIOUS
  <2>1. ASSUME NEW m \in Models, PutList(m) PROVE IInv'
    BY <2>1, PutListKept
  <2>2. ASSUME NEW p \in Profiles, BuildStart(p) PROVE IInv'
    BY <2>2, BuildStartKept
  <2>3. CASE PutSet \/ RunStart \/ RunLoad \/ RunMeta \/ RunDense \/ RunWrite \/ RunFails
    BY <2>3, PutSetKept, RunStartKept, RunLoadKept, RunMetaKept, RunDenseKept, RunWriteKept, RunFailsKept
  <2>4. CASE BuildReuse \/ BuildWrite \/ BuildAway \/ BuildSwap \/ BuildTouch \/ BuildKilled
    BY <2>4, BuildReuseKept, BuildWriteKept, BuildAwayKept, BuildSwapKept, BuildTouchKept, BuildKilledKept
  <2>5. CASE SearchLoad \/ SearchCheck \/ SearchDense
    BY <2>5, SearchLoadKept, SearchCheckKept, SearchDenseKept
  <2>6. CASE UNCHANGED vars
    BY <2>6, StutterKept
  <2> QED BY <2>1, <2>2, <2>3, <2>4, <2>5, <2>6 DEF Next
<1> QED BY <1>1, InitHolds, PTL DEF Spec

\* Whatever models are set, runs reuse and scripts rebuild before a question is answered, each part
\* was compared by its own vector from the model that embedded the question.
THEOREM AnswersAreRight == Spec => []AnswersMatch
<1>1. IInv => AnswersMatch
  BY DEF IInv, Safe, SearchRight, AnswersMatch, Rows
<1> QED BY <1>1, Inductive, PTL

\* PUT lists the cases whose questions will be refused, and that stays so until a run or the script.
THEOREM ListStaysRight == Spec => []ListIsRight
<1>1. IInv => ListIsRight
  BY DEF IInv, ListKept, ListIsRight
<1> QED BY <1>1, Inductive, PTL
=============================================================================
