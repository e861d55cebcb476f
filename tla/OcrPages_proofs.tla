--------------------------- MODULE OcrPages_proofs ---------------------------
(***************************************************************************)
(* Proofs about OcrPages: for any documents, pictures, processes and       *)
(* threads, the cache holds no incomplete text of a picture that one       *)
(* thread at a time wrote (CacheAtomic), and where several did, all is     *)
(* well when the last of them is done (CacheSettles).                      *)
(*                                                                         *)
(* What has to be known is who may write to which inode: OwnFile and       *)
(* NamesApart keep pictures apart, Current says that a thread that is      *)
(* alone writes what goes by the name of the .tmp, SomeoneWrites that the  *)
(* last to have emptied a file has not yet left it incomplete.             *)
(***************************************************************************)
EXTENDS OcrPages, FiniteSetTheorems, TLAPS

----------------------------------------------------------------------------
(* The inductive invariant. *)

States == {"queued", "lookup", "read", "recognise", "engine", "open", "blank", "head", "tail",
           "replace", "done", "raised", "cancelled"}

TypeOK ==
  /\ at \in [Pages -> States]
  /\ fd \in [Pages -> Inodes \cup {NoFile}]
  /\ final \in [Images -> Inodes \cup {NoFile}]
  /\ tmp \in [Images -> Inodes \cup {NoFile}]
  /\ content \in [Inodes -> SUBSET Whole]

\* No inode has two names.
NamesApart ==
  /\ \A i, j \in Images : final[i] # NoFile /\ final[i] = final[j] => i = j
  /\ \A i, j \in Images : tmp[i] # NoFile /\ tmp[i] = tmp[j] => i = j
  /\ \A i, j \in Images : final[i] # NoFile => final[i] # tmp[j]

\* A thread writes to a file of its picture, while it is writing.
OwnFile ==
  /\ \A p \in Pages : fd[p] # NoFile <=> at[p] \in Writing
  /\ \A p \in Pages : \A i \in Images :
       fd[p] # NoFile /\ (fd[p] = final[i] \/ fd[p] = tmp[i]) => i = Picture(p)
  /\ \A p, q \in Pages : fd[p] # NoFile /\ fd[p] = fd[q] => Picture(p) = Picture(q)

OneWriter ==
  \A p, q \in Pages :
    at[p] \in Writing /\ at[q] \in Writing /\ Picture(p) = Picture(q) /\ Picture(p) \notin shared => p = q

\* What a thread that is alone writes has the name of the .tmp.
Current ==
  \A p \in Pages : at[p] \in Writing /\ Picture(p) \notin shared => tmp[Picture(p)] = fd[p]

WrittenSoFar ==
  \A p \in Pages : Picture(p) \notin shared /\ Picture(p) \notin unread =>
    /\ at[p] = "tail" => "head" \in content[fd[p]]
    /\ at[p] = "replace" => content[fd[p]] = Whole

BlankUnread == \A p \in Pages : at[p] = "blank" => Picture(p) \in unread

\* The thread that emptied n last is at its first piece, or its first piece is there.
Emptied(i, n) ==
  \E p \in Pages : Picture(p) = i /\ fd[p] = n /\ (at[p] = "head" \/ (at[p] = "tail" /\ "head" \in content[n]))

\* A file with a name is whole, or the thread that emptied it last is not done with it.
SomeoneWrites ==
  ~trouble => \A i \in Images \ unread :
    /\ final[i] # NoFile => content[final[i]] = Whole \/ Emptied(i, final[i])
    /\ tmp[i] # NoFile => content[tmp[i]] = Whole \/ Emptied(i, tmp[i])

IInv ==
  /\ TypeOK
  /\ NamesApart
  /\ OwnFile
  /\ OneWriter
  /\ Current
  /\ WrittenSoFar
  /\ BlankUnread
  /\ SomeoneWrites
  /\ CacheAtomic

----------------------------------------------------------------------------
(* There is always an inode that is not in use. *)

LEMMA Ranges ==
  ASSUME NEW S, IsFiniteSet(S), NEW f, DOMAIN f = S
  PROVE  IsFiniteSet({f[x] : x \in S}) /\ Cardinality({f[x] : x \in S}) <= Cardinality(S)
<1> DEFINE T == {f[x] : x \in S}
           g == [x \in S |-> f[x]]
<1>1. g \in Surjection(S, T)
  BY DEF Surjection
<1> QED BY <1>1, FS_Surjection

LEMMA FreeInode ==
  ASSUME TypeOK
  PROVE  NewInode \in Inodes /\ NewInode \notin InUse
<1> DEFINE F == {final[i] : i \in Images}
           T == {tmp[i] : i \in Images}
           D == {fd[p] : p \in Pages}
           P == Cardinality(Pages)
           I == Cardinality(Images)
           picture == [p \in Pages |-> Picture(p)]
<1>1. IsFiniteSet(Pages)
  BY OcrAssumption
<1>2. IsFiniteSet(Images)
  <2>1. {picture[p] : p \in Pages} = Images
    BY DEF Images
  <2>2. DOMAIN picture = Pages
    OBVIOUS
  <2> HIDE DEF picture
  <2> QED BY <1>1, <2>1, <2>2, Ranges
<1>3. P \in Nat /\ I \in Nat
  BY <1>1, <1>2, FS_CardinalityType
<1>4. IsFiniteSet(F) /\ Cardinality(F) <= I
  BY <1>2, Ranges DEF TypeOK
<1>5. IsFiniteSet(T) /\ Cardinality(T) <= I
  BY <1>2, Ranges DEF TypeOK
<1>6. IsFiniteSet(D) /\ Cardinality(D) <= P
  BY <1>1, Ranges DEF TypeOK
<1> HIDE DEF F, T, D, P, I
<1>7. Cardinality(F) \in Nat /\ Cardinality(T) \in Nat /\ Cardinality(D) \in Nat
  BY <1>4, <1>5, <1>6, FS_CardinalityType
<1>8. IsFiniteSet(F \cup T) /\ Cardinality(F \cup T) <= I + I
  <2>1. IsFiniteSet(F \cap T) /\ Cardinality(F \cap T) \in Nat
    BY <1>4, FS_Subset, FS_CardinalityType
  <2>2. Cardinality(F \cup T) = Cardinality(F) + Cardinality(T) - Cardinality(F \cap T)
    BY <1>4, <1>5, FS_Union
  <2>3. IsFiniteSet(F \cup T)
    BY <1>4, <1>5, FS_Union
  <2> QED BY <1>3, <1>4, <1>5, <1>7, <2>1, <2>2, <2>3
<1>9. IsFiniteSet(InUse) /\ Cardinality(InUse) <= P + I + I
  <2>1. InUse = (F \cup T) \cup D
    BY DEF InUse, F, T, D
  <2>2. IsFiniteSet((F \cup T) \cap D) /\ Cardinality((F \cup T) \cap D) \in Nat /\ Cardinality(F \cup T) \in Nat
    BY <1>8, FS_Subset, FS_CardinalityType
  <2>3. Cardinality((F \cup T) \cup D) = Cardinality(F \cup T) + Cardinality(D) - Cardinality((F \cup T) \cap D)
    BY <1>6, <1>8, FS_Union
  <2>4. IsFiniteSet((F \cup T) \cup D)
    BY <1>6, <1>8, FS_Union
  <2> QED BY <1>3, <1>6, <1>7, <1>8, <2>1, <2>2, <2>3, <2>4
<1>10. Inodes = 1..(P + 2 * I + 1)
  BY DEF Inodes, P, I
<1>11. Cardinality(Inodes) = P + 2 * I + 1
  BY <1>3, <1>10, FS_Interval
<1>12. \E n \in Inodes : n \notin InUse
  <2>1. SUFFICES ASSUME Inodes \subseteq InUse PROVE FALSE
    OBVIOUS
  <2>2. Cardinality(Inodes) <= Cardinality(InUse)
    BY <1>9, <2>1, FS_Subset
  <2>3. Cardinality(InUse) \in Nat
    BY <1>9, FS_CardinalityType
  <2> QED BY <1>3, <1>9, <1>11, <2>2, <2>3
<1> QED BY <1>12 DEF NewInode

----------------------------------------------------------------------------
(* Steps that write to no file. *)

Quiet ==
  /\ UNCHANGED <<fd, files, shared, trouble>>
  /\ at' \in [Pages -> States]
  /\ \A p \in Pages : at'[p] # at[p] => at[p] \notin Writing /\ at'[p] \notin Writing
  /\ unread \subseteq unread'
  /\ \A p \in Pages : at'[p] = "blank" => Picture(p) \in unread'

LEMMA QuietKeeps ==
  ASSUME IInv, Quiet
  PROVE  IInv'
<1>1. TypeOK' /\ NamesApart'
  BY DEF IInv, Quiet, files, TypeOK, NamesApart
<1>2. OwnFile' /\ OneWriter' /\ Current'
  BY DEF IInv, Quiet, files, OwnFile, OneWriter, Current
<1>3. WrittenSoFar' /\ BlankUnread'
  BY DEF IInv, Quiet, files, WrittenSoFar, BlankUnread, Writing
<1>4. ASSUME NEW i \in Images, NEW n, Emptied(i, n)
      PROVE  Emptied(i, n)'
  BY <1>4 DEF Quiet, files, Emptied, Writing
<1>5. SomeoneWrites'
  BY <1>4 DEF IInv, Quiet, files, SomeoneWrites
<1>6. CacheAtomic'
  BY DEF IInv, Quiet, files, CacheAtomic
<1> QED BY <1>1, <1>2, <1>3, <1>5, <1>6 DEF IInv

LEMMA QuietMove ==
  ASSUME IInv, NEW p \in Pages, NEW s \in States, Moves(p, s), at[p] \notin Writing, s \notin Writing,
         UNCHANGED <<fd, files, shared, trouble>>, unread \subseteq unread',
         s = "blank" => Picture(p) \in unread'
  PROVE  Quiet
BY DEF IInv, TypeOK, Moves, Quiet, BlankUnread

LEMMA QuietSteps ==
  ASSUME IInv, NEW p \in Pages,
         \/ StartPage(p) \/ Lookup(p) \/ Read(p)
         \/ Tesseract(p) \/ LoadModel(p) \/ EnterEngine(p) \/ LeaveEngine(p)
  PROVE  Quiet
<1> USE DEF At, Writing, States, past
<1>1. CASE StartPage(p)
  BY <1>1, QuietMove DEF StartPage
<1>2. CASE Lookup(p)
  BY <1>2, QuietMove DEF Lookup
<1>3. CASE Read(p)
  BY <1>3, QuietMove DEF Read
<1>4. ASSUME Recognised(p), at[p] \notin Writing, UNCHANGED <<fd, files, shared, trouble>>
      PROVE  Quiet
  BY <1>4, QuietMove DEF Recognised
<1>5. CASE Tesseract(p)
  BY <1>4, <1>5 DEF Tesseract
<1>6. CASE LoadModel(p)
  <2>1. CASE UNCHANGED <<at, unread>>
    BY <1>6, <2>1 DEF LoadModel, Quiet, IInv, TypeOK, BlankUnread
  <2>2. CASE Moves(p, "blank") /\ unread' = unread \cup {Picture(p)}
    BY <1>6, <2>2, QuietMove DEF LoadModel
  <2> QED BY <1>6, <2>1, <2>2 DEF LoadModel
<1>7. CASE EnterEngine(p)
  BY <1>7, QuietMove DEF EnterEngine
<1>8. CASE LeaveEngine(p)
  BY <1>4, <1>8 DEF LeaveEngine
<1> QED BY <1>1, <1>2, <1>3, <1>5, <1>6, <1>7, <1>8

LEMMA QuietDocs ==
  ASSUME IInv, NEW d \in Docs, Begin(d) \/ Abort(d) \/ Finish(d)
  PROVE  Quiet
<1> USE DEF Writing, States, past
<1>1. CASE Begin(d)
  BY <1>1 DEF Begin, Quiet, IInv, TypeOK, BlankUnread
<1>2. CASE Abort(d)
  BY <1>2 DEF Abort, Quiet, IInv, TypeOK, BlankUnread
<1>3. CASE Finish(d)
  <2>1. \A p \in Pages : p[1] \in {d} => at[p] \in Over
    BY <1>3 DEF Finish, PagesOf
  <2>2. at' = [p \in Pages |-> IF p[1] \in {d} THEN "queued" ELSE at[p]]
    BY <1>3 DEF Finish, Leaves
  <2> QED BY <1>3, <2>1, <2>2 DEF Finish, Quiet, IInv, TypeOK, BlankUnread, Over
<1> QED BY <1>1, <1>2, <1>3

----------------------------------------------------------------------------
(* Steps of cache.put. *)

LEMMA OpenKeeps ==
  ASSUME IInv, NEW p \in Pages, Open(p)
  PROVE  IInv'
<1> DEFINE i == Picture(p)
<1>1. PICK n : /\ n = (IF tmp[i] = NoFile THEN NewInode ELSE tmp[i])
               /\ at[p] \in {"open", "blank"}
               /\ tmp' = [tmp EXCEPT ![i] = n]
               /\ content' = [content EXCEPT ![n] = {}]
               /\ fd' = [fd EXCEPT ![p] = n]
               /\ at' = [at EXCEPT ![p] = IF at[p] = "blank" THEN "replace" ELSE "head"]
               /\ shared' = IF \E q \in Pages \ {p} : Picture(q) = i /\ at[q] \in Writing THEN shared \cup {i} ELSE shared
               /\ UNCHANGED <<final, unread, trouble>>
  BY DEF Open, At, Moves
<1>2. i \in Images /\ \A q \in Pages : Picture(q) \in Images
  BY DEF Images
<1>3. /\ n \in Inodes /\ n # NoFile
      /\ \A j \in Images : final[j] # n /\ (tmp[j] = n => j = i)
      /\ \A q \in Pages : fd[q] = n => Picture(q) = i
  <2>1. CASE tmp[i] = NoFile
    <3>1. n \in Inodes /\ n \notin InUse
      BY <1>1, <2>1, FreeInode DEF IInv
    <3> QED BY <1>2, <3>1 DEF InUse, Inodes, NoFile
  <2>2. CASE tmp[i] # NoFile
    <3>1. n = tmp[i] /\ n \in Inodes /\ n # NoFile
      BY <1>1, <1>2, <2>2 DEF IInv, TypeOK
    <3> QED BY <1>2, <3>1 DEF IInv, NamesApart, OwnFile
  <2> QED BY <2>1, <2>2
<1> HIDE DEF i
<1>4. /\ at[p] \notin Writing /\ at'[p] \in Writing /\ fd'[p] = n
      /\ at'[p] = "replace" => at[p] = "blank"
      /\ at'[p] \in {"head", "replace"}
      /\ \A q \in Pages : q # p => at'[q] = at[q] /\ fd'[q] = fd[q]
  BY <1>1 DEF IInv, TypeOK, Writing
<1>5. /\ tmp'[i] = n /\ \A j \in Images : j # i => tmp'[j] = tmp[j]
      /\ \A m \in Inodes : m # n => content'[m] = content[m]
  BY <1>1, <1>2 DEF IInv, TypeOK
<1>6. /\ shared \subseteq shared'
      /\ \A q \in Pages : q # p /\ at[q] \in Writing /\ Picture(q) = i => i \in shared'
  BY <1>1
<1>7. TypeOK'
  <2>1. at' \in [Pages -> States]
    BY <1>1 DEF IInv, TypeOK, States
  <2>2. /\ fd' \in [Pages -> Inodes \cup {NoFile}]
        /\ final' \in [Images -> Inodes \cup {NoFile}]
        /\ tmp' \in [Images -> Inodes \cup {NoFile}]
    BY <1>1, <1>3 DEF IInv, TypeOK
  <2>3. content' \in [Inodes -> SUBSET Whole]
    BY <1>1 DEF IInv, TypeOK
  <2> QED BY <2>1, <2>2, <2>3 DEF TypeOK
<1>8. NamesApart'
  BY <1>1, <1>3, <1>5 DEF IInv, NamesApart
<1>9. OwnFile'
  <2>1. \A q \in Pages : fd'[q] # NoFile <=> at'[q] \in Writing
    BY <1>3, <1>4 DEF IInv, OwnFile
  <2>2. \A q \in Pages : \A j \in Images :
          fd'[q] # NoFile /\ (fd'[q] = final'[j] \/ fd'[q] = tmp'[j]) => j = Picture(q)
    BY <1>1, <1>3, <1>4, <1>5 DEF IInv, OwnFile, i
  <2>3. \A q, r \in Pages : fd'[q] # NoFile /\ fd'[q] = fd'[r] => Picture(q) = Picture(r)
    BY <1>3, <1>4 DEF IInv, OwnFile, i
  <2> QED BY <2>1, <2>2, <2>3 DEF OwnFile
<1>10. OneWriter'
  BY <1>4, <1>6 DEF IInv, OneWriter, i
<1>11. Current'
  <2>1. SUFFICES ASSUME NEW q \in Pages, at'[q] \in Writing, Picture(q) \notin shared'
                 PROVE  tmp'[Picture(q)] = fd'[q]
    BY DEF Current
  <2>2. CASE q = p
    BY <1>4, <1>5, <2>2 DEF i
  <2>3. CASE q # p
    BY <1>2, <1>4, <1>5, <1>6, <2>1, <2>3 DEF IInv, Current
  <2> QED BY <2>2, <2>3
<1>12. WrittenSoFar'
  <2>1. SUFFICES ASSUME NEW q \in Pages, Picture(q) \notin shared', Picture(q) \notin unread'
                 PROVE  /\ at'[q] = "tail" => "head" \in content'[fd'[q]]
                        /\ at'[q] = "replace" => content'[fd'[q]] = Whole
    BY DEF WrittenSoFar
  <2>2. CASE q = p
    BY <1>1, <1>4, <2>1, <2>2 DEF IInv, BlankUnread
  <2>3. CASE q # p /\ at[q] \in Writing
    <3>1. fd[q] \in Inodes /\ fd[q] # n
      BY <1>3, <1>6, <2>1, <2>3 DEF IInv, OwnFile, TypeOK
    <3> QED BY <1>1, <1>4, <1>5, <1>6, <2>1, <2>3, <3>1 DEF IInv, WrittenSoFar
  <2>4. CASE q # p /\ at[q] \notin Writing
    BY <1>4, <2>4 DEF Writing
  <2> QED BY <2>2, <2>3, <2>4
<1>13. BlankUnread'
  BY <1>1, <1>4 DEF IInv, BlankUnread
<1>14. ASSUME NEW j \in Images, NEW m \in Inodes, m # n, Emptied(j, m)
       PROVE  Emptied(j, m)'
  <2>1. PICK q \in Pages : Picture(q) = j /\ fd[q] = m /\ (at[q] = "head" \/ (at[q] = "tail" /\ "head" \in content[m]))
    BY <1>14 DEF Emptied
  <2>2. q # p
    BY <1>4, <2>1 DEF Writing
  <2> QED BY <1>4, <1>5, <1>14, <2>1, <2>2 DEF Emptied
<1>15. SomeoneWrites'
  <2>1. SUFFICES ASSUME ~trouble, NEW j \in Images, j \notin unread
                 PROVE  /\ final'[j] # NoFile => content'[final'[j]] = Whole \/ Emptied(j, final[j])'
                        /\ tmp'[j] # NoFile => content'[tmp'[j]] = Whole \/ Emptied(j, tmp[j])'
    BY <1>1 DEF SomeoneWrites
  <2>2. /\ final[j] # NoFile => final[j] \in Inodes /\ (content[final[j]] = Whole \/ Emptied(j, final[j]))
        /\ tmp[j] # NoFile => tmp[j] \in Inodes /\ (content[tmp[j]] = Whole \/ Emptied(j, tmp[j]))
    BY <2>1 DEF IInv, SomeoneWrites, TypeOK
  <2>3. final'[j] # NoFile => content'[final'[j]] = Whole \/ Emptied(j, final[j])'
    <3>1. final' = final
      BY <1>1
    <3>2. CASE final[j] # NoFile
      <4>1. Emptied(j, final[j]) => \E q \in Pages : Picture(q) = j /\ fd'[q] = final[j]
                 /\ (at'[q] = "head" \/ (at'[q] = "tail" /\ "head" \in content'[final[j]]))
        BY <1>3, <1>14, <2>2, <3>2 DEF Emptied
      <4> QED BY <1>3, <1>5, <2>2, <3>1, <3>2, <4>1 DEF Emptied
    <3> QED BY <3>1, <3>2
  <2>4. CASE j = i
    <3>1. at'[p] = "head"
      BY <1>4, <2>1, <2>4 DEF IInv, BlankUnread, i
    <3> QED BY <1>4, <1>5, <2>3, <2>4, <3>1 DEF Emptied, i
  <2>5. CASE j # i
    <3>1. tmp'[j] = tmp[j] /\ tmp[j] # n
      BY <1>3, <1>5, <2>5
    <3>2. tmp[j] # NoFile /\ Emptied(j, tmp[j]) => \E q \in Pages : Picture(q) = j /\ fd'[q] = tmp[j]
               /\ (at'[q] = "head" \/ (at'[q] = "tail" /\ "head" \in content'[tmp[j]]))
      BY <1>14, <2>2, <3>1 DEF Emptied
    <3> QED BY <1>5, <2>2, <2>3, <3>1, <3>2 DEF Emptied
  <2> QED BY <2>4, <2>5
<1>16. CacheAtomic'
  BY <1>1, <1>3, <1>5, <1>6 DEF IInv, CacheAtomic, TypeOK
<1> QED BY <1>7, <1>8, <1>9, <1>10, <1>11, <1>12, <1>13, <1>15, <1>16 DEF IInv

LEMMA WriteKeeps ==
  ASSUME IInv, NEW p \in Pages, Write(p)
  PROVE  IInv'
<1>1. /\ at[p] \in {"head", "tail"}
      /\ content' = [content EXCEPT ![fd[p]] = content[fd[p]] \cup {at[p]}]
      /\ at' = [at EXCEPT ![p] = IF at[p] = "head" THEN "tail" ELSE "replace"]
      /\ UNCHANGED <<fd, final, tmp, shared, unread, trouble>>
  BY DEF Write, At, Moves, past
<1>2. fd[p] \in Inodes /\ fd[p] # NoFile
  BY <1>1 DEF IInv, OwnFile, Writing, TypeOK
<1>3. /\ at'[p] = (IF at[p] = "head" THEN "tail" ELSE "replace")
      /\ \A q \in Pages : q # p => at'[q] = at[q]
      /\ \A q \in Pages : at'[q] \in Writing <=> at[q] \in Writing
      /\ \A q \in Pages : at'[q] = "blank" <=> at[q] = "blank"
  BY <1>1 DEF IInv, TypeOK, Writing
<1>4. /\ content'[fd[p]] = content[fd[p]] \cup {at[p]}
      /\ \A m \in Inodes : content[m] \subseteq content'[m]
      /\ \A m \in Inodes : content[m] = Whole => content'[m] = Whole
  BY <1>1, <1>2 DEF IInv, TypeOK, Whole
<1>5. TypeOK'
  <2>1. at' \in [Pages -> States]
    BY <1>1 DEF IInv, TypeOK, States
  <2>2. content' \in [Inodes -> SUBSET Whole]
    BY <1>1, <1>2 DEF IInv, TypeOK, Whole
  <2> QED BY <1>1, <2>1, <2>2 DEF IInv, TypeOK
<1>6. NamesApart' /\ OwnFile' /\ OneWriter' /\ Current' /\ BlankUnread'
  BY <1>1, <1>3 DEF IInv, NamesApart, OwnFile, OneWriter, Current, BlankUnread
<1>7. WrittenSoFar'
  <2>1. SUFFICES ASSUME NEW q \in Pages, Picture(q) \notin shared, Picture(q) \notin unread
                 PROVE  /\ at'[q] = "tail" => "head" \in content'[fd[q]]
                        /\ at'[q] = "replace" => content'[fd[q]] = Whole
    BY <1>1 DEF WrittenSoFar
  <2>2. CASE q = p
    <3>1. at[p] = "tail" => "head" \in content[fd[p]]
      BY <2>1, <2>2 DEF IInv, WrittenSoFar
    <3>2. content[fd[p]] \subseteq Whole
      BY <1>2 DEF IInv, TypeOK
    <3> QED BY <1>1, <1>3, <1>4, <2>2, <3>1, <3>2 DEF Whole
  <2>3. CASE q # p
    <3>1. at[q] \in Writing => fd[q] \in Inodes
      BY DEF IInv, OwnFile, TypeOK
    <3> QED BY <1>3, <1>4, <2>1, <2>3, <3>1 DEF IInv, WrittenSoFar, Writing
  <2> QED BY <2>2, <2>3
<1>8. ASSUME NEW j \in Images, NEW m \in Inodes, Emptied(j, m)
      PROVE  content'[m] = Whole \/ \E q \in Pages : Picture(q) = j /\ fd[q] = m
               /\ (at'[q] = "head" \/ (at'[q] = "tail" /\ "head" \in content'[m]))
  <2>1. PICK q \in Pages : Picture(q) = j /\ fd[q] = m /\ (at[q] = "head" \/ (at[q] = "tail" /\ "head" \in content[m]))
    BY <1>8 DEF Emptied
  <2>2. CASE q # p
    BY <1>3, <1>4, <2>1, <2>2
  <2>3. CASE q = p /\ at[p] = "head"
    BY <1>3, <1>4, <2>1, <2>3
  <2>4. CASE q = p /\ at[p] = "tail"
    <3>1. content'[m] = content[m] \cup {"tail"} /\ "head" \in content[m]
      BY <1>4, <2>1, <2>4
    <3>2. content[m] \subseteq Whole
      BY DEF IInv, TypeOK
    <3> QED BY <3>1, <3>2 DEF Whole
  <2> QED BY <1>1, <2>2, <2>3, <2>4
<1>9. SomeoneWrites'
  <2>1. SUFFICES ASSUME ~trouble, NEW j \in Images, j \notin unread
                 PROVE  /\ final[j] # NoFile => content'[final[j]] = Whole \/ \E q \in Pages : Picture(q) = j /\ fd[q] = final[j]
                             /\ (at'[q] = "head" \/ (at'[q] = "tail" /\ "head" \in content'[final[j]]))
                        /\ tmp[j] # NoFile => content'[tmp[j]] = Whole \/ \E q \in Pages : Picture(q) = j /\ fd[q] = tmp[j]
                             /\ (at'[q] = "head" \/ (at'[q] = "tail" /\ "head" \in content'[tmp[j]]))
    BY <1>1 DEF SomeoneWrites, Emptied
  <2>2. /\ final[j] # NoFile => final[j] \in Inodes /\ (content[final[j]] = Whole \/ Emptied(j, final[j]))
        /\ tmp[j] # NoFile => tmp[j] \in Inodes /\ (content[tmp[j]] = Whole \/ Emptied(j, tmp[j]))
    BY <2>1 DEF IInv, SomeoneWrites, TypeOK
  <2> QED BY <1>4, <1>8, <2>2
<1>10. CacheAtomic'
  BY <1>1, <1>4 DEF IInv, CacheAtomic, TypeOK
<1> QED BY <1>5, <1>6, <1>7, <1>9, <1>10 DEF IInv

LEMMA ReplaceKeeps ==
  ASSUME IInv, NEW p \in Pages, Replace(p)
  PROVE  IInv'
<1> DEFINE i == Picture(p)
<1>0. /\ at[p] = "replace"
      /\ IF tmp[i] = NoFile THEN UNCHANGED <<final, tmp>>
         ELSE final' = [final EXCEPT ![i] = tmp[i]] /\ tmp' = [tmp EXCEPT ![i] = NoFile]
      /\ fd' = [fd EXCEPT ![p] = NoFile]
      /\ content' = [n \in Inodes |-> IF n \in InUse' THEN content[n] ELSE {}]
      /\ at' = [at EXCEPT ![p] = "done"]
      /\ UNCHANGED <<shared, unread, trouble>>
  BY DEF Replace, At, Moves, Free, past
<1>1. i \in Images /\ \A q \in Pages : Picture(q) \in Images
  BY DEF Images
<1> HIDE DEF i
\* The names: the final one takes over the inode of the .tmp, the others stay.
<1>2. /\ \A j \in Images : j # i => final'[j] = final[j] /\ tmp'[j] = tmp[j]
      /\ tmp[i] = NoFile => final'[i] = final[i] /\ tmp'[i] = NoFile
      /\ tmp[i] # NoFile => final'[i] = tmp[i] /\ tmp'[i] = NoFile
  BY <1>0, <1>1 DEF IInv, TypeOK
<1>3. /\ fd'[p] = NoFile /\ at'[p] = "done"
      /\ \A q \in Pages : q # p => fd'[q] = fd[q] /\ at'[q] = at[q]
  BY <1>0 DEF IInv, TypeOK
<1>4. /\ \A j \in Images : final'[j] \in Inodes => content'[final'[j]] = content[final'[j]]
      /\ \A j \in Images : tmp'[j] \in Inodes => content'[tmp'[j]] = content[tmp'[j]]
      /\ \A q \in Pages : fd'[q] \in Inodes => content'[fd'[q]] = content[fd'[q]]
  BY <1>0 DEF InUse
<1>5. TypeOK'
  <2>1. at' \in [Pages -> States]
    BY <1>0 DEF IInv, TypeOK, States
  <2>2. fd' \in [Pages -> Inodes \cup {NoFile}]
    BY <1>0 DEF IInv, TypeOK
  <2>3. /\ final' \in [Images -> Inodes \cup {NoFile}]
        /\ tmp' \in [Images -> Inodes \cup {NoFile}]
    BY <1>0, <1>1 DEF IInv, TypeOK
  <2>4. content' \in [Inodes -> SUBSET Whole]
    BY <1>0 DEF IInv, TypeOK
  <2> QED BY <2>1, <2>2, <2>3, <2>4 DEF TypeOK
<1>6. NamesApart'
  BY <1>1, <1>2 DEF IInv, NamesApart
<1>7. OwnFile'
  <2>1. \A q \in Pages : fd'[q] # NoFile <=> at'[q] \in Writing
    BY <1>3 DEF IInv, OwnFile, Writing
  <2>2. \A q \in Pages : \A j \in Images :
          fd'[q] # NoFile /\ (fd'[q] = final'[j] \/ fd'[q] = tmp'[j]) => j = Picture(q)
    BY <1>1, <1>2, <1>3 DEF IInv, OwnFile
  <2>3. \A q, r \in Pages : fd'[q] # NoFile /\ fd'[q] = fd'[r] => Picture(q) = Picture(r)
    BY <1>3 DEF IInv, OwnFile
  <2> QED BY <2>1, <2>2, <2>3 DEF OwnFile
<1>8. OneWriter'
  BY <1>0, <1>3 DEF IInv, OneWriter, Writing
<1>9. Current'
  <2>1. SUFFICES ASSUME NEW q \in Pages, at'[q] \in Writing, Picture(q) \notin shared
                 PROVE  tmp'[Picture(q)] = fd'[q]
    BY <1>0 DEF Current
  <2>2. q # p
    BY <1>3, <2>1 DEF Writing
  <2>3. Picture(q) # i
    BY <1>0, <1>3, <2>1, <2>2 DEF IInv, OneWriter, Writing, i
  <2> QED BY <1>1, <1>2, <1>3, <2>1, <2>2, <2>3 DEF IInv, Current
<1>10. WrittenSoFar'
  <2>1. SUFFICES ASSUME NEW q \in Pages, Picture(q) \notin shared, Picture(q) \notin unread, at'[q] \in {"tail", "replace"}
                 PROVE  /\ at'[q] = "tail" => "head" \in content'[fd'[q]]
                        /\ at'[q] = "replace" => content'[fd'[q]] = Whole
    BY <1>0 DEF WrittenSoFar
  <2>2. q # p
    BY <1>3, <2>1
  <2>3. fd'[q] \in Inodes
    BY <1>3, <2>1, <2>2 DEF IInv, OwnFile, TypeOK, Writing
  <2> QED BY <1>3, <1>4, <2>1, <2>2, <2>3 DEF IInv, WrittenSoFar
<1>11. BlankUnread'
  BY <1>0, <1>3 DEF IInv, BlankUnread
<1>12. SomeoneWrites'
  <2>1. ASSUME ~trouble, NEW j \in Images, j \notin unread, NEW m \in Inodes,
               m = final[j] \/ m = tmp[j], content'[m] = content[m]
        PROVE  content'[m] = Whole \/ \E q \in Pages : Picture(q) = j /\ fd'[q] = m
                 /\ (at'[q] = "head" \/ (at'[q] = "tail" /\ "head" \in content'[m]))
    <3>1. m # NoFile
      BY DEF Inodes, NoFile
    <3>2. content[m] = Whole \/ Emptied(j, m)
      BY <2>1, <3>1 DEF IInv, SomeoneWrites
    <3>3. CASE content[m] = Whole
      BY <2>1, <3>3
    <3>4. CASE Emptied(j, m)
      <4>1. PICK q \in Pages : Picture(q) = j /\ fd[q] = m /\ (at[q] = "head" \/ (at[q] = "tail" /\ "head" \in content[m]))
        BY <3>4 DEF Emptied
      <4> QED BY <1>0, <1>3, <2>1, <4>1
    <3> QED BY <3>2, <3>3, <3>4
  <2>2. SUFFICES ASSUME ~trouble, NEW j \in Images, j \notin unread
                 PROVE  /\ final'[j] # NoFile => content'[final'[j]] = Whole \/ \E q \in Pages : Picture(q) = j /\ fd'[q] = final'[j]
                             /\ (at'[q] = "head" \/ (at'[q] = "tail" /\ "head" \in content'[final'[j]]))
                        /\ tmp'[j] # NoFile => content'[tmp'[j]] = Whole \/ \E q \in Pages : Picture(q) = j /\ fd'[q] = tmp'[j]
                             /\ (at'[q] = "head" \/ (at'[q] = "tail" /\ "head" \in content'[tmp'[j]]))
    BY <1>0 DEF SomeoneWrites, Emptied
  <2>3. /\ final'[j] = final[j] \/ final'[j] = tmp[j]
        /\ tmp'[j] # NoFile => tmp'[j] = tmp[j]
        /\ final'[j] # NoFile => final'[j] \in Inodes /\ content'[final'[j]] = content[final'[j]]
        /\ tmp'[j] # NoFile => tmp'[j] \in Inodes /\ content'[tmp'[j]] = content[tmp'[j]]
    BY <1>2, <1>4, <1>5 DEF TypeOK
  <2> QED BY <2>1, <2>2, <2>3
<1>13. CacheAtomic'
  <2>1. SUFFICES ASSUME NEW j \in Images, j \notin shared, final'[j] # NoFile
                 PROVE  content'[final'[j]] = Whole \/ j \in unread
    BY <1>0 DEF CacheAtomic
  <2>2. content'[final'[j]] = content[final'[j]]
    BY <1>4, <1>5, <2>1 DEF TypeOK
  <2>3. CASE j # i
    BY <1>2, <2>1, <2>2, <2>3 DEF IInv, CacheAtomic
  <2>4. CASE j = i
    <3>1. tmp[i] = fd[p] /\ fd[p] # NoFile
      BY <1>0, <2>1, <2>4 DEF IInv, Current, OwnFile, Writing, i
    <3>2. final'[i] = fd[p]
      BY <1>2, <3>1
    <3>3. content[fd[p]] = Whole \/ i \in unread
      BY <1>0, <2>1, <2>4 DEF IInv, WrittenSoFar, i
    <3> QED BY <2>2, <2>4, <3>2, <3>3
  <2> QED BY <2>3, <2>4
<1> QED BY <1>5, <1>6, <1>7, <1>8, <1>9, <1>10, <1>11, <1>12, <1>13 DEF IInv

\* Threads that stop writing, because a write failed or their process was killed.
LEMMA BreakKeeps ==
  ASSUME IInv, NEW Q \in SUBSET Pages, NEW s \in States \ (Writing \cup {"blank"}),
         at' = [p \in Pages |-> IF p \in Q THEN s ELSE at[p]],
         fd' = [p \in Pages |-> IF p \in Q THEN NoFile ELSE fd[p]],
         UNCHANGED <<files, shared, unread>>, trouble'
  PROVE  IInv'
<1>1. TypeOK' /\ NamesApart'
  BY DEF IInv, files, TypeOK, NamesApart
<1>2. OwnFile' /\ OneWriter' /\ Current'
  BY DEF IInv, files, OwnFile, OneWriter, Current
<1>3. WrittenSoFar' /\ BlankUnread'
  BY DEF IInv, files, WrittenSoFar, BlankUnread, Writing
<1>4. SomeoneWrites' /\ CacheAtomic'
  BY DEF IInv, files, SomeoneWrites, CacheAtomic
<1> QED BY <1>1, <1>2, <1>3, <1>4 DEF IInv

LEMMA WriteFailsKeeps ==
  ASSUME IInv, NEW p \in Pages, WriteFails(p)
  PROVE  IInv'
<1>1. /\ fd' = [fd EXCEPT ![p] = NoFile] /\ at' = [at EXCEPT ![p] = "done"] /\ trouble'
      /\ UNCHANGED <<files, shared, unread>>
  BY DEF WriteFails, Moves
<1> DEFINE Q == {p}
<1>2. /\ at' = [q \in Pages |-> IF q \in Q THEN "done" ELSE at[q]]
      /\ fd' = [q \in Pages |-> IF q \in Q THEN NoFile ELSE fd[q]]
  BY <1>1 DEF IInv, TypeOK
<1>3. "done" \in States \ (Writing \cup {"blank"}) /\ Q \in SUBSET Pages
  BY DEF States, Writing
<1> HIDE DEF Q
<1> QED BY <1>1, <1>2, <1>3, BreakKeeps

LEMMA KillKeeps ==
  ASSUME IInv, NEW c \in Procs, Kill(c)
  PROVE  IInv'
<1> DEFINE Q == {p \in Pages : Proc(p) = c}
<1>1. \A p \in Pages : p[1] \in Docs
  BY DEF Pages
<1>2. /\ at' = [p \in Pages |-> IF p \in Q THEN "queued" ELSE at[p]]
      /\ fd' = [p \in Pages |-> IF p \in Q THEN NoFile ELSE fd[p]]
  BY <1>1 DEF Kill, Leaves, Proc
<1>3. UNCHANGED <<files, shared, unread>> /\ trouble'
  BY DEF Kill
<1>4. "queued" \in States \ (Writing \cup {"blank"}) /\ Q \in SUBSET Pages
  BY DEF States, Writing
<1> HIDE DEF Q
<1> QED BY <1>2, <1>3, <1>4, BreakKeeps

----------------------------------------------------------------------------
(* The theorems. *)

\* The conjunction is inductive.
THEOREM Inductive == Spec => []IInv
<1>1. Init => IInv
  <2>1. SUFFICES ASSUME Init PROVE IInv
    OBVIOUS
  <2>2. /\ at = [p \in Pages |-> "queued"] /\ fd = [p \in Pages |-> NoFile]
        /\ final = [i \in Images |-> NoFile] /\ tmp = [i \in Images |-> NoFile]
        /\ content = [n \in Inodes |-> {}]
    BY <2>1 DEF Init
  <2>3. TypeOK
    BY <2>2 DEF TypeOK, States
  <2>4. NamesApart /\ OwnFile /\ OneWriter /\ Current
    BY <2>2 DEF NamesApart, OwnFile, OneWriter, Current, Writing
  <2>5. WrittenSoFar /\ BlankUnread /\ SomeoneWrites /\ CacheAtomic
    BY <2>2 DEF WrittenSoFar, BlankUnread, SomeoneWrites, CacheAtomic
  <2> QED BY <2>3, <2>4, <2>5 DEF IInv
<1>2. IInv /\ [Next]_vars => IInv'
  <2>1. SUFFICES ASSUME IInv, [Next]_vars PROVE IInv'
    OBVIOUS
  <2>2. ASSUME NEW p \in Pages, PageStep(p)
        PROVE  IInv'
    BY <2>1, <2>2, QuietSteps, QuietKeeps, OpenKeeps, WriteKeeps, ReplaceKeeps, WriteFailsKeeps DEF PageStep
  <2>3. ASSUME NEW d \in Docs, Begin(d) \/ Abort(d) \/ Finish(d)
        PROVE  IInv'
    BY <2>1, <2>3, QuietDocs, QuietKeeps
  <2>4. ASSUME NEW c \in Procs, Kill(c)
        PROVE  IInv'
    BY <2>1, <2>4, KillKeeps
  <2>5. CASE UNCHANGED vars
    BY <2>1, <2>5, QuietKeeps DEF vars, past, Quiet, IInv, TypeOK, BlankUnread
  <2> QED BY <2>1, <2>2, <2>3, <2>4, <2>5 DEF Next
<1> QED BY <1>1, <1>2, PTL DEF Spec

\* For a picture that one thread at a time writes, the file in the cache is never seen incomplete,
\* whoever is killed and whatever .tmp was left behind (CacheAtomic).
THEOREM CacheIsAtomic == Spec => []CacheAtomic
<1>1. IInv => CacheAtomic
  BY DEF IInv
<1> QED BY <1>1, Inductive, PTL

\* Where threads wrote one picture at once, the text is whole when the last of them is done, unless
\* one was broken off (CacheSettles).
THEOREM CacheIsSettled == Spec => []CacheSettles
<1>1. IInv => CacheSettles
  <2>1. SUFFICES ASSUME IInv, ~trouble, NEW i \in Images, Writers(i) = {}, final[i] # NoFile, i \notin unread
                 PROVE  content[final[i]] = Whole
    BY DEF CacheSettles
  <2>2. ~Emptied(i, final[i])
    BY <2>1 DEF Emptied, Writers, Writing
  <2> QED BY <2>1, <2>2 DEF IInv, SomeoneWrites
<1> QED BY <1>1, Inductive, PTL
=============================================================================
