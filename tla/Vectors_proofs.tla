--------------------------- MODULE Vectors_proofs ---------------------------
(***************************************************************************)
(* Proofs about what is done with vectors: EmbedBatch makes them, and      *)
(* Retrieval searches by them. For any number of batches, retries and      *)
(* halves, nothing is sent after a stop, a vector stands at the place of   *)
(* its text, only what is toxic gets none, and the call implements         *)
(* EmbedCall, its fairness left aside. For any rows, scores and limits,    *)
(* the result of a search keeps its filters, follows the searchers where   *)
(* they agree, and months are whole.                                       *)
(*                                                                         *)
(* Both sort, so both rest on what InOrder returns. The induction that     *)
(* counting needs goes through a set of numbers in the place of a          *)
(* predicate.                                                              *)
(***************************************************************************)
EXTENDS EmbedBatch, Retrieval, SequenceTheorems, FiniteSetTheorems, FunctionTheorems,
        NaturalsInduction, WellFoundedInduction, TLAPS

----------------------------------------------------------------------------
(* Numbers. *)

LEMMA Product ==
  ASSUME NEW a \in Int, NEW b \in Int, NEW c \in Nat, a <= b
  PROVE  a * c \in Int /\ b * c \in Int /\ a * c <= b * c
OBVIOUS

LEMMA ProductNext ==
  ASSUME NEW a \in Int, NEW c \in Int
  PROVE  a * c \in Int /\ (a + 1) * c = a * c + c /\ (a - 1) * c = a * c - c
OBVIOUS

LEMMA Quotient ==
  ASSUME NEW n \in Nat, NEW c \in Nat \ {0}
  PROVE  /\ n \div c \in Nat /\ (n \div c) * c \in Nat
         /\ (n \div c) * c <= n /\ n < (n \div c) * c + c
OBVIOUS

\* Induction, for a set in the place of a predicate.
LEMMA Induct ==
  ASSUME NEW S, 0 \in S, \A n \in Nat : n \in S => n + 1 \in S
  PROVE  \A n \in Nat : n \in S
<1>1. SUFFICES ASSUME Nat \ S # {} PROVE FALSE
  OBVIOUS
<1>2. PICK x \in Nat \ S : \A y \in Nat \ S : ~(<<y, x>> \in OpToRel(<, Nat))
  <2>1. Nat \ S \subseteq Nat
    OBVIOUS
  <2>2. IsWellFoundedOn(OpToRel(<, Nat), Nat)
    BY NatLessThanWellFounded
  <2> QED BY Zenon, <1>1, <2>1, <2>2, WFMin
<1>3. \A y \in Nat \ S : ~(y < x)
  BY <1>2 DEF OpToRel
<1>4. x # 0 /\ x - 1 \in Nat
  OBVIOUS
<1>5. x - 1 \in S
  BY <1>3, <1>4
<1>6. (x - 1) + 1 \in S
  BY <1>4, <1>5
<1> QED BY <1>4, <1>6

LEMMA PowerOfTwo ==
  ASSUME NEW n \in Nat
  PROVE  IsFiniteSet(SUBSET (1..n)) /\ Cardinality(SUBSET (1..n)) = 2^n /\ 2^n \in Nat
<1>1. IsFiniteSet(1..n) /\ Cardinality(1..n) = n
  <2>1. 1 \in Int /\ n \in Int
    OBVIOUS
  <2>2. IsFiniteSet(1..n) /\ Cardinality(1..n) = IF 1 > n THEN 0 ELSE n - 1 + 1
    BY <2>1, FS_Interval
  <2> QED BY <2>2
<1>2. IsFiniteSet(SUBSET (1..n)) /\ Cardinality(SUBSET (1..n)) = 2^n
  BY <1>1, FS_SUBSET
<1> QED BY <1>2, FS_CardinalityType

LEMMA PowersDouble ==
  ASSUME NEW n \in Nat
  PROVE  /\ 2^0 = 1
         /\ 2^n \in Nat /\ 2^(n + 1) = 2 * 2^n
<1> DEFINE A == SUBSET (1..n)
           B == (SUBSET (1..(n + 1))) \ A
           f == [X \in A |-> X \cup {n + 1}]
<1>1. 2^0 = 1
  <2>1. Cardinality(SUBSET (1..0)) = 2^0
    BY PowerOfTwo
  <2>2. SUBSET (1..0) = {{}}
    <3>1. 1..0 = {}
      OBVIOUS
    <3> QED BY <3>1
  <2> QED BY <2>1, <2>2, FS_Singleton
<1>2. IsFiniteSet(A) /\ Cardinality(A) = 2^n /\ 2^n \in Nat
  BY PowerOfTwo
<1>3. n + 1 \in Nat /\ n + 1 \notin 1..n /\ 1..(n + 1) = (1..n) \cup {n + 1}
  OBVIOUS
<1>4. Cardinality(SUBSET (1..(n + 1))) = 2^(n + 1)
  BY <1>3, PowerOfTwo
<1>5. f \in Bijection(A, B)
  <2>1. \A X \in A : X \cup {n + 1} \in B
    BY <1>3
  <2>2. f \in [A -> B]
    BY <2>1
  <2>3. \A X, Y \in A : f[X] = f[Y] => X = Y
    <3>1. SUFFICES ASSUME NEW X \in A, NEW Y \in A, X \cup {n + 1} = Y \cup {n + 1} PROVE X = Y
      OBVIOUS
    <3>2. n + 1 \notin X /\ n + 1 \notin Y
      BY <1>3
    <3> QED BY <3>1, <3>2
  <2>4. ASSUME NEW Z \in B PROVE \E X \in A : f[X] = Z
    <3>1. Z \ {n + 1} \in A /\ n + 1 \in Z
      BY <1>3
    <3>2. (Z \ {n + 1}) \cup {n + 1} = Z
      BY <3>1
    <3>3. f[Z \ {n + 1}] = Z
      BY <3>1, <3>2
    <3> QED BY <3>1, <3>3
  <2> HIDE DEF f, A, B
  <2> QED BY <2>2, <2>3, <2>4 DEF Bijection, Injection, IsInjective, Surjection
<1>6. IsFiniteSet(B) /\ Cardinality(B) = 2^n
  <2>1. ExistsBijection(A, B)
    BY <1>5 DEF ExistsBijection
  <2> HIDE DEF A, B
  <2> QED BY <1>2, <2>1, FS_Bijection
<1>7. A \cup B = SUBSET (1..(n + 1)) /\ A \cap B = {}
  BY <1>3
<1> HIDE DEF A, B
<1> DEFINE p == 2^n
           q == 2^(n + 1)
<1>8. Cardinality(A) = p /\ Cardinality(B) = p /\ p \in Nat /\ Cardinality(A \cup B) = q
  BY <1>2, <1>4, <1>6, <1>7
<1> HIDE DEF p, q
<1>9. Cardinality(A \cup B) = Cardinality(A) + Cardinality(B) - Cardinality(A \cap B)
  BY <1>2, <1>6, FS_Union
<1>10. q = 2 * p
  <2>1. Cardinality(A \cap B) = 0
    BY <1>7, FS_EmptySet
  <2>2. q = p + p - 0
    BY <1>8, <1>9, <2>1
  <2> QED BY <1>8, <2>2
<1> QED BY <1>1, <1>8, <1>10 DEF p, q

\* A greater power of two.
LEMMA PowersGrow ==
  ASSUME NEW m \in Nat, NEW n \in Nat, m <= n
  PROVE  2^m \in Nat /\ 2^n \in Nat /\ 2^m <= 2^n
<1> DEFINE S == {k \in Nat : 2^m <= 2^(m + k)}
<1>1. 2^m \in Nat /\ \A k \in Nat : 2^(m + k) \in Nat
  BY PowersDouble
<1>2. 0 \in S
  <2>1. m + 0 = m
    OBVIOUS
  <2>2. 2^(m + 0) = 2^m
    BY <2>1
  <2> QED BY <1>1, <2>2
<1>3. ASSUME NEW k \in Nat, k \in S
      PROVE  k + 1 \in S
  <2>1. m + k \in Nat /\ m + (k + 1) = (m + k) + 1
    OBVIOUS
  <2> DEFINE p == 2^m
             q == 2^(m + k)
             r == 2^(m + (k + 1))
  <2>2. r = 2 * q
    BY <2>1, PowersDouble
  <2>3. p \in Nat /\ q \in Nat /\ p <= q
    BY <1>1, <1>3
  <2> HIDE DEF p, q, r
  <2>4. p <= r
    BY <2>2, <2>3
  <2> QED BY <2>4 DEF p, r
<1> HIDE DEF S
<1>4. \A k \in Nat : k \in S
  BY <1>2, <1>3, Induct
<1>5. n - m \in S /\ m + (n - m) = n
  BY <1>4
<1>6. 2^m <= 2^(m + (n - m))
  BY <1>5 DEF S
<1>7. 2^(m + (n - m)) = 2^n
  BY <1>5
<1> QED BY <1>1, <1>6, <1>7, PowersDouble

----------------------------------------------------------------------------
(* Finite sets. *)

\* The image of a finite set is no larger.
LEMMA ImageBound ==
  ASSUME NEW S, IsFiniteSet(S), NEW f, DOMAIN f = S, NEW T, T = {f[x] : x \in S}
  PROVE  IsFiniteSet(T) /\ Cardinality(T) <= Cardinality(S)
<1> DEFINE g == [x \in S |-> f[x]]
<1>1. g \in Surjection(S, T)
  BY DEF Surjection
<1> HIDE DEF g
<1> QED BY <1>1, FS_Surjection

----------------------------------------------------------------------------
(* What is sorted. *)

StrictOrder(S, R) ==
  /\ \A x, y \in S : x # y => <<x, y>> \in R \/ <<y, x>> \in R
  /\ \A x, y \in S : <<x, y>> \in R => <<y, x>> \notin R
  /\ \A x, y, z \in S : <<x, y>> \in R /\ <<y, z>> \in R => <<x, z>> \in R

LEMMA InOrderFacts ==
  ASSUME NEW S, IsFiniteSet(S), NEW R, StrictOrder(S, R)
  PROVE  LET s == InOrder(S, R)
             n == Cardinality(S)
         IN  /\ n \in Nat
             /\ s \in [1..n -> S]
             /\ \A i, j \in 1..n : s[i] = s[j] => i = j
             /\ \A x \in S : \E i \in 1..n : s[i] = x
             /\ \A i, j \in 1..n : i < j => <<s[i], s[j]>> \in R
<1> DEFINE n == Cardinality(S)
           Before(x) == {y \in S : <<y, x>> \in R}
           rank == [x \in S |-> Cardinality(Before(x))]
           s == InOrder(S, R)
<1>1. n \in Nat
  BY FS_CardinalityType
<1>2. \A x \in S : IsFiniteSet(Before(x)) /\ Cardinality(Before(x)) \in Nat /\ Cardinality(Before(x)) <= n
  <2>1. SUFFICES ASSUME NEW x \in S
                 PROVE  IsFiniteSet(Before(x)) /\ Cardinality(Before(x)) \in Nat /\ Cardinality(Before(x)) <= n
    OBVIOUS
  <2>2. Before(x) \in SUBSET S
    OBVIOUS
  <2> HIDE DEF Before
  <2> QED BY <2>2, FS_Subset, FS_CardinalityType
<1>3. ASSUME NEW x \in S, NEW y \in S, <<x, y>> \in R
      PROVE  Cardinality(Before(x)) < Cardinality(Before(y))
  <2>1. Before(x) \in SUBSET Before(y) /\ x \in Before(y) /\ x \notin Before(x)
    BY <1>3 DEF StrictOrder
  <2>2. IsFiniteSet(Before(x)) /\ IsFiniteSet(Before(y))
    BY <1>2
  <2>3. Cardinality(Before(x)) \in Nat /\ Cardinality(Before(y)) \in Nat
    BY <1>2
  <2> HIDE DEF Before
  <2> QED BY <2>1, <2>2, <2>3, FS_Subset
<1>4. ASSUME NEW x \in S
      PROVE  Cardinality(Before(x)) # n
  <2>1. Before(x) \in SUBSET S /\ x \notin Before(x)
    BY DEF StrictOrder
  <2> HIDE DEF Before
  <2> QED BY <2>1, FS_Subset
<1>5. rank \in [S -> 0..(n - 1)]
  <2> HIDE DEF Before
  <2> QED BY <1>1, <1>2, <1>4
<1>6. \A x, y \in S : rank[x] = rank[y] => x = y
  <2>1. SUFFICES ASSUME NEW x \in S, NEW y \in S, rank[x] = rank[y], x # y
                 PROVE  FALSE
    OBVIOUS
  <2>2. rank[x] \in Int /\ rank[y] \in Int /\ (rank[x] < rank[y] \/ rank[y] < rank[x])
    <3>1. <<x, y>> \in R \/ <<y, x>> \in R
      BY <2>1 DEF StrictOrder
    <3> HIDE DEF Before
    <3> QED BY <1>2, <1>3, <3>1
  <2> HIDE DEF rank
  <2> QED BY <2>1, <2>2
<1>7. \A k \in 0..(n - 1) : \E x \in S : rank[x] = k
  <2>1. IsFiniteSet(0..(n - 1)) /\ Cardinality(0..(n - 1)) = n
    <3> HIDE DEF n
    <3>1. n - 1 \in Int /\ 0 \in Int
      BY <1>1
    <3>2. IsFiniteSet(0..(n - 1)) /\ Cardinality(0..(n - 1)) = IF 0 > n - 1 THEN 0 ELSE n - 1 - 0 + 1
      BY <3>1, FS_Interval
    <3> QED BY <1>1, <3>2
  <2> HIDE DEF rank
  <2>2. rank \in Injection(S, 0..(n - 1))
    BY <1>5, <1>6 DEF Injection, IsInjective
  <2>3. rank \in Surjection(S, 0..(n - 1))
    BY <2>1, <2>2, FS_Injection
  <2> QED BY <2>3 DEF Surjection
<1>8. \A i \in 1..n : s[i] \in S /\ rank[s[i]] = i - 1
  <2>1. SUFFICES ASSUME NEW i \in 1..n PROVE s[i] \in S /\ rank[s[i]] = i - 1
    OBVIOUS
  <2>2. s[i] = CHOOSE x \in S : Cardinality(Before(x)) = i - 1
    BY DEF InOrder
  <2>3. \E x \in S : Cardinality(Before(x)) = i - 1
    <3>1. i - 1 \in 0..(n - 1)
      BY <1>1
    <3> HIDE DEF Before
    <3> QED BY <1>7, <3>1
  <2> HIDE DEF Before, s
  <2> QED BY <2>2, <2>3
<1>9. \A i, j \in 1..n : s[i] = s[j] => i = j
  <2> HIDE DEF rank, s, n
  <2> QED BY <1>1, <1>8
<1>10. \A x \in S : \E i \in 1..n : s[i] = x
  <2>1. SUFFICES ASSUME NEW x \in S PROVE \E i \in 1..n : s[i] = x
    OBVIOUS
  <2> HIDE DEF rank, s, n
  <2>2. rank[x] \in 0..(n - 1)
    BY <1>5
  <2>3. rank[x] + 1 \in 1..n /\ (rank[x] + 1) - 1 = rank[x]
    BY <1>1, <2>2
  <2>4. s[rank[x] + 1] = x
    BY <1>6, <1>8, <2>3
  <2> QED BY <2>3, <2>4
<1>11. \A i, j \in 1..n : i < j => <<s[i], s[j]>> \in R
  <2>1. SUFFICES ASSUME NEW i \in 1..n, NEW j \in 1..n, i < j, <<s[i], s[j]>> \notin R
                 PROVE  FALSE
    OBVIOUS
  <2> HIDE DEF rank, s, n
  <2>2. s[i] \in S /\ s[j] \in S /\ s[i] # s[j] /\ rank[s[i]] = i - 1 /\ rank[s[j]] = j - 1
    BY <1>1, <1>8, <1>9, <2>1
  <2>3. <<s[j], s[i]>> \in R
    BY <2>1, <2>2 DEF StrictOrder
  <2>4. rank[s[j]] < rank[s[i]]
    <3>1. rank[s[i]] = Cardinality(Before(s[i])) /\ rank[s[j]] = Cardinality(Before(s[j]))
      BY <2>2 DEF rank
    <3> HIDE DEF Before
    <3> QED BY <1>3, <2>2, <2>3, <3>1
  <2> QED BY <1>1, <2>1, <2>2, <2>4
<1>12. s \in [1..n -> S]
  <2> DEFINE picked(i) == CHOOSE x \in S : Cardinality({y \in S : <<y, x>> \in R}) = i - 1
  <2>1. s = [i \in 1..n |-> picked(i)]
    BY Zenon DEF InOrder
  <2> HIDE DEF picked, s, n, rank, Before
  <2> QED BY <1>8, <2>1
<1> HIDE DEF s, n, rank, Before
<1> QED BY <1>1, <1>9, <1>10, <1>11, <1>12 DEF s, n

LEMMA RisingIsStrict ==
  ASSUME NEW S, S \subseteq Int
  PROVE  StrictOrder(S, Rising(S))
BY DEF StrictOrder, Rising

\* A function on the numbers from 1 on is a list.
LEMMA IsList ==
  ASSUME NEW X, NEW n \in Nat, NEW s, s = [i \in 1..n |-> s[i]], \A i \in 1..n : s[i] \in X
  PROVE  s \in Seq(X) /\ Len(s) = n
<1>1. s \in [1..n -> X]
  OBVIOUS
<1> QED BY <1>1

\* A list of the elements of a set.
Lists(s, S) ==
  /\ s \in Seq(S)
  /\ \A i, j \in 1..Len(s) : s[i] = s[j] => i = j
  /\ \A x \in S : \E i \in 1..Len(s) : s[i] = x

LEMMA InOrderLists ==
  ASSUME NEW S, IsFiniteSet(S), NEW R, StrictOrder(S, R)
  PROVE  Lists(InOrder(S, R), S)
<1> DEFINE s == InOrder(S, R)
           n == Cardinality(S)
<1>1. /\ n \in Nat /\ s \in [1..n -> S]
      /\ \A i, j \in 1..n : s[i] = s[j] => i = j
      /\ \A x \in S : \E i \in 1..n : s[i] = x
  BY InOrderFacts
<1> HIDE DEF s, n
<1>2. s \in Seq(S) /\ Len(s) = n
  BY <1>1
<1>3. Lists(s, S)
  BY <1>1, <1>2 DEF Lists
<1> QED BY <1>3 DEF s

----------------------------------------------------------------------------
(* Nothing is sent after a stop. *)

\* A job keeps its four fields.
Shape ==
  \A b \in DOMAIN jobs :
    jobs[b] = [at |-> jobs[b].at, work |-> jobs[b].work, connect |-> jobs[b].connect, server |-> jobs[b].server]

\* What becomes of a job: it is moved, or goes on with another list of parts; it is sent only
\* when the call is not to stop.
LEMMA JobMoves ==
  ASSUME Shape, NEW b \in DOMAIN jobs, NEW s, Moves(b, s)
  PROVE  /\ Shape'
         /\ DOMAIN jobs' = DOMAIN jobs
         /\ \A c \in DOMAIN jobs : jobs'[c].at = IF c = b THEN s ELSE jobs[c].at
BY DEF Shape, Moves

LEMMA JobGoesOn ==
  ASSUME Shape, NEW b \in DOMAIN jobs, NEW work, NextPart(b, work)
  PROVE  /\ Shape'
         /\ DOMAIN jobs' = DOMAIN jobs
         /\ \A c \in DOMAIN jobs : jobs'[c].at = "sent" => jobs[c].at = "sent"
BY DEF Shape, NextPart

LEMMA JobFails ==
  ASSUME Shape, NEW b \in DOMAIN jobs, NEW why, BatchFails(b, why)
  PROVE  /\ Shape'
         /\ DOMAIN jobs' = DOMAIN jobs
         /\ \A c \in DOMAIN jobs : jobs'[c].at = "sent" => jobs[c].at = "sent"
<1>1. CASE Len(Part(b).items) <= 1
  BY <1>1, JobGoesOn DEF BatchFails
<1>2. CASE ~(Len(Part(b).items) <= 1)
  BY <1>2, JobGoesOn DEF BatchFails
<1> QED BY <1>1, <1>2

LEMMA JobRetries ==
  ASSUME Shape, NEW b \in DOMAIN jobs, NEW s, s # "sent", NEW n,
         \/ jobs' = [jobs EXCEPT ![b].at = s, ![b].server = n]
         \/ jobs' = [jobs EXCEPT ![b].at = s, ![b].connect = n]
  PROVE  /\ Shape'
         /\ DOMAIN jobs' = DOMAIN jobs
         /\ \A c \in DOMAIN jobs : jobs'[c].at = "sent" => jobs[c].at = "sent"
         /\ jobs'[b].at = s /\ jobs'[b].work = jobs[b].work
         /\ \A c \in DOMAIN jobs : c # b => jobs'[c] = jobs[c]
<1>1. DOMAIN jobs' = DOMAIN jobs
  OBVIOUS
<1>2. \A c \in DOMAIN jobs : c # b => jobs'[c] = jobs[c]
  OBVIOUS
<1>3. PICK x, y : jobs'[b] = [at |-> s, work |-> jobs[b].work, connect |-> x, server |-> y]
  <2>0. jobs[b] = [at |-> jobs[b].at, work |-> jobs[b].work, connect |-> jobs[b].connect, server |-> jobs[b].server]
    BY DEF Shape
  <2>1. CASE jobs' = [jobs EXCEPT ![b].at = s, ![b].server = n]
    <3>1. jobs'[b] = [jobs[b] EXCEPT !.at = s, !.server = n]
      BY <2>1
    <3>2. jobs'[b] = [at |-> s, work |-> jobs[b].work, connect |-> jobs[b].connect, server |-> n]
      BY <3>1, <2>0
    <3> QED BY <3>2
  <2>2. CASE jobs' = [jobs EXCEPT ![b].at = s, ![b].connect = n]
    <3>1. jobs'[b] = [jobs[b] EXCEPT !.at = s, !.connect = n]
      BY <2>2
    <3>2. jobs'[b] = [at |-> s, work |-> jobs[b].work, connect |-> n, server |-> jobs[b].server]
      BY <3>1, <2>0
    <3> QED BY <3>2
  <2> QED BY <2>1, <2>2
<1>4. \A c \in DOMAIN jobs : c # b =>
        jobs'[c] = [at |-> jobs'[c].at, work |-> jobs'[c].work, connect |-> jobs'[c].connect, server |-> jobs'[c].server]
  BY <1>2 DEF Shape
<1> QED BY <1>1, <1>2, <1>3, <1>4 DEF Shape

\* Every step of the call keeps the shape, and sends nothing when it is to stop.
LEMMA SendsWhenGoing ==
  ASSUME Shape, [Next]_vars
  PROVE  /\ Shape'
         /\ Stop => \A b \in DOMAIN jobs : jobs'[b].at = "sent" => jobs[b].at = "sent"
<1>1. ASSUME NEW b \in DOMAIN jobs, Acquire(b)
      PROVE  Shape' /\ \A c \in DOMAIN jobs : jobs'[c].at = "sent" => jobs[c].at = "sent"
  BY <1>1, JobMoves DEF Acquire
<1>2. ASSUME NEW b \in DOMAIN jobs, Enter(b)
      PROVE  Shape' /\ \A c \in DOMAIN jobs : jobs'[c].at = "sent" => jobs[c].at = "sent"
  BY <1>2, JobMoves, JobGoesOn DEF Enter
<1>3. ASSUME NEW b \in DOMAIN jobs, Try(b)
      PROVE  Shape' /\ (Stop => \A c \in DOMAIN jobs : jobs'[c].at = "sent" => jobs[c].at = "sent")
  <2>1. CASE Stop
    BY <1>3, <2>1, JobFails DEF Try
  <2>2. CASE ~Stop
    BY <1>3, <2>2, JobMoves DEF Try
  <2> QED BY <2>1, <2>2
<1>4. ASSUME NEW b \in DOMAIN jobs, Answered(b)
      PROVE  Shape' /\ \A c \in DOMAIN jobs : jobs'[c].at = "sent" => jobs[c].at = "sent"
  BY <1>4, JobGoesOn DEF Answered
<1>5. ASSUME NEW b \in DOMAIN jobs, Refused(b)
      PROVE  Shape' /\ \A c \in DOMAIN jobs : jobs'[c].at = "sent" => jobs[c].at = "sent"
  BY <1>5, JobFails DEF Refused
<1>6. ASSUME NEW b \in DOMAIN jobs, ServerError(b)
      PROVE  Shape' /\ \A c \in DOMAIN jobs : jobs'[c].at = "sent" => jobs[c].at = "sent"
  <2>1. CASE jobs[b].server = 0
    <3>1. jobs' = [jobs EXCEPT ![b].at = "try", ![b].server = 1]
      BY <1>6, <2>1 DEF ServerError
    <3> QED BY <3>1, JobRetries
  <2>2. CASE jobs[b].server # 0
    BY <1>6, <2>2, JobFails DEF ServerError
  <2> QED BY <2>1, <2>2
<1>7. ASSUME NEW b \in DOMAIN jobs, ConnectionLost(b)
      PROVE  Shape' /\ \A c \in DOMAIN jobs : jobs'[c].at = "sent" => jobs[c].at = "sent"
  <2>1. CASE jobs[b].connect < ConnectRetries - 1
    <3>1. jobs' = [jobs EXCEPT ![b].at = "backoff", ![b].connect = jobs[b].connect + 1]
      BY <1>7, <2>1 DEF ConnectionLost
    <3> DEFINE n == jobs[b].connect + 1
    <3>2. jobs' = [jobs EXCEPT ![b].at = "backoff", ![b].connect = n]
      BY <3>1
    <3> HIDE DEF n
    <3> QED BY <3>2, JobRetries
  <2>2. CASE ~(jobs[b].connect < ConnectRetries - 1)
    BY <1>7, <2>2, JobFails DEF ConnectionLost
  <2> QED BY <2>1, <2>2
<1>8. ASSUME NEW b \in DOMAIN jobs, BackOff(b)
      PROVE  Shape' /\ \A c \in DOMAIN jobs : jobs'[c].at = "sent" => jobs[c].at = "sent"
  BY <1>8, JobMoves, JobFails DEF BackOff
<1>9. ASSUME UNCHANGED jobs
      PROVE  Shape' /\ \A c \in DOMAIN jobs : jobs'[c].at = "sent" => jobs[c].at = "sent"
  BY <1>9 DEF Shape
<1>10. ASSUME NEW b \in DOMAIN jobs, Malformed(b)
       PROVE  UNCHANGED jobs
  BY <1>10 DEF Malformed
<1>11. ASSUME Return \/ DeadlinePasses \/ Cancel \/ UNCHANGED vars
       PROVE  UNCHANGED jobs
  BY <1>11 DEF Return, DeadlinePasses, Cancel, vars
<1> QED
  BY <1>1, <1>2, <1>3, <1>4, <1>5, <1>6, <1>7, <1>8, <1>9, <1>10, <1>11 DEF Next, Step

\* After a cancellation or the time limit no request is sent any more, whatever batches and halves
\* of batches are on their way (NothingSentAfterStop).
THEOREM StopIsObeyed == Spec => NothingSentAfterStop
<1>1. Init => Shape
  BY DEF Init, Shape, Job
<1>2. Shape /\ [Next]_vars => Shape'
  BY SendsWhenGoing
<1>3. Shape /\ [Next]_vars =>
        [Stop => {b \in DOMAIN jobs : jobs'[b].at = "sent"} \subseteq {b \in DOMAIN jobs : jobs[b].at = "sent"}]_vars
  BY SendsWhenGoing
<1> QED
  BY <1>1, <1>2, <1>3, PTL DEF Spec, NothingSentAfterStop
----------------------------------------------------------------------------
(* Each text that is not blank comes into one batch. *)

\* Where the slices of a list begin and end, and how many there are.
LEMMA SliceBounds ==
  ASSUME NEW n \in Nat, NEW k \in 1..((n + BatchSize - 1) \div BatchSize)
  PROVE  LET m == Min({k * BatchSize, n}) IN
         /\ (k - 1) * BatchSize \in Nat /\ m \in Nat
         /\ (k - 1) * BatchSize < m /\ m <= n
         /\ m <= (k - 1) * BatchSize + BatchSize
         /\ m = n \/ m = (k - 1) * BatchSize + BatchSize
<1> DEFINE q == (n + BatchSize - 1) \div BatchSize
<1>1. BatchSize \in Nat /\ BatchSize >= 1 /\ n + BatchSize - 1 \in Nat
  BY EmbedAssumption
<1>2. q \in Nat /\ q * BatchSize <= n + BatchSize - 1 /\ k \in Int /\ 1 <= k /\ k <= q
  BY <1>1, Quotient
<1> HIDE DEF q
<1>3. k * BatchSize <= q * BatchSize /\ k * BatchSize \in Int /\ q * BatchSize \in Int
  BY <1>1, <1>2, Product
<1>4. (k - 1) * BatchSize = k * BatchSize - BatchSize
  BY <1>1, <1>2, ProductNext
<1>5. 0 * BatchSize <= (k - 1) * BatchSize /\ 0 * BatchSize = 0
  BY <1>1, <1>2, Product
<1> DEFINE e == k * BatchSize
           d == (k - 1) * BatchSize
           m == Min({e, n})
<1>6. e \in Int /\ d \in Int /\ d = e - BatchSize /\ 0 <= d /\ e <= n + BatchSize - 1
  BY <1>1, <1>2, <1>3, <1>4, <1>5
<1> HIDE DEF e, d
<1>7. m \in {e, n} /\ m <= e /\ m <= n
  BY <1>6 DEF Min
<1> HIDE DEF m
<1>8. /\ d \in Nat /\ m \in Nat /\ d < m /\ m <= n /\ m <= d + BatchSize
      /\ m = n \/ m = d + BatchSize
  BY <1>1, <1>6, <1>7
<1> QED BY <1>8 DEF m, e, d

LEMMA SliceFacts ==
  ASSUME NEW X, NEW items \in Seq(X), NEW k \in 1..((Len(items) + BatchSize - 1) \div BatchSize)
  PROVE  LET s == Slices(items)[k]
             d == (k - 1) * BatchSize
         IN  /\ s \in Seq(X) /\ d \in Nat
             /\ Len(s) \in 1..BatchSize /\ d + Len(s) <= Len(items)
             /\ Len(s) = BatchSize \/ d + Len(s) = Len(items)
             /\ \A j \in 1..Len(s) : s[j] = items[d + j]
<1> DEFINE d == (k - 1) * BatchSize
           m == Min({k * BatchSize, Len(items)})
           s == SubSeq(items, d + 1, m)
<1>1. Slices(items)[k] = s
  BY DEF Slices
<1>3. Len(items) \in Nat /\ \A i \in 1..Len(items) : items[i] \in X
  OBVIOUS
<1>2. /\ d \in Nat /\ m \in Nat /\ d < m /\ m <= Len(items) /\ m <= d + BatchSize
      /\ m = Len(items) \/ m = d + BatchSize
  BY <1>3, SliceBounds
<1> HIDE DEF d, m
<1>4. /\ s \in Seq(X)
      /\ Len(s) = m - d
      /\ \A j \in 1..(m - d) : s[j] = items[d + j]
  <2>1. \A i \in (d + 1)..m : items[i] \in X
    BY <1>2, <1>3
  <2>2. /\ s \in Seq(X)
        /\ Len(s) = IF d + 1 <= m THEN m - (d + 1) + 1 ELSE 0
        /\ \A i \in 1..(m - (d + 1) + 1) : s[i] = items[(d + 1) + i - 1]
    BY <1>2, <2>1, SubSeqProperties
  <2>3. m - (d + 1) + 1 = m - d /\ d + 1 <= m /\ \A j \in 1..(m - d) : (d + 1) + j - 1 = d + j
    BY <1>2
  <2> QED BY <2>2, <2>3
<1> HIDE DEF s
<1>5. /\ Len(s) \in 1..BatchSize /\ d + Len(s) <= Len(items)
      /\ Len(s) = BatchSize \/ d + Len(s) = Len(items)
  BY <1>2, <1>3, <1>4, EmbedAssumption
<1>6. \A j \in 1..Len(s) : s[j] = items[d + j]
  BY <1>4
<1> QED BY <1>1, <1>2, <1>4, <1>5, <1>6 DEF d

\* Slices of a list hold each of its places once.
LEMMA SlicesFacts ==
  ASSUME NEW X, NEW items \in Seq(X)
  PROVE  LET s == Slices(items) IN
         /\ s \in Seq(Seq(X))
         /\ \A i \in 1..Len(items) : \E k \in 1..Len(s) : \E j \in 1..Len(s[k]) : s[k][j] = items[i]
         /\ \A k \in 1..Len(s) : \A j \in 1..Len(s[k]) : \E i \in 1..Len(items) : s[k][j] = items[i]
         /\ (\A i, j \in 1..Len(items) : items[i] = items[j] => i = j) =>
              \A k, l \in 1..Len(s) : \A i \in 1..Len(s[k]), j \in 1..Len(s[l]) :
                s[k][i] = s[l][j] => k = l /\ i = j
<1> DEFINE n == Len(items)
           q == (n + BatchSize - 1) \div BatchSize
           s == Slices(items)
           d(k) == (k - 1) * BatchSize
<1>1. BatchSize \in Nat /\ BatchSize >= 1 /\ n \in Nat /\ n + BatchSize - 1 \in Nat
  BY EmbedAssumption
<1>2. q \in Nat /\ q * BatchSize \in Nat /\ n + BatchSize - 1 < q * BatchSize + BatchSize
  BY <1>1, Quotient
<1>3. \A k \in 1..q :
        /\ s[k] \in Seq(X) /\ d(k) \in Nat /\ Len(s[k]) \in 1..BatchSize /\ d(k) + Len(s[k]) <= n
        /\ Len(s[k]) = BatchSize \/ d(k) + Len(s[k]) = n
        /\ \A j \in 1..Len(s[k]) : s[k][j] = items[d(k) + j]
  BY SliceFacts
<1>4. s \in Seq(Seq(X)) /\ Len(s) = q
  <2>1. s = [k \in 1..q |-> s[k]]
    BY DEF Slices
  <2>2. q \in Nat /\ \A k \in 1..q : s[k] \in Seq(X)
    BY <1>2, <1>3
  <2> HIDE DEF s, q, d
  <2> QED BY <2>1, <2>2, IsList
<1> HIDE DEF s, q
<1>5. ASSUME NEW i \in 1..n
      PROVE  \E k \in 1..Len(s) : \E j \in 1..Len(s[k]) : s[k][j] = items[i]
  <2> DEFINE p == (i - 1) \div BatchSize
  <2>1. i - 1 \in Nat /\ i \in Int /\ i <= n
    BY <1>1
  <2>2. p \in Nat /\ p * BatchSize \in Nat /\ p * BatchSize <= i - 1 /\ i - 1 < p * BatchSize + BatchSize
    BY <1>1, <2>1, Quotient
  <2> HIDE DEF p
  <2> DEFINE e == p * BatchSize
             j == i - e
  <2>3. p + 1 \in 1..q /\ d(p + 1) = e
    <3>1. ASSUME q <= p PROVE FALSE
      <4>1. q * BatchSize <= p * BatchSize
        BY <1>1, <1>2, <2>2, <3>1, Product
      <4> QED BY <1>1, <1>2, <2>1, <2>2, <4>1
    <3>2. (p + 1) - 1 = p
      BY <2>2
    <3> QED BY <1>2, <2>2, <3>1, <3>2
  <2>6. e \in Nat /\ e <= i - 1 /\ i - 1 < e + BatchSize
    BY <2>2
  <2> HIDE DEF e, d
  <2>4. j \in 1..Len(s[p + 1]) /\ d(p + 1) + j = i
    <3>1. /\ Len(s[p + 1]) \in 1..BatchSize
          /\ Len(s[p + 1]) = BatchSize \/ e + Len(s[p + 1]) = n
      BY <1>3, <2>3
    <3> QED BY <1>1, <2>1, <2>3, <2>6, <3>1
  <2> HIDE DEF j
  <2>5. s[p + 1][j] = items[i]
    BY <1>3, <2>3, <2>4
  <2> QED BY <1>4, <2>3, <2>4, <2>5
<1>6. ASSUME NEW k \in 1..Len(s), NEW j \in 1..Len(s[k])
      PROVE  d(k) + j \in 1..n /\ s[k][j] = items[d(k) + j]
  <2>1. k \in 1..q
    BY <1>4
  <2>2. /\ d(k) \in Nat /\ Len(s[k]) \in 1..BatchSize /\ d(k) + Len(s[k]) <= n
        /\ s[k][j] = items[d(k) + j]
    BY <1>3, <2>1
  <2> HIDE DEF d
  <2> QED BY <1>1, <2>2
<1>7. ASSUME \A i, j \in 1..n : items[i] = items[j] => i = j,
             NEW k \in 1..Len(s), NEW l \in 1..Len(s), NEW i \in 1..Len(s[k]), NEW j \in 1..Len(s[l]),
             s[k][i] = s[l][j]
      PROVE  k = l /\ i = j
  <2>1. d(k) + i = d(l) + j
    <3>1. d(k) + i \in 1..n /\ d(l) + j \in 1..n /\ items[d(k) + i] = items[d(l) + j]
      BY <1>6, <1>7
    <3> HIDE DEF d
    <3> QED BY <1>7, <3>1
  <2>2. k \in 1..q /\ l \in 1..q /\ k \in Int /\ l \in Int
    BY <1>2, <1>4
  <2>3. /\ d(k) \in Nat /\ d(l) \in Nat /\ i \in 1..BatchSize /\ j \in 1..BatchSize
    <3>1. /\ d(k) \in Nat /\ Len(s[k]) \in 1..BatchSize
          /\ d(l) \in Nat /\ Len(s[l]) \in 1..BatchSize
      BY <1>3, <2>2
    <3> HIDE DEF d
    <3> QED BY <1>1, <3>1
  <2>4. ASSUME NEW a \in 1..q, NEW b \in 1..q, a < b
        PROVE  d(a) + BatchSize <= d(b)
    <3>1. a \in Int /\ b \in Int /\ a <= b - 1 /\ b - 1 \in Int /\ a - 1 \in Int
      BY <1>2, <2>4
    <3>2. a * BatchSize <= (b - 1) * BatchSize
      BY <1>1, <3>1, Product
    <3>3. (a - 1) * BatchSize = a * BatchSize - BatchSize /\ a * BatchSize \in Int
      BY <1>1, <3>1, ProductNext
    <3> QED BY <1>1, <3>2, <3>3
  <2> HIDE DEF d
  <2>5. ~(k < l) /\ ~(l < k)
    <3>1. k < l => d(k) + BatchSize <= d(l)
      BY <2>2, <2>4
    <3>2. l < k => d(l) + BatchSize <= d(k)
      BY <2>2, <2>4
    <3> QED BY <1>1, <2>1, <2>3, <3>1, <3>2
  <2> QED BY <2>1, <2>2, <2>3, <2>5
<1> HIDE DEF d
<1>8. \A k \in 1..Len(s) : \A j \in 1..Len(s[k]) : \E i \in 1..Len(items) : s[k][j] = items[i]
  BY <1>6
<1> HIDE DEF n
<1> QED BY <1>4, <1>5, <1>7, <1>8 DEF s, n

\* Each text that is not blank has one place in one batch.
Partitioned(ls) ==
  LET cleaned == Cleaned[ls]
      batches == Batches[ls]
  IN
  /\ cleaned \in Seq(1..Len(ls))
  /\ \A v, w \in 1..Len(cleaned) : cleaned[v] = cleaned[w] => v = w
  /\ \A i \in 1..Len(ls) : ls[i] > 0 <=> \E v \in 1..Len(cleaned) : cleaned[v] = i
  /\ batches \in Seq(Seq(1..Len(cleaned)))
  /\ \A v \in 1..Len(cleaned) : \E b \in 1..Len(batches) : \E i \in 1..Len(batches[b]) : batches[b][i] = v
  /\ \A b, c \in 1..Len(batches) : \A i \in 1..Len(batches[b]), j \in 1..Len(batches[c]) :
       batches[b][i] = batches[c][j] => b = c /\ i = j

LEMMA CleanedLists ==
  ASSUME NEW ls \in Inputs
  PROVE  Lists(Cleaned[ls], {i \in 1..Len(ls) : ls[i] > 0})
<1> DEFINE texts == {i \in 1..Len(ls) : ls[i] > 0}
<1>1. Len(ls) \in Nat
  BY EmbedAssumption
<1>2. IsFiniteSet(texts)
  <2>1. IsFiniteSet(1..Len(ls)) /\ texts \in SUBSET (1..Len(ls))
    BY <1>1, FS_Interval
  <2> HIDE DEF texts
  <2> QED BY <2>1, FS_Subset
<1>3. StrictOrder(texts, Rising(texts))
  <2>1. texts \subseteq Int
    OBVIOUS
  <2> HIDE DEF texts
  <2> QED BY <2>1, RisingIsStrict
<1>4. Cleaned[ls] = InOrder(texts, Rising(texts))
  BY DEF Cleaned
<1> HIDE DEF texts
<1>5. Lists(Cleaned[ls], texts)
  BY <1>2, <1>3, <1>4, InOrderLists
<1> QED BY <1>5 DEF texts

\* Each element of a set has one place in one batch.
EachOnce(batches, X) ==
  /\ batches \in Seq(Seq(X))
  /\ \A v \in X : \E b \in 1..Len(batches) : \E i \in 1..Len(batches[b]) : batches[b][i] = v
  /\ \A b, c \in 1..Len(batches) : \A i \in 1..Len(batches[b]), j \in 1..Len(batches[c]) :
       batches[b][i] = batches[c][j] => b = c /\ i = j

\* The slices of two lists of different things, one behind the other.
LEMMA TwoLists ==
  ASSUME NEW S, NEW T, S \cap T = {}, NEW s, Lists(s, S), NEW t, Lists(t, T)
  PROVE  EachOnce(Slices(s) \o Slices(t), S \cup T)
<1> DEFINE X == S \cup T
           a == Slices(s)
           z == Slices(t)
           batches == a \o z
<1>1. /\ s \in Seq(S) /\ t \in Seq(T)
      /\ \A i, j \in 1..Len(s) : s[i] = s[j] => i = j
      /\ \A i, j \in 1..Len(t) : t[i] = t[j] => i = j
      /\ \A x \in S : \E i \in 1..Len(s) : s[i] = x
      /\ \A x \in T : \E i \in 1..Len(t) : t[i] = x
  BY DEF Lists
<1>2. /\ a \in Seq(Seq(S))
      /\ \A i \in 1..Len(s) : \E k \in 1..Len(a) : \E j \in 1..Len(a[k]) : a[k][j] = s[i]
      /\ \A k \in 1..Len(a) : \A j \in 1..Len(a[k]) : \E i \in 1..Len(s) : a[k][j] = s[i]
      /\ \A k, l \in 1..Len(a) : \A i \in 1..Len(a[k]), j \in 1..Len(a[l]) : a[k][i] = a[l][j] => k = l /\ i = j
  <2>1. s \in Seq(S) /\ \A i, j \in 1..Len(s) : s[i] = s[j] => i = j
    BY <1>1
  <2> HIDE DEF X, z, batches
  <2> QED BY <2>1, SlicesFacts
<1>3. /\ z \in Seq(Seq(T))
      /\ \A i \in 1..Len(t) : \E k \in 1..Len(z) : \E j \in 1..Len(z[k]) : z[k][j] = t[i]
      /\ \A k \in 1..Len(z) : \A j \in 1..Len(z[k]) : \E i \in 1..Len(t) : z[k][j] = t[i]
      /\ \A k, l \in 1..Len(z) : \A i \in 1..Len(z[k]), j \in 1..Len(z[l]) : z[k][i] = z[l][j] => k = l /\ i = j
  <2>1. t \in Seq(T) /\ \A i, j \in 1..Len(t) : t[i] = t[j] => i = j
    BY <1>1
  <2> HIDE DEF X, a, batches
  <2> QED BY <2>1, SlicesFacts
<1>4. a \in Seq(Seq(X)) /\ z \in Seq(Seq(X))
  <2>1. Seq(S) \subseteq Seq(X) /\ Seq(T) \subseteq Seq(X)
    BY SeqMonotonic
  <2> HIDE DEF a, z
  <2> QED BY <1>2, <1>3, <2>1, SeqMonotonic
<1> HIDE DEF a, z
<1>5. /\ batches \in Seq(Seq(X)) /\ Len(batches) = Len(a) + Len(z) /\ Len(a) \in Nat /\ Len(z) \in Nat
      /\ \A b \in 1..Len(a) : batches[b] = a[b]
      /\ \A b \in 1..Len(z) : batches[Len(a) + b] = z[b]
  BY <1>4
<1>6. ASSUME NEW b \in 1..Len(batches)
      PROVE  \/ b \in 1..Len(a) /\ batches[b] = a[b]
             \/ \E k \in 1..Len(z) : b = Len(a) + k /\ batches[b] = z[k]
  <2>1. CASE b <= Len(a)
    BY <1>5, <2>1
  <2>2. CASE ~(b <= Len(a))
    <3>1. b - Len(a) \in 1..Len(z) /\ b = Len(a) + (b - Len(a))
      BY <1>5, <2>2
    <3> QED BY <1>5, <3>1
  <2> QED BY <2>1, <2>2
<1> HIDE DEF batches
<1>7. ASSUME NEW v \in X
      PROVE  \E b \in 1..Len(batches) : \E i \in 1..Len(batches[b]) : batches[b][i] = v
  <2>1. CASE v \in S
    <3>1. PICK i \in 1..Len(s) : s[i] = v
      BY <1>1, <2>1
    <3>2. PICK k \in 1..Len(a) : \E j \in 1..Len(a[k]) : a[k][j] = s[i]
      BY <1>2
    <3>3. k \in 1..Len(batches) /\ batches[k] = a[k]
      BY <1>5
    <3> QED BY <3>1, <3>2, <3>3
  <2>2. CASE v \in T
    <3>1. PICK i \in 1..Len(t) : t[i] = v
      BY <1>1, <2>2
    <3> HIDE DEF z
    <3>2. PICK k \in 1..Len(z) : \E j \in 1..Len(z[k]) : z[k][j] = t[i]
      BY Zenon, <1>3
    <3>3. Len(a) + k \in 1..Len(batches) /\ batches[Len(a) + k] = z[k]
      BY <1>5
    <3> QED BY <3>1, <3>2, <3>3
  <2> QED BY <2>1, <2>2
<1>8. ASSUME NEW k \in 1..Len(a), NEW j \in 1..Len(a[k])
      PROVE  a[k][j] \in S
  <2>1. PICK i \in 1..Len(s) : a[k][j] = s[i]
    BY <1>2
  <2> QED BY <1>1, <2>1
<1>9. ASSUME NEW k \in 1..Len(z), NEW j \in 1..Len(z[k])
      PROVE  z[k][j] \in T
  <2>1. PICK i \in 1..Len(t) : z[k][j] = t[i]
    BY <1>3
  <2> QED BY <1>1, <2>1
<1>10. ASSUME NEW b \in 1..Len(batches), NEW c \in 1..Len(batches),
              NEW i \in 1..Len(batches[b]), NEW j \in 1..Len(batches[c]), batches[b][i] = batches[c][j]
       PROVE  b = c /\ i = j
  <2>1. CASE b \in 1..Len(a) /\ batches[b] = a[b]
    <3>1. CASE c \in 1..Len(a) /\ batches[c] = a[c]
      <4>1. \A x \in 1..Len(a[b]), y \in 1..Len(a[c]) : a[b][x] = a[c][y] => b = c /\ x = y
        BY <1>2, <2>1, <3>1
      <4> QED BY <1>10, <2>1, <3>1, <4>1
    <3>2. CASE \E l \in 1..Len(z) : c = Len(a) + l /\ batches[c] = z[l]
      <4>1. batches[b][i] \in S /\ batches[c][j] \in T
        BY <1>8, <1>9, <2>1, <3>2
      <4> QED BY <1>10, <4>1
    <3> QED BY <1>6, <3>1, <3>2
  <2>2. CASE \E k \in 1..Len(z) : b = Len(a) + k /\ batches[b] = z[k]
    <3>1. CASE c \in 1..Len(a) /\ batches[c] = a[c]
      <4>1. batches[b][i] \in T /\ batches[c][j] \in S
        BY <1>8, <1>9, <2>2, <3>1
      <4> QED BY <1>10, <4>1
    <3>2. CASE \E l \in 1..Len(z) : c = Len(a) + l /\ batches[c] = z[l]
      <4>1. PICK k \in 1..Len(z) : b = Len(a) + k /\ batches[b] = z[k]
        BY <2>2
      <4>2. PICK l \in 1..Len(z) : c = Len(a) + l /\ batches[c] = z[l]
        BY <3>2
      <4>3. \A x \in 1..Len(z[k]), y \in 1..Len(z[l]) : z[k][x] = z[l][y] => k = l /\ x = y
        BY <1>3
      <4>4. k = l /\ i = j
        BY <1>10, <4>1, <4>2, <4>3
      <4> QED BY <4>1, <4>2, <4>4
    <3> QED BY <1>6, <3>1, <3>2
  <2> QED BY <1>6, <2>1, <2>2
<1>11. EachOnce(batches, X)
  BY <1>5, <1>7, <1>10 DEF EachOnce
<1> QED BY <1>11 DEF batches, a, z

LEMMA InputsPartitioned == \A ls \in Inputs : Partitioned(ls)
<1> SUFFICES ASSUME NEW ls \in Inputs PROVE Partitioned(ls)
  OBVIOUS
<1> DEFINE cleaned == Cleaned[ls]
           valid == 1..Len(cleaned)
           size == [v \in valid |-> ls[cleaned[v]]]
           short_items == {v \in valid : size[v] < ShortThreshold}
           long_items == valid \ short_items
           uneven == \E v, w \in long_items : v # w /\ size[v] >= size[w] * 10
           shorter == {p \in long_items \X long_items :
                         size[p[1]] < size[p[2]] \/ (size[p[1]] = size[p[2]] /\ p[1] < p[2])}
           order == IF uneven THEN shorter ELSE Rising(long_items)
<1>1. Len(ls) \in Nat /\ \A i \in 1..Len(ls) : ls[i] \in Nat
  BY EmbedAssumption
<1>2. /\ cleaned \in Seq(1..Len(ls))
      /\ \A v, w \in 1..Len(cleaned) : cleaned[v] = cleaned[w] => v = w
      /\ \A i \in 1..Len(ls) : ls[i] > 0 <=> \E v \in 1..Len(cleaned) : cleaned[v] = i
  <2> DEFINE texts == {i \in 1..Len(ls) : ls[i] > 0}
  <2>1. Lists(cleaned, texts) /\ texts \subseteq 1..Len(ls)
    BY CleanedLists
  <2> HIDE DEF cleaned
  <2>2. cleaned \in Seq(texts) /\ cleaned \in Seq(1..Len(ls))
    <3> HIDE DEF texts
    <3> QED BY <2>1, SeqMonotonic DEF Lists
  <2>3. \A v \in 1..Len(cleaned) : cleaned[v] \in texts
    BY <2>2
  <2> QED BY <2>1, <2>2, <2>3 DEF Lists
<1> HIDE DEF cleaned
<1>3. Len(cleaned) \in Nat /\ \A v \in valid : size[v] \in Nat
  BY <1>1, <1>2
<1>4. /\ IsFiniteSet(valid) /\ valid \subseteq Int
      /\ short_items \in SUBSET valid /\ long_items \in SUBSET valid
      /\ short_items \cup long_items = valid /\ short_items \cap long_items = {}
  BY <1>3, FS_Interval
<1>5. StrictOrder(long_items, shorter)
  <2>1. \A v \in long_items : v \in Int /\ size[v] \in Int
    BY <1>3, <1>4
  <2> HIDE DEF size, long_items
  <2> QED BY <2>1 DEF StrictOrder
<1>6. Batches[ls] = Slices(InOrder(short_items, Rising(short_items))) \o Slices(InOrder(long_items, order))
  BY DEF Batches, cleaned
<1> HIDE DEF valid, short_items, long_items, shorter, uneven
<1>7. IsFiniteSet(short_items) /\ IsFiniteSet(long_items)
  BY <1>4, FS_Subset
<1>8. StrictOrder(short_items, Rising(short_items)) /\ StrictOrder(long_items, order)
  <2>1. short_items \subseteq Int /\ long_items \subseteq Int
    BY <1>4
  <2> QED BY <1>5, <2>1, RisingIsStrict
<1> HIDE DEF order
<1>9. Lists(InOrder(short_items, Rising(short_items)), short_items) /\ Lists(InOrder(long_items, order), long_items)
  BY <1>7, <1>8, InOrderLists
<1> DEFINE s == InOrder(short_items, Rising(short_items))
           t == InOrder(long_items, order)
<1>10. Batches[ls] = Slices(s) \o Slices(t) /\ Lists(s, short_items) /\ Lists(t, long_items)
  BY <1>6, <1>9
<1> HIDE DEF s, t
<1>11. EachOnce(Slices(s) \o Slices(t), short_items \cup long_items)
  BY <1>4, <1>10, TwoLists
<1>12. EachOnce(Batches[ls], valid)
  BY <1>4, <1>10, <1>11
<1> QED BY <1>2, <1>12 DEF Partitioned, EachOnce, valid, cleaned

----------------------------------------------------------------------------
(* Lists of parts. *)

PartSet == [items : Seq(Nat), depth : Nat]

Texts(work) == UNION {ToSet(p.items) : p \in ToSet(work)}

\* No text is in two places of a list of parts.
Distinct(work) ==
  \A k, l \in 1..Len(work) : \A i \in 1..Len(work[k].items), j \in 1..Len(work[l].items) :
    work[k].items[i] = work[l].items[j] => k = l /\ i = j

LEMMA ToSetFacts ==
  ASSUME NEW S, NEW s \in Seq(S)
  PROVE  ToSet(s) = {s[i] : i \in 1..Len(s)}
BY DEF ToSet

LEMMA PartFacts ==
  ASSUME NEW p \in PartSet
  PROVE  p.items \in Seq(Nat) /\ p.depth \in Nat /\ Len(p.items) \in Nat
BY DEF PartSet

\* Of the texts of a part, the first n.
LEMMA GivenFacts ==
  ASSUME NEW p \in PartSet, NEW n \in 0..Len(p.items)
  PROVE  /\ ToSet(SubSeq(p.items, 1, n)) \subseteq ToSet(p.items)
         /\ n = Len(p.items) => ToSet(SubSeq(p.items, 1, n)) = ToSet(p.items)
<1> DEFINE items == p.items
           given == SubSeq(items, 1, n)
<1>1. items \in Seq(Nat) /\ Len(items) \in Nat
  BY PartFacts
<1> HIDE DEF items
<1>2. n \in Int /\ n <= Len(items)
  BY <1>1 DEF items
<1>3. \A i \in 1..n : items[i] \in Nat
  BY <1>1, <1>2
<1>4. /\ given \in Seq(Nat)
      /\ Len(given) = IF 1 <= n THEN n - 1 + 1 ELSE 0
      /\ \A i \in 1..(n - 1 + 1) : given[i] = items[1 + i - 1]
  BY <1>2, <1>3, SubSeqProperties
<1>5. ASSUME NEW i \in 1..Len(given)
      PROVE  i \in 1..Len(items) /\ given[i] = items[i]
  <2>1. i \in 1..(n - 1 + 1) /\ 1 + i - 1 = i /\ i \in 1..Len(items)
    BY <1>1, <1>2, <1>4
  <2> QED BY <1>4, <2>1
<1>6. n = Len(items) => 1..Len(given) = 1..Len(items)
  BY <1>1, <1>4
<1>7. ToSet(given) = {given[i] : i \in 1..Len(given)} /\ ToSet(items) = {items[i] : i \in 1..Len(items)}
  BY <1>1, <1>4, ToSetFacts
<1> HIDE DEF given
<1>8. ToSet(given) \subseteq ToSet(items)
  BY <1>5, <1>7
<1>9. n = Len(items) => ToSet(given) = ToSet(items)
  BY <1>5, <1>6, <1>7
<1> QED BY <1>8, <1>9 DEF items, given

LEMMA TextsFacts ==
  ASSUME NEW work \in Seq(PartSet), NEW v
  PROVE  v \in Texts(work) <=> \E k \in 1..Len(work) : \E i \in 1..Len(work[k].items) : work[k].items[i] = v
<1>1. \A k \in 1..Len(work) : work[k].items \in Seq(Nat)
  <2>1. \A k \in 1..Len(work) : work[k] \in PartSet
    OBVIOUS
  <2> QED BY <2>1, PartFacts
<1>2. \A k \in 1..Len(work) : ToSet(work[k].items) = {work[k].items[i] : i \in 1..Len(work[k].items)}
  BY <1>1, ToSetFacts
<1>3. ToSet(work) = {work[k] : k \in 1..Len(work)}
  BY ToSetFacts
<1>4. v \in Texts(work) <=> \E k \in 1..Len(work) : v \in ToSet(work[k].items)
  BY <1>3 DEF Texts
<1> QED BY <1>2, <1>4

\* The head of a list of parts, and what is left without it.
LEMMA WithoutHead ==
  ASSUME NEW work \in Seq(PartSet), work # <<>>, Distinct(work)
  PROVE  /\ Head(work) = work[1] /\ Head(work) \in PartSet
         /\ Tail(work) \in Seq(PartSet)
         /\ Distinct(Tail(work))
         /\ ToSet(Head(work).items) \subseteq Texts(work)
         /\ Texts(Tail(work)) = Texts(work) \ ToSet(Head(work).items)
<1>1. Head(work) = work[1] /\ Head(work) \in PartSet /\ Len(work) \in Nat /\ Len(work) >= 1
  BY HeadTailProperties
<1>2. /\ Tail(work) \in Seq(PartSet)
      /\ Len(Tail(work)) = Len(work) - 1
      /\ \A i \in 1..Len(Tail(work)) : Tail(work)[i] = work[i + 1]
  BY HeadTailProperties
<1>3. Distinct(Tail(work))
  <2> DEFINE T == Tail(work)
  <2>1. SUFFICES ASSUME NEW k \in 1..Len(T), NEW l \in 1..Len(T),
                        NEW i \in 1..Len(T[k].items), NEW j \in 1..Len(T[l].items),
                        T[k].items[i] = T[l].items[j]
                 PROVE  k = l /\ i = j
    BY DEF Distinct
  <2>2. k + 1 \in 1..Len(work) /\ l + 1 \in 1..Len(work) /\ T[k] = work[k + 1] /\ T[l] = work[l + 1]
    BY <1>1, <1>2
  <2>3. work[k + 1].items[i] = work[l + 1].items[j] => k + 1 = l + 1 /\ i = j
    BY <2>2 DEF Distinct
  <2> QED BY <2>1, <2>2, <2>3
<1>4. ToSet(Head(work).items) = {work[1].items[i] : i \in 1..Len(work[1].items)}
  <2>1. work[1].items \in Seq(Nat)
    BY <1>1 DEF PartSet
  <2> QED BY <1>1, <2>1, ToSetFacts
<1>5. ToSet(Head(work).items) \subseteq Texts(work)
  BY <1>1, <1>4, TextsFacts
<1>6. ASSUME NEW v \in Texts(Tail(work))
      PROVE  v \in Texts(work) /\ v \notin ToSet(Head(work).items)
  <2>1. PICK k \in 1..Len(Tail(work)) : \E i \in 1..Len(Tail(work)[k].items) : Tail(work)[k].items[i] = v
    BY <1>2, <1>6, TextsFacts
  <2>2. PICK i \in 1..Len(Tail(work)[k].items) : Tail(work)[k].items[i] = v
    BY <2>1
  <2>3. k + 1 \in 1..Len(work) /\ i \in 1..Len(work[k + 1].items) /\ work[k + 1].items[i] = v
    BY <1>1, <1>2, <2>2
  <2>4. v \in Texts(work)
    BY <2>3, TextsFacts
  <2>5. ASSUME NEW j \in 1..Len(work[1].items), work[1].items[j] = v
        PROVE  FALSE
    <3>1. work[k + 1].items[i] = work[1].items[j] => k + 1 = 1 /\ i = j
      BY <1>1, <2>3 DEF Distinct
    <3> QED BY <2>3, <2>5, <3>1
  <2> QED BY <2>4, <2>5, <1>4
<1>7. ASSUME NEW v \in Texts(work), v \notin ToSet(Head(work).items)
      PROVE  v \in Texts(Tail(work))
  <2>1. PICK k \in 1..Len(work) : \E i \in 1..Len(work[k].items) : work[k].items[i] = v
    BY <1>7, TextsFacts
  <2>2. k # 1
    BY <1>4, <1>7, <2>1
  <2>3. k - 1 \in 1..Len(Tail(work)) /\ Tail(work)[k - 1] = work[k]
    BY <1>1, <1>2, <2>2
  <2> QED BY <1>2, <2>1, <2>3, TextsFacts
<1> QED BY <1>1, <1>2, <1>3, <1>5, <1>6, <1>7

\* The two halves of a list.
LEMMA ListHalves ==
  ASSUME NEW items \in Seq(Nat), Len(items) > 1
  PROVE  LET mid == Len(items) \div 2 IN
         /\ mid \in Nat /\ 1 <= mid /\ mid < Len(items)
         /\ SubSeq(items, 1, mid) \in Seq(Nat) /\ Len(SubSeq(items, 1, mid)) = mid
         /\ \A i \in 1..mid : SubSeq(items, 1, mid)[i] = items[i]
         /\ SubSeq(items, mid + 1, Len(items)) \in Seq(Nat)
         /\ Len(SubSeq(items, mid + 1, Len(items))) = Len(items) - mid
         /\ \A i \in 1..(Len(items) - mid) : SubSeq(items, mid + 1, Len(items))[i] = items[mid + i]
<1> DEFINE n == Len(items)
           mid == n \div 2
<1>1. n \in Nat /\ n > 1 /\ \A i \in 1..n : items[i] \in Nat
  OBVIOUS
<1>2. mid \in Nat /\ 1 <= mid /\ mid < n
  <2> HIDE DEF n
  <2> QED BY <1>1
<1> HIDE DEF mid
<1>3. /\ SubSeq(items, 1, mid) \in Seq(Nat) /\ Len(SubSeq(items, 1, mid)) = mid
      /\ \A i \in 1..mid : SubSeq(items, 1, mid)[i] = items[i]
  <2>1. \A i \in 1..mid : items[i] \in Nat
    BY <1>1, <1>2
  <2>2. 1 \in Int /\ mid \in Int
    BY <1>2
  <2>3. /\ SubSeq(items, 1, mid) \in Seq(Nat) 
        /\ Len(SubSeq(items, 1, mid)) = IF 1 <= mid THEN mid - 1 + 1 ELSE 0
        /\ \A i \in 1..(mid - 1 + 1) : SubSeq(items, 1, mid)[i] = items[1 + i - 1]
    BY <2>1, <2>2, SubSeqProperties
  <2>4. mid - 1 + 1 = mid /\ \A i \in 1..mid : 1 + i - 1 = i
    BY <1>2
  <2> QED BY <1>2, <2>3, <2>4
<1>4. /\ SubSeq(items, mid + 1, n) \in Seq(Nat) /\ Len(SubSeq(items, mid + 1, n)) = n - mid
      /\ \A i \in 1..(n - mid) : SubSeq(items, mid + 1, n)[i] = items[mid + i]
  <2>1. \A i \in (mid + 1)..n : items[i] \in Nat
    BY <1>1, <1>2
  <2>2. mid + 1 \in Int /\ n \in Int
    BY <1>1, <1>2
  <2> HIDE DEF n
  <2>3. /\ SubSeq(items, mid + 1, n) \in Seq(Nat)
        /\ Len(SubSeq(items, mid + 1, n)) = IF mid + 1 <= n THEN n - (mid + 1) + 1 ELSE 0
        /\ \A i \in 1..(n - (mid + 1) + 1) : SubSeq(items, mid + 1, n)[i] = items[mid + 1 + i - 1]
    BY <2>1, <2>2, SubSeqProperties
  <2>4. n - (mid + 1) + 1 = n - mid /\ \A i \in 1..(n - mid) : mid + 1 + i - 1 = mid + i
    BY <1>1, <1>2
  <2> QED BY <1>1, <1>2, <2>3, <2>4
<1> QED BY <1>2, <1>3, <1>4 DEF mid

\* Two halves hold the texts of the part they come from, each once.
LEMMA Halved ==
  ASSUME NEW work \in Seq(PartSet), work # <<>>, Distinct(work), Len(Head(work).items) > 1
  PROVE  LET halves == Halves(Head(work)) \o Tail(work) IN
         /\ halves \in Seq(PartSet) /\ halves # <<>>
         /\ Distinct(halves)
         /\ Texts(halves) = Texts(work)
<1> DEFINE p == work[1]
           mid == Len(p.items) \div 2
           left == [items |-> SubSeq(p.items, 1, mid), depth |-> p.depth + 1]
           right == [items |-> SubSeq(p.items, mid + 1, Len(p.items)), depth |-> p.depth + 1]
           halves == Halves(Head(work)) \o Tail(work)
<1>1. /\ Head(work) = p /\ p \in PartSet /\ Len(work) \in Nat /\ Len(work) >= 1
      /\ Tail(work) \in Seq(PartSet) /\ Len(Tail(work)) = Len(work) - 1
      /\ \A i \in 1..Len(Tail(work)) : Tail(work)[i] = work[i + 1]
  BY HeadTailProperties
<1>0. p.items \in Seq(Nat) /\ p.depth \in Nat /\ Len(p.items) > 1
  BY <1>1, PartFacts
<1>2. Len(p.items) \in Nat /\ mid \in Nat /\ 1 <= mid /\ mid < Len(p.items)
  <2>1. Len(p.items) \in Nat
    BY <1>1, PartFacts
  <2>2. Len(p.items) \div 2 \in Nat /\ 1 <= Len(p.items) \div 2 /\ Len(p.items) \div 2 < Len(p.items)
    BY <1>0, ListHalves
  <2> QED BY <2>1, <2>2
<1>3. /\ left.items \in Seq(Nat) /\ Len(left.items) = mid
      /\ \A i \in 1..mid : left.items[i] = p.items[i]
  BY <1>0, ListHalves
<1>4. /\ right.items \in Seq(Nat) /\ Len(right.items) = Len(p.items) - mid
      /\ \A i \in 1..(Len(p.items) - mid) : right.items[i] = p.items[mid + i]
  BY <1>0, ListHalves
<1>5. left \in PartSet /\ right \in PartSet
  <2>1. p.depth + 1 \in Nat
    BY <1>0
  <2> QED BY <2>1, <1>3, <1>4 DEF PartSet
<1>6. halves = <<left, right>> \o Tail(work)
  BY <1>1 DEF Halves
<1> HIDE DEF left, right, mid, p, halves
<1>7. /\ halves \in Seq(PartSet) /\ Len(halves) = Len(work) + 1
      /\ halves[1] = left /\ halves[2] = right
      /\ \A k \in 3..Len(halves) : halves[k] = work[k - 1]
  <2>1. <<left, right>> \in Seq(PartSet) /\ Len(<<left, right>>) = 2
    BY <1>5
  <2>2. /\ halves \in Seq(PartSet) /\ Len(halves) = 2 + Len(Tail(work))
        /\ \A k \in 1..(2 + Len(Tail(work))) :
             halves[k] = IF k <= 2 THEN <<left, right>>[k] ELSE Tail(work)[k - 2]
    BY <1>1, <1>6, <2>1, ConcatProperties
  <2> QED BY <1>1, <2>2
\* Where the text at a place of the halves was.
<1> DEFINE Part0(k) == IF k <= 2 THEN 1 ELSE k - 1
           Item0(k, i) == IF k = 2 THEN mid + i ELSE i
<1>8. ASSUME NEW k \in 1..Len(halves), NEW i \in 1..Len(halves[k].items)
      PROVE  /\ Part0(k) \in 1..Len(work) /\ Item0(k, i) \in 1..Len(work[Part0(k)].items)
             /\ halves[k].items[i] = work[Part0(k)].items[Item0(k, i)]
             /\ k = 1 => i <= mid
  <2>1. CASE k = 1
    BY <1>1, <1>2, <1>3, <1>7, <2>1 DEF p
  <2>2. CASE k = 2
    BY <1>1, <1>2, <1>4, <1>7, <2>2 DEF p
  <2>3. CASE k > 2
    BY <1>1, <1>7, <2>3
  <2> QED BY <1>7, <2>1, <2>2, <2>3
<1>9. Distinct(halves)
  <2>1. SUFFICES ASSUME NEW k \in 1..Len(halves), NEW l \in 1..Len(halves),
                        NEW i \in 1..Len(halves[k].items), NEW j \in 1..Len(halves[l].items),
                        halves[k].items[i] = halves[l].items[j]
                 PROVE  k = l /\ i = j
    BY DEF Distinct
  <2>2. Part0(k) = Part0(l) /\ Item0(k, i) = Item0(l, j)
    <3>1. PICK k0 \in 1..Len(work) : k0 = Part0(k) /\ Item0(k, i) \in 1..Len(work[k0].items)
                                     /\ halves[k].items[i] = work[k0].items[Item0(k, i)]
      BY <1>8
    <3>2. PICK l0 \in 1..Len(work) : l0 = Part0(l) /\ Item0(l, j) \in 1..Len(work[l0].items)
                                     /\ halves[l].items[j] = work[l0].items[Item0(l, j)]
      BY <1>8
    <3> HIDE DEF Part0, Item0
    <3>3. PICK i0 \in 1..Len(work[k0].items) : i0 = Item0(k, i) /\ halves[k].items[i] = work[k0].items[i0]
      BY <3>1
    <3>4. PICK j0 \in 1..Len(work[l0].items) : j0 = Item0(l, j) /\ halves[l].items[j] = work[l0].items[j0]
      BY <3>2
    <3>5. k0 = l0 /\ i0 = j0
      <4>1. \A x \in 1..Len(work[k0].items), y \in 1..Len(work[l0].items) :
              work[k0].items[x] = work[l0].items[y] => k0 = l0 /\ x = y
        BY DEF Distinct
      <4>2. work[k0].items[i0] = work[l0].items[j0]
        BY <2>1, <3>3, <3>4
      <4> QED BY <4>1, <4>2
    <3> QED BY <3>1, <3>2, <3>3, <3>4, <3>5
  <2>3. (k = 1 => i <= mid) /\ (l = 1 => j <= mid) /\ i >= 1 /\ j >= 1 /\ i \in Int /\ j \in Int
    BY <1>8
  <2> QED BY <1>2, <1>7, <2>2, <2>3
<1>10. ASSUME NEW v \in Texts(halves)
       PROVE  v \in Texts(work)
  <2>1. PICK k \in 1..Len(halves) : \E i \in 1..Len(halves[k].items) : halves[k].items[i] = v
    BY <1>7, <1>10, TextsFacts
  <2>2. PICK i \in 1..Len(halves[k].items) : halves[k].items[i] = v
    BY <2>1
  <2>3. /\ Part0(k) \in 1..Len(work) /\ Item0(k, i) \in 1..Len(work[Part0(k)].items)
        /\ v = work[Part0(k)].items[Item0(k, i)]
    BY <1>8, <2>2
  <2> HIDE DEF Part0, Item0
  <2> QED BY <2>3, TextsFacts
<1>11. ASSUME NEW v \in Texts(work)
       PROVE  v \in Texts(halves)
  <2>1. PICK k \in 1..Len(work) : \E i \in 1..Len(work[k].items) : work[k].items[i] = v
    BY <1>11, TextsFacts
  <2>2. PICK i \in 1..Len(work[k].items) : work[k].items[i] = v
    BY <2>1
  <2>3. \E l \in 1..Len(halves) : \E j \in 1..Len(halves[l].items) : halves[l].items[j] = v
    <3>1. CASE k = 1 /\ i <= mid
      <4>1. 1 \in 1..Len(halves) /\ i \in 1..Len(halves[1].items) /\ halves[1].items[i] = v
        BY <1>1, <1>2, <1>3, <1>7, <2>2, <3>1 DEF p
      <4> QED BY <4>1
    <3>2. CASE k = 1 /\ i > mid
      <4>1. 2 \in 1..Len(halves) /\ i - mid \in 1..Len(halves[2].items) /\ halves[2].items[i - mid] = v
        <5>1. i \in Int /\ i - mid \in 1..(Len(p.items) - mid) /\ p.items[i] = v
          BY <1>2, <2>2, <3>2 DEF p
        <5>2. right.items[i - mid] = p.items[mid + (i - mid)]
          BY <1>4, <5>1
        <5>3. mid + (i - mid) = i
          BY <1>2, <5>1
        <5> QED BY <1>1, <1>4, <1>7, <5>1, <5>2, <5>3
      <4> QED BY <4>1
    <3>3. CASE k > 1
      <4>1. k + 1 \in 3..Len(halves) /\ halves[k + 1] = work[k]
        BY <1>1, <1>7, <3>3
      <4>2. k + 1 \in 1..Len(halves)
        BY <4>1
      <4> QED BY <2>2, <4>1, <4>2
    <3> QED BY <1>1, <1>2, <2>2, <3>1, <3>2, <3>3
  <2> QED BY <1>7, <2>3, TextsFacts
<1>12. halves # <<>>
  BY <1>1, <1>7
<1> QED BY <1>7, <1>9, <1>10, <1>11, <1>12 DEF halves

----------------------------------------------------------------------------
(* The inductive invariant of a call. *)

\* What a job has left to do; it is done when that is nothing.
WorkOK ==
  \A b \in DOMAIN jobs :
    /\ jobs[b].work \in Seq(PartSet) /\ Distinct(jobs[b].work)
    /\ jobs[b].at = "done" <=> jobs[b].work = <<>>

Apart == \A b, c \in DOMAIN jobs : b # c => Texts(jobs[b].work) \cap Texts(jobs[c].work) = {}

Pending == UNION {Texts(jobs[b].work) : b \in DOMAIN jobs}
Embedded == Valid \ Lost
Failed == {v \in Valid : diagnosis[v] # Unexplained} \cup short

\* A text is still in work, has its vector or has failed, and only one of these.
SettledOnce ==
  /\ Pending \cup Embedded \cup Failed = Valid
  /\ Pending \cap Embedded = {} /\ Pending \cap Failed = {} /\ Embedded \cap Failed = {}

Placed ==
  /\ lengths \in Inputs
  /\ results \in [Valid -> Nat] /\ \A v \in Valid : results[v] \in {None, Cleaned[lengths][v]}

IInv ==
  /\ Shape
  /\ WorkOK
  /\ Apart
  /\ SettledOnce
  /\ Placed
  /\ RightVector

----------------------------------------------------------------------------
(* What steps do to the lists of parts. *)

LEMMA SameWork ==
  ASSUME WorkOK, Apart, DOMAIN jobs' = DOMAIN jobs,
         \A c \in DOMAIN jobs : jobs'[c].work = jobs[c].work /\ (jobs'[c].at = "done" <=> jobs[c].at = "done")
  PROVE  WorkOK' /\ Apart' /\ Pending' = Pending
BY DEF WorkOK, Apart, Pending

LEMMA LessWork ==
  ASSUME WorkOK, Apart, NEW b \in DOMAIN jobs,
         NEW work \in Seq(PartSet), Distinct(work), NextPart(b, work),
         NEW G, G \subseteq Texts(jobs[b].work), Texts(work) = Texts(jobs[b].work) \ G
  PROVE  /\ WorkOK' /\ Apart'
         /\ G \subseteq Pending
         /\ Pending' = Pending \ G
<1>1. /\ DOMAIN jobs' = DOMAIN jobs
      /\ jobs'[b].work = work /\ (jobs'[b].at = "done" <=> work = <<>>)
      /\ \A c \in DOMAIN jobs : c # b => jobs'[c] = jobs[c]
  BY DEF NextPart
<1>2. WorkOK'
  BY <1>1 DEF WorkOK
<1>3. Apart'
  BY <1>1 DEF Apart
<1>4. G \subseteq Pending
  BY DEF Pending
<1>5. ASSUME NEW v \in Pending'
      PROVE  v \in Pending \ G
  <2>1. PICK c \in DOMAIN jobs : v \in Texts(jobs'[c].work)
    BY <1>1 DEF Pending
  <2>2. CASE c = b
    BY <1>1, <2>1, <2>2 DEF Pending
  <2>3. CASE c # b
    BY <1>1, <2>1, <2>3 DEF Pending, Apart
  <2> QED BY <2>2, <2>3
<1>6. ASSUME NEW v \in Pending \ G
      PROVE  v \in Pending'
  <2>1. PICK c \in DOMAIN jobs : v \in Texts(jobs[c].work)
    BY DEF Pending
  <2>2. v \in Texts(jobs'[c].work)
    BY <1>1, <1>6, <2>1
  <2> QED BY <1>1, <2>2 DEF Pending
<1> QED BY <1>2, <1>3, <1>4, <1>5, <1>6

\* The next part is settled, or halved.
LEMMA PartDone ==
  ASSUME WorkOK, Apart, NEW b \in DOMAIN jobs, jobs[b].at # "done", NextPart(b, Tail(jobs[b].work))
  PROVE  /\ WorkOK' /\ Apart'
         /\ Part(b) \in PartSet
         /\ ToSet(Part(b).items) \subseteq Pending
         /\ Pending' = Pending \ ToSet(Part(b).items)
<1>1. jobs[b].work \in Seq(PartSet) /\ Distinct(jobs[b].work) /\ jobs[b].work # <<>>
  BY DEF WorkOK
<1>2. /\ Part(b) \in PartSet
      /\ Tail(jobs[b].work) \in Seq(PartSet) /\ Distinct(Tail(jobs[b].work))
      /\ ToSet(Part(b).items) \subseteq Texts(jobs[b].work)
      /\ Texts(Tail(jobs[b].work)) = Texts(jobs[b].work) \ ToSet(Part(b).items)
  BY <1>1, WithoutHead DEF Part
<1> QED BY <1>2, LessWork

LEMMA PartHalved ==
  ASSUME WorkOK, Apart, NEW b \in DOMAIN jobs, jobs[b].at # "done", Len(Part(b).items) > 1,
         NextPart(b, Halves(Part(b)) \o Tail(jobs[b].work))
  PROVE  WorkOK' /\ Apart' /\ Pending' = Pending
<1>1. jobs[b].work \in Seq(PartSet) /\ Distinct(jobs[b].work) /\ jobs[b].work # <<>>
  BY DEF WorkOK
<1> DEFINE work == Halves(Head(jobs[b].work)) \o Tail(jobs[b].work)
<1>2. work \in Seq(PartSet) /\ Distinct(work) /\ Texts(work) = Texts(jobs[b].work)
  BY <1>1, Halved DEF Part
<1>3. NextPart(b, work)
  BY DEF Part
<1> HIDE DEF work
<1>4. Texts(work) = Texts(jobs[b].work) \ {}
  BY <1>2
<1>5. WorkOK' /\ Apart' /\ Pending' = Pending \ {}
  BY <1>2, <1>3, <1>4, LessWork
<1> QED BY <1>5

----------------------------------------------------------------------------
(* The four things a step of a batch can do: move, fail, be halved, be answered. *)

Others == UNCHANGED <<lengths, call, output, reported>>

Moving ==
  /\ Shape' /\ DOMAIN jobs' = DOMAIN jobs
  /\ \A c \in DOMAIN jobs : jobs'[c].work = jobs[c].work /\ (jobs'[c].at = "done" <=> jobs[c].at = "done")
  /\ UNCHANGED <<results, diagnosis, short>> /\ Others

Failing(b) ==
  /\ jobs[b].at # "done"
  /\ NextPart(b, Tail(jobs[b].work))
  /\ \E why : why # Unexplained /\ diagnosis' = Explain(Part(b).items, why)
  /\ UNCHANGED <<results, short>> /\ Others

Halving(b) ==
  /\ jobs[b].at # "done" /\ Len(Part(b).items) > 1
  /\ NextPart(b, Halves(Part(b)) \o Tail(jobs[b].work))
  /\ UNCHANGED <<results, diagnosis, short>> /\ Others

LEMMA StepMoves ==
  ASSUME Shape, NEW b \in DOMAIN jobs, NEW s, Moves(b, s), s # "done", jobs[b].at # "done",
         UNCHANGED <<results, diagnosis, short>>, Others
  PROVE  Moving
<1>1. Shape' /\ DOMAIN jobs' = DOMAIN jobs /\ \A c \in DOMAIN jobs : jobs'[c].at = IF c = b THEN s ELSE jobs[c].at
  BY JobMoves
<1>2. \A c \in DOMAIN jobs : jobs'[c].work = jobs[c].work
  BY DEF Moves, Shape
<1> QED BY <1>1, <1>2 DEF Moving

LEMMA StepRetries ==
  ASSUME Shape, NEW b \in DOMAIN jobs, NEW s, s \notin {"sent", "done"}, jobs[b].at # "done", NEW n,
         \/ jobs' = [jobs EXCEPT ![b].at = s, ![b].server = n]
         \/ jobs' = [jobs EXCEPT ![b].at = s, ![b].connect = n],
         UNCHANGED <<results, diagnosis, short>>, Others
  PROVE  Moving
<1>1. /\ Shape' /\ DOMAIN jobs' = DOMAIN jobs
      /\ jobs'[b].at = s /\ jobs'[b].work = jobs[b].work
      /\ \A c \in DOMAIN jobs : c # b => jobs'[c] = jobs[c]
  <2>1. s # "sent"
    OBVIOUS
  <2>2. CASE jobs' = [jobs EXCEPT ![b].at = s, ![b].server = n]
    BY <2>1, <2>2, JobRetries
  <2>3. CASE jobs' = [jobs EXCEPT ![b].at = s, ![b].connect = n]
    BY <2>1, <2>3, JobRetries
  <2> QED BY <2>2, <2>3
<1>2. \A c \in DOMAIN jobs : jobs'[c].work = jobs[c].work /\ (jobs'[c].at = "done" <=> jobs[c].at = "done")
  BY <1>1
<1> QED BY <1>1, <1>2 DEF Moving

LEMMA StepFails ==
  ASSUME IInv, NEW b \in DOMAIN jobs, jobs[b].at # "done", NEW why, why # Unexplained,
         BatchFails(b, why), UNCHANGED <<results, short>>, Others
  PROVE  (Failing(b) /\ Len(Part(b).items) <= 1) \/ Halving(b)
<1>1. jobs[b].work \in Seq(PartSet) /\ jobs[b].work # <<>>
  BY DEF IInv, WorkOK
<1>2. Part(b) \in PartSet
  BY <1>1, HeadTailProperties DEF Part
<1>3. Len(Part(b).items) \in Nat
  BY <1>2, PartFacts
<1> QED BY <1>3 DEF BatchFails, Failing, Halving

LEMMA StepKinds ==
  ASSUME IInv, NEW b \in DOMAIN jobs, Step(b)
  PROVE  /\ call = "running"
         /\ Moving \/ Failing(b) \/ Halving(b) \/ Answered(b) \/ Malformed(b)
<1>0. Shape /\ StopReason # Unexplained
  BY DEF IInv, StopReason, Unexplained
<1>1. ASSUME Acquire(b) PROVE call = "running" /\ Moving
  BY <1>0, <1>1, StepMoves DEF Acquire, At, Others, callVars
<1>2. ASSUME Enter(b) PROVE call = "running" /\ (Moving \/ Failing(b))
  <2>1. CASE Stop \/ Part(b).depth >= MaxDepth
    <3>1. (IF Stop THEN StopReason ELSE "subdivide_exhausted") # Unexplained
      BY <1>0 DEF Unexplained
    <3> QED BY <1>2, <2>1, <3>1 DEF Enter, At, Failing, Others, callVars
  <2>2. CASE ~(Stop \/ Part(b).depth >= MaxDepth)
    BY <1>0, <1>2, <2>2, StepMoves DEF Enter, At, Others, callVars
  <2> QED BY <2>1, <2>2
<1>3. ASSUME Try(b) PROVE call = "running" /\ (Moving \/ Failing(b) \/ Halving(b))
  <2>1. CASE Stop
    BY <1>0, <1>3, <2>1, StepFails DEF Try, At, Others, callVars
  <2>2. CASE ~Stop
    BY <1>0, <1>3, <2>2, StepMoves DEF Try, At, Others, callVars
  <2> QED BY <2>1, <2>2
<1>4. ASSUME Refused(b) PROVE call = "running" /\ (Failing(b) \/ Halving(b))
  <2>1. PICK why \in {"http_4xx", "timeout"} : BatchFails(b, why)
    BY <1>4 DEF Refused
  <2>2. why # Unexplained
    BY DEF Unexplained
  <2>3. jobs[b].at # "done" /\ call = "running" /\ UNCHANGED <<results, short>> /\ Others
    BY <1>4 DEF Refused, At, Others, callVars
  <2> QED BY <2>1, <2>2, <2>3, StepFails
<1>5. ASSUME ServerError(b) PROVE call = "running" /\ (Moving \/ Failing(b) \/ Halving(b))
  <2>1. /\ jobs[b].at = "sent" /\ call = "running" /\ UNCHANGED <<results, short>> /\ Others
    BY <1>5 DEF ServerError, At, Others, callVars
  <2>2. CASE jobs[b].server = 0
    <3>1. jobs' = [jobs EXCEPT ![b].at = "try", ![b].server = 1] /\ UNCHANGED diagnosis
      BY <1>5, <2>2 DEF ServerError
    <3> QED BY <1>0, <2>1, <3>1, StepRetries
  <2>3. CASE jobs[b].server # 0
    <3>1. BatchFails(b, "http_500") /\ "http_500" # Unexplained
      BY <1>5, <2>3 DEF ServerError, Unexplained
    <3> QED BY <2>1, <3>1, StepFails
  <2> QED BY <2>2, <2>3
<1>6. ASSUME ConnectionLost(b) PROVE call = "running" /\ (Moving \/ Failing(b) \/ Halving(b))
  <2>1. /\ jobs[b].at = "sent" /\ call = "running" /\ UNCHANGED <<results, short>> /\ Others
    BY <1>6 DEF ConnectionLost, At, Others, callVars
  <2>2. CASE jobs[b].connect < ConnectRetries - 1
    <3> DEFINE n == jobs[b].connect + 1
    <3>1. jobs' = [jobs EXCEPT ![b].at = "backoff", ![b].connect = n] /\ UNCHANGED diagnosis
      BY <1>6, <2>2 DEF ConnectionLost
    <3> HIDE DEF n
    <3> QED BY <1>0, <2>1, <3>1, StepRetries
  <2>3. CASE ~(jobs[b].connect < ConnectRetries - 1)
    <3>1. BatchFails(b, "connection") /\ "connection" # Unexplained
      BY <1>6, <2>3 DEF ConnectionLost, Unexplained
    <3> QED BY <2>1, <3>1, StepFails
  <2> QED BY <2>2, <2>3
<1>7. ASSUME BackOff(b) PROVE call = "running" /\ (Moving \/ Failing(b) \/ Halving(b))
  <2>1. CASE Stop
    BY <1>0, <1>7, <2>1, StepFails DEF BackOff, At, Others, callVars
  <2>2. CASE ~Stop
    BY <1>0, <1>7, <2>2, StepMoves DEF BackOff, At, Others, callVars
  <2> QED BY <2>1, <2>2
<1>8. ASSUME Answered(b) \/ Malformed(b) PROVE call = "running"
  BY <1>8 DEF Answered, Malformed, At
<1> QED BY <1>1, <1>2, <1>3, <1>4, <1>5, <1>6, <1>7, <1>8 DEF Step

----------------------------------------------------------------------------
(* The invariant is inductive, and a step of the call is one of EmbedCall's. *)

\* Where what is lost by the texts in work is what vectors and failures gain, all stay apart.
LEMMA Progress ==
  ASSUME SettledOnce, Valid' = Valid, NEW G, G \subseteq Pending, NEW E, E \subseteq G,
         Pending' = Pending \ G, Embedded' = Embedded \cup E, Failed' = Failed \cup (G \ E)
  PROVE  /\ SettledOnce'
         /\ Pending' \subseteq Pending
         /\ (Embedded' \ Embedded) \cup (Failed' \ Failed) = Pending \ Pending'
         /\ Embedded' \cap Failed' = {}
<1> HIDE DEF Pending, Embedded, Failed, Valid
<1>1. SettledOnce'
  BY DEF SettledOnce
<1>2. (Embedded' \ Embedded) \cup (Failed' \ Failed) = Pending \ Pending'
  BY DEF SettledOnce
<1> QED BY <1>1, <1>2 DEF SettledOnce

LEMMA CallPending == UNION {ToSet(p.items) : p \in UNION {ToSet(jobs[b].work) : b \in DOMAIN jobs}} = Pending
BY DEF Pending, Texts

LEMMA IsSettle ==
  ASSUME call = "running", UNCHANGED call,
         Pending' \subseteq Pending, Embedded \subseteq Embedded', Failed \subseteq Failed',
         (Embedded' \ Embedded) \cup (Failed' \ Failed) = Pending \ Pending',
         Embedded' \cap Failed' = {}
  PROVE  Call!Settle
<1>1. (UNION {ToSet(p.items) : p \in UNION {ToSet(jobs[b].work) : b \in DOMAIN jobs}})' = Pending'
  BY DEF Pending, Texts
<1> QED BY <1>1, CallPending DEF Call!Settle, Embedded, Failed

LEMMA SameTexts ==
  ASSUME UNCHANGED lengths
  PROVE  Valid' = Valid /\ Cleaned[lengths]' = Cleaned[lengths]
BY DEF Valid

\* Which texts a step settles, and which of them with a vector.
LEMMA Settles ==
  ASSUME IInv, NEW b \in DOMAIN jobs, call = "running",
         Moving \/ Failing(b) \/ Halving(b) \/ Answered(b)
  PROVE  IInv' /\ Call!Settle
<1>1. /\ Shape /\ WorkOK /\ Apart /\ SettledOnce /\ Placed /\ Pending \subseteq Valid
      /\ lengths \in Inputs /\ Partitioned(lengths)
  BY InputsPartitioned DEF IInv, Placed, SettledOnce
<1>2. UNCHANGED <<lengths, call>>
  BY DEF Moving, Failing, Halving, Answered, Others, callVars
<1>3. Valid' = Valid /\ Cleaned[lengths]' = Cleaned[lengths]
  BY <1>2, SameTexts
<1>4. RightVector'
  BY <1>2 DEF RightVector
<1>5. SUFFICES
        /\ Shape' /\ WorkOK' /\ Apart' /\ Placed'
        /\ \E G \in SUBSET Pending : \E E \in SUBSET G :
             Pending' = Pending \ G /\ Embedded' = Embedded \cup E /\ Failed' = Failed \cup (G \ E)
  <2>1. PICK G \in SUBSET Pending : \E E \in SUBSET G :
             Pending' = Pending \ G /\ Embedded' = Embedded \cup E /\ Failed' = Failed \cup (G \ E)
    BY <1>5
  <2>2. PICK E \in SUBSET G :
             Pending' = Pending \ G /\ Embedded' = Embedded \cup E /\ Failed' = Failed \cup (G \ E)
    BY <2>1
  <2>3. /\ SettledOnce'
        /\ Pending' \subseteq Pending /\ Embedded \subseteq Embedded' /\ Failed \subseteq Failed'
        /\ (Embedded' \ Embedded) \cup (Failed' \ Failed) = Pending \ Pending'
        /\ Embedded' \cap Failed' = {}
    BY <1>1, <1>3, <2>2, Progress
  <2>4. Call!Settle
    BY <1>2, <2>3, IsSettle
  <2> QED BY <1>4, <1>5, <2>3, <2>4 DEF IInv
<1>6. ASSUME UNCHANGED <<results, diagnosis, short>>
      PROVE  Placed' /\ Embedded' = Embedded /\ Failed' = Failed
  BY <1>1, <1>2, <1>3, <1>6 DEF Placed, Embedded, Lost, Failed
<1>7. CASE Moving \/ Halving(b)
  <2>1. Shape' /\ WorkOK' /\ Apart' /\ Pending' = Pending
    BY <1>1, <1>7, SameWork, PartHalved, JobGoesOn DEF Moving, Halving
  <2>2. Placed' /\ Embedded' = Embedded /\ Failed' = Failed
    BY <1>6, <1>7 DEF Moving, Halving
  <2>3. Pending' = Pending \ {} /\ Embedded' = Embedded \cup {} /\ Failed' = Failed \cup ({} \ {})
    BY <2>1, <2>2
  <2> QED BY <2>1, <2>2, <2>3
<1>8. CASE Failing(b)
  <2> DEFINE G == ToSet(Part(b).items)
  <2>1. Shape' /\ WorkOK' /\ Apart' /\ G \subseteq Pending /\ Pending' = Pending \ G
    BY <1>1, <1>8, PartDone, JobGoesOn DEF Failing
  <2>2. PICK why : why # Unexplained /\ diagnosis' = [v \in Valid |-> IF v \in G THEN why ELSE diagnosis[v]]
    BY <1>8 DEF Failing, Explain
  <2> HIDE DEF G
  <2>3. UNCHANGED <<results, short>>
    BY <1>8 DEF Failing
  <2>4. Placed' /\ Embedded' = Embedded
    BY <1>1, <1>2, <1>3, <2>3 DEF Placed, Embedded, Lost
  <2>5. Failed' = Failed \cup G
    <3>1. Failed' = {v \in Valid : diagnosis'[v] # Unexplained} \cup short
      BY <1>3, <2>3 DEF Failed, Unexplained
    <3>2. \A v \in Valid : diagnosis'[v] # Unexplained <=> v \in G \/ diagnosis[v] # Unexplained
      BY <2>2
    <3> QED BY <1>1, <2>1, <3>1, <3>2 DEF Failed
  <2>6. Embedded' = Embedded \cup {} /\ Failed' = Failed \cup (G \ {})
    BY <2>4, <2>5
  <2> QED BY <2>1, <2>4, <2>6
<1>9. CASE Answered(b)
  <2> DEFINE items == Part(b).items
             G == ToSet(items)
  <2>0. jobs[b].at # "done" /\ NextPart(b, Tail(jobs[b].work)) /\ UNCHANGED diagnosis
    BY <1>9 DEF Answered, At
  <2>1. /\ Shape' /\ WorkOK' /\ Apart' /\ Part(b) \in PartSet
        /\ G \subseteq Pending /\ Pending' = Pending \ G
    BY <1>1, <2>0, PartDone, JobGoesOn
  <2>2. PICK n \in 0..Len(items) :
          LET given == ToSet(SubSeq(items, 1, n)) IN
          /\ results' = [v \in Valid |-> IF v \in given THEN Cleaned[lengths][v] ELSE results[v]]
          /\ short' = short \cup (G \ given)
    BY <1>9 DEF Answered
  <2> DEFINE E == ToSet(SubSeq(items, 1, n))
  <2>3. E \subseteq G
    BY <2>1, <2>2, GivenFacts
  <2>4. /\ results' = [v \in Valid |-> IF v \in E THEN Cleaned[lengths][v] ELSE results[v]]
        /\ short' = short \cup (G \ E)
    BY <2>2
  <2> HIDE DEF items, G, E
  <2>5. \A v \in Valid : Cleaned[lengths][v] \in Nat /\ Cleaned[lengths][v] # None
    BY <1>1 DEF Partitioned, Valid, None
  <2>6. Placed'
    BY <1>1, <1>2, <1>3, <2>4, <2>5 DEF Placed
  <2>7. Embedded' = Embedded \cup E
    BY <1>1, <1>3, <2>1, <2>3, <2>4, <2>5 DEF Embedded, Lost, None
  <2>8. Failed' = Failed \cup (G \ E)
    BY <1>3, <2>0, <2>4 DEF Failed, Unexplained
  <2> QED BY <2>1, <2>3, <2>6, <2>7, <2>8
<1> QED BY <1>7, <1>8, <1>9

\* The texts in the order they came: what Return makes of the results.
LEMMA ReturnsRight ==
  ASSUME IInv, Return
  PROVE  RightVector'
<1>1. /\ lengths \in Inputs /\ Partitioned(lengths)
      /\ \A v \in Valid : results[v] \in {None, Cleaned[lengths][v]}
      /\ UNCHANGED <<lengths, results>>
  BY InputsPartitioned DEF IInv, Placed, Return
<1>2. /\ \A v \in Valid : Cleaned[lengths][v] \in 1..Len(lengths)
      /\ \A v, w \in Valid : Cleaned[lengths][v] = Cleaned[lengths][w] => v = w
      /\ \A i \in 1..Len(lengths) : lengths[i] > 0 <=> \E v \in Valid : Cleaned[lengths][v] = i
  BY <1>1 DEF Partitioned, Valid
<1>3. \A i \in 1..Len(lengths) : lengths[i] \in Nat /\ i # None
  BY <1>1, EmbedAssumption DEF None
<1>4. /\ output' = [i \in 1..Len(lengths) |->
            IF \E v \in Valid : Cleaned[lengths][v] = i
            THEN results[CHOOSE v \in Valid : Cleaned[lengths][v] = i] ELSE None]
      /\ reported' = {Cleaned[lengths][v] : v \in Lost}
  BY DEF Return
<1>5. ASSUME NEW i \in 1..Len(lengths)
      PROVE  /\ output'[i] \in {None, i}
             /\ output'[i] = None <=> lengths[i] = 0 \/ i \in reported'
  <2>1. CASE \E v \in Valid : Cleaned[lengths][v] = i
    <3>1. PICK v \in Valid : Cleaned[lengths][v] = i
      BY <2>1
    <3>2. (CHOOSE w \in Valid : Cleaned[lengths][w] = i) = v
      BY <1>2, <3>1
    <3>3. output'[i] = results[v]
      BY <1>4, <3>1, <3>2
    <3>4. i \in reported' <=> results[v] = None
      BY <1>2, <1>4, <3>1 DEF Lost
    <3>5. lengths[i] # 0
      BY <1>2, <1>3, <3>1
    <3> QED BY <1>1, <3>1, <3>3, <3>4, <3>5
  <2>2. CASE ~\E v \in Valid : Cleaned[lengths][v] = i
    <3>1. output'[i] = None
      BY <1>4, <2>2
    <3>2. lengths[i] = 0
      BY <1>2, <1>3, <2>2
    <3> QED BY <3>1, <3>2
  <2> QED BY <2>1, <2>2
<1> QED BY <1>1, <1>5 DEF RightVector

LEMMA StartsRight ==
  ASSUME Init
  PROVE  IInv /\ Call!Init
<1> DEFINE batches == Batches[lengths]
<1>1. /\ lengths \in Inputs /\ Partitioned(lengths)
      /\ jobs = [b \in 1..Len(batches) |-> Job(batches[b])]
  BY InputsPartitioned DEF Init
<1>2. /\ batches \in Seq(Seq(1..Len(Cleaned[lengths])))
      /\ \A v \in Valid : \E b \in 1..Len(batches) : \E i \in 1..Len(batches[b]) : batches[b][i] = v
      /\ \A b, c \in 1..Len(batches) : \A i \in 1..Len(batches[b]), j \in 1..Len(batches[c]) :
           batches[b][i] = batches[c][j] => b = c /\ i = j
  BY <1>1 DEF Partitioned, Valid
<1> HIDE DEF batches
<1>3. ASSUME NEW b \in 1..Len(batches)
      PROVE  /\ batches[b] \in Seq(Nat)
             /\ \A i \in 1..Len(batches[b]) : batches[b][i] \in Valid
             /\ jobs[b].at = "queued"
             /\ jobs[b].work = <<[items |-> batches[b], depth |-> 0]>>
             /\ jobs[b].work \in Seq(PartSet) /\ jobs[b].work # <<>> /\ Len(jobs[b].work) = 1
             /\ jobs[b].work[1].items = batches[b]
             /\ Distinct(jobs[b].work)
             /\ \A v : v \in Texts(jobs[b].work) <=> \E i \in 1..Len(batches[b]) : batches[b][i] = v
  <2>1. batches[b] \in Seq(1..Len(Cleaned[lengths]))
    BY <1>2
  <2>2. \A i \in 1..Len(batches[b]) : batches[b][i] \in Valid
    BY <2>1 DEF Valid
  <2>3. 1..Len(Cleaned[lengths]) \subseteq Nat
    OBVIOUS
  <2>4. batches[b] \in Seq(Nat)
    BY <2>1, <2>3, SeqMonotonic
  <2>5. jobs[b].at = "queued" /\ jobs[b].work = <<[items |-> batches[b], depth |-> 0]>>
    BY <1>1 DEF Job
  <2>6. [items |-> batches[b], depth |-> 0] \in PartSet
    BY <2>4 DEF PartSet
  <2>7. /\ jobs[b].work \in Seq(PartSet) /\ jobs[b].work # <<>> /\ Len(jobs[b].work) = 1
        /\ jobs[b].work[1].items = batches[b]
    BY <2>5, <2>6
  <2>8. \A i, j \in 1..Len(batches[b]) : batches[b][i] = batches[b][j] => i = j
    BY <1>2
  <2>9. Distinct(jobs[b].work)
    BY <2>7, <2>8 DEF Distinct
  <2>10. \A v : v \in Texts(jobs[b].work) <=> \E i \in 1..Len(batches[b]) : batches[b][i] = v
    BY <2>7, TextsFacts
  <2> QED BY <2>2, <2>4, <2>5, <2>7, <2>9, <2>10
<1>4. DOMAIN jobs = 1..Len(batches)
  BY <1>1
<1>5. Shape
  BY <1>1 DEF Shape, Job
<1>6. WorkOK
  BY <1>3, <1>4 DEF WorkOK
<1>15. ASSUME NEW b \in DOMAIN jobs, NEW v \in Texts(jobs[b].work)
      PROVE  b \in 1..Len(batches) /\ \E i \in 1..Len(batches[b]) : batches[b][i] = v
  <2>1. b \in 1..Len(batches)
    BY <1>4
  <2> QED BY <1>3, <1>15, <2>1
<1>7. Apart
  <2>1. SUFFICES ASSUME NEW b \in DOMAIN jobs, NEW c \in DOMAIN jobs, b # c,
                        NEW v \in Texts(jobs[b].work), v \in Texts(jobs[c].work)
                 PROVE  FALSE
    BY DEF Apart
  <2>2. b \in 1..Len(batches) /\ \E i \in 1..Len(batches[b]) : batches[b][i] = v
    BY <1>15
  <2>3. c \in 1..Len(batches) /\ \E j \in 1..Len(batches[c]) : batches[c][j] = v
    BY <1>15, <2>1
  <2>4. PICK i \in 1..Len(batches[b]) : batches[b][i] = v
    BY <2>2
  <2>5. PICK j \in 1..Len(batches[c]) : batches[c][j] = v
    BY <2>3
  <2>6. \A x \in 1..Len(batches[b]), y \in 1..Len(batches[c]) :
          batches[b][x] = batches[c][y] => b = c /\ x = y
    BY <1>2, <2>2, <2>3
  <2> QED BY <2>1, <2>4, <2>5, <2>6
<1>8. Pending = Valid
  <2>1. ASSUME NEW v \in Pending PROVE v \in Valid
    <3>1. PICK b \in DOMAIN jobs : v \in Texts(jobs[b].work)
      BY <2>1 DEF Pending
    <3>2. b \in 1..Len(batches) /\ \E i \in 1..Len(batches[b]) : batches[b][i] = v
      BY <1>15, <3>1
    <3>3. \A i \in 1..Len(batches[b]) : batches[b][i] \in Valid
      BY <1>3, <3>2
    <3> QED BY <3>2, <3>3
  <2>2. ASSUME NEW v \in Valid PROVE v \in Pending
    <3>1. PICK b \in 1..Len(batches) : \E i \in 1..Len(batches[b]) : batches[b][i] = v
      BY <1>2
    <3>2. v \in Texts(jobs[b].work)
      BY <1>3, <3>1
    <3> QED BY <1>4, <3>2 DEF Pending
  <2> QED BY <2>1, <2>2
<1>9. Embedded = {} /\ Failed = {}
  BY DEF Init, Embedded, Failed, Lost, Unexplained
<1>10. SettledOnce
  BY <1>8, <1>9 DEF SettledOnce
<1>11. Placed
  BY <1>1 DEF Init, Placed, None
<1>12. RightVector /\ call = "running"
  BY DEF Init, RightVector
<1>13. Valid \subseteq Nat
  BY DEF Valid
<1>14. Call!Init
  BY <1>8, <1>9, <1>12, <1>13, CallPending DEF Call!Init, Embedded, Failed
<1> QED BY <1>5, <1>6, <1>7, <1>10, <1>11, <1>12, <1>14 DEF IInv

LEMMA StepsAreCalls ==
  ASSUME IInv, [Next]_vars
  PROVE  IInv' /\ [Call!Next]_(Call!vars)
<1>1. ASSUME NEW b \in DOMAIN jobs, Step(b), ~Malformed(b)
      PROVE  IInv' /\ Call!Next
  BY <1>1, StepKinds, Settles DEF Call!Next
<1>2. ASSUME UNCHANGED <<lengths, jobs, results, diagnosis, short>>, UNCHANGED <<output, reported>>,
             call' = call \/ call' = "raised"
      PROVE  IInv'
  <2>1. Valid' = Valid /\ Cleaned[lengths]' = Cleaned[lengths]
    BY <1>2, SameTexts
  <2>2. Pending' = Pending /\ Embedded' = Embedded /\ Failed' = Failed
    BY <1>2, <2>1 DEF Pending, Embedded, Failed, Lost
  <2>3. Shape' /\ WorkOK' /\ Apart' /\ Placed'
    BY <1>2, <2>1 DEF IInv, Shape, WorkOK, Apart, Placed
  <2>4. SettledOnce'
    BY <2>1, <2>2 DEF IInv, SettledOnce
  <2>5. RightVector'
    BY <1>2 DEF IInv, RightVector
  <2> QED BY <2>3, <2>4, <2>5 DEF IInv
<1>3. ASSUME UNCHANGED <<lengths, jobs, results, diagnosis, short>>
      PROVE  UNCHANGED <<Pending, Embedded, Failed>>
  BY <1>3, SameTexts DEF Pending, Embedded, Failed, Lost
<1>4. ASSUME UNCHANGED <<Pending, Embedded, Failed>>
      PROVE  UNCHANGED <<UNION {ToSet(p.items) : p \in UNION {ToSet(jobs[b].work) : b \in DOMAIN jobs}},
                         Valid \ Lost, {v \in Valid : diagnosis[v] # Unexplained} \cup short>>
  <2>1. (UNION {ToSet(p.items) : p \in UNION {ToSet(jobs[b].work) : b \in DOMAIN jobs}})' = Pending'
    BY DEF Pending, Texts
  <2>2. UNCHANGED UNION {ToSet(p.items) : p \in UNION {ToSet(jobs[b].work) : b \in DOMAIN jobs}}
    BY <1>4, <2>1, CallPending
  <2>3. UNCHANGED (Valid \ Lost) /\ UNCHANGED ({v \in Valid : diagnosis[v] # Unexplained} \cup short)
    BY <1>4 DEF Embedded, Failed
  <2> QED BY <2>2, <2>3
<1>5. ASSUME NEW b \in DOMAIN jobs, Malformed(b)
      PROVE  IInv' /\ Call!Next
  <2>1. IInv' /\ UNCHANGED <<Pending, Embedded, Failed>> /\ call = "running" /\ call' = "raised"
    BY <1>2, <1>3, <1>5 DEF Malformed, At
  <2> QED BY <1>4, <2>1 DEF Call!Next, Call!Raise
<1>6. ASSUME Return
      PROVE  IInv' /\ Call!Next
  <2>1. UNCHANGED <<lengths, jobs, results, diagnosis, short>> /\ call = "running" /\ call' = "returned"
    BY <1>6 DEF Return
  <2>2. Valid' = Valid /\ Cleaned[lengths]' = Cleaned[lengths]
    BY <2>1, SameTexts
  <2>3. UNCHANGED <<Pending, Embedded, Failed>>
    BY <1>3, <2>1
  <2>4. Shape' /\ WorkOK' /\ Apart' /\ Placed' /\ SettledOnce'
    BY <2>1, <2>2, <2>3 DEF IInv, Shape, WorkOK, Apart, Placed, SettledOnce
  <2>5. RightVector'
    BY <1>6, ReturnsRight
  <2>6. Pending = {}
    BY <1>6, TextsFacts DEF IInv, WorkOK, Return, Pending
  <2> QED BY <1>4, <2>1, <2>3, <2>4, <2>5, <2>6, CallPending DEF IInv, Call!Next, Call!Return
<1>7. ASSUME DeadlinePasses \/ Cancel \/ UNCHANGED vars
      PROVE  IInv' /\ UNCHANGED Call!vars
  <2>1. UNCHANGED <<lengths, jobs, results, diagnosis, short>> /\ UNCHANGED <<output, reported>> /\ call' = call
    BY <1>7 DEF DeadlinePasses, Cancel, vars, callVars
  <2> QED BY <1>2, <1>3, <1>4, <2>1 DEF Call!vars
<1> QED BY <1>1, <1>5, <1>6, <1>7 DEF Next

LEMMA Invariance == Spec => []IInv
<1>1. Init => IInv
  BY StartsRight
<1>2. IInv /\ [Next]_vars => IInv'
  BY StepsAreCalls
<1> QED BY <1>1, <1>2, PTL DEF Spec

\* However the texts were filtered, sorted, sliced, halved and retried, a vector that is returned
\* stands at the place of its text, and a text without one is blank or reported (RightVector).
THEOREM VectorsAreRight == Spec => []RightVector
<1>1. IInv => RightVector
  BY DEF IInv
<1> QED BY <1>1, Invariance, PTL

\* The call keeps what EmbedCall promises, without its fairness: each text is settled once, and the
\* call returns when none is left.
THEOREM CallImplemented == Spec => Call!Init /\ [][Call!Next]_(Call!vars)
<1>1. Init => Call!Init
  BY StartsRight
<1>2. IInv /\ [Next]_vars => [Call!Next]_(Call!vars)
  BY StepsAreCalls
<1> QED BY <1>1, <1>2, Invariance, PTL DEF Spec

----------------------------------------------------------------------------
(* Halving isolates what is toxic. *)

Lucky == ~unlucky /\ ~Stop

\* A part that is still to be done comes from this batch: each halving left half of its texts, and
\* was because of a toxic one.
PartOK(p, batch, bad) ==
  /\ ToSet(p.items) \subseteq ToSet(batch)
  /\ (Len(p.items) - 1) * 2^p.depth <= Len(batch) - 1
  /\ p.depth > 0 => 2^(p.depth - 1) < Len(batch) /\ ToSet(batch) \cap bad # {}

PartsOK == \A b \in DOMAIN jobs : \A p \in ToSet(jobs[b].work) : PartOK(p, Batches[lengths][b], toxic)

\* Why a text may fail.
Explained(v) ==
  \/ v \in toxic
  \/ \E b \in 1..Len(Batches[lengths]) : \E w \in toxic :
       LET batch == Batches[lengths][b] IN
       {v, w} \subseteq ToSet(batch) /\ Len(batch) > 2^(MaxDepth - 1)

FailedOK == \A v \in Valid : diagnosis[v] # Unexplained => Explained(v)

ToxicInv ==
  /\ DOMAIN jobs = 1..Len(Batches[lengths])
  /\ toxic \subseteq Valid /\ \A v \in toxic : results[v] = None
  /\ Lucky => PartsOK /\ FailedOK /\ short = {}
  /\ OnlyToxicFails

\* The parts of a list without its head, and with the halves of its head.
LEMMA PartsOfTail ==
  ASSUME NEW work \in Seq(PartSet), work # <<>>
  PROVE  Head(work) \in ToSet(work) /\ ToSet(Tail(work)) \subseteq ToSet(work)
<1>1. Head(work) = work[1] /\ Len(work) \in Nat /\ Len(work) >= 1
  BY HeadTailProperties
<1>2. /\ Tail(work) \in Seq(PartSet)
      /\ Len(Tail(work)) = Len(work) - 1
      /\ \A i \in 1..Len(Tail(work)) : Tail(work)[i] = work[i + 1]
  BY HeadTailProperties
<1>3. ToSet(work) = {work[i] : i \in 1..Len(work)} /\ ToSet(Tail(work)) = {Tail(work)[i] : i \in 1..Len(Tail(work))}
  BY <1>2, ToSetFacts
<1>4. \A i \in 1..Len(Tail(work)) : i + 1 \in 1..Len(work)
  BY <1>1, <1>2
<1> QED BY <1>1, <1>2, <1>3, <1>4

LEMMA TwoAhead ==
  ASSUME NEW S, NEW h \in Seq(S), Len(h) = 2, NEW rest \in Seq(S)
  PROVE  \A q \in ToSet(h \o rest) : q \in ToSet(rest) \/ q = h[1] \/ q = h[2]
<1> DEFINE s == h \o rest
<1>1. /\ s \in Seq(S) /\ Len(s) = 2 + Len(rest) /\ Len(rest) \in Nat
      /\ \A i \in 1..(2 + Len(rest)) : s[i] = IF i <= 2 THEN h[i] ELSE rest[i - 2]
  <2>1. Len(rest) \in Nat /\ Len(h) + Len(rest) = 2 + Len(rest)
    OBVIOUS
  <2>2. /\ s \in Seq(S) /\ Len(s) = Len(h) + Len(rest)
        /\ \A i \in 1..(Len(h) + Len(rest)) : s[i] = IF i <= Len(h) THEN h[i] ELSE rest[i - Len(h)]
    BY ConcatProperties
  <2> QED BY <2>1, <2>2
<1> HIDE DEF s
<1>2. ToSet(s) = {s[i] : i \in 1..(2 + Len(rest))} /\ ToSet(rest) = {rest[i] : i \in 1..Len(rest)}
  BY <1>1, ToSetFacts
<1>3. ASSUME NEW i \in 1..(2 + Len(rest))
      PROVE  s[i] \in ToSet(rest) \/ s[i] = h[1] \/ s[i] = h[2]
  <2>1. CASE i <= 2
    BY <1>1, <2>1
  <2>2. CASE ~(i <= 2)
    <3>1. i - 2 \in 1..Len(rest) /\ s[i] = rest[i - 2]
      BY <1>1, <2>2
    <3> QED BY <1>2, <3>1
  <2> QED BY <2>1, <2>2
<1>4. \A q \in ToSet(s) : q \in ToSet(rest) \/ q = h[1] \/ q = h[2]
  BY <1>2, <1>3
<1> QED BY <1>4 DEF s

LEMMA PartsOfHalves ==
  ASSUME NEW p \in PartSet, Len(p.items) > 1, NEW rest \in Seq(PartSet)
  PROVE  \A q \in ToSet(Halves(p) \o rest) : q \in ToSet(rest) \/ q = Halves(p)[1] \/ q = Halves(p)[2]
<1>1. p.items \in Seq(Nat) /\ p.depth + 1 \in Nat
  BY PartFacts
<1>2. /\ SubSeq(p.items, 1, Len(p.items) \div 2) \in Seq(Nat)
      /\ SubSeq(p.items, Len(p.items) \div 2 + 1, Len(p.items)) \in Seq(Nat)
  BY <1>1, ListHalves
<1>3. Halves(p) \in Seq(PartSet) /\ Len(Halves(p)) = 2
  BY <1>1, <1>2 DEF Halves, PartSet
<1> QED BY <1>3, TwoAhead

\* The halves of a part with a toxic text.
LEMMA HalvesOK ==
  ASSUME NEW p \in PartSet, Len(p.items) > 1, NEW batch \in Seq(Nat), NEW bad, PartOK(p, batch, bad),
         ToSet(p.items) \cap bad # {}
  PROVE  PartOK(Halves(p)[1], batch, bad) /\ PartOK(Halves(p)[2], batch, bad)
<1> DEFINE n == Len(p.items)
           mid == n \div 2
           d == p.depth
           left == SubSeq(p.items, 1, mid)
           right == SubSeq(p.items, mid + 1, n)
<1>1. p.items \in Seq(Nat) /\ d \in Nat /\ n \in Nat /\ n > 1
  BY PartFacts
<1>2. /\ mid \in Nat /\ 1 <= mid /\ mid < n
      /\ left \in Seq(Nat) /\ Len(left) = mid /\ \A i \in 1..mid : left[i] = p.items[i]
      /\ right \in Seq(Nat) /\ Len(right) = n - mid /\ \A i \in 1..(n - mid) : right[i] = p.items[mid + i]
  BY <1>1, ListHalves
<1>3. /\ Halves(p)[1] = [items |-> left, depth |-> d + 1]
      /\ Halves(p)[2] = [items |-> right, depth |-> d + 1]
  BY DEF Halves
<1>4. 2 * (mid - 1) <= n - 1 /\ 2 * (n - mid - 1) <= n - 1
  <2> HIDE DEF n
  <2> QED BY <1>1
<1> HIDE DEF mid, left, right, n, d
<1>5. ToSet(left) \subseteq ToSet(p.items) /\ ToSet(right) \subseteq ToSet(p.items)
  <2>1. /\ ToSet(p.items) = {p.items[i] : i \in 1..n}
        /\ ToSet(left) = {left[i] : i \in 1..mid} /\ ToSet(right) = {right[i] : i \in 1..(n - mid)}
    <3>1. ToSet(p.items) = {p.items[i] : i \in 1..n}
      BY <1>1, ToSetFacts DEF n
    <3>2. ToSet(left) = {left[i] : i \in 1..mid}
      <4>1. left \in Seq(Nat) /\ Len(left) = mid
        BY <1>2
      <4> QED BY <4>1, ToSetFacts
    <3>3. ToSet(right) = {right[i] : i \in 1..(n - mid)}
      <4>1. right \in Seq(Nat) /\ Len(right) = n - mid
        BY <1>2
      <4> QED BY <4>1, ToSetFacts
    <3> QED BY <3>1, <3>2, <3>3
  <2>2. \A i \in 1..mid : i \in 1..n
    BY <1>1, <1>2
  <2>3. \A i \in 1..(n - mid) : mid + i \in 1..n
    BY <1>1, <1>2
  <2>4. ToSet(left) \subseteq ToSet(p.items)
    <3>1. \A i \in 1..mid : left[i] = p.items[i]
      BY <1>2
    <3> QED BY <2>1, <2>2, <3>1
  <2>5. ToSet(right) \subseteq ToSet(p.items)
    <3>1. \A i \in 1..(n - mid) : right[i] = p.items[mid + i]
      BY <1>2
    <3> QED BY <2>1, <2>3, <3>1
  <2> QED BY <2>4, <2>5
<1> DEFINE w == 2^d
           m == Len(batch)
<1>6. w \in Nat /\ 2^(d + 1) = 2 * w /\ m \in Nat
  BY <1>1, PowersDouble
<1>7. ToSet(p.items) \subseteq ToSet(batch) /\ (n - 1) * w <= m - 1
  BY DEF PartOK, n, d
<1> HIDE DEF w, m
<1>8. ASSUME NEW k \in Int, 2 * k <= n - 1
      PROVE  k * (2 * w) <= m - 1
  <2>1. (2 * k) * w <= (n - 1) * w /\ (2 * k) * w \in Int /\ (n - 1) * w \in Int
    <3>1. 2 * k \in Int /\ n - 1 \in Int
      BY <1>1
    <3> QED BY <1>6, <1>8, <3>1, Product
  <2>2. k * (2 * w) = (2 * k) * w
    BY <1>6
  <2> QED BY <1>6, <1>7, <2>1, <2>2
<1>9. w < m
  <2>1. 1 * w <= (n - 1) * w /\ 1 * w = w /\ (n - 1) * w \in Int
    <3>1. 1 <= n - 1 /\ n - 1 \in Int
      BY <1>1
    <3> QED BY <1>6, <3>1, Product
  <2> QED BY <1>6, <1>7, <2>1
<1>10. /\ (mid - 1) * (2 * w) <= m - 1
       /\ (n - mid - 1) * (2 * w) <= m - 1
  <2>1. mid - 1 \in Int /\ n - mid - 1 \in Int
    BY <1>1, <1>2
  <2> QED BY <1>4, <1>8, <2>1
<1>11. ToSet(batch) \cap bad # {}
  BY <1>7
<1>12. d + 1 > 0 /\ d + 1 - 1 = d
  BY <1>1
<1>13. ASSUME NEW half, half = [items |-> left, depth |-> d + 1] \/ half = [items |-> right, depth |-> d + 1]
       PROVE  PartOK(half, batch, bad)
  <2>1. /\ half.depth = d + 1
        /\ ToSet(half.items) \subseteq ToSet(batch)
        /\ (Len(half.items) - 1) * (2 * w) <= m - 1
    BY <1>2, <1>5, <1>7, <1>10, <1>13
  <2>2. 2^(half.depth - 1) = w /\ 2^half.depth = 2 * w
    <3>1. half.depth - 1 = d /\ half.depth = d + 1
      BY <1>1, <2>1
    <3>2. 2^(half.depth - 1) = 2^d /\ 2^half.depth = 2^(d + 1)
      BY <3>1
    <3> QED BY <1>6, <3>2 DEF w
  <2> QED BY <1>9, <1>11, <2>1, <2>2 DEF PartOK, m
<1> QED BY <1>3, <1>13

\* While the call is lucky, a part is given up for its depth, or is a single toxic text; only a part
\* with a toxic text is halved; and an answer leaves no text out.
LEMMA LuckySteps ==
  ASSUME IInv, NEW b \in DOMAIN jobs, Step(b), Lucky'
  PROVE  /\ Lucky
         /\ \/ Moving
            \/ Failing(b) /\ Part(b).depth >= MaxDepth
            \/ Failing(b) /\ Poisoned(b) /\ Len(Part(b).items) <= 1
            \/ Halving(b) /\ Poisoned(b)
            \/ Answered(b) /\ UNCHANGED short
<1>0. Shape
  BY DEF IInv
<1>1. ASSUME Acquire(b) PROVE Lucky /\ Moving
  BY <1>0, <1>1, StepMoves DEF Acquire, At, Others, callVars, Lucky, Stop
<1>2. ASSUME Enter(b) PROVE Lucky /\ (Moving \/ (Failing(b) /\ Part(b).depth >= MaxDepth))
  <2>1. Lucky
    BY <1>2 DEF Enter, Lucky, Stop
  <2>2. CASE Part(b).depth >= MaxDepth
    <3>1. "subdivide_exhausted" # Unexplained
      BY DEF Unexplained
    <3>2. diagnosis' = Explain(Part(b).items, "subdivide_exhausted") /\ NextPart(b, Tail(jobs[b].work))
      BY <1>2, <2>1, <2>2 DEF Enter, Lucky
    <3> QED BY <1>2, <2>1, <2>2, <3>1, <3>2 DEF Enter, At, Failing, Others, callVars
  <2>3. CASE ~(Part(b).depth >= MaxDepth)
    BY <1>0, <1>2, <2>1, <2>3, StepMoves DEF Enter, At, Others, callVars, Lucky
  <2> QED BY <2>1, <2>2, <2>3
<1>3. ASSUME Try(b) PROVE Lucky /\ Moving
  <2>1. Lucky
    BY <1>3 DEF Try, Lucky, Stop
  <2> QED BY <1>0, <1>3, <2>1, StepMoves DEF Try, At, Others, callVars, Lucky
<1>4. ASSUME Refused(b)
      PROVE  /\ Lucky /\ Poisoned(b)
             /\ (Failing(b) /\ Len(Part(b).items) <= 1) \/ Halving(b)
  <2>1. PICK why \in {"http_4xx", "timeout"} : BatchFails(b, why)
    BY <1>4 DEF Refused
  <2>2. why # Unexplained
    BY DEF Unexplained
  <2>3. jobs[b].at # "done" /\ UNCHANGED <<results, short>> /\ Others
    BY <1>4 DEF Refused, At, Others, callVars
  <2>4. Lucky /\ Poisoned(b)
    BY <1>4 DEF Refused, Lucky, Stop
  <2> QED BY <2>1, <2>2, <2>3, <2>4, StepFails
<1>5. ASSUME ServerError(b)
      PROVE  /\ Lucky
             /\ \/ Moving
                \/ Poisoned(b) /\ ((Failing(b) /\ Len(Part(b).items) <= 1) \/ Halving(b))
  <2>1. jobs[b].at = "sent" /\ UNCHANGED <<results, short>> /\ Others
    BY <1>5 DEF ServerError, At, Others, callVars
  <2>2. Lucky /\ Poisoned(b)
    BY <1>5 DEF ServerError, Lucky, Stop
  <2>3. CASE jobs[b].server = 0
    <3>1. jobs' = [jobs EXCEPT ![b].at = "try", ![b].server = 1] /\ UNCHANGED diagnosis
      BY <1>5, <2>3 DEF ServerError
    <3> QED BY <1>0, <2>1, <2>2, <3>1, StepRetries
  <2>4. CASE jobs[b].server # 0
    <3>1. BatchFails(b, "http_500") /\ "http_500" # Unexplained
      BY <1>5, <2>4 DEF ServerError, Unexplained
    <3> QED BY <2>1, <2>2, <3>1, StepFails
  <2> QED BY <2>3, <2>4
<1>6. ~ConnectionLost(b) /\ ~Malformed(b)
  BY DEF ConnectionLost, Malformed, Lucky
<1>7. ASSUME BackOff(b) PROVE Lucky /\ Moving
  <2>1. Lucky
    BY <1>7 DEF BackOff, Lucky, Stop
  <2> QED BY <1>0, <1>7, <2>1, StepMoves DEF BackOff, At, Others, callVars, Lucky
<1>8. ASSUME Answered(b) PROVE Lucky /\ UNCHANGED short
  <2>1. Lucky
    BY <1>8 DEF Answered, Lucky, Stop
  <2>2. jobs[b].at # "done" /\ jobs[b].work \in Seq(PartSet) /\ jobs[b].work # <<>>
    BY <1>8 DEF Answered, At, IInv, WorkOK
  <2>3. Part(b) \in PartSet
    BY <2>2, HeadTailProperties DEF Part
  <2> DEFINE items == Part(b).items
             given(n) == ToSet(SubSeq(items, 1, n))
  <2>4. \E n \in 0..Len(items) :
          short' = short \cup (ToSet(items) \ given(n)) /\ ~(n < Len(items))
    BY <1>8 DEF Answered, Lucky
  <2>5. Len(items) \in Nat /\ given(Len(items)) = ToSet(items)
    BY <2>3, PartFacts, GivenFacts
  <2> HIDE DEF items, given
  <2> QED BY <2>1, <2>4, <2>5
<1> QED BY <1>1, <1>2, <1>3, <1>4, <1>5, <1>6, <1>7, <1>8 DEF Step

LEMMA SameCall ==
  ASSUME [Next]_vars
  PROVE  /\ lengths' = lengths /\ toxic' = toxic
         /\ Valid' = Valid /\ Batches[lengths]' = Batches[lengths]
<1>1. \A b \in DOMAIN jobs : Step(b) => lengths' = lengths /\ toxic' = toxic
  BY DEF Step, Acquire, Enter, Try, Answered, Refused, ServerError, ConnectionLost, Malformed, BackOff
<1>2. Return \/ DeadlinePasses \/ Cancel \/ UNCHANGED vars => lengths' = lengths /\ toxic' = toxic
  BY DEF Return, DeadlinePasses, Cancel, vars
<1>3. lengths' = lengths /\ toxic' = toxic
  BY <1>1, <1>2 DEF Next
<1> QED BY <1>3 DEF Valid

\* What holds of a batch's parts after its list of parts has changed.
LEMMA PartsGoOn ==
  ASSUME PartsOK, NEW b \in DOMAIN jobs, NEW work, NextPart(b, work),
         toxic' = toxic, Batches[lengths]' = Batches[lengths],
         \A p \in ToSet(work) : PartOK(p, Batches[lengths][b], toxic)
  PROVE  PartsOK'
<1>1. /\ DOMAIN jobs' = DOMAIN jobs
      /\ jobs'[b].work = work
      /\ \A c \in DOMAIN jobs : c # b => jobs'[c] = jobs[c]
  BY DEF NextPart
<1>2. ASSUME NEW c \in DOMAIN jobs, NEW p \in ToSet(jobs'[c].work)
      PROVE  PartOK(p, Batches[lengths][c], toxic)
  <2>1. CASE c = b
    BY <1>1, <1>2, <2>1
  <2>2. CASE c # b
    BY <1>1, <1>2, <2>2 DEF PartsOK
  <2> QED BY <2>1, <2>2
<1> QED BY <1>1, <1>2 DEF PartsOK

\* A text fails for its part's depth, or alone.
LEMMA FailsExplained ==
  ASSUME IInv, PartsOK, MaxDepth > 0, DOMAIN jobs = 1..Len(Batches[lengths]),
         NEW b \in DOMAIN jobs, jobs[b].at # "done",
         Part(b).depth >= MaxDepth \/ (Poisoned(b) /\ Len(Part(b).items) <= 1),
         NEW v \in ToSet(Part(b).items)
  PROVE  Explained(v)
<1> DEFINE batch == Batches[lengths][b]
           p == Part(b)
<1>1. jobs[b].work \in Seq(PartSet) /\ jobs[b].work # <<>>
  BY DEF IInv, WorkOK
<1>2. p \in PartSet /\ p \in ToSet(jobs[b].work)
  BY <1>1, PartsOfTail, HeadTailProperties DEF Part
<1>3. PartOK(p, batch, toxic) /\ b \in 1..Len(Batches[lengths])
  BY <1>2 DEF PartsOK
<1>4. p.depth \in Nat /\ p.items \in Seq(Nat) /\ Len(p.items) \in Nat
  BY <1>2, PartFacts
<1>5. CASE p.depth >= MaxDepth
  <2> DEFINE d == p.depth
             m == Len(batch)
  <2>1. d \in Nat /\ MaxDepth - 1 \in Nat /\ d - 1 \in Nat /\ MaxDepth - 1 <= d - 1
    <3> HIDE DEF p
    <3> QED BY <1>4, <1>5, EmbedAssumption
  <2>2. 2^(MaxDepth - 1) \in Nat /\ 2^(d - 1) \in Nat /\ 2^(MaxDepth - 1) <= 2^(d - 1)
    <3> HIDE DEF d
    <3> QED BY <2>1, PowersGrow
  <2>3. 2^(d - 1) < m /\ ToSet(batch) \cap toxic # {} /\ ToSet(p.items) \subseteq ToSet(batch)
    BY <1>3, <2>1 DEF PartOK
  <2>4. m \in Nat
    <3>1. Batches[lengths] \in Seq(Seq(1..Len(Cleaned[lengths])))
      BY InputsPartitioned DEF IInv, Placed, Partitioned
    <3> QED BY <1>3, <3>1
  <2> DEFINE x == 2^(MaxDepth - 1)
             y == 2^(d - 1)
  <2>5. x \in Nat /\ y \in Nat /\ x <= y /\ y < m
    BY <2>2, <2>3
  <2> HIDE DEF x, y, m, d
  <2>6. m > x
    BY <2>4, <2>5
  <2>7. PICK w \in toxic : w \in ToSet(batch)
    BY <2>3
  <2>8. {v, w} \subseteq ToSet(batch) /\ Len(batch) > 2^(MaxDepth - 1)
    BY <2>3, <2>6, <2>7 DEF x, m
  <2> QED BY <1>3, <2>7, <2>8 DEF Explained
<1>6. CASE Poisoned(b) /\ Len(p.items) <= 1
  <2>1. ToSet(p.items) = {p.items[i] : i \in 1..Len(p.items)}
    BY <1>4, ToSetFacts
  <2>2. PICK w \in toxic : w \in ToSet(p.items)
    BY <1>6 DEF Poisoned
  <2> HIDE DEF p
  <2>3. v \in ToSet(p.items)
    BY DEF p
  <2>4. PICK i \in 1..Len(p.items) : p.items[i] = v
    BY <2>1, <2>3
  <2>5. PICK j \in 1..Len(p.items) : p.items[j] = w
    BY <2>1, <2>2
  <2>6. i = j
    BY <1>4, <1>6
  <2> QED BY <2>4, <2>5, <2>6 DEF Explained
<1> QED BY <1>5, <1>6

\* What a lucky step leaves.
LEMMA LuckyInv ==
  ASSUME IInv, ToxicInv, MaxDepth > 0, NEW b \in DOMAIN jobs, Step(b), Lucky'
  PROVE  PartsOK' /\ FailedOK' /\ short' = {}
<1>1. /\ Lucky
      /\ \/ Moving
         \/ Failing(b) /\ Part(b).depth >= MaxDepth
         \/ Failing(b) /\ Poisoned(b) /\ Len(Part(b).items) <= 1
         \/ Halving(b) /\ Poisoned(b)
         \/ Answered(b) /\ UNCHANGED short
  BY LuckySteps
<1>2. /\ DOMAIN jobs = 1..Len(Batches[lengths])
      /\ PartsOK /\ FailedOK /\ short = {}
  BY <1>1 DEF ToxicInv
<1>3. /\ lengths' = lengths /\ toxic' = toxic
      /\ Valid' = Valid /\ Batches[lengths]' = Batches[lengths]
  <2>1. Next
    BY DEF Next
  <2> QED BY <2>1, SameCall
<1>4. \A v : Explained(v)' <=> Explained(v)
  BY <1>3 DEF Explained
<1>5. ASSUME UNCHANGED diagnosis PROVE FailedOK'
  BY <1>2, <1>3, <1>4, <1>5 DEF FailedOK, Unexplained
<1>6. ASSUME jobs[b].at # "done"
      PROVE  /\ Part(b) \in PartSet /\ Part(b) \in ToSet(jobs[b].work)
             /\ Tail(jobs[b].work) \in Seq(PartSet)
             /\ ToSet(Tail(jobs[b].work)) \subseteq ToSet(jobs[b].work)
  <2>1. jobs[b].work \in Seq(PartSet) /\ jobs[b].work # <<>>
    BY <1>6 DEF IInv, WorkOK
  <2> QED BY <2>1, PartsOfTail, HeadTailProperties DEF Part
<1>7. ASSUME jobs[b].at # "done", NextPart(b, Tail(jobs[b].work))
      PROVE  PartsOK'
  <2>1. \A p \in ToSet(Tail(jobs[b].work)) : PartOK(p, Batches[lengths][b], toxic)
    BY <1>2, <1>6, <1>7 DEF PartsOK
  <2> QED BY <1>2, <1>3, <1>7, <2>1, PartsGoOn
<1>8. CASE Moving
  <2>1. PartsOK'
    BY <1>2, <1>3, <1>8 DEF Moving, PartsOK
  <2> QED BY <1>2, <1>5, <1>8, <2>1 DEF Moving
<1>9. CASE Failing(b) /\ (Part(b).depth >= MaxDepth \/ (Poisoned(b) /\ Len(Part(b).items) <= 1))
  <2>1. jobs[b].at # "done" /\ NextPart(b, Tail(jobs[b].work)) /\ UNCHANGED short
    BY <1>9 DEF Failing
  <2>2. PICK why : diagnosis' = [v \in Valid |-> IF v \in ToSet(Part(b).items) THEN why ELSE diagnosis[v]]
    BY <1>9 DEF Failing, Explain
  <2>3. ASSUME NEW v \in Valid, diagnosis'[v] # Unexplained
        PROVE  Explained(v)
    <3>1. CASE v \in ToSet(Part(b).items)
      BY <1>2, <1>9, <2>1, <3>1, FailsExplained
    <3>2. CASE v \notin ToSet(Part(b).items)
      BY <1>2, <2>2, <2>3, <3>2 DEF FailedOK
    <3> QED BY <3>1, <3>2
  <2>4. FailedOK'
    BY <1>3, <1>4, <2>3 DEF FailedOK, Unexplained
  <2> QED BY <1>2, <1>7, <2>1, <2>4
<1>10. CASE Halving(b) /\ Poisoned(b)
  <2>1. /\ jobs[b].at # "done" /\ Len(Part(b).items) > 1
        /\ NextPart(b, Halves(Part(b)) \o Tail(jobs[b].work))
        /\ UNCHANGED <<diagnosis, short>>
    BY <1>10 DEF Halving
  <2> DEFINE work == Halves(Part(b)) \o Tail(jobs[b].work)
             batch == Batches[lengths][b]
  <2>2. batch \in Seq(Nat)
    <3>1. Batches[lengths] \in Seq(Seq(1..Len(Cleaned[lengths])))
      BY InputsPartitioned DEF IInv, Placed, Partitioned
    <3>2. batch \in Seq(1..Len(Cleaned[lengths]))
      BY <1>2, <3>1
    <3>3. 1..Len(Cleaned[lengths]) \subseteq Nat
      OBVIOUS
    <3> QED BY <3>2, <3>3, SeqMonotonic
  <2>3. PartOK(Part(b), batch, toxic) /\ ToSet(Part(b).items) \cap toxic # {}
    BY <1>2, <1>6, <1>10, <2>1 DEF PartsOK, Poisoned
  <2>4. PartOK(Halves(Part(b))[1], batch, toxic) /\ PartOK(Halves(Part(b))[2], batch, toxic)
    <3> HIDE DEF batch
    <3> QED BY <1>6, <2>1, <2>2, <2>3, HalvesOK
  <2>5. \A q \in ToSet(work) :
          q \in ToSet(Tail(jobs[b].work)) \/ q = Halves(Part(b))[1] \/ q = Halves(Part(b))[2]
    BY <1>6, <2>1, PartsOfHalves
  <2>6. \A q \in ToSet(Tail(jobs[b].work)) : PartOK(q, batch, toxic)
    BY <1>2, <1>6, <2>1 DEF PartsOK
  <2>7. NextPart(b, work)
    BY <2>1
  <2> HIDE DEF work
  <2>8. \A q \in ToSet(work) : PartOK(q, Batches[lengths][b], toxic)
    <3> HIDE DEF batch
    <3>1. \A q \in ToSet(work) : PartOK(q, batch, toxic)
      BY <2>4, <2>5, <2>6
    <3> QED BY <3>1 DEF batch
  <2>9. PartsOK'
    BY <1>2, <1>3, <2>7, <2>8, PartsGoOn
  <2> QED BY <1>2, <1>5, <2>1, <2>9
<1>11. CASE Answered(b) /\ UNCHANGED short
  <2>1. jobs[b].at # "done" /\ NextPart(b, Tail(jobs[b].work)) /\ UNCHANGED diagnosis
    BY <1>11 DEF Answered, At
  <2> QED BY <1>2, <1>5, <1>7, <1>11, <2>1
<1> QED BY <1>1, <1>8, <1>9, <1>10, <1>11

\* A toxic text gets no vector.
LEMMA ToxicStays ==
  ASSUME IInv, \A v \in toxic : results[v] = None, toxic \subseteq Valid, [Next]_vars
  PROVE  \A v \in toxic : results'[v] = None
<1>1. ASSUME NEW b \in DOMAIN jobs, Answered(b)
      PROVE  \A v \in toxic : results'[v] = None
  <2>1. jobs[b].at # "done" /\ jobs[b].work \in Seq(PartSet) /\ jobs[b].work # <<>>
    BY <1>1 DEF Answered, At, IInv, WorkOK
  <2>2. Part(b) \in PartSet
    BY <2>1, HeadTailProperties DEF Part
  <2>3. PICK n \in 0..Len(Part(b).items) :
          results' = [v \in Valid |-> IF v \in ToSet(SubSeq(Part(b).items, 1, n))
                                      THEN Cleaned[lengths][v] ELSE results[v]]
    BY <1>1 DEF Answered
  <2>4. ToSet(SubSeq(Part(b).items, 1, n)) \cap toxic = {}
    BY <1>1, <2>2, GivenFacts DEF Answered, Poisoned
  <2> QED BY <2>3, <2>4
<1>2. ASSUME NEW b \in DOMAIN jobs, Step(b), ~Answered(b)
      PROVE  UNCHANGED results
  BY <1>2 DEF Step, Acquire, Enter, Try, Refused, ServerError, ConnectionLost, Malformed, BackOff
<1>3. Return \/ DeadlinePasses \/ Cancel \/ UNCHANGED vars => UNCHANGED results
  BY DEF Return, DeadlinePasses, Cancel, vars
<1> QED BY <1>1, <1>2, <1>3 DEF Next

LEMMA ToxicStarts ==
  ASSUME Init
  PROVE  ToxicInv
<1> DEFINE batches == Batches[lengths]
<1>1. /\ lengths \in Inputs /\ toxic \subseteq Valid
      /\ jobs = [b \in 1..Len(batches) |-> Job(batches[b])]
      /\ results = [v \in Valid |-> None] /\ diagnosis = [v \in Valid |-> Unexplained]
      /\ call = "running" /\ short = {}
  BY DEF Init
<1>2. batches \in Seq(Seq(1..Len(Cleaned[lengths])))
  BY <1>1, InputsPartitioned DEF Partitioned
<1> HIDE DEF batches
<1>3. ASSUME NEW b \in 1..Len(batches), NEW p \in ToSet(jobs[b].work)
      PROVE  PartOK(p, batches[b], toxic)
  <2>1. p = [items |-> batches[b], depth |-> 0]
    BY <1>1, <1>3 DEF Job, ToSet
  <2>2. Len(batches[b]) \in Nat
    BY <1>2
  <2>3. p.items = batches[b] /\ p.depth = 0
    BY <2>1
  <2> DEFINE one == 2^p.depth
             n == Len(batches[b])
  <2>4. one = 1
    BY <2>3, PowersDouble
  <2> HIDE DEF one, n
  <2>5. n \in Nat /\ (n - 1) * one <= n - 1
    BY <2>2, <2>4 DEF n
  <2> QED BY <2>3, <2>5 DEF PartOK, one, n
<1>4. DOMAIN jobs = 1..Len(batches)
  BY <1>1
<1>5. PartsOK
  BY <1>3, <1>4 DEF PartsOK, batches
<1>6. FailedOK
  BY <1>1 DEF FailedOK, Unexplained
<1> QED BY <1>1, <1>4, <1>5, <1>6 DEF ToxicInv, OnlyToxicFails, batches

LEMMA ToxicInductive ==
  ASSUME IInv, ToxicInv, MaxDepth > 0, [Next]_vars
  PROVE  ToxicInv'
<1>1. /\ lengths' = lengths /\ toxic' = toxic
      /\ Valid' = Valid /\ Batches[lengths]' = Batches[lengths]
  BY SameCall
<1>2. toxic' \subseteq Valid' /\ \A v \in toxic' : results'[v] = None
  BY <1>1, ToxicStays DEF ToxicInv
<1>3. \A v : Explained(v)' <=> Explained(v)
  BY <1>1 DEF Explained
<1>4. ASSUME NEW b \in DOMAIN jobs, Step(b), ~Malformed(b)
      PROVE  ToxicInv'
  <2>1. call = "running" /\ (Moving \/ Failing(b) \/ Halving(b) \/ Answered(b))
    BY <1>4, StepKinds
  <2>2. DOMAIN jobs' = DOMAIN jobs /\ call' = call
    BY <2>1 DEF Moving, Failing, Halving, Answered, NextPart, Others, callVars
  <2>3. Lucky' => PartsOK' /\ FailedOK' /\ short' = {}
    BY <1>4, LuckyInv
  <2> QED BY <1>1, <1>2, <2>1, <2>2, <2>3 DEF ToxicInv, OnlyToxicFails
<1>5. ASSUME NEW b \in DOMAIN jobs, Malformed(b)
      PROVE  ToxicInv'
  BY <1>1, <1>2, <1>5 DEF ToxicInv, OnlyToxicFails, Malformed, Lucky
<1>6. ASSUME UNCHANGED <<jobs, diagnosis, short>>, Lucky' => Lucky
      PROVE  Lucky' => PartsOK' /\ FailedOK' /\ short' = {}
  BY <1>1, <1>3, <1>6 DEF ToxicInv, PartsOK, FailedOK, Unexplained
<1>7. ASSUME Return
      PROVE  ToxicInv'
  <2>1. UNCHANGED <<lengths, toxic, jobs, results, diagnosis, late, cancel, short, unlucky>>
    BY <1>7 DEF Return
  <2>2. Lucky' <=> Lucky
    BY <2>1 DEF Lucky, Stop
  <2>3. Lucky' => PartsOK' /\ FailedOK' /\ short' = {}
    BY <1>6, <2>1, <2>2
  <2>4. Pending = {}
    BY <1>7, TextsFacts DEF IInv, WorkOK, Return, Pending
  <2>5. ASSUME Lucky, NEW v \in Valid, results[v] = None
        PROVE  Explained(v)
    <3>1. v \in Failed
      BY <2>4, <2>5 DEF IInv, SettledOnce, Embedded, Lost
    <3>2. diagnosis[v] # Unexplained /\ FailedOK
      BY <2>5, <3>1 DEF ToxicInv, Failed, Unexplained
    <3> QED BY <3>2 DEF FailedOK
  <2>6. OnlyToxicFails'
    BY <1>1, <1>2, <2>1, <2>5 DEF OnlyToxicFails, Explained, ToxicInv, Lucky, Stop
  <2> QED BY <1>1, <1>2, <2>1, <2>3, <2>6 DEF ToxicInv
<1>8. ASSUME DeadlinePasses \/ Cancel \/ UNCHANGED vars
      PROVE  ToxicInv'
  <2>1. /\ UNCHANGED <<lengths, toxic, jobs, results, diagnosis, call, short, unlucky>>
        /\ Stop => Stop'
    BY <1>8 DEF DeadlinePasses, Cancel, vars, callVars, Stop
  <2>2. Lucky' => Lucky
    BY <2>1 DEF Lucky
  <2>3. Lucky' => PartsOK' /\ FailedOK' /\ short' = {}
    BY <1>6, <2>1, <2>2
  <2>4. OnlyToxicFails'
    BY <1>1, <2>1 DEF OnlyToxicFails, ToxicInv
  <2> QED BY <1>1, <1>2, <2>1, <2>3, <2>4 DEF ToxicInv
<1> QED BY <1>4, <1>5, <1>7, <1>8 DEF Next

\* Halving isolates what the model cannot embed: without errors of the network and without a stop,
\* only a toxic text fails, or one that shares with it a batch too large for MaxDepth halvings
\* (OnlyToxicFails). With a MaxDepth of zero the code asks for no vector at all.
THEOREM OnlyToxicIsLost == MaxDepth > 0 /\ Spec => []OnlyToxicFails
<1>1. Init => ToxicInv
  BY ToxicStarts
<1>2. MaxDepth > 0 /\ IInv /\ ToxicInv /\ [Next]_vars => ToxicInv'
  BY ToxicInductive
<1>3. ToxicInv => OnlyToxicFails
  BY DEF ToxicInv
<1>4. (MaxDepth > 0)' <=> MaxDepth > 0
  OBVIOUS
<1> QED BY <1>1, <1>2, <1>3, <1>4, Invariance, PTL DEF Spec

----------------------------------------------------------------------------
(* Rows and rankings. *)

Entry == [unit : Nat, row : Nat]
HitSet == [unit : Nat, row : Nat, reranked : BOOLEAN, score : Nat]

LEMMA RowsFacts ==
  /\ Rows = 1..Len(Parts) /\ IsFiniteSet(Rows) /\ Rows \subseteq Nat
  /\ \A r \in Rows : Parts[r].unit \in Nat /\ Parts[r].first \in Nat /\ Parts[r].last \in Nat
<1>1. Len(Parts) \in Nat /\ Rows = 1..Len(Parts) /\ \A r \in Rows : Parts[r] \in IndexRow
  BY RetrievalAssumption DEF Rows
<1>2. IsFiniteSet(Rows)
  BY <1>1, FS_Interval
<1> QED BY <1>1, <1>2 DEF IndexRow

\* The head of a list.
LEMMA TakeFacts ==
  ASSUME NEW X, NEW s \in Seq(X), NEW n \in Nat
  PROVE  /\ Take(s, n) \in Seq(X)
         /\ Len(Take(s, n)) = IF Len(s) < n THEN Len(s) ELSE n
         /\ \A i \in 1..Len(Take(s, n)) : i \in 1..Len(s) /\ Take(s, n)[i] = s[i]
<1> DEFINE m == IF Len(s) < n THEN Len(s) ELSE n
           t == SubSeq(s, 1, m)
<1>1. m \in Nat /\ m <= Len(s) /\ Len(s) \in Nat
  OBVIOUS
<1> HIDE DEF m
<1>2. \A i \in 1..m : s[i] \in X
  BY <1>1
<1>3. /\ t \in Seq(X)
      /\ Len(t) = IF 1 <= m THEN m - 1 + 1 ELSE 0
      /\ \A i \in 1..(m - 1 + 1) : t[i] = s[1 + i - 1]
  BY <1>1, <1>2, SubSeqProperties
<1> HIDE DEF t
<1>4. Len(t) = m
  BY <1>1, <1>3
<1>5. \A i \in 1..m : i \in 1..Len(s) /\ t[i] = s[i]
  <2>1. SUFFICES ASSUME NEW i \in 1..m PROVE i \in 1..Len(s) /\ t[i] = s[i]
    OBVIOUS
  <2>2. i \in 1..(m - 1 + 1) /\ 1 + i - 1 = i /\ i \in 1..Len(s)
    BY <1>1
  <2> QED BY <1>3, <2>2
<1>6. Take(s, n) = t
  BY DEF Take, t, m
<1> QED BY <1>3, <1>4, <1>5, <1>6 DEF m

LEMMA FallingIsStrict ==
  ASSUME NEW S, S \subseteq Int, NEW score, \A x \in S : score[x] \in Int
  PROVE  StrictOrder(S, Falling(score, S))
BY DEF StrictOrder, Falling, RowBefore

\* A unit that is kept has a row that no other of its rows comes before.
LEMMA BestRowFacts ==
  ASSUME NEW keep \in SUBSET Rows, NEW score \in [Rows -> Scores], NEW u,
         \E r \in keep : Parts[r].unit = u
  PROVE  BestRow(score, keep, u) \in keep /\ Parts[BestRow(score, keep, u)].unit = u
<1> DEFINE S == {r \in keep : Parts[r].unit = u}
           s == InOrder(S, Falling(score, S))
           n == Cardinality(S)
<1>1. S \in SUBSET Rows /\ S # {}
  OBVIOUS
<1>2. IsFiniteSet(S) /\ S \subseteq Int /\ \A x \in S : score[x] \in Int
  <2> HIDE DEF S
  <2>1. IsFiniteSet(Rows) /\ Rows \subseteq Int /\ Scores \subseteq Int
    BY RowsFacts, RetrievalAssumption
  <2> QED BY <1>1, <2>1, FS_Subset
<1>3. /\ n \in Nat /\ s \in [1..n -> S]
      /\ \A x \in S : \E i \in 1..n : s[i] = x
      /\ \A i, j \in 1..n : i < j => <<s[i], s[j]>> \in Falling(score, S)
  <2> HIDE DEF S
  <2>1. StrictOrder(S, Falling(score, S))
    BY <1>2, FallingIsStrict
  <2> QED BY <1>2, <2>1, InOrderFacts
<1>4. 1 \in 1..n
  <2> HIDE DEF s, n, S
  <2>1. PICK i \in 1..n : TRUE
    BY <1>1, <1>3
  <2> QED BY <1>3, <2>1
<1> DEFINE r == s[1]
<1>5. ASSUME NEW o \in keep \ {r}, Parts[o].unit = u
      PROVE  RowBefore(score, r, o)
  <2>1. o \in S
    BY <1>5
  <2>2. PICK j \in 1..n : s[j] = o
    BY <1>3, <2>1
  <2>3. 1 < j
    <3> HIDE DEF s, n, S
    <3>1. j # 1
      BY <1>5, <2>2
    <3> QED BY <1>3, <3>1
  <2>4. <<r, o>> \in Falling(score, S)
    <3> HIDE DEF s, n, S
    <3> QED BY <1>3, <1>4, <2>2, <2>3
  <2> HIDE DEF s, n, S
  <2> QED BY <2>4 DEF Falling
<1>6. r \in S
  <2> HIDE DEF s, n, S
  <2> QED BY <1>3, <1>4
<1> HIDE DEF r
<1>7. r \in keep /\ Parts[r].unit = u /\ \A o \in keep \ {r} : Parts[o].unit = u => RowBefore(score, r, o)
  BY <1>5, <1>6
<1> QED BY <1>7 DEF BestRow

\* A ranking of rows holds a unit once, by a row that is kept; with room for all, it holds all.
LEMMA RankRowsFacts ==
  ASSUME NEW keep \in SUBSET Rows, NEW score \in [Rows -> Scores], NEW limit \in Nat
  PROVE  LET s == RankRows(score, keep, limit)
         IN  /\ s \in Seq(Entry)
             /\ \A i, j \in 1..Len(s) : s[i].unit = s[j].unit => i = j
             /\ \A i \in 1..Len(s) : s[i].row \in keep /\ Parts[s[i].row].unit = s[i].unit
             /\ Cardinality(UnitsOf(keep)) <= limit => \A u \in UnitsOf(keep) : Holds(s, u)
<1> DEFINE units == UnitsOf(keep)
           best == {BestRow(score, keep, u) : u \in units}
           order == InOrder(best, Falling(score, best))
           n == Cardinality(best)
           all == [i \in DOMAIN order |-> [unit |-> Parts[order[i]].unit, row |-> order[i]]]
           s == Take(all, limit)
<1>1. \A u \in units : BestRow(score, keep, u) \in keep /\ Parts[BestRow(score, keep, u)].unit = u
  BY BestRowFacts DEF UnitsOf
<1>2. IsFiniteSet(keep) /\ IsFiniteSet(units)
  <2>1. IsFiniteSet(keep)
    BY RowsFacts, FS_Subset
  <2> DEFINE f == [r \in keep |-> Parts[r].unit]
  <2>2. DOMAIN f = keep /\ units = {f[r] : r \in keep}
    BY DEF UnitsOf
  <2> HIDE DEF f, units
  <2> QED BY <2>1, <2>2, ImageBound
<1>3. IsFiniteSet(best) /\ n <= Cardinality(units)
  <2> DEFINE f == [u \in units |-> BestRow(score, keep, u)]
  <2>1. DOMAIN f = units /\ best = {f[u] : u \in units}
    OBVIOUS
  <2> HIDE DEF f, best, units
  <2> QED BY <1>2, <2>1, ImageBound
<1>4. best \subseteq keep
  BY <1>1
<1>5. \A r \in best : r \in Nat /\ score[r] \in Int /\ Parts[r].unit \in Nat
  <2>1. Scores \subseteq Int
    BY RetrievalAssumption
  <2> HIDE DEF best
  <2> QED BY <1>4, <2>1, RowsFacts
<1>6. /\ n \in Nat /\ order \in [1..n -> best]
      /\ \A i, j \in 1..n : order[i] = order[j] => i = j
      /\ \A x \in best : \E i \in 1..n : order[i] = x
  <2> HIDE DEF best
  <2>1. best \subseteq Int
    BY <1>5
  <2>2. StrictOrder(best, Falling(score, best))
    BY <1>5, <2>1, FallingIsStrict
  <2> QED BY <1>3, <2>2, InOrderFacts
<1>7. \A a, b \in best : Parts[a].unit = Parts[b].unit => a = b
  BY <1>1
<1>8. RankRows(score, keep, limit) = s
  BY DEF RankRows, UnitsOf
<1>9. \A u \in units : \E r \in best : Parts[r].unit = u
  BY <1>1
<1> HIDE DEF order, n, best
<1>10. /\ all \in Seq(Entry) /\ Len(all) = n
       /\ \A i \in 1..n : all[i].row = order[i] /\ all[i].unit = Parts[order[i]].unit
  <2>1. all = [i \in 1..n |-> [unit |-> Parts[order[i]].unit, row |-> order[i]]]
    BY <1>6
  <2>2. \A i \in 1..n : [unit |-> Parts[order[i]].unit, row |-> order[i]] \in Entry
    BY <1>5, <1>6 DEF Entry
  <2> HIDE DEF all
  <2> QED BY <1>6, <2>1, <2>2
<1> HIDE DEF all
<1>11. /\ s \in Seq(Entry) /\ Len(s) = IF n < limit THEN n ELSE limit
       /\ \A i \in 1..Len(s) : i \in 1..n /\ s[i] = all[i]
  BY <1>10, TakeFacts
<1> HIDE DEF s
<1>12. \A i, j \in 1..Len(s) : s[i].unit = s[j].unit => i = j
  BY <1>6, <1>7, <1>10, <1>11
<1>13. \A i \in 1..Len(s) : s[i].row \in keep /\ Parts[s[i].row].unit = s[i].unit
  BY <1>4, <1>6, <1>10, <1>11
<1>14. ASSUME Cardinality(units) <= limit, NEW u \in units
       PROVE  Holds(s, u)
  <2>1. PICK r \in best : Parts[r].unit = u
    BY <1>9
  <2>2. PICK i \in 1..n : order[i] = r
    BY <1>6
  <2>3. Len(s) = n
    <3>1. Cardinality(units) \in Nat
      BY <1>2, FS_CardinalityType
    <3> QED BY <1>3, <1>6, <1>11, <1>14, <3>1
  <2>4. i \in DOMAIN s /\ s[i].unit = u
    BY <1>10, <1>11, <2>1, <2>2, <2>3
  <2> QED BY <2>4 DEF Holds
<1> QED BY <1>8, <1>11, <1>12, <1>13, <1>14

----------------------------------------------------------------------------
(* Fractions. *)

Fraction == [num : Nat, den : Nat \ {0}]

LEMMA CommonFactor ==
  ASSUME NEW x \in Nat, NEW y \in Nat, NEW k \in Nat \ {0}, x * k <= y * k
  PROVE  x <= y
<1>1. SUFFICES ASSUME y + 1 <= x PROVE FALSE
  OBVIOUS
<1>2. (y + 1) * k <= x * k /\ (y + 1) * k \in Int /\ x * k \in Int
  BY <1>1, Product
<1>3. (y + 1) * k = y * k + k /\ y * k \in Int
  BY ProductNext
<1> DEFINE a == x * k
           b == y * k
           c == (y + 1) * k
<1>4. c <= a /\ c = b + k /\ a <= b /\ b \in Int /\ a \in Int
  BY <1>2, <1>3
<1> HIDE DEF a, b, c
<1> QED BY <1>4

LEMMA AtMostTransitive ==
  ASSUME NEW a \in Fraction, NEW b \in Fraction, NEW c \in Fraction, ~Exceeds(a, b), ~Exceeds(b, c)
  PROVE  ~Exceeds(a, c)
<1> DEFINE p == a.num
           q == a.den
           r == b.num
           s == b.den
           t == c.num
           w == c.den
<1>1. p \in Nat /\ q \in Nat /\ r \in Nat /\ s \in Nat \ {0} /\ t \in Nat /\ w \in Nat
  BY DEF Fraction
<1>2. ~(p * s > r * q) /\ ~(r * w > t * s)
  BY DEF Exceeds
<1> HIDE DEF p, q, r, s, t, w
<1>3. p * s \in Nat /\ r * q \in Nat /\ r * w \in Nat /\ t * s \in Nat /\ p * w \in Nat /\ t * q \in Nat
  BY <1>1
<1>4. p * s <= r * q /\ r * w <= t * s
  BY <1>2, <1>3
<1>5. (p * s) * w <= (r * q) * w
  BY <1>1, <1>3, <1>4, Product
<1>6. (r * w) * q <= (t * s) * q
  BY <1>1, <1>3, <1>4, Product
<1>7. (p * s) * w = (p * w) * s /\ (r * q) * w = (r * w) * q /\ (t * s) * q = (t * q) * s
  BY <1>1
<1>8. (p * w) * s <= (t * q) * s
  <2> DEFINE x == (p * w) * s
             y == (r * w) * q
             z == (t * q) * s
  <2>1. x <= y /\ y <= z
    BY <1>5, <1>6, <1>7
  <2>2. x \in Int /\ y \in Int /\ z \in Int
    BY <1>1
  <2> HIDE DEF x, y, z
  <2>3. x <= z
    BY <2>1, <2>2
  <2> QED BY <2>3 DEF x, z
<1>9. p * w <= t * q
  BY <1>1, <1>3, <1>8, CommonFactor
<1>10. ~(p * w > t * q)
  <2> DEFINE x == p * w
             y == t * q
  <2>1. x <= y /\ x \in Nat /\ y \in Nat
    BY <1>3, <1>9
  <2> HIDE DEF x, y
  <2>2. ~(x > y)
    BY <2>1
  <2> QED BY <2>2 DEF x, y
<1> QED BY <1>10 DEF Exceeds, p, q, t, w

LEMMA ExceedsOneWay ==
  ASSUME NEW a \in Fraction, NEW b \in Fraction
  PROVE  ~Exceeds(a, b) \/ ~Exceeds(b, a)
<1> DEFINE x == a.num * b.den
           y == b.num * a.den
<1>1. x \in Nat /\ y \in Nat
  BY DEF Fraction
<1> HIDE DEF x, y
<1>2. ~(x > y) \/ ~(y > x)
  BY <1>1
<1> QED BY <1>2 DEF Exceeds, x, y

LEMMA SumIsFraction ==
  ASSUME NEW a \in Fraction, NEW b \in Fraction
  PROVE  Sum2(a, b) \in Fraction
<1> DEFINE p == a.num
           q == a.den
           r == b.num
           s == b.den
<1>1. p \in Nat /\ q \in Nat /\ q >= 1 /\ r \in Nat /\ s \in Nat /\ s >= 1
  BY DEF Fraction
<1>2. Sum2(a, b) = [num |-> p * s + r * q, den |-> q * s]
  BY DEF Sum2
<1> HIDE DEF p, q, r, s
<1>3. p * s \in Nat /\ r * q \in Nat /\ q * s \in Nat
  BY <1>1
<1>4. 1 * s <= q * s
  BY <1>1, Product
<1>5. p * s + r * q \in Nat /\ q * s # 0
  <2> DEFINE x == p * s
             y == r * q
             z == q * s
  <2>1. x \in Nat /\ y \in Nat /\ z \in Nat /\ 1 * s <= z
    BY <1>3, <1>4
  <2> HIDE DEF x, y, z
  <2>2. x + y \in Nat /\ z # 0
    BY <1>1, <2>1
  <2> QED BY <2>2 DEF x, y, z
<1> QED BY <1>2, <1>3, <1>5 DEF Fraction

LEMMA SumExceeds ==
  ASSUME NEW a \in Fraction, NEW b \in Fraction, NEW c \in Fraction, NEW d \in Fraction,
         ~Exceeds(c, a), ~Exceeds(d, b), Exceeds(a, c) \/ Exceeds(b, d)
  PROVE  Exceeds(Sum2(a, b), Sum2(c, d))
<1> DEFINE x == a.num * c.den
           y == c.num * a.den
           z == b.num * d.den
           w == d.num * b.den
           p == b.den * d.den
           q == a.den * c.den
<1>1. /\ a.num \in Nat /\ b.num \in Nat /\ c.num \in Nat /\ d.num \in Nat
      /\ a.den \in Nat \ {0} /\ b.den \in Nat \ {0} /\ c.den \in Nat \ {0} /\ d.den \in Nat \ {0}
  BY DEF Fraction
<1>2. x \in Nat /\ y \in Nat /\ z \in Nat /\ w \in Nat /\ p \in Nat \ {0} /\ q \in Nat \ {0}
  BY <1>1
<1>3. ~(y > x) /\ ~(w > z) /\ (x > y \/ z > w)
  BY DEF Exceeds
<1>4. /\ (a.num * b.den + b.num * a.den) * (c.den * d.den) = x * p + z * q
      /\ (c.num * d.den + d.num * c.den) * (a.den * b.den) = y * p + w * q
  BY <1>1
<1> HIDE DEF x, y, z, w, p, q
<1>5. x >= y /\ z >= w /\ (x >= y + 1 \/ z >= w + 1)
  BY <1>2, <1>3
<1>6. /\ y * p <= x * p /\ w * q <= z * q
      /\ y * p \in Int /\ x * p \in Int /\ w * q \in Int /\ z * q \in Int
  BY <1>2, <1>5, Product
<1>7. CASE x >= y + 1
  <2>1. (y + 1) * p <= x * p /\ (y + 1) * p = y * p + p
    BY <1>2, <1>7, Product, ProductNext
  <2> DEFINE e == x * p
             f == y * p
             g == z * q
             h == w * q
  <2>2. f + p <= e /\ h <= g /\ e \in Int /\ f \in Int /\ g \in Int /\ h \in Int
    BY <1>6, <2>1
  <2> HIDE DEF e, f, g, h
  <2>3. e + g > f + h
    BY <1>2, <2>2
  <2> QED BY <1>4, <2>3 DEF Exceeds, Sum2, e, f, g, h
<1>8. CASE z >= w + 1
  <2>1. (w + 1) * q <= z * q /\ (w + 1) * q = w * q + q
    BY <1>2, <1>8, Product, ProductNext
  <2> DEFINE e == x * p
             f == y * p
             g == z * q
             h == w * q
  <2>2. h + q <= g /\ f <= e /\ e \in Int /\ f \in Int /\ g \in Int /\ h \in Int
    BY <1>6, <2>1
  <2> HIDE DEF e, f, g, h
  <2>3. e + g > f + h
    BY <1>2, <2>2
  <2> QED BY <1>4, <2>3 DEF Exceeds, Sum2, e, f, g, h
<1> QED BY <1>5, <1>7, <1>8

----------------------------------------------------------------------------
(* Where a unit stands. *)

\* A list holds a unit once, by a row of it that is kept.
Ranking(s, keep) ==
  /\ \A i, j \in 1..Len(s) : s[i].unit = s[j].unit => i = j
  /\ \A i \in 1..Len(s) : s[i].row \in keep /\ Parts[s[i].row].unit = s[i].unit

LEMMA PlaceFacts ==
  ASSUME NEW X, NEW s \in Seq(X), NEW keep, Ranking(s, keep), NEW u
  PROVE  /\ Holds(s, u) <=> \E i \in 1..Len(s) : s[i].unit = u
         /\ Holds(s, u) => Place(s, u) \in 1..Len(s) /\ s[Place(s, u)].unit = u
         /\ \A i \in 1..Len(s) : s[i].unit = u => Place(s, u) = i
<1>1. DOMAIN s = 1..Len(s)
  OBVIOUS
<1>2. Holds(s, u) <=> \E i \in 1..Len(s) : s[i].unit = u
  BY <1>1 DEF Holds
<1>3. Holds(s, u) => Place(s, u) \in 1..Len(s) /\ s[Place(s, u)].unit = u
  BY <1>1, <1>2 DEF Place
<1>4. \A i \in 1..Len(s) : s[i].unit = u => Place(s, u) = i
  BY <1>2, <1>3 DEF Ranking
<1> QED BY <1>2, <1>3, <1>4

LEMMA UnitsFinite ==
  ASSUME NEW keep \in SUBSET Rows
  PROVE  IsFiniteSet(UnitsOf(keep)) /\ Cardinality(UnitsOf(keep)) \in Nat
<1> DEFINE f == [r \in keep |-> Parts[r].unit]
<1>1. IsFiniteSet(keep)
  BY RowsFacts, FS_Subset
<1>2. DOMAIN f = keep /\ UnitsOf(keep) = {f[r] : r \in keep}
  BY DEF UnitsOf
<1> HIDE DEF f
<1> QED BY <1>1, <1>2, ImageBound, FS_CardinalityType

\* A list is no longer than there are units in what is kept.
LEMMA RankingLength ==
  ASSUME NEW keep \in SUBSET Rows, NEW X, NEW s \in Seq(X), Ranking(s, keep)
  PROVE  Len(s) <= Cardinality(UnitsOf(keep))
<1> DEFINE n == Len(s)
           f == [i \in 1..n |-> s[i].unit]
<1>1. n \in Nat
  OBVIOUS
<1> HIDE DEF n
<1>2. IsFiniteSet(1..n) /\ Cardinality(1..n) = n
  <2>1. 1 \in Int /\ n \in Int
    BY <1>1
  <2>2. IsFiniteSet(1..n) /\ Cardinality(1..n) = IF 1 > n THEN 0 ELSE n - 1 + 1
    BY <2>1, FS_Interval
  <2> QED BY <1>1, <2>2
<1>3. f \in Injection(1..n, UnitsOf(keep))
  <2>1. \A i \in 1..n : s[i].unit \in UnitsOf(keep)
    BY DEF Ranking, UnitsOf, n
  <2>2. f \in [1..n -> UnitsOf(keep)]
    BY <2>1
  <2>3. \A i, j \in 1..n : f[i] = f[j] => i = j
    BY DEF Ranking, n
  <2> HIDE DEF f
  <2> QED BY <2>2, <2>3 DEF Injection, IsInjective
<1> HIDE DEF f
<1>4. Cardinality(1..n) <= Cardinality(UnitsOf(keep))
  BY <1>3, UnitsFinite, FS_Injection
<1> QED BY <1>2, <1>4 DEF n

LEMMA ShareFacts ==
  ASSUME NEW m \in Nat \ {0}, NEW n \in Nat \ {0}
  PROVE  /\ Share(m) \in Fraction
         /\ m < n => Exceeds(Share(m), Share(n))
         /\ Exceeds(Share(m), [num |-> 0, den |-> 1])
<1>1. RrfK + m \in Nat \ {0} /\ RrfK + n \in Nat \ {0}
  BY RetrievalAssumption
<1>2. Share(m) = [num |-> 1, den |-> RrfK + m] /\ Share(n) = [num |-> 1, den |-> RrfK + n]
  BY DEF Share
<1> DEFINE a == RrfK + m
           b == RrfK + n
<1>3. a \in Nat \ {0} /\ b \in Nat \ {0} /\ (m < n => a < b)
  BY <1>1, RetrievalAssumption
<1>4. Share(m) = [num |-> 1, den |-> a] /\ Share(n) = [num |-> 1, den |-> b]
  BY <1>2
<1> HIDE DEF a, b
<1> QED BY <1>3, <1>4 DEF Fraction, Exceeds

\* What a searcher adds for a unit is more the further ahead it places it.
LEMMA ShareOfFacts ==
  ASSUME NEW l, NEW name, NEW X, l[name] \in Seq(X), NEW keep, Ranking(l[name], keep), NEW u, NEW v
  PROVE  /\ ShareOf(l, name, u) \in Fraction
         /\ Holds(l[name], u) /\ (Holds(l[name], v) => Place(l[name], u) < Place(l[name], v)) =>
              Exceeds(ShareOf(l, name, u), ShareOf(l, name, v))
         /\ ~Holds(l[name], u) /\ ~Holds(l[name], v) => ShareOf(l, name, u) = ShareOf(l, name, v)
<1> DEFINE s == l[name]
<1>1. Len(s) \in Nat
  OBVIOUS
<1>2. /\ Holds(s, u) => Place(s, u) \in Nat \ {0}
      /\ Holds(s, v) => Place(s, v) \in Nat \ {0}
  BY <1>1, PlaceFacts
<1> HIDE DEF s
<1>3. /\ ShareOf(l, name, u) = IF Holds(s, u) THEN Share(Place(s, u)) ELSE [num |-> 0, den |-> 1]
      /\ ShareOf(l, name, v) = IF Holds(s, v) THEN Share(Place(s, v)) ELSE [num |-> 0, den |-> 1]
  BY DEF ShareOf, s
<1>4. ShareOf(l, name, u) \in Fraction
  <2>1. [num |-> 0, den |-> 1] \in Fraction
    BY DEF Fraction
  <2> QED BY <1>2, <1>3, <2>1, ShareFacts
<1>5. ASSUME Holds(s, u), Holds(s, v) => Place(s, u) < Place(s, v)
      PROVE  Exceeds(ShareOf(l, name, u), ShareOf(l, name, v))
  <2>1. CASE Holds(s, v)
    BY <1>2, <1>3, <1>5, <2>1, ShareFacts
  <2>2. CASE ~Holds(s, v)
    BY <1>2, <1>3, <1>5, <2>2, ShareFacts
  <2> QED BY <2>1, <2>2
<1> QED BY <1>3, <1>4, <1>5 DEF s

----------------------------------------------------------------------------
(* The fusion of two rankings. *)

StandingSet == [unit : Nat, row : Nat, first : Nat, score : Fraction]

\* Two rankings of rows that are kept.
Both(l, keep) ==
  /\ DOMAIN l = {"bm25", "dense"} /\ keep \in SUBSET Rows
  /\ \A n \in DOMAIN l : l[n] \in Seq(Entry) /\ Ranking(l[n], keep)

Found(l, u) == \E n \in DOMAIN l : Holds(l[n], u)

\* A unit that is found stands by a row of it that is kept.
LEMMA StandingFacts ==
  ASSUME NEW l, NEW keep, Both(l, keep), NEW u, Found(l, u)
  PROVE  /\ u \in UnitsOf(keep)
         /\ Standing(l, u) \in StandingSet
         /\ Standing(l, u).unit = u
         /\ Standing(l, u).score = FusedScore(l, u)
         /\ Standing(l, u).row \in keep /\ Parts[Standing(l, u).row].unit = u
<1> DEFINE in == {n \in DOMAIN l : Holds(l[n], u)}
           places == {Place(l[n], u) : n \in in}
           first == Min(places)
           best == IF "bm25" \in in /\ Place(l["bm25"], u) = first THEN "bm25" ELSE "dense"
<1>1. \A n \in in : Place(l[n], u) \in 1..Len(l[n]) /\ l[n][Place(l[n], u)].unit = u /\ l[n] \in Seq(Entry)
  BY PlaceFacts DEF Both
<1>2. \A n \in in : Len(l[n]) \in Nat
  BY <1>1
<1>3. places \subseteq Nat /\ places # {}
  BY <1>1, <1>2 DEF Found
<1>4. first \in places
  <2> HIDE DEF places
  <2> DEFINE N == places
  <2>1. PICK x \in places : \A y \in places : x <= y
    <3>1. PICK x \in N : \A y \in N : ~(<<y, x>> \in OpToRel(<, Nat))
      <4>1. IsWellFoundedOn(OpToRel(<, Nat), Nat)
        BY NatLessThanWellFounded
      <4> QED BY Zenon, <1>3, <4>1, WFMin
    <3>2. \A y \in N : ~(y < x)
      BY <1>3, <3>1 DEF OpToRel
    <3> QED BY <1>3, <3>2
  <2> QED BY <2>1 DEF Min
<1> HIDE DEF first
<1>5. best \in in /\ Place(l[best], u) = first
  <2>1. PICK n \in in : Place(l[n], u) = first
    BY <1>4
  <2>2. n \in {"bm25", "dense"}
    BY DEF Both
  <2> QED BY <2>1, <2>2
<1>6. Standing(l, u) = [unit |-> u, row |-> l[best][first].row, first |-> first, score |-> FusedScore(l, u)]
  BY DEF Standing, first
<1> HIDE DEF best
<1>7. first \in 1..Len(l[best]) /\ l[best][first].unit = u /\ l[best] \in Seq(Entry) /\ Ranking(l[best], keep)
  BY <1>1, <1>5 DEF Both
<1> HIDE DEF in, places
<1>8. l[best][first].row \in keep /\ Parts[l[best][first].row].unit = u /\ first \in Nat
  <2>1. Len(l[best]) \in Nat
    BY <1>7
  <2> QED BY <1>7, <2>1 DEF Ranking
<1>9. FusedScore(l, u) \in Fraction
  <2>1. ShareOf(l, "bm25", u) \in Fraction /\ ShareOf(l, "dense", u) \in Fraction
    <3>1. "bm25" \in DOMAIN l /\ "dense" \in DOMAIN l
      BY DEF Both
    <3>2. l["bm25"] \in Seq(Entry) /\ Ranking(l["bm25"], keep) /\ l["dense"] \in Seq(Entry) /\ Ranking(l["dense"], keep)
      BY <3>1 DEF Both
    <3> QED BY <3>2, ShareOfFacts
  <2> QED BY <2>1, SumIsFraction DEF FusedScore
<1>10. l[best][first].row \in Nat /\ u \in Nat /\ u \in UnitsOf(keep)
  BY <1>8, RowsFacts DEF Both, UnitsOf
<1> QED BY <1>6, <1>8, <1>9, <1>10 DEF StandingSet

\* Of two units one comes first.
LEMMA StandsBeforeIsStrict ==
  ASSUME NEW S, S \subseteq StandingSet, \A a, b \in S : a.unit = b.unit => a = b
  PROVE  StrictOrder(S, {p \in S \X S : StandsBefore(p[1], p[2])})
<1> DEFINE R == {p \in S \X S : StandsBefore(p[1], p[2])}
<1>1. \A a, b \in S : <<a, b>> \in R <=> StandsBefore(a, b)
  OBVIOUS
<1> HIDE DEF R
<1>2. \A a \in S : a.score \in Fraction /\ a.first \in Nat /\ a.unit \in Nat
  BY DEF StandingSet
<1>3. ASSUME NEW a \in S, NEW b \in S, a # b
      PROVE  StandsBefore(a, b) \/ StandsBefore(b, a)
  <2>1. a.unit # b.unit
    BY <1>3
  <2> QED BY <1>2, <2>1 DEF StandsBefore
<1>4. ASSUME NEW a \in S, NEW b \in S, StandsBefore(a, b)
      PROVE  ~StandsBefore(b, a)
  <2>1. ~Exceeds(a.score, b.score) \/ ~Exceeds(b.score, a.score)
    BY <1>2, ExceedsOneWay
  <2> QED BY <1>2, <1>4, <2>1 DEF StandsBefore
<1>5. ASSUME NEW a \in S, NEW b \in S, NEW c \in S, StandsBefore(a, b), StandsBefore(b, c)
      PROVE  StandsBefore(a, c)
  <2>1. /\ ~Exceeds(b.score, a.score) /\ ~Exceeds(c.score, b.score)
    BY <1>2, <1>5, ExceedsOneWay DEF StandsBefore
  <2>2. ~Exceeds(c.score, a.score)
    BY <1>2, <2>1, AtMostTransitive
  <2>3. CASE Exceeds(a.score, c.score)
    BY <2>3 DEF StandsBefore
  <2>4. CASE ~Exceeds(a.score, c.score)
    <3>1. ~Exceeds(a.score, b.score)
      BY <1>2, <2>1, <2>4, AtMostTransitive
    <3>2. ~Exceeds(b.score, c.score)
      BY <1>2, <2>1, <2>4, AtMostTransitive
    <3> QED BY <1>2, <1>5, <2>2, <3>1, <3>2 DEF StandsBefore
  <2> QED BY <2>3, <2>4
<1> QED BY <1>1, <1>3, <1>4, <1>5 DEF StrictOrder, R

\* The fusion ranks what some searcher found, the greater score first.
LEMMA RrfFacts ==
  ASSUME NEW l, NEW keep, Both(l, keep)
  PROVE  LET s == Rrf(l)
         IN  /\ s \in Seq(StandingSet) /\ Ranking(s, keep)
             /\ \A u : Found(l, u) <=> Holds(s, u)
             /\ \A u, v : Found(l, u) /\ Found(l, v) /\ Exceeds(FusedScore(l, u), FusedScore(l, v)) =>
                  Place(s, u) < Place(s, v)
<1> DEFINE units == {v \in Units : \E n \in DOMAIN l : Holds(l[n], v)}
           found == {Standing(l, u) : u \in units}
           R == {p \in found \X found : StandsBefore(p[1], p[2])}
           s == InOrder(found, R)
           m == Cardinality(found)
<1>1. \A u : Found(l, u) =>
        /\ u \in UnitsOf(keep)
        /\ Standing(l, u) \in StandingSet
        /\ Standing(l, u).unit = u
        /\ Standing(l, u).score = FusedScore(l, u)
        /\ Standing(l, u).row \in keep /\ Parts[Standing(l, u).row].unit = u
  BY StandingFacts
<1>2. UnitsOf(keep) \subseteq Units /\ \A u : u \in units <=> Found(l, u)
  <2>1. UnitsOf(keep) \subseteq Units
    BY DEF UnitsOf, Units, Both
  <2> QED BY <1>1, <2>1 DEF Found
<1>3. IsFiniteSet(UnitsOf(keep))
  BY UnitsFinite DEF Both
<1>4. IsFiniteSet(found) /\ m \in Nat
  <2>1. units \in SUBSET UnitsOf(keep)
    BY <1>1, <1>2
  <2> HIDE DEF units
  <2>2. IsFiniteSet(units)
    BY <1>3, <2>1, FS_Subset
  <2> DEFINE f == [u \in units |-> Standing(l, u)]
  <2>3. DOMAIN f = units /\ found = {f[u] : u \in units}
    OBVIOUS
  <2> HIDE DEF f, found
  <2> QED BY <2>2, <2>3, ImageBound, FS_CardinalityType
<1>5. \A x \in found : x \in StandingSet /\ Found(l, x.unit) /\ x = Standing(l, x.unit)
  BY <1>1, <1>2
<1>6. \A u : Found(l, u) => Standing(l, u) \in found
  BY <1>2
<1> HIDE DEF units, found
<1>7. StrictOrder(found, R)
  <2>1. found \subseteq StandingSet /\ \A a, b \in found : a.unit = b.unit => a = b
    BY <1>5
  <2> QED BY <2>1, StandsBeforeIsStrict
<1>8. \A a, b \in found : <<a, b>> \in R <=> StandsBefore(a, b)
  OBVIOUS
<1> HIDE DEF R
<1>9. /\ s \in [1..m -> found]
      /\ \A i, j \in 1..m : s[i] = s[j] => i = j
      /\ \A x \in found : \E i \in 1..m : s[i] = x
      /\ \A i, j \in 1..m : i < j => <<s[i], s[j]>> \in R
  BY <1>4, <1>7, InOrderFacts
<1>10. Rrf(l) = s
  BY DEF Rrf, found, R, units
<1> HIDE DEF s, m
<1>11. s \in Seq(StandingSet) /\ Len(s) = m
  BY <1>4, <1>5, <1>9
<1>12. \A i \in 1..m : s[i] \in found
  BY <1>9
<1>13. Ranking(s, keep)
  <2>1. ASSUME NEW i \in 1..m, NEW j \in 1..m, s[i].unit = s[j].unit
        PROVE  i = j
    <3>1. s[i] = s[j]
      BY <1>5, <1>12, <2>1
    <3> QED BY <1>9, <3>1
  <2>2. ASSUME NEW i \in 1..m
        PROVE  s[i].row \in keep /\ Parts[s[i].row].unit = s[i].unit
    <3>1. s[i] = Standing(l, s[i].unit) /\ Found(l, s[i].unit)
      BY <1>5, <1>12
    <3> QED BY <1>1, <3>1
  <2> QED BY <1>11, <2>1, <2>2 DEF Ranking
<1>14. ASSUME NEW u, Found(l, u)
       PROVE  Holds(s, u) /\ Place(s, u) \in 1..m /\ s[Place(s, u)] = Standing(l, u)
  <2>1. PICK i \in 1..m : s[i] = Standing(l, u)
    BY <1>6, <1>9, <1>14
  <2>2. s[i].unit = u
    BY <1>1, <1>14, <2>1
  <2> QED BY <1>11, <1>13, <2>1, <2>2, PlaceFacts
<1>15. ASSUME NEW u, NEW v, Found(l, u), Found(l, v), Exceeds(FusedScore(l, u), FusedScore(l, v))
       PROVE  Place(s, u) < Place(s, v)
  <2> DEFINE a == Standing(l, u)
             b == Standing(l, v)
  <2>1. a \in found /\ b \in found /\ StandsBefore(a, b)
    BY <1>1, <1>6, <1>15 DEF StandsBefore
  <2>2. <<a, b>> \in R /\ <<b, a>> \notin R /\ a # b
    BY <1>7, <1>8, <2>1 DEF StrictOrder
  <2>3. /\ Place(s, u) \in 1..m /\ s[Place(s, u)] = a
        /\ Place(s, v) \in 1..m /\ s[Place(s, v)] = b
    BY <1>14, <1>15
  <2> HIDE DEF a, b
  <2>4. ~(Place(s, v) < Place(s, u)) /\ Place(s, v) # Place(s, u)
    BY <1>9, <2>2, <2>3
  <2> QED BY <1>4, <2>3, <2>4
<1>16. \A u : Found(l, u) <=> Holds(s, u)
  <2>1. SUFFICES ASSUME NEW u, Holds(s, u) PROVE Found(l, u)
    BY <1>14
  <2>2. Place(s, u) \in 1..m /\ s[Place(s, u)].unit = u
    BY <1>11, <1>13, <2>1, PlaceFacts
  <2> QED BY <1>5, <1>12, <2>2
<1> QED BY <1>10, <1>11, <1>13, <1>15, <1>16

\* One of two units no searcher places behind the other, and some searcher before it.
Ahead(s, u, v) == Holds(s, u) /\ (Holds(s, v) => Place(s, u) < Place(s, v))
Neither(s, u, v) == ~Holds(s, u) /\ ~Holds(s, v)

\* What the searchers agree on decides the score.
LEMMA AgreedScore ==
  ASSUME NEW l, NEW keep, Both(l, keep), NEW u, NEW v,
         \A n \in DOMAIN l : Ahead(l[n], u, v) \/ Neither(l[n], u, v),
         \E n \in DOMAIN l : Ahead(l[n], u, v)
  PROVE  Exceeds(FusedScore(l, u), FusedScore(l, v))
<1>1. DOMAIN l = {"bm25", "dense"} /\ \A n \in DOMAIN l : l[n] \in Seq(Entry) /\ Ranking(l[n], keep)
  BY DEF Both
<1>2. ASSUME NEW n \in DOMAIN l
      PROVE  /\ ShareOf(l, n, u) \in Fraction /\ ShareOf(l, n, v) \in Fraction
             /\ Ahead(l[n], u, v) => Exceeds(ShareOf(l, n, u), ShareOf(l, n, v))
             /\ Neither(l[n], u, v) => ShareOf(l, n, u) = ShareOf(l, n, v)
  <2>1. l[n] \in Seq(Entry) /\ Ranking(l[n], keep)
    BY <1>1
  <2>2. ShareOf(l, n, u) \in Fraction /\ ShareOf(l, n, v) \in Fraction
    BY <2>1, ShareOfFacts
  <2>3. Ahead(l[n], u, v) => Exceeds(ShareOf(l, n, u), ShareOf(l, n, v))
    BY <2>1, ShareOfFacts DEF Ahead
  <2>4. Neither(l[n], u, v) => ShareOf(l, n, u) = ShareOf(l, n, v)
    BY <2>1, ShareOfFacts DEF Neither
  <2> QED BY <2>2, <2>3, <2>4
<1> DEFINE a(n) == ShareOf(l, n, u)
           c(n) == ShareOf(l, n, v)
<1>3. \A n \in DOMAIN l : a(n) \in Fraction /\ c(n) \in Fraction /\ ~Exceeds(c(n), a(n))
  <2>1. SUFFICES ASSUME NEW n \in DOMAIN l PROVE a(n) \in Fraction /\ c(n) \in Fraction /\ ~Exceeds(c(n), a(n))
    OBVIOUS
  <2>2. a(n) \in Fraction /\ c(n) \in Fraction /\ (Exceeds(a(n), c(n)) \/ a(n) = c(n))
    BY <1>2
  <2> HIDE DEF a, c
  <2> QED BY <2>2, ExceedsOneWay
<1>4. \E n \in DOMAIN l : Exceeds(a(n), c(n))
  BY <1>2
<1>5. FusedScore(l, u) = Sum2(a("bm25"), a("dense")) /\ FusedScore(l, v) = Sum2(c("bm25"), c("dense"))
  BY DEF FusedScore
<1>6. /\ a("bm25") \in Fraction /\ a("dense") \in Fraction /\ c("bm25") \in Fraction /\ c("dense") \in Fraction
      /\ ~Exceeds(c("bm25"), a("bm25")) /\ ~Exceeds(c("dense"), a("dense"))
      /\ Exceeds(a("bm25"), c("bm25")) \/ Exceeds(a("dense"), c("dense"))
  <2> HIDE DEF a, c
  <2> QED BY <1>1, <1>3, <1>4
<1> HIDE DEF a, c
<1> QED BY <1>5, <1>6, SumExceeds

----------------------------------------------------------------------------
(* The result. *)

\* The head of a ranking as hits.
LEMMA HitsFacts ==
  ASSUME NEW keep \in SUBSET Rows, NEW X, NEW list \in Seq(X), Ranking(list, keep), NEW s,
         s = Take([i \in DOMAIN list |-> Hit(list[i])], Depth)
  PROVE  /\ s \in Seq(HitSet) /\ Ranking(s, keep)
         /\ Len(list) <= Depth => \A u : Holds(list, u) => Holds(s, u)
         /\ \A u, v : Holds(s, v) => Holds(list, v)
         /\ \A u, v : Holds(s, v) /\ Holds(list, u) /\ Place(list, u) < Place(list, v) =>
              Holds(s, u) /\ Place(s, u) < Place(s, v)
<1> DEFINE all == [i \in DOMAIN list |-> Hit(list[i])]
           n == Len(list)
           m == Len(s)
<1>1. n \in Nat /\ DOMAIN list = 1..n /\ Depth \in Nat
  BY RetrievalAssumption
<1>2. \A i \in 1..n : list[i].row \in keep /\ list[i].row \in Nat /\ list[i].unit \in Nat
                      /\ Parts[list[i].row].unit = list[i].unit
  BY RowsFacts DEF Ranking
<1>3. \A i \in 1..n : Hit(list[i]) \in HitSet /\ Hit(list[i]).unit = list[i].unit /\ Hit(list[i]).row = list[i].row
  BY <1>2 DEF Hit, HitSet
<1>4. /\ all \in Seq(HitSet) /\ Len(all) = n
      /\ \A i \in 1..n : all[i].unit = list[i].unit /\ all[i].row = list[i].row
  <2>1. all = [i \in 1..n |-> Hit(list[i])]
    BY <1>1
  <2>2. n \in Nat
    BY <1>1
  <2> HIDE DEF n, all
  <2>3. \A i \in 1..n : all[i] = Hit(list[i])
    BY <2>1
  <2>4. all = [i \in 1..n |-> all[i]] /\ \A i \in 1..n : all[i] \in HitSet
    BY <1>3, <2>1, <2>3
  <2>5. all \in Seq(HitSet) /\ Len(all) = n
    BY <2>2, <2>4, IsList
  <2> QED BY <1>3, <2>3, <2>5
<1> HIDE DEF all
<1>5. /\ s \in Seq(HitSet) /\ m = (IF n < Depth THEN n ELSE Depth)
      /\ \A i \in 1..m : i \in 1..n /\ s[i] = all[i]
  <2>1. s = Take(all, Depth)
    BY DEF all
  <2>2. /\ Take(all, Depth) \in Seq(HitSet)
        /\ Len(Take(all, Depth)) = IF Len(all) < Depth THEN Len(all) ELSE Depth
        /\ \A i \in 1..Len(Take(all, Depth)) : i \in 1..Len(all) /\ Take(all, Depth)[i] = all[i]
    <3>1. all \in Seq(HitSet) /\ Depth \in Nat
      BY <1>1, <1>4
    <3> HIDE DEF m
    <3> QED BY <3>1, TakeFacts
  <2> QED BY <1>4, <2>1, <2>2
<1>6. m \in Nat /\ \A i \in 1..m : i \in 1..n /\ s[i].unit = list[i].unit /\ s[i].row = list[i].row
  BY <1>1, <1>4, <1>5
<1>7. Ranking(s, keep)
  BY <1>2, <1>6 DEF Ranking
<1>8. ASSUME NEW u, Holds(s, u)
      PROVE  Holds(list, u) /\ Place(list, u) = Place(s, u) /\ Place(s, u) \in 1..m
  <2>1. Place(s, u) \in 1..m /\ s[Place(s, u)].unit = u
    BY <1>5, <1>7, <1>8, PlaceFacts
  <2> QED BY <1>6, <2>1, PlaceFacts
<1>9. ASSUME NEW u, Holds(list, u), Place(list, u) <= m
      PROVE  Holds(s, u)
  <2>1. Place(list, u) \in 1..n /\ list[Place(list, u)].unit = u
    BY <1>9, PlaceFacts
  <2>2. Place(list, u) \in 1..m
    BY <1>1, <1>6, <1>9, <2>1
  <2>3. s[Place(list, u)].unit = u
    BY <1>6, <2>1, <2>2
  <2> QED BY <1>5, <1>7, <2>2, <2>3, PlaceFacts
<1>10. ASSUME n <= Depth, NEW u, Holds(list, u)
       PROVE  Holds(s, u)
  <2>1. Place(list, u) \in 1..n
    BY <1>10, PlaceFacts
  <2>2. Place(list, u) <= m
    BY <1>1, <1>5, <1>10, <2>1
  <2> QED BY <1>9, <1>10, <2>2
<1>11. ASSUME NEW u, NEW v, Holds(s, v), Holds(list, u), Place(list, u) < Place(list, v)
       PROVE  Holds(s, u) /\ Place(s, u) < Place(s, v)
  <2>1. Place(list, v) = Place(s, v) /\ Place(s, v) \in 1..m /\ Place(list, u) \in 1..n
    BY <1>8, <1>11, PlaceFacts
  <2>2. Place(list, u) <= m
    BY <1>1, <1>6, <1>11, <2>1
  <2>3. Holds(s, u) /\ Place(list, u) = Place(s, u)
    BY <1>8, <1>9, <1>11, <2>2
  <2> QED BY <1>11, <2>1, <2>3
<1> QED BY <1>5, <1>7, <1>8, <1>10, <1>11

\* The reranker moves hits of the head among themselves.
LEMMA RerankedFacts ==
  ASSUME NEW keep \in SUBSET Rows, NEW s \in Seq(HitSet), Ranking(s, keep),
         NEW m \in Nat, m <= Len(s), NEW score \in [1..m -> Scores]
  PROVE  LET t == Reranked(s, score)
         IN  /\ t \in Seq(HitSet) /\ Ranking(t, keep)
             /\ \A u : Holds(s, u) => Holds(t, u)
<1> DEFINE n == Len(s)
           S == 1..m
           p == InOrder(S, Falling(score, S))
           at(i) == IF i \in 1..m THEN p[i] ELSE i
           t == Reranked(s, score)
<1>1. n \in Nat /\ DOMAIN s = 1..n /\ DOMAIN score = 1..m
  OBVIOUS
<1>2. IsFiniteSet(1..m) /\ Cardinality(1..m) = m
  <2>1. 1 \in Int /\ m \in Int
    OBVIOUS
  <2>2. IsFiniteSet(1..m) /\ Cardinality(1..m) = IF 1 > m THEN 0 ELSE m - 1 + 1
    BY <2>1, FS_Interval
  <2> QED BY <2>2
<1>3. StrictOrder(1..m, Falling(score, 1..m))
  <2>1. Scores \subseteq Int
    BY RetrievalAssumption
  <2>2. \A x \in 1..m : score[x] \in Int
    <3>1. \A x \in 1..m : score[x] \in Scores
      OBVIOUS
    <3> QED BY <2>1, <3>1
  <2>3. 1..m \subseteq Int
    OBVIOUS
  <2> QED BY <2>2, <2>3, FallingIsStrict
<1>4. /\ p \in [1..m -> 1..m]
      /\ \A i, j \in 1..m : p[i] = p[j] => i = j
      /\ \A x \in 1..m : \E i \in 1..m : p[i] = x
  <2> DEFINE k == Cardinality(S)
  <2>1. IsFiniteSet(S) /\ StrictOrder(S, Falling(score, S)) /\ k = m
    BY <1>2, <1>3
  <2> HIDE DEF S
  <2>2. /\ p \in [1..k -> S]
        /\ \A i, j \in 1..k : p[i] = p[j] => i = j
        /\ \A x \in S : \E i \in 1..k : p[i] = x
    BY <2>1, InOrderFacts
  <2> HIDE DEF k, p
  <2> QED BY <2>1, <2>2 DEF S
<1>5. Order(score) = p
  BY <1>1 DEF Order
<1> HIDE DEF p
<1>6. \A i \in 1..n : s[i] \in HitSet
  OBVIOUS
<1>7. \A i \in 1..n : at(i) \in 1..n /\ (i \in 1..m => p[i] \in 1..m)
  <2> HIDE DEF n
  <2> QED BY <1>1, <1>4
<1>8. \A i, j \in 1..n : at(i) = at(j) => i = j
  <2>1. SUFFICES ASSUME NEW i \in 1..n, NEW j \in 1..n, at(i) = at(j) PROVE i = j
    OBVIOUS
  <2>2. i \in 1..m <=> j \in 1..m
    BY <1>7, <2>1
  <2>3. CASE i \in 1..m
    BY <1>4, <2>1, <2>2, <2>3
  <2>4. CASE i \notin 1..m
    BY <2>1, <2>2, <2>4
  <2> QED BY <2>3, <2>4
<1>9. \A k \in 1..n : \E i \in 1..n : at(i) = k
  <2>1. SUFFICES ASSUME NEW k \in 1..n PROVE \E i \in 1..n : at(i) = k
    OBVIOUS
  <2> HIDE DEF n
  <2>2. CASE k \in 1..m
    <3>1. PICK i \in 1..m : p[i] = k
      BY <1>4, <2>2
    <3>2. i \in 1..n
      BY <1>1 DEF n
    <3> QED BY <3>1, <3>2
  <2>3. CASE k \notin 1..m
    BY <2>3
  <2> QED BY <2>2, <2>3
<1>10. ASSUME NEW i \in 1..n
       PROVE  t[i] \in HitSet /\ t[i].unit = s[at(i)].unit /\ t[i].row = s[at(i)].row
  <2>1. t[i] = IF i \in 1..m THEN [s[p[i]] EXCEPT !.reranked = TRUE, !.score = score[p[i]]] ELSE s[i]
    BY <1>1, <1>5 DEF Reranked
  <2>2. CASE i \in 1..m
    <3> DEFINE h == s[p[i]]
               e == score[p[i]]
    <3>1. p[i] \in 1..m /\ p[i] \in 1..n
      BY <1>7, <2>2
    <3>2. h \in HitSet /\ e \in Nat
      BY <1>6, <3>1, RetrievalAssumption
    <3>3. t[i] = [h EXCEPT !.reranked = TRUE, !.score = e]
      BY <2>1, <2>2
    <3> HIDE DEF h, e
    <3>4. t[i] \in HitSet /\ t[i].unit = h.unit /\ t[i].row = h.row
      BY <3>2, <3>3 DEF HitSet
    <3> QED BY <2>2, <3>4 DEF h
  <2>3. CASE i \notin 1..m
    BY <1>6, <2>1, <2>3
  <2> QED BY <2>2, <2>3
<1>11. t \in Seq(HitSet) /\ Len(t) = n
  <2>1. t = [i \in 1..n |-> t[i]]
    BY <1>1 DEF Reranked
  <2>2. \A i \in 1..n : t[i] \in HitSet
    BY <1>10
  <2>3. n \in Nat
    BY <1>1
  <2> HIDE DEF t, n, p, at, S
  <2> QED BY <2>1, <2>2, <2>3, IsList
<1> HIDE DEF t
<1>12. Ranking(t, keep)
  <2>1. ASSUME NEW i \in 1..n, NEW j \in 1..n, t[i].unit = t[j].unit
        PROVE  i = j
    <3>1. at(i) \in 1..n /\ at(j) \in 1..n /\ s[at(i)].unit = s[at(j)].unit
      BY <1>7, <1>10, <2>1
    <3>2. at(i) = at(j)
      <4> HIDE DEF at
      <4> QED BY <3>1 DEF Ranking
    <3> QED BY <1>8, <3>2
  <2>2. ASSUME NEW i \in 1..n
        PROVE  t[i].row \in keep /\ Parts[t[i].row].unit = t[i].unit
    <3>1. at(i) \in 1..n /\ t[i].unit = s[at(i)].unit /\ t[i].row = s[at(i)].row
      BY <1>7, <1>10
    <3> HIDE DEF at
    <3> QED BY <3>1 DEF Ranking
  <2> QED BY <1>11, <2>1, <2>2 DEF Ranking
<1>13. ASSUME NEW u, Holds(s, u)
       PROVE  Holds(t, u)
  <2>1. PICK k \in 1..n : s[k].unit = u
    BY <1>13, PlaceFacts
  <2>2. PICK i \in 1..n : at(i) = k
    BY <1>9
  <2>3. t[i].unit = u
    BY <1>10, <2>1, <2>2
  <2> QED BY <1>11, <1>12, <2>3, PlaceFacts
<1> QED BY <1>11, <1>12, <1>13 DEF t

----------------------------------------------------------------------------
(* The inductive invariant of a search. *)

\* The vectors are asked, and no more units pass the filters than they return.
Roomy == "dense" \in config.use /\ Cardinality(UnitsOf(Allowed)) <= Min({KDense, Depth})

Full(s) == \A u \in UnitsOf(Allowed) : Holds(s, u)

\* The searchers that have ranked.
Asked ==
  CASE pc \in {"parse", "bm25"} -> {}
    [] pc = "dense" -> config.use \cap {"bm25"}
    [] OTHER -> config.use

ListsOK ==
  /\ DOMAIN lists = Asked
  /\ \A n \in DOMAIN lists : lists[n] \in Seq(Entry) /\ Ranking(lists[n], Allowed)
  /\ Roomy /\ "dense" \in DOMAIN lists => Full(lists["dense"])

ResultOK(s) == s \in Seq(HitSet) /\ Ranking(s, Allowed) /\ (Roomy => Full(s))

SearchInv ==
  /\ pc \in {"parse", "bm25", "dense", "fuse", "rerank", "sources", "answer"}
  /\ question \in Questions
  /\ config.use \in (SUBSET {"bm25", "dense"}) \ {{}}
  /\ ListsOK
  /\ IF pc \in {"parse", "bm25", "dense", "fuse"} THEN fused = <<>> ELSE ResultOK(fused) /\ ResultOK(ranked)
  /\ AgreementKept

LEMMA AllowedFacts == Allowed \in SUBSET Rows
BY DEF Allowed

LEMMA SingleFacts ==
  ASSUME config.use \in (SUBSET {"bm25", "dense"}) \ {{}}
  PROVE  /\ Single => \E n \in {"bm25", "dense"} : config.use = {n}
         /\ ~Single => config.use = {"bm25", "dense"}
<1>1. \/ config.use = {"bm25"}
      \/ config.use = {"dense"}
      \/ config.use = {"bm25", "dense"}
  OBVIOUS
<1>2. Cardinality({"bm25"}) = 1 /\ Cardinality({"dense"}) = 1
  BY FS_Singleton
<1>3. Cardinality({"bm25", "dense"}) = 2
  <2>1. IsFiniteSet({"bm25"}) /\ "dense" \notin {"bm25"} /\ {"bm25", "dense"} = {"bm25"} \cup {"dense"}
    BY FS_Singleton
  <2>2. Cardinality({"bm25"} \cup {"dense"}) = Cardinality({"bm25"}) + 1
    BY <2>1, FS_AddElement
  <2> QED BY <1>2, <2>1, <2>2
<1> QED BY <1>1, <1>2, <1>3 DEF Single

\* Without a result, nothing is out of order.
LEMMA NoneOutOfOrder ==
  ASSUME fused = <<>>
  PROVE  AgreementKept
<1>1. \A v : ~Holds(fused, v)
  BY DEF Holds
<1> QED BY <1>1 DEF AgreementKept

LEMMA NoneOutOfOrderNext ==
  ASSUME fused' = <<>>
  PROVE  AgreementKept'
<1>1. \A v : ~Holds(fused', v)
  BY DEF Holds
<1> QED BY <1>1 DEF AgreementKept, Holds

\* What a searcher that is asked does to the lists.
LEMMA RankAdds ==
  ASSUME NEW name \in {"bm25", "dense"}, NEW k \in Nat, NEW positive \in BOOLEAN, name \in config.use,
         Rank(name, k, positive), \A n \in DOMAIN lists : lists[n] \in Seq(Entry) /\ Ranking(lists[n], Allowed)
  PROVE  /\ DOMAIN lists' = DOMAIN lists \cup {name}
         /\ \A n \in DOMAIN lists' : lists'[n] \in Seq(Entry) /\ Ranking(lists'[n], Allowed)
         /\ name \notin DOMAIN lists /\ ~positive /\ Cardinality(UnitsOf(Allowed)) <= (IF Single THEN Depth ELSE k) =>
              \A u \in UnitsOf(Allowed) : Holds(lists'[name], u)
         /\ \A n \in DOMAIN lists : lists'[n] = lists[n]
<1> DEFINE limit == IF Single THEN Depth ELSE k
<1>1. PICK score \in [Rows -> Scores] :
        lists' = Over(lists, [n \in {name} |-> RankUnits(score, Mask(filters), limit, positive)])
  BY DEF Rank
<1> DEFINE keep == {r \in Allowed : positive => score[r] > 0}
           list == RankRows(score, keep, limit)
<1>2. RankUnits(score, Mask(filters), limit, positive) = list
  <2>1. Mask(filters) = Allowed
    BY DEF Mask, Allowed
  <2> QED BY <2>1 DEF RankUnits
<1>3. keep \in SUBSET Rows /\ keep \subseteq Allowed /\ limit \in Nat
  BY AllowedFacts, RetrievalAssumption
<1> HIDE DEF limit
<1>4. /\ list \in Seq(Entry)
      /\ \A i, j \in 1..Len(list) : list[i].unit = list[j].unit => i = j
      /\ \A i \in 1..Len(list) : list[i].row \in keep /\ Parts[list[i].row].unit = list[i].unit
      /\ Cardinality(UnitsOf(keep)) <= limit => \A u \in UnitsOf(keep) : Holds(list, u)
  <2> HIDE DEF keep
  <2> QED BY <1>3, RankRowsFacts
<1>5. Ranking(list, Allowed)
  BY <1>3, <1>4 DEF Ranking
<1>6. lists' = [n \in DOMAIN lists \cup {name} |-> IF n \in DOMAIN lists THEN lists[n] ELSE list]
  BY <1>1, <1>2 DEF Over
<1>7. ~positive => keep = Allowed
  OBVIOUS
<1> HIDE DEF list, keep
<1> QED BY <1>4, <1>5, <1>6, <1>7 DEF limit

LEMMA SearchStarts ==
  ASSUME SearchInit
  PROVE  SearchInv
<1>1. /\ pc = "parse" /\ question \in Questions /\ config.use \in (SUBSET {"bm25", "dense"}) \ {{}}
      /\ lists = <<>> /\ fused = <<>>
  BY DEF SearchInit
<1>2. ListsOK
  BY <1>1 DEF ListsOK, Asked
<1>3. AgreementKept
  BY <1>1, NoneOutOfOrder
<1> QED BY <1>1, <1>2, <1>3 DEF SearchInv

LEMMA ParseInv ==
  ASSUME SearchInv, Parse
  PROVE  SearchInv'
<1>1. /\ pc = "parse" /\ pc' = "bm25" /\ UNCHANGED <<question, config, lists, fused, ranked, sources>>
  BY DEF Parse
<1>2. DOMAIN lists = {} /\ fused = <<>>
  BY <1>1 DEF SearchInv, ListsOK, Asked
<1>3. ListsOK'
  BY <1>1, <1>2 DEF ListsOK, Asked
<1>4. AgreementKept'
  <2>1. fused' = <<>>
    BY <1>1, <1>2
  <2> QED BY <2>1, NoneOutOfOrderNext
<1> QED BY <1>1, <1>2, <1>3, <1>4 DEF SearchInv

LEMMA RankInv ==
  ASSUME SearchInv, Bm25 \/ Dense
  PROVE  SearchInv'
<1>1. /\ pc \in {"bm25", "dense"} /\ UNCHANGED <<question, config, filters, fused, ranked, sources>>
      /\ pc' = IF pc = "bm25" THEN "dense" ELSE "fuse"
  BY DEF Bm25, Dense
<1>2. /\ question \in Questions /\ config.use \in (SUBSET {"bm25", "dense"}) \ {{}}
      /\ ListsOK /\ fused = <<>>
  BY <1>1 DEF SearchInv
<1>3. Allowed' = Allowed /\ (Roomy' <=> Roomy)
  BY <1>1 DEF Allowed, Mask, Roomy
<1>4. SUFFICES ListsOK'
  <2>1. AgreementKept'
    <3>1. fused' = <<>>
      BY <1>1, <1>2
    <3> QED BY <3>1, NoneOutOfOrderNext
  <2> QED BY <1>1, <1>2, <1>4, <2>1 DEF SearchInv
<1>5. KBm25 \in Nat /\ KDense \in Nat /\ Depth \in Nat
  BY RetrievalAssumption
<1>6. CASE Bm25
  <2>1. pc = "bm25" /\ pc' = "dense" /\ Rank("bm25", KBm25, TRUE)
    BY <1>6 DEF Bm25
  <2>2. DOMAIN lists = {}
    BY <1>2, <2>1 DEF ListsOK, Asked
  <2>3. CASE "bm25" \notin config.use
    <3>1. lists' = lists
      BY <2>1, <2>3 DEF Rank
    <3>2. Asked' = {}
      BY <1>1, <2>1, <2>3 DEF Asked
    <3> QED BY <2>2, <3>1, <3>2 DEF ListsOK
  <2>4. CASE "bm25" \in config.use
    <3>1. /\ DOMAIN lists' = {"bm25"}
          /\ \A n \in DOMAIN lists' : lists'[n] \in Seq(Entry) /\ Ranking(lists'[n], Allowed)
      BY <1>5, <2>1, <2>2, <2>4, RankAdds
    <3>2. Asked' = {"bm25"}
      BY <1>1, <2>1, <2>4 DEF Asked
    <3> QED BY <1>3, <3>1, <3>2 DEF ListsOK
  <2> QED BY <2>3, <2>4
<1>7. CASE Dense
  <2>1. pc = "dense" /\ pc' = "fuse" /\ Rank("dense", KDense, FALSE)
    BY <1>7 DEF Dense
  <2>2. /\ DOMAIN lists = config.use \cap {"bm25"} /\ Asked' = config.use
        /\ \A n \in DOMAIN lists : lists[n] \in Seq(Entry) /\ Ranking(lists[n], Allowed)
    BY <1>1, <1>2, <2>1 DEF ListsOK, Asked
  <2>3. CASE "dense" \notin config.use
    <3>1. lists' = lists
      BY <2>1, <2>3 DEF Rank
    <3>2. config.use = config.use \cap {"bm25"}
      BY <1>2, <2>3
    <3> QED BY <1>3, <2>2, <2>3, <3>1, <3>2 DEF ListsOK
  <2>4. CASE "dense" \in config.use
    <3>1. /\ DOMAIN lists' = DOMAIN lists \cup {"dense"}
          /\ \A n \in DOMAIN lists' : lists'[n] \in Seq(Entry) /\ Ranking(lists'[n], Allowed)
          /\ "dense" \notin DOMAIN lists /\ Cardinality(UnitsOf(Allowed)) <= (IF Single THEN Depth ELSE KDense) =>
               \A u \in UnitsOf(Allowed) : Holds(lists'["dense"], u)
      BY <1>5, <2>1, <2>2, <2>4, RankAdds
    <3>2. DOMAIN lists' = config.use /\ "dense" \notin DOMAIN lists
      BY <1>2, <2>2, <2>4, <3>1
    <3>3. Roomy => Cardinality(UnitsOf(Allowed)) <= (IF Single THEN Depth ELSE KDense)
      <4> DEFINE c == Cardinality(UnitsOf(Allowed))
                 m == Min({KDense, Depth})
      <4>1. c \in Nat
        BY AllowedFacts, UnitsFinite
      <4>2. m \in {KDense, Depth} /\ m <= KDense /\ m <= Depth
        BY <1>5 DEF Min
      <4>3. Roomy => c <= m
        BY DEF Roomy
      <4> HIDE DEF c, m
      <4>4. Roomy => c <= (IF Single THEN Depth ELSE KDense)
        BY <1>5, <4>1, <4>2, <4>3
      <4> QED BY <4>4 DEF c
    <3>4. Roomy' => \A u \in UnitsOf(Allowed)' : Holds(lists'["dense"], u)
      BY <1>3, <3>1, <3>2, <3>3 DEF UnitsOf
    <3> QED BY <1>3, <2>2, <3>1, <3>2, <3>4 DEF ListsOK, Full
  <2> QED BY <2>3, <2>4
<1> QED BY <1>6, <1>7

\* The fused ranking is a result, and follows the searchers where they agree.
LEMMA FuseInv ==
  ASSUME SearchInv, Fuse
  PROVE  SearchInv'
<1>1. /\ pc = "fuse" /\ UNCHANGED <<question, config, filters, lists, sources>> /\ ranked' = fused'
      /\ pc' \in {"rerank", "sources"}
  BY DEF Fuse
<1>2. /\ question \in Questions /\ config.use \in (SUBSET {"bm25", "dense"}) \ {{}}
      /\ DOMAIN lists = config.use
      /\ \A n \in DOMAIN lists : lists[n] \in Seq(Entry) /\ Ranking(lists[n], Allowed)
      /\ Roomy => Full(lists["dense"])
  BY <1>1 DEF SearchInv, ListsOK, Asked, Roomy
<1>3. Allowed' = Allowed /\ (Roomy' <=> Roomy)
  BY <1>1 DEF Allowed, Mask, Roomy
<1> DEFINE list == IF Single THEN lists[CHOOSE n \in config.use : TRUE] ELSE Rrf(lists)
<1>4. fused' = Take([i \in DOMAIN list |-> Hit(list[i])], Depth)
  BY DEF Fuse
<1>5. /\ \E X : list \in Seq(X)
      /\ Ranking(list, Allowed)
      /\ Roomy => Full(list)
      /\ \A u, v : /\ Holds(list, v)
                   /\ \A n \in config.use : Ahead(lists[n], u, v) \/ Neither(lists[n], u, v)
                   /\ \E n \in config.use : Ahead(lists[n], u, v)
                   => Holds(list, u) /\ Place(list, u) < Place(list, v)
  <2>1. CASE Single
    <3>1. PICK n \in {"bm25", "dense"} : config.use = {n}
      BY <1>2, <2>1, SingleFacts
    <3>2. list = lists[n] /\ n \in DOMAIN lists
      BY <1>2, <2>1, <3>1
    <3>3. list \in Seq(Entry) /\ Ranking(list, Allowed)
      BY <1>2, <3>2
    <3>4. Roomy => Full(list)
      BY <1>2, <3>1, <3>2 DEF Roomy
    <3> HIDE DEF list
    <3>5. ASSUME NEW u, NEW v, Holds(list, v), \E k \in config.use : Ahead(lists[k], u, v)
          PROVE  Holds(list, u) /\ Place(list, u) < Place(list, v)
      BY <3>1, <3>2, <3>5 DEF Ahead
    <3> QED BY <3>3, <3>4, <3>5
  <2>2. CASE ~Single
    <3>1. config.use = {"bm25", "dense"} /\ list = Rrf(lists)
      BY <1>2, <2>2, SingleFacts
    <3>2. Both(lists, Allowed)
      BY <1>2, <3>1, AllowedFacts DEF Both
    <3> HIDE DEF list
    <3>3. /\ list \in Seq(StandingSet) /\ Ranking(list, Allowed)
          /\ \A u : Found(lists, u) <=> Holds(list, u)
          /\ \A u, v : Found(lists, u) /\ Found(lists, v) /\ Exceeds(FusedScore(lists, u), FusedScore(lists, v)) =>
               Place(list, u) < Place(list, v)
      BY <3>1, <3>2, RrfFacts
    <3>4. Roomy => Full(list)
      BY <1>2, <3>1, <3>3 DEF Full, Found
    <3>5. ASSUME NEW u, NEW v, Holds(list, v),
                 \A n \in config.use : Ahead(lists[n], u, v) \/ Neither(lists[n], u, v),
                 \E n \in config.use : Ahead(lists[n], u, v)
          PROVE  Holds(list, u) /\ Place(list, u) < Place(list, v)
      <4>1. Exceeds(FusedScore(lists, u), FusedScore(lists, v))
        BY <1>2, <3>2, <3>5, AgreedScore
      <4>2. Found(lists, u) /\ Found(lists, v)
        BY <1>2, <3>3, <3>5 DEF Ahead, Found
      <4> QED BY <3>3, <4>1, <4>2
    <3> QED BY <3>3, <3>4, <3>5
  <2> QED BY <2>1, <2>2
<1> HIDE DEF list
<1>6. PICK X : list \in Seq(X)
  BY <1>5
<1>7. /\ fused' \in Seq(HitSet) /\ Ranking(fused', Allowed)
      /\ Len(list) <= Depth => \A u : Holds(list, u) => Holds(fused', u)
      /\ \A u, v : Holds(fused', v) => Holds(list, v)
      /\ \A u, v : Holds(fused', v) /\ Holds(list, u) /\ Place(list, u) < Place(list, v) =>
           Holds(fused', u) /\ Place(fused', u) < Place(fused', v)
  BY <1>4, <1>5, <1>6, AllowedFacts, HitsFacts
<1>8. Roomy => Len(list) <= Depth
  <2> DEFINE c == Cardinality(UnitsOf(Allowed))
             m == Min({KDense, Depth})
  <2>1. c \in Nat
    BY AllowedFacts, UnitsFinite
  <2>2. m \in {KDense, Depth} /\ m <= Depth /\ m \in Nat /\ Depth \in Nat
    <3>1. KDense \in Nat /\ Depth \in Nat
      BY RetrievalAssumption
    <3> QED BY <3>1 DEF Min
  <2>3. Len(list) <= c /\ Len(list) \in Nat
    BY <1>5, <1>6, AllowedFacts, RankingLength
  <2>4. Roomy => c <= m
    BY DEF Roomy
  <2> HIDE DEF c, m
  <2> QED BY <2>1, <2>2, <2>3, <2>4
<1>9. ResultOK(fused')
  BY <1>5, <1>7, <1>8 DEF ResultOK, Full
<1>10. ResultOK(fused)' /\ ResultOK(ranked)'
  BY <1>1, <1>3, <1>9 DEF ResultOK, Ranking, Full, UnitsOf, Holds
<1>11. AgreementKept'
  <2>1. SUFFICES ASSUME NEW u \in Units, NEW v \in Units, Holds(fused', v),
                        \A n \in config.use : Ahead(lists[n], u, v) \/ Neither(lists[n], u, v),
                        \E n \in config.use : Ahead(lists[n], u, v)
                 PROVE  Holds(fused', u) /\ Place(fused', u) < Place(fused', v)
    <3>1. lists' = lists /\ config' = config
      BY <1>1
    <3> QED BY <2>1, <3>1 DEF AgreementKept, Ahead, Neither
  <2>2. Holds(list, u) /\ Place(list, u) < Place(list, v)
    BY <1>5, <1>7, <2>1
  <2> QED BY <1>7, <2>1, <2>2
<1>12. ListsOK'
  <2>1. Asked' = config.use
    BY <1>1 DEF Asked
  <2> QED BY <1>1, <1>2, <1>3, <2>1 DEF ListsOK, Full, UnitsOf
<1> QED BY <1>1, <1>2, <1>10, <1>11, <1>12 DEF SearchInv

\* The reranker takes nothing from the result.
LEMMA RerankInv ==
  ASSUME SearchInv, Rerank
  PROVE  SearchInv'
<1>1. /\ pc = "rerank" /\ pc' = "sources" /\ UNCHANGED <<question, config, filters, lists, fused, sources>>
  BY DEF Rerank
<1>2. /\ question \in Questions /\ config.use \in (SUBSET {"bm25", "dense"}) \ {{}}
      /\ ListsOK /\ ResultOK(fused) /\ AgreementKept
  BY <1>1 DEF SearchInv
<1>3. /\ Allowed' = Allowed /\ (Roomy' <=> Roomy) /\ Asked' = Asked
  BY <1>1 DEF Allowed, Mask, Roomy, Asked
<1>4. ListsOK' /\ ResultOK(fused)' /\ AgreementKept'
  <2>1. ListsOK' <=> ListsOK
    BY <1>1, <1>3 DEF ListsOK, Full, UnitsOf
  <2>2. ResultOK(fused)' <=> ResultOK(fused)
    BY <1>1, <1>3 DEF ResultOK, Full, UnitsOf
  <2>3. AgreementKept' <=> AgreementKept
    BY <1>1 DEF AgreementKept
  <2> QED BY <1>2, <2>1, <2>2, <2>3
<1>5. ResultOK(ranked)'
  <2> DEFINE head == Take(fused, Candidates)
             m == Len(head)
  <2>1. fused \in Seq(HitSet) /\ Ranking(fused, Allowed) /\ (Roomy => Full(fused))
    BY <1>2 DEF ResultOK
  <2>2. Candidates \in Nat
    BY RetrievalAssumption
  <2>3. head \in Seq(HitSet) /\ m = (IF Len(fused) < Candidates THEN Len(fused) ELSE Candidates)
    BY <2>1, <2>2, TakeFacts
  <2>4. PICK score \in [DOMAIN head -> Scores] : ranked' = Reranked(fused, score)
    BY DEF Rerank
  <2> HIDE DEF head
  <2>5. m \in Nat /\ m <= Len(fused) /\ score \in [1..m -> Scores]
    <3>1. DOMAIN head = 1..m
      BY <2>3
    <3> QED BY <2>1, <2>2, <2>3, <2>4, <3>1
  <2> HIDE DEF m
  <2>6. /\ ranked' \in Seq(HitSet) /\ Ranking(ranked', Allowed)
        /\ \A u : Holds(fused, u) => Holds(ranked', u)
    BY <2>1, <2>4, <2>5, AllowedFacts, RerankedFacts
  <2>7. ResultOK(ranked')
    BY <2>1, <2>6 DEF ResultOK, Full
  <2> QED BY <1>3, <2>7 DEF ResultOK, Ranking, Full, UnitsOf, Holds
<1> QED BY <1>1, <1>2, <1>4, <1>5 DEF SearchInv

LEMMA SourcesInv ==
  ASSUME SearchInv, Sources \/ UNCHANGED searchVars
  PROVE  SearchInv'
<1>1. UNCHANGED <<question, config, filters, lists, fused, ranked>>
  BY DEF Sources, searchVars
<1>2. /\ Allowed' = Allowed /\ (Roomy' <=> Roomy) /\ Asked' = Asked
      /\ pc' = pc \/ (pc = "sources" /\ pc' = "answer")
  BY <1>1 DEF Sources, searchVars, Allowed, Mask, Roomy, Asked
<1>3. ListsOK' <=> ListsOK
  BY <1>1, <1>2 DEF ListsOK, Full, UnitsOf
<1>4. (ResultOK(fused)' <=> ResultOK(fused)) /\ (ResultOK(ranked)' <=> ResultOK(ranked))
  BY <1>1, <1>2 DEF ResultOK, Full, UnitsOf
<1>5. AgreementKept' <=> AgreementKept
  BY <1>1 DEF AgreementKept
<1> QED BY <1>1, <1>2, <1>3, <1>4, <1>5 DEF SearchInv

LEMMA SearchInvariance == SearchSpec => []SearchInv
<1>1. SearchInit => SearchInv
  BY SearchStarts
<1>2. SearchInv /\ [SearchNext]_searchVars => SearchInv'
  BY ParseInv, RankInv, FuseInv, RerankInv, SourcesInv DEF SearchNext
<1> QED BY <1>1, <1>2, PTL DEF SearchSpec

----------------------------------------------------------------------------
(* The theorems of the search path. *)

\* However the searchers score, whatever the request filters by and however deep they
\* go, the result names a unit once, by a part that passes the filters, and every unit that passes
\* them is found while the vectors are asked and have room for all of them (ResultIsFiltered).
THEOREM SearchIsFiltered == SearchSpec => []ResultIsFiltered
<1>1. SearchInv => ResultIsFiltered
  <2>1. SUFFICES ASSUME SearchInv, pc = "answer"
                 PROVE  /\ \A i, j \in DOMAIN ranked : ranked[i].unit = ranked[j].unit => i = j
                        /\ \A i \in DOMAIN ranked : ranked[i].row \in Allowed /\ Parts[ranked[i].row].unit = ranked[i].unit
                        /\ Roomy => Full(ranked)
    BY DEF ResultIsFiltered, Roomy, Full
  <2>2. ResultOK(ranked)
    BY <2>1 DEF SearchInv
  <2>3. DOMAIN ranked = 1..Len(ranked)
    BY <2>2 DEF ResultOK
  <2> QED BY <2>2, <2>3 DEF ResultOK, Ranking
<1> QED BY <1>1, SearchInvariance, PTL

\* For every constant of the reciprocal rank fusion, a unit that no searcher places behind
\* another one and some searcher places before it stands before it in the fused ranking
\* (AgreementKept).
THEOREM FusionAgrees == SearchSpec => []AgreementKept
<1>1. SearchInv => AgreementKept
  BY DEF SearchInv
<1> QED BY <1>1, SearchInvariance, PTL

----------------------------------------------------------------------------
(* Months. *)

\* The one date of a question: one of months that the code understands is the filters of all of them,
\* or none when it is a month without a year.
LEMMA MonthFacts ==
  ASSUME NEW q \in Questions, Len(q.dates) = 1, q.dates[1].form = "months", Understood(q.dates[1])
  PROVE  LET m == q.dates[1] IN
         /\ m \in Months /\ FromYear(m) \in Year /\ ToYear(m) = FromYear(m)
         /\ \/ DateFilters(q) = Whole(FromYear(m), m.from, m.to)
            \/ DateFilters(q) = <<>>
<1> DEFINE m == q.dates[1]
<1>1. q.dates \in Seq(Written) /\ YearHint \in Year
  BY RetrievalAssumption
<1>2. DOMAIN q.dates = {1}
  BY <1>1
<1>3. m \in Written
  BY <1>1, <1>2
<1>4. m \in Months /\ (m.joined = "alone" => m.to = m.from /\ m.toYear = 0)
  BY <1>3 DEF Written
<1>5. /\ m.year \in Year \cup {0} /\ m.toYear \in Year \cup {0} /\ m.from \in Month /\ m.to \in Month
      /\ m.joined \in {"alone", "words", "other"} /\ m.form = "months"
  BY <1>4 DEF Months
<1>6. m.toYear = 0 /\ m.from <= m.to
  <2>1. m.from \in Int
    BY <1>5 DEF Month
  <2> QED BY <1>4, <1>5, <2>1 DEF Understood, IsRange
<1>7. FromYear(m) \in Year /\ ToYear(m) = FromYear(m)
  BY <1>1, <1>5, <1>6 DEF FromYear, ToYear
<1>8. Min({1}) = 1
  <2>1. \E x \in {1} : \A y \in {1} : x <= y
    OBVIOUS
  <2> QED BY DEF Min
<1>9. {i \in DOMAIN q.dates : q.dates[i].form = "day"} = {}
  BY <1>2
<1>10. {i \in DOMAIN q.dates : q.dates[i].form = "year"} = {}
  BY <1>2
<1>11. {i \in DOMAIN q.dates : IsRange(q.dates[i])} = IF IsRange(m) THEN {1} ELSE {}
  BY <1>2
<1>12. {i \in DOMAIN q.dates : YearMonth(q.dates[i]) # <<>>} = IF YearMonth(m) # <<>> THEN {1} ELSE {}
  BY <1>2
<1>13. YearMonth(m) = IF m.year # 0 THEN <<m.year, m.from>> ELSE <<>>
  BY <1>5, <1>6 DEF YearMonth
<1>14. Cardinality({}) = 0
  BY FS_EmptySet
<1> DEFINE ranges == IF IsRange(m) THEN {1} ELSE {}
           yearMonths == IF YearMonth(m) # <<>> THEN {1} ELSE {}
           yearMonth == YearMonth(q.dates[Min(yearMonths)])
           year == IF yearMonths # {} THEN yearMonth[1] ELSE YearHint
<1>15. DateFilters(q) = IF ranges # {} THEN Whole(year, q.dates[Min(ranges)].from, q.dates[Min(ranges)].to)
                        ELSE IF yearMonths # {} THEN Whole(year, yearMonth[2], yearMonth[2]) ELSE <<>>
  <2>1. ~(Cardinality({}) >= 2)
    BY <1>14
  <2> QED BY <1>9, <1>10, <1>11, <1>12, <2>1 DEF DateFilters
<1>16. CASE m.year # 0
  <2>1. YearMonth(m) = <<m.year, m.from>> /\ yearMonths = {1}
    BY <1>13, <1>16
  <2>2. q.dates[Min(yearMonths)] = m
    BY <2>1, <1>8
  <2>3. yearMonth = <<m.year, m.from>>
    BY <2>1, <2>2
  <2>4. year = m.year /\ yearMonth[2] = m.from /\ FromYear(m) = m.year
    BY <2>1, <2>3, <1>16 DEF FromYear
  <2>5. CASE IsRange(m)
    <3>1. ranges = {1} /\ q.dates[Min(ranges)] = m
      BY <2>5, <1>8
    <3> HIDE DEF ranges, yearMonths, yearMonth, year
    <3>2. DateFilters(q) = Whole(m.year, m.from, m.to)
      BY <1>15, <2>4, <3>1
    <3> QED BY <3>2, <2>4, <1>4, <1>7
  <2>6. CASE ~IsRange(m)
    <3>1. ranges = {} /\ m.to = m.from
      BY <2>6, <1>4 DEF Understood
    <3> HIDE DEF ranges, yearMonths, yearMonth, year
    <3>2. DateFilters(q) = Whole(m.year, m.from, m.to)
      BY <1>15, <2>1, <2>4, <3>1
    <3> QED BY <3>2, <2>4, <1>4, <1>7
  <2> QED BY <2>5, <2>6
<1>17. CASE m.year = 0
  <2>1. YearMonth(m) = <<>> /\ yearMonths = {} /\ year = YearHint /\ FromYear(m) = YearHint
    BY <1>13, <1>17 DEF FromYear
  <2>2. CASE IsRange(m)
    <3>1. ranges = {1} /\ q.dates[Min(ranges)] = m
      BY <2>2, <1>8
    <3> HIDE DEF ranges, yearMonths, yearMonth, year
    <3>2. DateFilters(q) = Whole(YearHint, m.from, m.to)
      BY <1>15, <2>1, <3>1
    <3> QED BY <3>2, <2>1, <1>4, <1>7
  <2>3. CASE ~IsRange(m)
    <3>1. ranges = {}
      BY <2>3
    <3> HIDE DEF ranges, yearMonths, yearMonth, year
    <3> QED BY <1>15, <2>1, <3>1, <1>4, <1>7
  <2> QED BY <2>2, <2>3
<1> QED BY <1>16, <1>17

\* The days of the months m to n lie between the first day of m and the end that is asked for.
LEMMA MonthHasItsDays ==
  ASSUME NEW y \in Year, NEW m \in Month, NEW n \in Month
  PROVE  /\ MonthStart(y, m) = Day(y, m, 1)
         /\ MonthEnd(y, n) \in Int /\ Day(y, n, 31) \in Int /\ Day(y, n, 31) <= MonthEnd(y, n)
<1>1. y \in Int /\ m \in Int /\ n \in Int
  BY DEF Year, Month
<1> QED BY <1>1 DEF MonthStart, MonthEnd, Day

\* For every year of four digits and months up to 98, the filters read from a question about one
\* month, or about several in words that do not go over the turn of a year, keep each part that meets
\* one of their days (MonthsAreWhole).
THEOREM MonthsAreKept == SearchSpec => []MonthsAreWhole
<1>1. SearchInv => MonthsAreWhole
  <2> DEFINE q == question
             m == q.dates[1]
             year == FromYear(m)
             dated == {"gte", "lte", "eq"} \cap DOMAIN filters
  <2>1. SUFFICES ASSUME SearchInv, Len(q.dates) = 1, m.form = "months", Understood(m),
                        \A k \in dated : k \in DOMAIN Parsed(q) /\ filters[k] = Parsed(q)[k],
                        NEW r \in Rows, Meets(Parts[r], m), NEW key \in dated
                 PROVE  Passes(r, key, filters[key])
    BY DEF MonthsAreWhole, AsksMonths, DatesPass
  <2>2. /\ m \in Months /\ year \in Year /\ ToYear(m) = year
        /\ DateFilters(q) = Whole(year, m.from, m.to) \/ DateFilters(q) = <<>>
    <3>1. q \in Questions
      BY <2>1 DEF SearchInv
    <3>2. Len(q.dates) = 1 /\ q.dates[1].form = "months" /\ Understood(q.dates[1])
      BY <2>1
    <3> HIDE DEF q
    <3> QED BY <3>1, <3>2, MonthFacts
  <2>3. m.from \in Month /\ m.to \in Month
    BY <2>2 DEF Months
  <2>4. /\ Parts[r].first # 0 /\ Parts[r].last >= Day(year, m.from, 1) /\ Parts[r].first <= Day(year, m.to, 31)
        /\ Parts[r].first \in Nat /\ Parts[r].last \in Nat
    BY <2>1, <2>2, RowsFacts DEF Meets
  <2>5. key \in {"gte", "lte", "eq"} /\ key \in DOMAIN Parsed(q) /\ filters[key] = Parsed(q)[key]
    BY <2>1
  <2> HIDE DEF q, m, year, dated
  <2>6. /\ key \in {"gte", "lte"}
        /\ filters[key] = IF key = "gte" THEN MonthStart(year, m.from) ELSE MonthEnd(year, m.to)
    <3> DEFINE d == DateFilters(q)
               kinds == [type |-> q.types, people |-> q.people, author |-> q.authors, editor |-> q.editors]
               found == {k \in DOMAIN kinds : kinds[k] # {}}
    <3>1. Parsed(q) = [k \in found \cup DOMAIN d |-> IF k \in found THEN kinds[k] ELSE d[k]]
      BY DEF Parsed, Over
    <3>2. DOMAIN kinds = {"type", "people", "author", "editor"}
      OBVIOUS
    <3>3. key \notin found
      BY <2>5, <3>2
    <3>4. key \in DOMAIN d /\ filters[key] = d[key]
      <4> HIDE DEF d, kinds, found
      <4> QED BY <2>5, <3>1, <3>3
    <3>5. CASE d = <<>>
      <4>1. DOMAIN d = {}
        BY <3>5
      <4> QED BY <3>4, <4>1
    <3>6. CASE d = Whole(year, m.from, m.to)
      <4>1. /\ DOMAIN d = {"gte", "lte"} /\ d["gte"] = MonthStart(year, m.from)
            /\ d["lte"] = MonthEnd(year, m.to)
        BY <3>6 DEF Whole
      <4> HIDE DEF d
      <4> QED BY <3>4, <4>1
    <3> QED BY <2>2, <3>5, <3>6
  <2>7. /\ MonthStart(year, m.from) = Day(year, m.from, 1)
        /\ MonthEnd(year, m.to) \in Int /\ Day(year, m.to, 31) \in Int /\ Day(year, m.to, 31) <= MonthEnd(year, m.to)
    BY <2>2, <2>3, MonthHasItsDays
  <2>8. CASE key = "gte"
    BY <2>4, <2>6, <2>7, <2>8 DEF Passes
  <2>9. CASE key = "lte"
    <3>1. Parts[r].first <= MonthEnd(year, m.to)
      BY <2>4, <2>7
    <3> QED BY <2>4, <2>6, <2>9, <3>1 DEF Passes
  <2> QED BY <2>6, <2>8, <2>9
<1> QED BY <1>1, SearchInvariance, PTL
=============================================================================
