----------------------------- MODULE Retrieval -----------------------------
(***************************************************************************)
(* One question of RAGEngine (src/rag/engine.py) to a loaded index: the    *)
(* filters read from its words (query_parser.py) and from the request, the *)
(* mask over the parts (CaseIndex.filter_mask), the rankings of BM25 and   *)
(* of the vectors, their fusion and the reranking (retrieval.py), and the  *)
(* sources taken from the result.                                          *)
(*                                                                         *)
(* A part is a row of the index: its unit, type, first and last day (0     *)
(* without a date), people, author and last editor. A day is the number    *)
(* yyyymmdd, which orders days as their ISO strings do. A question is the  *)
(* dates that are written in it, each with how it is written, and what the *)
(* patterns of the parser find besides. Scores are any: they are chosen    *)
(* when a ranking is made. Fused scores are exact: sums of fractions       *)
(* 1/(RrfK + r), compared crosswise.                                       *)
(*                                                                         *)
(* MaskAfterwards, MeanOfShares and LastDayIsFirst are mutants of the      *)
(* definitions that follow them.                                           *)
(***************************************************************************)
EXTENDS Integers, Sequences, FiniteSets, SequencesExt, Ordering

CONSTANTS
  Parts,       \* the rows of the index, in order
  Questions,   \* questions asked
  Requested,   \* filters a request may carry
  YearHint,    \* year of a month named without one
  KBm25,       \* search_k_bm25
  KDense,      \* search_k_dense
  RrfK,        \* rrf_k
  Candidates,  \* rerank_candidates
  Depth,       \* depth of the result
  TopN,        \* rerank_top_n
  Scores,      \* scores of a searcher, in the order of numbers; BM25 has 0 for no match
  MinScore     \* rerank_min_score, 0 for off

\* Days are numbers. A year is written with four digits and a month with two, as far as the day
\* after its month is too: then numbers are ordered as the strings are.
IndexRow == [unit : Nat, type : STRING, first : Nat, last : Nat,
             people : SUBSET STRING, author : STRING, editor : STRING]
Month == 0..98
Year == 1000..9999

\* A date as it is written: a day, a year, or months: one alone, or a first and a last one, joined in
\* words (from January till March) or otherwise (January~March). A year that is not written is 0.
Months == [form : {"months"}, joined : {"alone", "words", "other"},
           year : Year \cup {0}, from : Month, toYear : Year \cup {0}, to : Month]
Written == [form : {"day"}, day : Nat] \cup [form : {"year"}, year : Year] \cup
           {m \in Months : m.joined = "alone" => m.to = m.from /\ m.toYear = 0}

ASSUME RetrievalAssumption ==
  /\ Parts \in Seq(IndexRow)
  /\ \A q \in Questions : q.dates \in Seq(Written)
  /\ YearHint \in Year
  /\ \A k \in {KBm25, KDense, Candidates, Depth, TopN} : k \in Nat \ {0}
  /\ RrfK \in Nat /\ MinScore \in Nat
  /\ Scores \subseteq Nat /\ 0 \in Scores

VARIABLES
  pc,        \* parse -> bm25 -> dense -> fuse -> rerank -> sources -> answer
  question,
  config,    \* [use: the searchers switched on, rerank: BOOLEAN]
  filters,   \* the merged filters
  lists,     \* [searcher -> ranking], a ranking is a sequence of [unit, row]
  fused,     \* the ranking before reranking, at most Depth
  ranked,    \* the result: [unit, row, reranked, score]
  sources    \* the parts the answer is written from

searchVars == <<pc, question, config, filters, lists, fused, ranked, sources>>

Rows == DOMAIN Parts
Units == {Parts[r].unit : r \in Rows}

----------------------------------------------------------------------------
(* The filters. *)

Day(y, m, d) == 10000 * y + 100 * m + d

MonthStart(y, m) == Day(y, m, 1)
LastDayIsFirst(y, m) == IF m = 12 THEN Day(y, 12, 31) ELSE Day(y, m, 1)
MonthEnd(y, m) == IF m = 12 THEN Day(y, 12, 31) ELSE Day(y, m + 1, 1)

\* _DATE_RANGE: months joined in words, the last one without a year of its own.
IsRange(m) == m.form = "months" /\ m.joined = "words" /\ m.toYear = 0

\* _DATE_YM: a year with a month behind it, in a date of months the first one that has a year.
YearMonth(m) ==
  IF m.form # "months" THEN <<>>
  ELSE IF m.year # 0 THEN <<m.year, m.from>>
  ELSE IF m.toYear # 0 THEN <<m.toYear, m.to>>
  ELSE <<>>

Whole(y, first, last) == [gte |-> MonthStart(y, first), lte |-> MonthEnd(y, last)]

\* _extract_date_filters: the first pattern that is found decides, by the first date it finds. A month
\* without a year is found by none.
DateFilters(q) ==
  LET places == DOMAIN q.dates
      first(found) == q.dates[Min(found)]
      iso == {i \in places : q.dates[i].form = "day"}
      ranges == {i \in places : IsRange(q.dates[i])}
      yearMonths == {i \in places : YearMonth(q.dates[i]) # <<>>}
      years == {i \in places : q.dates[i].form = "year"}
      yearMonth == YearMonth(first(yearMonths))
      year == IF yearMonths # {} THEN yearMonth[1] ELSE YearHint
  IN  IF Cardinality(iso) >= 2 THEN [gte |-> first(iso).day, lte |-> first(iso \ {Min(iso)}).day]
      ELSE IF iso # {} THEN [eq |-> first(iso).day]
      ELSE IF ranges # {} THEN Whole(year, first(ranges).from, first(ranges).to)
      ELSE IF yearMonths # {} THEN Whole(year, yearMonth[2], yearMonth[2])
      ELSE IF years # {} THEN [gte |-> Day(first(years).year, 1, 1), lte |-> Day(first(years).year, 12, 31)]
      ELSE <<>>

\* dict.update: f where it has a key, g elsewhere.
Over(f, g) == [k \in DOMAIN f \cup DOMAIN g |-> IF k \in DOMAIN f THEN f[k] ELSE g[k]]

\* parse_query: a key for each kind of mention that was found.
Parsed(q) ==
  LET kinds == [type |-> q.types, people |-> q.people, author |-> q.authors, editor |-> q.editors]
      found == {k \in DOMAIN kinds : kinds[k] # {}}
  IN  Over([k \in found |-> kinds[k]], DateFilters(q))

\* _merge_filters: what the request says of a key replaces what the question says of it.
MergeFilters(parsed, explicit) == Over(explicit, parsed)

\* A part has a name when the name is part of one of its names (filter_mask lowers both).
Named(names, among) == \E n \in names : n \in among

Empty(key, value) == key \in {"type", "people", "author", "editor"} /\ value = {}

Passes(r, key, value) ==
  LET p == Parts[r] IN
  CASE key = "type"   -> p.type \in value
    [] key = "gte"    -> p.first # 0 /\ p.last >= value
    [] key = "lte"    -> p.first # 0 /\ p.first <= value
    [] key = "eq"     -> p.first # 0 /\ p.first <= value /\ p.last >= value
    [] key = "people" -> Named(value, p.people \cup {p.author, p.editor})
    [] key = "author" -> Named(value, {p.author})
    [] key = "editor" -> Named(value, {p.editor})

\* filter_mask
Mask(f) == {r \in Rows : \A key \in DOMAIN f : Empty(key, f[key]) \/ Passes(r, key, f[key])}

----------------------------------------------------------------------------
(* The rankings. *)

Take(s, n) == SubSeq(s, 1, IF Len(s) < n THEN Len(s) ELSE n)

\* _rank_units: rows by falling score, then by number; a unit stands where its first row does.
RowBefore(score, a, b) == score[a] > score[b] \/ (score[a] = score[b] /\ a < b)

Falling(score, rows) == {p \in rows \X rows : RowBefore(score, p[1], p[2])}

\* The row of a unit among those that are kept.
BestRow(score, keep, u) ==
  CHOOSE r \in keep : /\ Parts[r].unit = u
                      /\ \A o \in keep \ {r} : Parts[o].unit = u => RowBefore(score, r, o)

RankRows(score, keep, limit) ==
  LET best  == {BestRow(score, keep, u) : u \in {Parts[r].unit : r \in keep}}
      order == InOrder(best, Falling(score, best))
  IN  Take([i \in DOMAIN order |-> [unit |-> Parts[order[i]].unit, row |-> order[i]]], limit)

MaskAfterwards(score, mask, limit, positive) ==
  SelectSeq(RankRows(score, {r \in Rows : positive => score[r] > 0}, limit), LAMBDA h : h.row \in mask)
RankUnits(score, mask, limit, positive) ==
  RankRows(score, {r \in mask : positive => score[r] > 0}, limit)

Place(list, u) == CHOOSE i \in DOMAIN list : list[i].unit = u
Holds(list, u) == \E i \in DOMAIN list : list[i].unit = u

\* _rrf: what a place is worth, as a fraction.
Share(rank) == [num |-> 1, den |-> RrfK + rank]
ShareOf(l, name, u) == IF Holds(l[name], u) THEN Share(Place(l[name], u)) ELSE [num |-> 0, den |-> 1]

Sum2(a, b) == [num |-> a.num * b.den + b.num * a.den, den |-> a.den * b.den]
Exceeds(a, b) == a.num * b.den > b.num * a.den

MeanOfShares(l, u) ==
  LET sum == Sum2(ShareOf(l, "bm25", u), ShareOf(l, "dense", u))
  IN  [num |-> sum.num, den |-> sum.den * Cardinality({n \in DOMAIN l : Holds(l[n], u)})]
FusedScore(l, u) == Sum2(ShareOf(l, "bm25", u), ShareOf(l, "dense", u))

\* The best place of a unit names its row; a searcher that does not hold it adds nothing.
Standing(l, u) ==
  LET in    == {n \in DOMAIN l : Holds(l[n], u)}
      first == Min({Place(l[n], u) : n \in in})
      best  == IF "bm25" \in in /\ Place(l["bm25"], u) = first THEN "bm25" ELSE "dense"
  IN  [unit |-> u, row |-> l[best][first].row, first |-> first, score |-> FusedScore(l, u)]

\* By falling score, then by the better place, then by the name of the unit.
StandsBefore(a, b) ==
  \/ Exceeds(a.score, b.score)
  \/ ~Exceeds(b.score, a.score) /\ (a.first < b.first \/ (a.first = b.first /\ a.unit < b.unit))

Rrf(l) ==
  LET found == {Standing(l, u) : u \in {v \in Units : \E n \in DOMAIN l : Holds(l[n], v)}}
  IN  InOrder(found, {p \in found \X found : StandsBefore(p[1], p[2])})

----------------------------------------------------------------------------
SearchInit ==
  /\ pc = "parse"
  /\ question \in Questions
  /\ config \in [use : (SUBSET {"bm25", "dense"}) \ {{}}, rerank : BOOLEAN]
  /\ filters = <<>>
  /\ lists = <<>>
  /\ fused = <<>> /\ ranked = <<>> /\ sources = <<>>

Single == Cardinality(config.use) = 1

\* parse_query and _merge_filters
Parse ==
  /\ pc = "parse"
  /\ \E explicit \in Requested : filters' = MergeFilters(Parsed(question), explicit)
  /\ pc' = "bm25"
  /\ UNCHANGED <<question, config, lists, fused, ranked, sources>>

\* A searcher that is switched on ranks the units; alone, it goes down to Depth.
Rank(name, k, positive) ==
  IF name \notin config.use THEN UNCHANGED lists
  ELSE \E score \in [Rows -> Scores] :
         LET ranking == RankUnits(score, Mask(filters), IF Single THEN Depth ELSE k, positive)
         IN  lists' = Over(lists, [n \in {name} |-> ranking])

Bm25 ==
  /\ pc = "bm25"
  /\ Rank("bm25", KBm25, TRUE)
  /\ pc' = "dense"
  /\ UNCHANGED <<question, config, filters, fused, ranked, sources>>

Dense ==
  /\ pc = "dense"
  /\ Rank("dense", KDense, FALSE)
  /\ pc' = "fuse"
  /\ UNCHANGED <<question, config, filters, fused, ranked, sources>>

Hit(h) == [unit |-> h.unit, row |-> h.row, reranked |-> FALSE, score |-> 0]

Fuse ==
  /\ pc = "fuse"
  /\ LET list == IF Single THEN lists[CHOOSE n \in config.use : TRUE] ELSE Rrf(lists)
     IN  fused' = Take([i \in DOMAIN list |-> Hit(list[i])], Depth)
  /\ pc' = IF config.rerank /\ fused' # <<>> THEN "rerank" ELSE "sources"
  /\ ranked' = fused'
  /\ UNCHANGED <<question, config, filters, lists, sources>>

\* The head by falling score of the reranker, ties in the order they had; the tail behind it.
Order(score) == InOrder(DOMAIN score, Falling(score, DOMAIN score))

Reranked(list, score) ==
  [i \in DOMAIN list |-> IF i \in DOMAIN score
     THEN LET at == Order(score)[i] IN [list[at] EXCEPT !.reranked = TRUE, !.score = score[at]]
     ELSE list[i]]

Rerank ==
  /\ pc = "rerank"
  /\ \E score \in [DOMAIN Take(fused, Candidates) -> Scores] : ranked' = Reranked(fused, score)
  /\ pc' = "sources"
  /\ UNCHANGED <<question, config, filters, lists, fused, sources>>

\* RAGEngine.search: the first TopN that are not rejected by the reranker, _to_source for each.
Rejected(h) == config.rerank /\ MinScore > 0 /\ h.reranked /\ h.score < MinScore

Sources ==
  /\ pc = "sources"
  /\ sources' = Take(SelectSeq(ranked, LAMBDA h : ~Rejected(h)), TopN)
  /\ pc' = "answer"
  /\ UNCHANGED <<question, config, filters, lists, fused, ranked>>

SearchNext == Parse \/ Bm25 \/ Dense \/ Fuse \/ Rerank \/ Sources

SearchSpec == SearchInit /\ [][SearchNext]_searchVars

----------------------------------------------------------------------------
(* Properties. *)

Allowed == {r \in Rows : r \in Mask(filters)}
UnitsOf(rows) == {Parts[r].unit : r \in rows}

\* The result holds each unit once, by a part that passes the filters of the question and of the
\* request; a filter takes no place from a unit that passes it: while there are no more of these
\* than a searcher returns, all of them are found by their vectors.
ResultIsFiltered ==
  pc = "answer" =>
    /\ \A i, j \in DOMAIN ranked : ranked[i].unit = ranked[j].unit => i = j
    /\ \A i \in DOMAIN ranked : ranked[i].row \in Allowed /\ Parts[ranked[i].row].unit = ranked[i].unit
    /\ "dense" \in config.use /\ Cardinality(UnitsOf(Allowed)) <= Min({KDense, Depth}) =>
         \A u \in UnitsOf(Allowed) : Holds(ranked, u)

\* Searchers that agree are followed: a unit that no searcher places behind another one, and some
\* searcher before it, stands before it until the reranker has spoken.
AgreementKept ==
  \A u, v \in Units :
    LET ahead(n) == Holds(lists[n], u) /\ (Holds(lists[n], v) => Place(lists[n], u) < Place(lists[n], v))
        neither(n) == ~Holds(lists[n], u) /\ ~Holds(lists[n], v)
        agreed == (\A n \in config.use : ahead(n) \/ neither(n)) /\ (\E n \in config.use : ahead(n))
    IN  Holds(fused, v) /\ agreed => Holds(fused, u) /\ Place(fused, u) < Place(fused, v)

\* The first and the last day a date of months asks for. Months whose last one is before the first go
\* over the turn of the year.
FromYear(m) == IF m.year # 0 THEN m.year ELSE YearHint
ToYear(m) == IF m.toYear # 0 THEN m.toYear ELSE IF m.from <= m.to THEN FromYear(m) ELSE FromYear(m) + 1

Meets(p, m) == p.first # 0 /\ p.last >= Day(FromYear(m), m.from, 1) /\ p.first <= Day(ToYear(m), m.to, 31)

\* A question with one date, of months, and nothing said of dates by the request.
AsksMonths ==
  /\ pc = "bm25" /\ Len(question.dates) = 1 /\ question.dates[1].form = "months"
  /\ \A key \in {"gte", "lte", "eq"} \cap DOMAIN filters :
       key \in DOMAIN Parsed(question) /\ filters[key] = Parsed(question)[key]

DatesPass(r) == \A key \in {"gte", "lte", "eq"} \cap DOMAIN filters : Passes(r, key, filters[key])

\* Months that the code takes for what they are: one alone, or several within a year, in words.
Understood(m) == m.joined = "alone" \/ (IsRange(m) /\ m.from <= m.to)

\* A question about a month, or about several of one year that are joined in words and where the last
\* one has no year of its own, is answered from all of their days, a conversation that began before or
\* ended after them included. Other months are not understood: see AllMonthsAreWhole.
MonthsAreWhole ==
  LET m == question.dates[1] IN
  AsksMonths /\ Understood(m) => \A r \in Rows : Meets(Parts[r], m) => DatesPass(r)

(* What the code does not keep. *)

\* A question about months is answered from all of their days, joined by ~ (query_parser.py:58) and
\* over the turn of a year too.
AllMonthsAreWhole ==
  LET m == question.dates[1] IN AsksMonths => \A r \in Rows : Meets(Parts[r], m) => DatesPass(r)

\* A month without a year is one of YearHint (query_parser.py:56, :144): no other part is searched.
MonthHasItsYear ==
  LET m == question.dates[1] IN
  AsksMonths /\ m.joined = "alone" => \A r \in Rows : DatesPass(r) => Parts[r].last >= Day(FromYear(m), m.from, 1)

\* The last day of a month is where a question about it ends.
MonthsEnd ==
  LET m == question.dates[1] IN
  AsksMonths /\ m.joined = "alone" /\ m.year # 0 =>
    \A r \in Rows : DatesPass(r) => Parts[r].first <= Day(m.year, m.from, 31)

\* No source is below rerank_min_score.
SourcesAreGood ==
  config.rerank /\ MinScore > 0 => \A i \in DOMAIN sources : sources[i].reranked
=============================================================================
