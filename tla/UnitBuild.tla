----------------------------- MODULE UnitBuild -----------------------------
(***************************************************************************)
(* From parsed records to evidence units and their parts: ids, chat        *)
(* sessions, attachments, sheet blocks, pages, and texts cut to the token  *)
(* limit (src/units/builder.py, split.py).                                 *)
(*                                                                         *)
(* A text is a sequence of tokens, a token <<name, number>>; a newline     *)
(* between two joined lines is NewlineTokens tokens NL, which the code     *)
(* takes to be one. Texts are cut between characters, and a character may  *)
(* be several tokens: Continues are those that go on with the character of *)
(* the token before them. A slice between characters has the tokens it has *)
(* in the text: a tokenizer that counts it otherwise out of its place is   *)
(* left out. A hash is injective: an id is the tuple of what is hashed.    *)
(* Headers, languages, topics and the cleaning of quoted text are left out.*)
(*                                                                         *)
(* SplitTextTrusts, AdsKeepAttachments, JoinsFromFirst,                    *)
(* LinksKeptMailsOnly and FoldersOfTheFirst are mutants of the definitions *)
(* that follow them.                                                       *)
(***************************************************************************)
EXTENDS Integers, Sequences, FiniteSets, SequencesExt

CONSTANTS
  MaxPartTokens,   \* unit_max_part_tokens
  NewlineTokens,   \* tokens of a newline in a joined text
  Continues,       \* tokens that go on with the character of the one before them
  GapMinutes       \* chat_session_gap_minutes

NL == <<"nl", 0>>

\* The headers that an attached mail keeps.
HeaderLine == <<"From:", 0>>

Token == (STRING \X Nat) \cup {NL, HeaderLine}

ASSUME UnitAssumption ==
  /\ MaxPartTokens \in Nat \ {0}
  /\ NewlineTokens \in Nat
  /\ Continues \subseteq Token
  /\ GapMinutes \in Nat

Text == Seq(Token)

Lines == Seq(Text)

Tokens(name, n) == [k \in 1..n |-> <<name, k>>]

Visible(text) == ToSet(text) \ {NL}

Blank(text) == Visible(text) = {}

InLines(lines) == UNION {Visible(lines[i]) : i \in DOMAIN lines}

Join(lines) ==
  FlattenSeq([i \in DOMAIN lines |->
    IF i = 1 THEN lines[i] ELSE [k \in 1..NewlineTokens |-> NL] \o lines[i]])

\* The elements of a sequence that stand at some of its places, in their order.
Those(s, places) == FlattenSeq([i \in DOMAIN s |-> IF i \in places THEN <<s[i]>> ELSE <<>>])

NotBlank(texts) == Those(texts, {i \in DOMAIN texts : ~Blank(texts[i])})

----------------------------------------------------------------------------
(* Texts and sheets cut to a number of tokens. *)

\* offsets: where the character of the token at p begins, the start of the text at the earliest.
CharStart(text, p) == Max({q \in 1..p : q = 1 \/ text[q] \notin Continues})

\* _hard_split: a cut after each max tokens, or before the character it falls into, which moves to
\* the next piece whole; blank pieces are dropped. No piece is counted.
HardSplit(text, max) ==
  LET n == (Len(text) + max - 1) \div max
      start(i) == IF i > n THEN Len(text) + 1 ELSE CharStart(text, (i - 1) * max + 1)
  IN  NotBlank([i \in 1..n |-> SubSeq(text, start(i), start(i + 1) - 1)])

\* The lines in buf become a group.
CloseGroup(acc) ==
  IF acc.buf = <<>> THEN acc
  ELSE [groups |-> Append(acc.groups, Join(acc.buf)), buf |-> <<>>, used |-> 0]

\* A line over the limit is a group, or several, of its own.
PackLine(acc, line, max) ==
  IF Len(line) > max
  THEN [CloseGroup(acc) EXCEPT !.groups = @ \o HardSplit(line, max)]
  ELSE IF acc.buf # <<>> /\ acc.used + Len(line) + 1 > max
  THEN [CloseGroup(acc) EXCEPT !.buf = <<line>>, !.used = Len(line)]
  ELSE [acc EXCEPT !.buf = Append(@, line), !.used = @ + Len(line) + (IF acc.buf = <<>> THEN 0 ELSE 1)]

\* _pack_lines: lines in greedy groups.
PackLines(lines, max) ==
  LET packed[n \in 0..Len(lines)] ==
        IF n = 0 THEN [groups |-> <<>>, buf |-> <<>>, used |-> 0]
        ELSE PackLine(packed[n - 1], lines[n], max)
  IN  NotBlank(CloseGroup(packed[Len(lines)]).groups)

SplitTextTrusts(lines) ==
  IF Blank(Join(lines)) THEN <<>>
  ELSE IF Len(Join(lines)) <= MaxPartTokens THEN <<Join(lines)>>
  ELSE PackLines(lines, MaxPartTokens)

CutOnceMore(groups) ==
  FlattenSeq([i \in DOMAIN groups |->
    IF Len(groups[i]) <= MaxPartTokens THEN <<groups[i]>> ELSE HardSplit(groups[i], MaxPartTokens)])

\* split_text; a group that newlines make too long is cut once more.
SplitText(lines) ==
  IF Blank(Join(lines)) THEN <<>>
  ELSE IF Len(Join(lines)) <= MaxPartTokens THEN <<Join(lines)>>
  ELSE CutOnceMore(PackLines(lines, MaxPartTokens))

\* zip(rows, row_numbers) without the blank rows; the longer of the two loses its end.
NumberedRows(rows, numbers) ==
  LET n == IF numbers = <<>> \/ Len(rows) <= Len(numbers) THEN Len(rows) ELSE Len(numbers) IN
  Those([i \in 1..n |-> [row |-> rows[i], no |-> IF numbers = <<>> THEN i ELSE numbers[i]]],
        {i \in 1..n : ~Blank(rows[i])})

\* The header is repeated in each block unless it is longer than half of the limit.
Repeats(header) == Len(header.row) <= MaxPartTokens \div 2

RowBudget(header) == MaxPartTokens - (IF Repeats(header) THEN Len(header.row) + 1 ELSE 0)

RowBlock(header, rows, first, last) ==
  [lines |-> IF Repeats(header) THEN <<header.row>> \o rows ELSE rows, start |-> first, end |-> last]

\* flush: the rows that wait are a block.
CloseBlock(acc, header) ==
  IF acc.buf = <<>> THEN acc
  ELSE [blocks |-> Append(acc.blocks,
                     RowBlock(header, [i \in DOMAIN acc.buf |-> acc.buf[i].row],
                              IF acc.blocks = <<>> /\ ~Repeats(header) THEN header.no ELSE acc.buf[1].no,
                              Last(acc.buf).no)),
        buf |-> <<>>, used |-> 0]

\* A row over the budget is cut, the pieces are blocks with the number of the row.
AddLongRow(acc, pair, header) ==
  [CloseBlock(acc, header) EXCEPT !.blocks = @ \o
     LET pieces == HardSplit(pair.row, IF RowBudget(header) > 1 THEN RowBudget(header) ELSE 1)
     IN  [i \in DOMAIN pieces |-> RowBlock(header, <<pieces[i]>>, pair.no, pair.no)]]

AddShortRow(acc, pair) ==
  [acc EXCEPT !.buf = Append(@, pair),
              !.used = @ + Len(pair.row) + (IF acc.buf = <<>> THEN 0 ELSE 1)]

AddRow(acc, pair, header) ==
  IF Len(pair.row) > RowBudget(header) THEN AddLongRow(acc, pair, header)
  ELSE AddShortRow(IF acc.buf # <<>> /\ acc.used + Len(pair.row) + 1 > RowBudget(header)
                   THEN CloseBlock(acc, header) ELSE acc, pair)

BlocksUnder(header, pairs) ==
  LET added[n \in 0..Len(pairs)] ==
        IF n = 0 THEN [blocks |-> <<>>, buf |-> <<>>, used |-> 0]
        ELSE AddRow(added[n - 1], pairs[n], header)
  IN  CloseBlock(added[Len(pairs)], header).blocks

\* A header that is not repeated is put before the first block.
HeaderFirst(header, blocks) ==
  IF Repeats(header) \/ blocks = <<>> THEN blocks
  ELSE [blocks EXCEPT ![1].lines = <<header.row>> \o @, ![1].start = header.no]

\* row_blocks: blocks of rows under the first row of the sheet, of NumberedRows.
RowBlocks(pairs) ==
  CASE pairs = <<>> -> <<>>
    [] Len(pairs) = 1 -> <<[lines |-> <<pairs[1].row>>, start |-> pairs[1].no, end |-> pairs[1].no]>>
    [] OTHER -> HeaderFirst(pairs[1], BlocksUnder(pairs[1], Tail(pairs)))

----------------------------------------------------------------------------
(* Ids. *)

MakeEmailId(mid, key) == <<"em", IF mid # "" THEN mid ELSE key>>

NoTime == -1

\* The start of a session without a time is a row of zeros.
MakeChatId(room, start) == <<"ch", room, start>>

\* Up to the place within the file, which _document_units puts at the end.
MakeDocumentId(path) == <<"doc", path>>

\* The parent's id without its prefix, again up to the place.
MakeAttachmentId(parent, ordinal) == <<"att", Tail(parent), ordinal>>

\* relative_source_path: the last three elements of the root and the path below it.
RelativeSourcePath(root, rel) ==
  (IF Len(root) <= 3 THEN root ELSE SubSeq(root, Len(root) - 2, Len(root))) \o rel

----------------------------------------------------------------------------
(* Units. *)

NoParent == <<>>

\* _finish: a unit without text still gets a part, found by its header.
Finish(id, type, lines, meta) ==
  [id |-> id, type |-> type, meta |-> meta,
   parts |-> IF SplitText(lines) = <<>> THEN << <<>> >> ELSE SplitText(lines)]

NoMeta == [folders |-> {}, parent |-> NoParent, rows |-> <<>>]

SheetUnits(sheet, s, type, parent, prefix) ==
  LET blocks == RowBlocks(NumberedRows(sheet.content, sheet.numbers)) IN
  [i \in DOMAIN blocks |->
    Finish(Append(prefix, <<"s", s, blocks[i].start, blocks[i].end>>), type, blocks[i].lines,
           [NoMeta EXCEPT !.parent = parent, !.rows = <<blocks[i].start, blocks[i].end>>])]

PageUnit(page, i, type, parent, prefix) ==
  IF Blank(Join(page)) THEN <<>>
  ELSE <<Finish(Append(prefix, <<"p", i>>), type, page, [NoMeta EXCEPT !.parent = parent])>>

\* A block is one line here: within the limit it stays whole either way.
BlockUnits(blocks, type, parent, prefix) ==
  [i \in DOMAIN blocks |->
    Finish(Append(prefix, <<"b", i>>), type, <<blocks[i]>>, [NoMeta EXCEPT !.parent = parent])]

\* docx_blocks
SectionBlocks(sections) == FlattenSeq([i \in DOMAIN sections |-> SplitText(sections[i])])

\* _document_units: the pages or blocks of a parsed file under ids that begin with prefix. The first
\* document is looked at before any other: see BuildRaises for a file that has none.
DocumentUnits(docs, type, parent, prefix) ==
  IF docs[1].type = "sheet"
  THEN FlattenSeq([s \in DOMAIN docs |-> SheetUnits(docs[s], s, type, parent, prefix)])
  ELSE IF docs[1].type = "pages"
  THEN FlattenSeq([i \in DOMAIN docs[1].pages |-> PageUnit(docs[1].pages[i], i, type, parent, prefix)])
  ELSE BlockUnits(IF docs[1].type = "docx" THEN SectionBlocks(docs[1].pages) ELSE SplitText(docs[1].content),
                  type, parent, prefix)

\* Counters: ads are the advertisements dropped and adAttachments what was attached to them.
Counters == {"total", "parsed", "excluded", "failed", "ads", "adAttachments", "orphans"}

NoStats == [k \in Counters |-> 0]

Built(units, stats) == [units |-> units, stats |-> stats]

AddStats(s, t) == [k \in Counters |-> s[k] + t[k]]

Together(results) ==
  LET sum[n \in 0..Len(results)] == IF n = 0 THEN NoStats ELSE AddStats(sum[n - 1], results[n].stats) IN
  Built(FlattenSeq([i \in DOMAIN results |-> results[i].units]), sum[Len(results)])

\* What is counted of an attachment. outcome is what parse_bytes makes of it: "excluded" for a format
\* that is not looked at, not known or empty, "failed" for an error, "parsed" with its documents.
AttachmentCounts(att) == [NoStats EXCEPT !.total = 1, ![att.outcome] = 1]

\* _build_attachment: counted, and then built.
BuildAttachment(att, ordinal, key, parent) ==
  Built(IF att.outcome = "parsed"
        THEN DocumentUnits(att.docs, "attachment", parent, MakeAttachmentId(key, ordinal)) ELSE <<>>,
        AttachmentCounts(att))

Attachments(atts, id) ==
  Together([k \in DOMAIN atts |-> BuildAttachment(atts[k], k, id, id)])

AdsKeepAttachments(mail) ==
  LET id == MakeEmailId(mail.mid, mail.key)
      unit == Built(<<Finish(id, "email", mail.body, [NoMeta EXCEPT !.folders = {mail.folder}])>>, NoStats)
  IN  Together(<<IF mail.ad THEN Built(<<>>, [NoStats EXCEPT !.ads = 1]) ELSE unit,
                 Attachments(mail.atts, id)>>)

AdCounts(mail) == [NoStats EXCEPT !.ads = 1, !.adAttachments = Len(mail.atts)]

\* _build_email: nothing is made of an advertisement, its attachments included.
BuildEmail(mail) ==
  LET id == MakeEmailId(mail.mid, mail.key) IN
  IF mail.ad
  THEN Built(<<>>, AdCounts(mail))
  ELSE Together(<<Built(<<Finish(id, "email", mail.body, [NoMeta EXCEPT !.folders = {mail.folder}])>>,
                        NoStats),
                  Attachments(mail.atts, id)>>)

\* A session goes on until a pause is too long; a message without a time belongs to the one before it.
Far(a, b) == NoTime \notin {a.time, b.time} /\ b.time - a.time > GapMinutes

JoinsFromFirst(sessions, m) == sessions # <<>> /\ ~Far(Last(sessions)[1], m)

Joins(sessions, m) == sessions # <<>> /\ ~Far(Last(Last(sessions)), m)

AddMessage(sessions, m) ==
  IF Joins(sessions, m) THEN Append(Front(sessions), Append(Last(sessions), m)) ELSE Append(sessions, <<m>>)

\* _split_sessions of messages in the order of their times, those without a time first.
SplitSessions(msgs) ==
  LET split[n \in 0..Len(msgs)] == IF n = 0 THEN <<>> ELSE AddMessage(split[n - 1], msgs[n]) IN split[Len(msgs)]

\* sorted: a message goes behind those of its time.
Inserted(sorted, m) ==
  LET p == Cardinality({i \in DOMAIN sorted : sorted[i].time <= m.time}) IN
  SubSeq(sorted, 1, p) \o <<m>> \o SubSeq(sorted, p + 1, Len(sorted))

ByTime(msgs) ==
  LET sorted[n \in 0..Len(msgs)] == IF n = 0 THEN <<>> ELSE Inserted(sorted[n - 1], msgs[n]) IN
  sorted[Len(msgs)]

\* The earliest time of a session, if any.
SessionStart(session) ==
  LET times == {m.time : m \in ToSet(session)} \ {NoTime} IN
  IF times = {} THEN NoTime ELSE CHOOSE t \in times : \A u \in times : t <= u

\* _build_chat_session: the attachments of all of its messages are numbered through.
BuildSession(room, session) ==
  LET id == MakeChatId(room, SessionStart(session)) IN
  Together(<<Built(<<Finish(id, "chat", [i \in DOMAIN session |-> session[i].body], NoMeta)>>, NoStats),
             Attachments(FlattenSeq([i \in DOMAIN session |-> session[i].atts]), id)>>)

\* _build_chats: by room, in the order of their first messages.
RoomsOf(chats) ==
  Those([i \in DOMAIN chats |-> chats[i].room],
        {i \in DOMAIN chats : \A j \in 1..(i - 1) : chats[j].room # chats[i].room})

SessionsOf(chats, room) == SplitSessions(ByTime(Those(chats, {i \in DOMAIN chats : chats[i].room = room})))

BuildRoom(chats, room) ==
  LET sessions == SessionsOf(chats, room) IN
  Together([i \in DOMAIN sessions |-> BuildSession(room, sessions[i])])

BuildChats(chats) ==
  LET rooms == RoomsOf(chats) IN Together([r \in DOMAIN rooms |-> BuildRoom(chats, rooms[r])])

\* id() of the attachments of records: an object is where it was found, whatever it holds.
Ids(kind, records) == UNION {{<<kind, i, k>> : k \in DOMAIN records[i].atts} : i \in DOMAIN records}

LinksKeptMailsOnly(result) ==
  {a \in Ids("mail", result.mails) : ~result.mails[a[2]].ad} \cup Ids("chat", result.chats)

\* linked: the attachments that belong to a mail, dropped as an advertisement or not, or a chat.
Linked(result) == Ids("mail", result.mails) \cup Ids("chat", result.chats)

\* What is in the flat list of attachments only has no parent.
BuildOrphan(att, ordinal, path) ==
  LET built == BuildAttachment(att, ordinal, Append(MakeDocumentId(path), <<"orphan", ordinal>>), NoParent)
  IN  [built EXCEPT !.stats.orphans = 1]

BuildFromPst(result, path) ==
  LET orphans == Those(result.atts, {i \in DOMAIN result.atts : result.atts[i].id \notin Linked(result)}) IN
  Together(<<Together([i \in DOMAIN result.mails |-> BuildEmail(result.mails[i])]),
             BuildChats(result.chats),
             Together([k \in DOMAIN orphans |-> BuildOrphan(orphans[k].att, k, path)])>>)

\* build_document: of no document nothing is made.
BuildDocument(docs, path) ==
  IF docs = <<>> THEN <<>> ELSE DocumentUnits(docs, "document", NoParent, MakeDocumentId(path))

\* build_file, with what the parser made of the file.
BuildFile(parsed, path) ==
  CASE parsed.type = "pst" -> BuildFromPst(parsed, path)
    [] parsed.type = "email" -> BuildEmail(parsed)
    [] OTHER -> Built(BuildDocument(parsed.docs, path), NoStats)

\* An attached workbook without sheets: docs[0] raises IndexError outside of the try.
Breaks(att) == att.outcome = "parsed" /\ att.docs = <<>>

Raises(record) == \E k \in DOMAIN record.atts : Breaks(record.atts[k])

\* Then so does build_file, unless the mail is dropped first.
BuildRaises(parsed) ==
  CASE parsed.type = "pst" ->
         \/ \E i \in DOMAIN parsed.mails : ~parsed.mails[i].ad /\ Raises(parsed.mails[i])
         \/ \E i \in DOMAIN parsed.chats : Raises(parsed.chats[i])
    [] parsed.type = "email" -> ~parsed.ad /\ Raises(parsed)
    [] OTHER -> FALSE

\* What a file counts, one after the other: attachments, each before its documents are looked at, and
\* mails that are dropped.
Step(stats, breaks) == [units |-> <<>>, stats |-> stats, breaks |-> breaks]

AttachmentSteps(record) ==
  [k \in DOMAIN record.atts |-> Step(AttachmentCounts(record.atts[k]), Breaks(record.atts[k]))]

MailSteps(mail) == IF mail.ad THEN <<Step(AdCounts(mail), FALSE)>> ELSE AttachmentSteps(mail)

ChatsInOrder(chats) ==
  LET rooms == RoomsOf(chats) IN FlattenSeq([r \in DOMAIN rooms |-> FlattenSeq(SessionsOf(chats, rooms[r]))])

ArchiveSteps(mails, chats) ==
  FlattenSeq([i \in DOMAIN mails |-> MailSteps(mails[i])])
    \o FlattenSeq([i \in DOMAIN chats |-> AttachmentSteps(chats[i])])

StepsOf(parsed) ==
  CASE parsed.type = "pst" -> ArchiveSteps(parsed.mails, ChatsInOrder(parsed.chats))
    [] parsed.type = "email" -> MailSteps(parsed)
    [] OTHER -> <<>>

\* The counts of a file whose builder raises an exception, up to there: its units are lost, these are not.
CountsUntilRaise(parsed) ==
  LET steps == StepsOf(parsed) IN
  Together(Those(steps, {i \in DOMAIN steps : \A j \in 1..(i - 1) : ~steps[j].breaks})).stats

----------------------------------------------------------------------------
(* UnitCollector. *)

FirstOf(new, id) ==
  new[CHOOSE i \in DOMAIN new : new[i].id = id /\ \A j \in 1..(i - 1) : new[j].id # id]

FoldersOfTheFirst(units, new) ==
  [id \in DOMAIN units \cup {u.id : u \in ToSet(new)} |->
    IF id \in DOMAIN units THEN units[id] ELSE FirstOf(new, id)]

\* The first unit of an id stays; a mail remembers the folders of all of its copies. Folders whose
\* names differ by case are one to _unique: a name stands for all of its spellings here.
Collect(units, new) ==
  LET mails == {u \in ToSet(new) : u.type = "email"} IN
  [id \in DOMAIN units \cup {u.id : u \in ToSet(new)} |->
    [(IF id \in DOMAIN units THEN units[id] ELSE FirstOf(new, id)) EXCEPT
       !.meta.folders = @ \cup UNION {u.meta.folders : u \in {v \in mails : v.id = id}}]]
=============================================================================
