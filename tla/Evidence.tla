------------------------------ MODULE Evidence ------------------------------
(***************************************************************************)
(* The files of a case on their way into units: each is parsed and built   *)
(* by itself, in the order in which the workers finish, and its units are  *)
(* collected under their ids. What the files hold is a constant.           *)
(***************************************************************************)
EXTENDS DocParse

CONSTANT Files   \* names of the files, and what they hold

----------------------------------------------------------------------------
(* What a file may hold. *)

IsDocument(f) ==
  /\ {f.suffix, f.magic} \subseteq STRING
  /\ LET format == IF Unreadable(f) THEN "none" ELSE FormatOf(f) IN
     /\ format = ".pdf" =>
          f.encrypted \in BOOLEAN /\ f.pages \in Seq([fails : BOOLEAN, text : Text, ocr : Text])
     /\ format = ".docx" => f.paragraphs \in Seq([heading : BOOLEAN, text : Text]) /\ f.tables \in Lines
     /\ format = ".pptx" => f.slides \in Seq(Lines)
     /\ format \in {".xlsx", ".xls"} => f.sheets \in Seq([rows : Seq(Lines), min : Nat \ {0}])
     /\ format = ".eml" =>
          /\ f.msg \in Seq(ToSet(f.msg))
          /\ \A part \in ToSet(f.msg) : part.text \in Text /\ {part.attached, part.fails} \subseteq BOOLEAN
     /\ format = ".msg" => {f.body, f.html} \subseteq Lines
     /\ format \in {".txt", ".html"} => f.lines \in Lines

IsAttached(att) == {att.excluded, att.fails} \subseteq BOOLEAN /\ IsDocument(att.file)

IsMessage(m) ==
  /\ {m.body, m.html} \subseteq Lines
  /\ {m.fails, m.ad, m.multipart} \subseteq BOOLEAN
  /\ {m.mid, m.node, m.key} \subseteq STRING
  /\ m.time \in Nat \cup {NoTime}
  /\ m.atts \in Seq(ToSet(m.atts)) /\ \A a \in ToSet(m.atts) : IsAttached(a)

IsArchive(f) ==
  /\ f.opens \in BOOLEAN
  /\ f.folders \in Seq(ToSet(f.folders))
  /\ \A folder \in ToSet(f.folders) :
       /\ {folder.teams, folder.breaks} \subseteq BOOLEAN
       /\ folder.path \in Seq(STRING) \ {<<>>}
       /\ folder.messages \in Seq(ToSet(folder.messages))
       /\ \A m \in ToSet(folder.messages) : IsMessage(m)

IsMail(f) ==
  /\ {f.mid, f.key} \subseteq STRING /\ f.ad \in BOOLEAN
  /\ FormatOf(f) = ".eml" => \A part \in ToSet(f.msg) : IsAttachment(part) => IsAttached(part)
  /\ FormatOf(f) = ".msg" =>
       /\ f.items \in Seq(ToSet(f.items))
       /\ \A a \in ToSet(f.items) : a.item \in BOOLEAN /\ (~a.item => IsAttached(a))

IsFile(f) ==
  /\ {f.root, f.rel} \subseteq Seq(STRING) \ {<<>>}
  /\ IF f.suffix = ".pst" THEN IsArchive(f)
     ELSE IsDocument(f) /\ (FormatOf(f) \in {".eml", ".msg"} /\ ~Unreadable(f) => IsMail(f))

ASSUME EvidenceAssumption == \A f \in DOMAIN Files : IsFile(Files[f])

----------------------------------------------------------------------------

VARIABLES
  backend,   \* the library that reads mail archives
  ok,        \* files parsed and built
  failed,    \* files that raised an exception: an error of the run
  units,     \* UnitCollector.units
  stats      \* BuildStats, merged

fileVars == <<backend, ok, failed, units, stats>>

Path(f) == RelativeSourcePath(Files[f].root, Files[f].rel)

Result(f) == BuildFile(ParseFile(Files[f], backend), Path(f))

Merge(f, result) ==
  /\ ok' = ok \cup {f}
  /\ units' = Collect(units, result.units)
  /\ stats' = AddStats(stats, result.stats)
  /\ UNCHANGED failed

\* The parser raises an exception for the file, or the builder does.
RaisesFor(f) ==
  ParseFile(Files[f], backend) = Failed \/ BuildRaises(ParseFile(Files[f], backend))

\* Its error is kept, and what was counted until then.
Fail(f) ==
  LET parsed == ParseFile(Files[f], backend) IN
  /\ failed' = failed \cup {f}
  /\ stats' = IF parsed = Failed THEN stats ELSE AddStats(stats, CountsUntilRaise(parsed))
  /\ UNCHANGED <<ok, units>>

\* The result of a worker is merged, or its error.
FileDone(f) ==
  /\ f \notin ok \cup failed
  /\ IF RaisesFor(f) THEN Fail(f) ELSE Merge(f, Result(f))
  /\ UNCHANGED backend

FilesInit ==
  /\ backend \in {"pypff", "libratom"}
  /\ ok = {} /\ failed = {}
  /\ units = <<>>
  /\ stats = NoStats

FilesNext == \E f \in DOMAIN Files : FileDone(f)

FilesSpec == FilesInit /\ [][FilesNext]_fileVars

----------------------------------------------------------------------------
(* What the files hold, read without regard to how they are parsed. What the code does lose is     *)
(* left out here, each loss by its name: a sheet with a row over the limit or of several lines, and *)
(* the HTML that pypff does not look at for a body of blanks, and libratom at all in some messages. *)

Budget == MaxPartTokens \div 2 - 1

Plain(rows) == \A i \in DOMAIN rows : Len(rows[i]) <= 1 /\ Len(Join(rows[i])) <= Budget

SheetTokens(rows) == IF Plain(rows) THEN UNION {InLines(rows[i]) : i \in DOMAIN rows} ELSE {}

PageTokens(page) == IF page.fails THEN {} ELSE Visible(IF page.text = <<>> THEN page.ocr ELSE page.text)

DocTokens(f) ==
  CASE FormatOf(f) = ".pdf" -> IF f.encrypted THEN {} ELSE UNION {PageTokens(p) : p \in ToSet(f.pages)}
    [] FormatOf(f) = ".docx" -> (UNION {Visible(p.text) : p \in ToSet(f.paragraphs)}) \cup InLines(f.tables)
    [] FormatOf(f) = ".pptx" -> UNION {InLines(slide) : slide \in ToSet(f.slides)}
    [] FormatOf(f) \in {".xlsx", ".xls"} -> UNION {SheetTokens(sheet.rows) : sheet \in ToSet(f.sheets)}
    [] FormatOf(f) = ".eml" -> InLines(EmlBody(f.msg))
    [] FormatOf(f) = ".msg" -> InLines(IF InLines(f.body) = {} THEN f.html ELSE f.body)
    [] OTHER -> InLines(f.lines)

AttachmentTokens(atts) ==
  UNION {DocTokens(a.file) :
           a \in {b \in atts : ~b.fails /\ ~b.excluded /\ FormatOf(b.file) # "none" /\ ~Unreadable(b.file)}}

\* The folders up to one that breaks.
Opened(f) == {i \in DOMAIN f.folders : f.opens /\ \A k \in 1..(i - 1) : ~f.folders[k].breaks}

Reached(f) == {f.folders[i] : i \in Opened(f)}

HtmlUnread(m, teams) == IF backend = "pypff" THEN Join(m.body) # <<>> ELSE m.multipart \/ teams

MessageTokens(m, teams) ==
  IF m.fails \/ (m.ad /\ ~teams) THEN {}
  ELSE InLines(m.body) \cup (IF InLines(m.body) = {} /\ ~HtmlUnread(m, teams) THEN InLines(m.html) ELSE {})
         \cup AttachmentTokens(ToSet(m.atts))

Attached(msg) ==
  {p \in ToSet(msg) : IsAttachment(p) /\ \A q \in ToSet(msg) : IsAttachment(q) => ~Inside(p, q)}

Promised(f) ==
  IF f.suffix = ".pst"
  THEN UNION {UNION {MessageTokens(m, folder.teams) : m \in ToSet(folder.messages)} : folder \in Reached(f)}
  ELSE IF FormatOf(f) \notin {".eml", ".msg"} THEN DocTokens(f)
  ELSE IF f.ad THEN {}
  ELSE DocTokens(f) \cup
         AttachmentTokens(IF FormatOf(f) = ".eml" THEN Attached(f.msg) ELSE {a \in ToSet(f.items) : ~a.item})

\* The places of the attachments of a file. What pypff cannot read of a message, and what is no file
\* of bytes in an Outlook mail, is none.
AttachmentsIn(m) == {k \in DOMAIN m.atts : backend = "pypff" => ~m.atts[k].fails}

AttachmentsUnder(folder) ==
  UNION {{j} \X AttachmentsIn(folder.messages[j]) : j \in {i \in DOMAIN folder.messages : ~folder.messages[i].fails}}

Outermost(msg) ==
  {i \in DOMAIN msg : IsAttachment(msg[i]) /\ \A k \in DOMAIN msg : IsAttachment(msg[k]) => ~Inside(msg[i], msg[k])}

AttachmentPlaces(f) ==
  IF f.suffix = ".pst" THEN UNION {{i} \X AttachmentsUnder(f.folders[i]) : i \in Opened(f)}
  ELSE IF FormatOf(f) = ".eml" THEN Outermost(f.msg)
  ELSE IF FormatOf(f) = ".msg" THEN {i \in DOMAIN f.items : ~f.items[i].item /\ ~f.items[i].fails}
  ELSE {}

UnitTokens(u) == UNION {Visible(u.parts[k]) : k \in DOMAIN u.parts}

Indexed == UNION {UnitTokens(units[id]) : id \in DOMAIN units}

\* An id that two units of different text have: only one of them is kept.
Clash(u, v) == u.id = v.id /\ u.parts # v.parts

\* A token of a unit whose id a unit of another text has as well.
LostToNamesake(f, t) ==
  \E u \in ToSet(Result(f).units) :
    t \in UnitTokens(u) /\ \E g \in ok : \E v \in ToSet(Result(g).units) : Clash(u, v)

----------------------------------------------------------------------------
(* Properties. *)

\* However the newlines count, a part is within the limit, but for its first character: the tokens
\* over the limit go on with a character that a cut fell into and that was moved here whole.
WithinLimit ==
  \A id \in DOMAIN units : \A k \in DOMAIN units[id].parts :
    LET part == units[id].parts[k] IN
    \A p \in 2..(Len(part) - MaxPartTokens + 1) : part[p] \in Continues

\* All that a file holds is in some part, but for the losses named above and for units whose id another
\* unit has: a failing page, message, part or attachment costs nothing else.
NothingLost ==
  LET indexed == Indexed IN
  \A f \in ok : \A t \in Promised(Files[f]) \ indexed : LostToNamesake(f, t)

SamePath(f) == {g \in ok : Path(g) = Path(f)}

FirstRow(rows) == CHOOSE i \in DOMAIN rows : ~Blank(Join(rows[i])) /\ \A j \in 1..(i - 1) : Blank(Join(rows[j]))

\* The rows that a unit of a sheet names, if each is named by off too much.
CitedRows(unit, off) == (unit.meta.rows[1] - off)..(unit.meta.rows[2] - off)

\* The unit of a block holds the header and the rows.
HoldsRows(unit, rows, cited) ==
  Plain(rows) =>
    UnitTokens(unit) = InLines(rows[FirstRow(rows)]) \cup UNION {InLines(rows[i]) : i \in cited}

\* A page is found under its own number, and a block of a sheet under the numbers of its rows: in an
\* .xlsx file they are too high by the rows above the used range of the sheet, and by no more.
PlacesCited ==
  \A f \in ok : SamePath(f) = {f} =>
    \A id \in {i \in DOMAIN units : i[1] = "doc" /\ i[2] = Path(f)} :
      /\ FormatOf(Files[f]) = ".pdf" => UnitTokens(units[id]) = PageTokens(Files[f].pages[id[3][2]])
      /\ FormatOf(Files[f]) \in {".xlsx", ".xls"} =>
           LET s == id[3][2] IN
           HoldsRows(units[id], Files[f].sheets[s].rows, CitedRows(units[id], CountsFrom(Files[f], s) - 1))

\* No attachment is built a second time from the flat list, and the mail or chat that an attachment
\* names as its parent is in the index.
ParentsKept ==
  /\ stats.orphans = 0
  /\ \A id \in DOMAIN units : units[id].type = "attachment" => units[id].meta.parent \in DOMAIN units

\* Files that only the builder raised an exception for.
Spoilt == {f \in failed : ParseFile(Files[f], backend) # Failed}

PlacesIn(files) == UNION {{f} \X AttachmentPlaces(Files[f]) : f \in files}

\* Each attachment that the mails and archives hold is counted once, as parsed, left out, failed or
\* gone with an advertisement, and has its parent. Of a spoilt file no more are counted than it holds.
AttachmentsAccounted ==
  /\ stats.total + stats.adAttachments \in Cardinality(PlacesIn(ok))..Cardinality(PlacesIn(ok \cup Spoilt))
  /\ stats.total = stats.parsed + stats.excluded + stats.failed
  /\ ParentsKept

\* A mail that several archives hold knows all the folders it was found in.
FoldersMerged ==
  \A f \in ok : Files[f].suffix = ".pst" =>
    \A mail \in ToSet(PstMails(Files[f], backend)) : ~mail.ad =>
      mail.folder \in units[MakeEmailId(mail.mid, mail.key)].meta.folders

Chains(sessions) ==
  \A s \in DOMAIN sessions :
    /\ \A i \in 1..(Len(sessions[s]) - 1) : ~Far(sessions[s][i], sessions[s][i + 1])
    /\ s > 1 => Far(Last(sessions[s - 1]), sessions[s][1])

InTimeOrder(msgs) == \A i \in 1..(Len(msgs) - 1) : msgs[i].time <= msgs[i + 1].time

\* The sessions of a room together are its messages in the order of their times.
SessionsOfRoom(chats, room) ==
  LET msgs == FlattenSeq(SessionsOf(chats, room)) IN
  /\ Chains(SessionsOf(chats, room))
  /\ InTimeOrder(msgs)
  /\ Len(msgs) = Cardinality({i \in DOMAIN chats : chats[i].room = room})
  /\ ToSet(msgs) = {m \in ToSet(chats) : m.room = room}

\* Messages of a room are in one session exactly when no pause between them is too long.
SessionsAreChains ==
  \A f \in ok : Files[f].suffix = ".pst" =>
    \A chat \in ToSet(PstChats(Files[f], backend)) : SessionsOfRoom(PstChats(Files[f], backend), chat.room)

(* What the code does not keep. *)

\* The number of a node is no key: mails without a Message-ID from different archives are not taken
\* for copies of each other.
NodeIsNoKey ==
  \A f \in ok : Files[f].suffix = ".pst" =>
    \A folder \in Reached(Files[f]) : \A m \in ToSet(folder.messages) :
      m.mid = "" /\ ~m.fails => InLines(m.body) \subseteq Indexed

\* Each line of a sheet's content has the number of its row.
LinesHaveNumbers ==
  \A f \in ok : FormatOf(Files[f]) \in {".xlsx", ".xls"} =>
    \A s \in DOMAIN Files[f].sheets :
      LET doc == ExtractSheets(Files[f])[s] IN Len(doc.content) = Len(doc.numbers)

\* A row over the limit is indexed in several blocks, none of it is lost.
LongRowsKept ==
  \A f \in ok : FormatOf(Files[f]) \in {".xlsx", ".xls"} =>
    \A s \in DOMAIN Files[f].sheets :
      LET rows == Files[f].sheets[s].rows IN
      (\A i \in DOMAIN rows : Len(rows[i]) <= 1) => InLines(FlattenSeq(rows)) \subseteq Indexed

\* A block of a sheet names the rows it has in the sheet (split.py:27).
RowsCited ==
  \A f \in ok : SamePath(f) = {f} =>
    \A id \in {i \in DOMAIN units : i[1] = "doc" /\ i[2] = Path(f)} :
      FormatOf(Files[f]) \in {".xlsx", ".xls"} =>
        HoldsRows(units[id], Files[f].sheets[id[3][2]].rows, CitedRows(units[id], 0))

\* No part is longer than the limit (split.py:75).
PartsInLimit ==
  \A id \in DOMAIN units : \A k \in DOMAIN units[id].parts : Len(units[id].parts[k]) <= MaxPartTokens

\* A file fails only when it cannot be read itself, not for one of its attachments.
FailsByItself == \A f \in failed : ParseFile(Files[f], backend) = Failed
=============================================================================
