------------------------------ MODULE DocParse ------------------------------
(***************************************************************************)
(* The parsers (src/parsers/document_parser.py, pst_parser.py): what is    *)
(* taken from a file of each format, and what the failure of one of its    *)
(* pieces costs.                                                           *)
(*                                                                         *)
(* A file is a record of what its format holds; the libraries that read    *)
(* the formats are external. A record that fails is one the library raises *)
(* an exception for. Metadata other than ids are left out, and so is       *)
(* wording: texts are sequences of tokens as in UnitBuild.                 *)
(*                                                                         *)
(* LooksIntoNestedMail and EmptyPagesVanish are mutants of the definitions *)
(* that follow them.                                                       *)
(***************************************************************************)
EXTENDS UnitBuild

----------------------------------------------------------------------------
(* Formats. *)

SupportedTypes == {".pdf", ".docx", ".pptx", ".xlsx", ".xls", ".txt", ".html", ".eml", ".msg"}

\* detect_format finds what the bytes are (magic), for the formats it knows; a text has no mark.
DetectFormat(f) == IF f.magic \in SupportedTypes \ {".txt"} THEN f.magic ELSE "none"

FormatOf(f) == IF f.suffix \in SupportedTypes THEN f.suffix ELSE DetectFormat(f)

\* A library raises an exception for a file of another format; any bytes decode as text,
\* and pass for a mail.
Unreadable(f) == FormatOf(f) \notin {f.magic, ".txt", ".html", ".eml"}

\* ParsedDocument.
Parsed(type, content, pages, numbers) ==
  [type |-> type, content |-> content, pages |-> pages, numbers |-> numbers]

----------------------------------------------------------------------------
(* Documents. *)

\* The first pass of _extract_pdf: a page that cannot be read counts as empty and is not recognised
\* either; one with little text goes to OCR and keeps its text all the same.
TextLayer(page) == IF page.fails THEN <<>> ELSE page.text

OcrThreshold == 2

Sparse(page) == ~page.fails /\ Len(page.text) < OcrThreshold

EmptyPagesVanish(pages, ocr) ==
  NotBlank([i \in DOMAIN pages |-> IF TextLayer(pages[i]) # <<>> THEN TextLayer(pages[i]) ELSE ocr[i]])

\* pages_full: the text layer, or else what OCR found; an empty page keeps its place.
PagesFull(pages, ocr) ==
  [i \in DOMAIN pages |-> IF TextLayer(pages[i]) # <<>> THEN TextLayer(pages[i]) ELSE ocr[i]]

ExtractPdf(f) ==
  LET ocr == [i \in DOMAIN f.pages |-> IF Sparse(f.pages[i]) THEN f.pages[i].ocr ELSE <<>>]
      pages == IF f.encrypted THEN <<>> ELSE PagesFull(f.pages, ocr)
  IN  <<Parsed("pages", <<>>, [i \in DOMAIN pages |-> <<pages[i]>>], <<>>)>>

\* A heading begins a section unless it would be empty.
AddParagraph(sections, p) ==
  IF Blank(p.text) THEN sections
  ELSE IF p.heading /\ Last(sections) # <<>> THEN Append(sections, <<p.text>>)
  ELSE Append(Front(sections), Append(Last(sections), p.text))

SectionsOf(paragraphs) ==
  LET sections[n \in 0..Len(paragraphs)] ==
        IF n = 0 THEN << <<>> >> ELSE AddParagraph(sections[n - 1], paragraphs[n])
  IN  sections[Len(paragraphs)]

\* The tables are a last section.
ExtractDocx(f) ==
  LET sections == SectionsOf(f.paragraphs)
      tables == NotBlank(f.tables)
  IN  <<Parsed("docx", <<>>, Those(sections, {i \in DOMAIN sections : sections[i] # <<>>})
                               \o (IF tables = <<>> THEN <<>> ELSE <<tables>>), <<>>)>>

\* An empty slide keeps its place.
ExtractPptx(f) ==
  <<Parsed("pages", <<>>, [i \in DOMAIN f.slides |-> NotBlank(f.slides[i])], <<>>)>>

\* A sheet is its rows and the row its used range begins with (min_row). _extract_xlsx reads the rows
\* from the first one on, but counts from min_row; _parse_xls_bytes counts from 1.
CountsFrom(f, s) == IF FormatOf(f) = ".xlsx" THEN f.sheets[s].min ELSE 1

\* Places of the rows that are not blank. A cell may hold several lines, and so may a row.
RowsKept(rows) == Those([i \in DOMAIN rows |-> i], {i \in DOMAIN rows : ~Blank(Join(rows[i]))})

RowNumbers(kept, start) == [k \in DOMAIN kept |-> kept[k] + start - 1]

ExtractSheet(rows, start) ==
  LET kept == RowsKept(rows) IN
  Parsed("sheet", FlattenSeq([k \in DOMAIN kept |-> rows[kept[k]]]), <<>>, RowNumbers(kept, start))

ExtractSheets(f) == [s \in DOMAIN f.sheets |-> ExtractSheet(f.sheets[s].rows, CountsFrom(f, s))]

\* The first encoding that decodes all of it; the last one, latin-1, always does.
ExtractText(f) == <<Parsed("text", f.lines, <<>>, <<>>)>>

----------------------------------------------------------------------------
(* Mails: the parts of one in the order of walk(), each with the path to it, <<>> for the mail. *)

Inside(part, other) == IsStrictPrefix(other.at, part.at)

\* msg.walk(), but for what is inside an attached mail.
Walk(msg) ==
  Those(msg, {i \in DOMAIN msg :
    \A k \in DOMAIN msg : msg[k].type = "message" /\ msg[k].at # <<>> => ~Inside(msg[i], msg[k])})

LooksIntoNestedMail(msg) ==
  Those(msg, {i \in DOMAIN msg :
    msg[i].attached /\ \A k \in DOMAIN msg : msg[k].attached => ~Inside(msg[i], msg[k])})

IsAttachment(part) == part.type = "message" \/ part.attached

\* visit of _collect_eml_attachments: an attached mail is one attachment, whatever it holds.
MimeAttachments(msg) ==
  Those(msg, {i \in DOMAIN msg :
    IsAttachment(msg[i]) /\ \A k \in DOMAIN msg : IsAttachment(msg[k]) => ~Inside(msg[i], msg[k])})

\* Texts of a type; a part that fails is left out.
BodyParts(msg, type) ==
  LET parts == Walk(msg)
      found == Those(parts, {i \in DOMAIN parts : parts[i].type = type /\ ~parts[i].attached /\ ~parts[i].fails})
  IN  [i \in DOMAIN found |-> found[i].text]

\* _extract_eml_body: the plain parts, or else the HTML parts.
EmlBody(msg) == IF BodyParts(msg, "plain") # <<>> THEN BodyParts(msg, "plain") ELSE BodyParts(msg, "html")

\* An attachment whose bytes cannot be had is empty.
RawAttachment(part) == [name |-> part.name, excluded |-> part.excluded, empty |-> part.fails, file |-> part.file]

RawAttachments(found) == [k \in DOMAIN found |-> RawAttachment(found[k])]

Mail(f, body, atts) == [mid |-> f.mid, key |-> f.key, ad |-> f.ad, body |-> body, atts |-> atts]

ExtractEml(f) == Mail(f, EmlBody(f.msg), RawAttachments(MimeAttachments(f.msg)))

\* _extract_msg: the plain body, or else the HTML one; an attached Outlook item has no bytes and is
\* passed over.
BodyOrHtml(m) == IF Blank(Join(m.body)) THEN m.html ELSE m.body

ExtractMsg(f) ==
  Mail(f, BodyOrHtml(f),
       RawAttachments(Those(f.items, {i \in DOMAIN f.items : ~f.items[i].item /\ ~f.items[i].fails})))

\* parse and parse_bytes of a format that is not a mail.
ParseDocument(f) ==
  CASE FormatOf(f) = ".pdf" -> ExtractPdf(f)
    [] FormatOf(f) = ".docx" -> ExtractDocx(f)
    [] FormatOf(f) = ".pptx" -> ExtractPptx(f)
    [] FormatOf(f) \in {".xlsx", ".xls"} -> ExtractSheets(f)
    [] OTHER -> ExtractText(f)

\* parse_bytes, as _build_attachment uses it: a mail is a text, and what is attached to it is left
\* out. It begins with its headers, which _email_body_from_parsed takes off from a mail of its own.
AttachedDocument(f) ==
  CASE FormatOf(f) = ".eml" -> <<Parsed("text", << <<HeaderLine>> >> \o EmlBody(f.msg), <<>>, <<>>)>>
    [] FormatOf(f) = ".msg" -> <<Parsed("text", << <<HeaderLine>> >> \o BodyOrHtml(f), <<>>, <<>>)>>
    [] OTHER -> ParseDocument(f)

Outcome(att) ==
  IF att.excluded \/ att.empty \/ FormatOf(att.file) = "none" THEN "excluded"
  ELSE IF Unreadable(att.file) THEN "failed" ELSE "parsed"

ParseAttachment(att) ==
  [name |-> att.name, outcome |-> Outcome(att),
   docs |-> IF Outcome(att) = "parsed" THEN AttachedDocument(att.file) ELSE <<>>]

ParseAttachments(atts) == [k \in DOMAIN atts |-> ParseAttachment(atts[k])]

----------------------------------------------------------------------------
(* Mail archives. *)

\* _extract_pypff_attachments passes over what it cannot read, _extract_eml_attachments takes it as empty.
PypffAttachments(m) ==
  ParseAttachments(RawAttachments(Those(m.atts, {i \in DOMAIN m.atts : ~m.atts[i].fails})))

EmlAttachments(m) == ParseAttachments(RawAttachments(m.atts))

\* The HTML of a message stands in for a plain body it does not have, not for one of blanks.
PypffBody(m) == IF Join(m.body) = <<>> THEN m.html ELSE m.body

\* The number of the node stands in for a missing Message-ID.
PypffToEmail(m, path) ==
  [mid |-> IF m.mid = "" THEN m.node ELSE m.mid, key |-> m.key, ad |-> m.ad, folder |-> path,
   body |-> PypffBody(m), atts |-> PypffAttachments(m)]

\* chat_room_key: the folder and the topic.
PypffToChat(m, path) ==
  [room |-> <<path, m.topic>>, time |-> m.time, body |-> Join(PypffBody(m)), atts |-> PypffAttachments(m)]

\* The libratom backend makes a mail of each message, and knows a folder by its own name only. HTML
\* stands in for the body of a mail that has one part; a chat without a plain body is empty.
EmlToEmail(m, path) ==
  [mid |-> m.mid, key |-> m.key, ad |-> m.ad, folder |-> Last(path),
   body |-> IF Blank(Join(m.body)) /\ ~m.multipart THEN m.html ELSE m.body,
   atts |-> EmlAttachments(m)]

EmlToChat(m, path) ==
  [room |-> <<Last(path), m.topic>>, time |-> m.time, body |-> Join(m.body), atts |-> EmlAttachments(m)]

\* A message that fails is left out, the next ones are read.
Readable(folder) ==
  Those(folder.messages, {i \in DOMAIN folder.messages : ~folder.messages[i].fails})

\* The folders in the order of the walk, up to one whose subfolders cannot be listed; none of an
\* archive that cannot be opened. No error reaches the caller.
Walked(f) ==
  Those(f.folders, {i \in DOMAIN f.folders : f.opens /\ \A k \in 1..(i - 1) : ~f.folders[k].breaks})

\* The messages of the folders named like Teams ones, or of the others.
InFolder(folder) ==
  [k \in DOMAIN Readable(folder) |-> [msg |-> Readable(folder)[k], path |-> folder.path]]

MessagesIn(folders, teams) ==
  FlattenSeq([i \in DOMAIN folders |-> IF folders[i].teams = teams THEN InFolder(folders[i]) ELSE <<>>])

PstMails(f, backend) ==
  LET found == MessagesIn(Walked(f), FALSE) IN
  [i \in DOMAIN found |-> IF backend = "pypff" THEN PypffToEmail(found[i].msg, found[i].path)
                                               ELSE EmlToEmail(found[i].msg, found[i].path)]

PstChats(f, backend) ==
  LET found == MessagesIn(Walked(f), TRUE) IN
  [i \in DOMAIN found |-> IF backend = "pypff" THEN PypffToChat(found[i].msg, found[i].path)
                                               ELSE EmlToChat(found[i].msg, found[i].path)]

\* The attachments of mails and chats are listed once more: the same objects.
FlatList(kind, records) ==
  FlattenSeq([i \in DOMAIN records |->
    [k \in DOMAIN records[i].atts |-> [id |-> <<kind, i, k>>, att |-> records[i].atts[k]]]])

PstParseResult(mails, chats) ==
  [type |-> "pst", mails |-> mails, chats |-> chats,
   atts |-> FlatList("mail", mails) \o FlatList("chat", chats)]

ParsePst(f, backend) == PstParseResult(PstMails(f, backend), PstChats(f, backend))

----------------------------------------------------------------------------

\* build_file: parse by the suffix, then build. Failed is a file that raises an exception.
Failed == [type |-> "failed"]

ParseFile(f, backend) ==
  IF f.suffix = ".pst" THEN ParsePst(f, backend)
  ELSE IF FormatOf(f) = "none" \/ Unreadable(f) THEN Failed
  ELSE IF FormatOf(f) \in {".eml", ".msg"}
  THEN LET mail == IF FormatOf(f) = ".eml" THEN ExtractEml(f) ELSE ExtractMsg(f) IN
       [type |-> "email", mid |-> mail.mid, key |-> mail.key, ad |-> mail.ad,
        folder |-> Front(RelativeSourcePath(f.root, f.rel)),
        body |-> mail.body, atts |-> ParseAttachments(mail.atts)]
  ELSE [type |-> "document", docs |-> ParseDocument(f)]
=============================================================================
