----------------------------- MODULE MCEvidence -----------------------------
EXTENDS Evidence

Base == [root |-> <<"data", "x", "y", "z">>, rel |-> <<"f">>, suffix |-> "", magic |-> "none"]

With(f, g) == [k \in DOMAIN f \cup DOMAIN g |-> IF k \in DOMAIN g THEN g[k] ELSE f[k]]

File(name, suffix, what) == With(With(Base, [rel |-> <<name>>, suffix |-> suffix, magic |-> suffix]), what)

Note(name, n) == File(name, ".txt", [lines |-> <<Tokens(name, n)>>])

Att(name, excluded, fails, file) == [name |-> name, excluded |-> excluded, fails |-> fails, file |-> file]

\* Short lines whose newlines are more than they are taken for, and a line over the limit.
TextLines(name, lengths) == [i \in DOMAIN lengths |-> Tokens(name \o ToString(i), lengths[i])]

\* Characters of three tokens, on their own and where a newline of three makes lines too long.
MCContinues == {<<"wide", k>> : k \in {2, 3, 5, 6, 8, 9, 11, 12}} \cup {<<"two", 2>>}

WideLines == <<Tokens("wide", 12), Tokens("u", 1), <<>>, Tokens("two", 2), <<>>, Tokens("v", 1)>>

TextFile(name) == File(name, ".txt", [lines |-> TextLines(name, <<3, 1, 1, 1, 0, 9>>)])

\* A page without text, a picture and a page in full; two sections and a table; two slides.
Pdf(name) == File(name, ".pdf", [encrypted |-> FALSE, pages |->
  <<[fails |-> FALSE, text |-> <<>>, ocr |-> <<>>],
    [fails |-> FALSE, text |-> <<>>, ocr |-> Tokens(name \o "o", 2)],
    [fails |-> TRUE, text |-> Tokens(name \o "f", 1), ocr |-> <<>>],
    [fails |-> FALSE, text |-> Tokens(name, 9), ocr |-> <<>>]>>])

Docx(name) == File(name, ".docx", [tables |-> <<Tokens(name \o "t", 2)>>, paragraphs |->
  <<[heading |-> TRUE, text |-> Tokens(name \o "h", 1)], [heading |-> FALSE, text |-> <<>>],
    [heading |-> FALSE, text |-> Tokens(name \o "p", 3)], [heading |-> TRUE, text |-> Tokens(name \o "i", 6)],
    [heading |-> FALSE, text |-> Tokens(name \o "q", 7)]>>])

Pptx(name) == File(name, ".pptx", [slides |-> << << >>, <<Tokens(name, 2), <<>>, Tokens(name \o "n", 3)>> >>])

\* A blank row above the header, which the used range leaves out; a wide header; a row over the limit;
\* a row of two lines.
RowsOf(name, rows) == [i \in 1..Len(rows) |->
  IF rows[i] = 0 THEN << <<>> >> ELSE <<Tokens(name \o ToString(i), rows[i])>>]

Sheet(min, rows) == [min |-> min, rows |-> rows]

Xlsx(name) == File(name, ".xlsx", [sheets |->
  <<Sheet(2, RowsOf(name \o "a", <<0, 2, 3, 0, 3, 1, 2, 3>>)), Sheet(1, <<>>)>>])

Wide(name) == File(name, ".xls", [sheets |->
  <<Sheet(2, RowsOf(name \o "c", <<5, 2, 3, 12, 3>>)),
    Sheet(1, <<RowsOf(name, <<1>>)[1], <<Tokens(name \o "d", 1), Tokens(name \o "e", 1)>>, <<Tokens(name \o "g", 1)>> >>)>>])

NoSheets == File("n0", ".xlsx", [sheets |-> <<>>])

Message(mid, node, body, atts) ==
  [fails |-> FALSE, mid |-> mid, node |-> node, key |-> body, ad |-> FALSE, time |-> NoTime, topic |-> "",
   body |-> TextLines(body, <<3, 1, 1, 4>>), html |-> <<>>, multipart |-> TRUE, atts |-> atts]

Chat(topic, time, body, atts) ==
  With(Message("c", "c", body, atts), [time |-> time, topic |-> topic, body |-> <<Tokens(body, 1)>>])

Folder(path, teams, messages) == [path |-> path, teams |-> teams, breaks |-> FALSE, messages |-> messages]

Atts == <<Att("a1", FALSE, FALSE, Note("n1", 2)), Att("a2", FALSE, TRUE, Note("n2", 1)),
          Att("a3", TRUE, FALSE, Base), Att("a4", FALSE, FALSE, Base), Att("a5", FALSE, FALSE, Pdf("n3")),
          Att("a6", FALSE, FALSE, With(Note("n4", 1), [suffix |-> ".docx"]))>>

Pst1 == File("one.pst", ".pst", [opens |-> TRUE, folders |->
  <<Folder(<<"r", "in">>, FALSE, <<Message("x", "1", "mx", Atts), With(Message("", "", "mf", <<>>), [fails |-> TRUE]),
                                   With(Message("", "7", "m7", <<>>), [body |-> WideLines]),
                                   With(Message("h", "8", "mh", <<>>), [body |-> << <<>>, <<>> >>, html |-> <<Tokens("mh", 2)>>]),
                                   With(Message("g", "9", "mg", <<>>), [body |-> <<>>, html |-> <<Tokens("mg", 2)>>, multipart |-> FALSE])>>),
    Folder(<<"r", "Teams Chat">>, TRUE,
           <<Chat("t", 40, "k3", <<>>), Chat("t", 1, "k1", <<Att("b1", FALSE, FALSE, Note("n5", 1))>>),
             Chat("t", 25, "k2", <<>>), Chat("", NoTime, "k0", <<>>), Chat("t", 80, "k4", <<>>)>>)>>])

Pst2 == File("two.pst", ".pst", [opens |-> TRUE, folders |->
  <<Folder(<<"s", "sent">>, FALSE, <<Message("x", "2", "mx", Atts), Message("", "7", "n7", <<>>),
                                    With(Message("y", "3", "ma", <<Att("c1", FALSE, FALSE, Note("n6", 1))>>), [ad |-> TRUE])>>),
    With(Folder(<<"s", "sub">>, FALSE, <<Message("w", "4", "mw", <<>>)>>), [breaks |-> TRUE]),
    Folder(<<"s", "rest">>, FALSE, <<Message("v", "5", "mv", <<>>)>>)>>])

Part(at, type, attached, what) ==
  With([at |-> at, type |-> type, attached |-> attached, fails |-> FALSE, text |-> <<>>,
        name |-> "p", excluded |-> FALSE, file |-> Base], what)

Inner(at) ==
  <<Part(at, "multipart", FALSE, Base),
    Part(at \o <<1>>, "plain", FALSE, [text |-> Tokens("in", 2)]),
    Part(at \o <<2>>, "octet", TRUE, [name |-> "deep", file |-> Note("deep", 1)])>>

EmlFile(name, mid, msg) == File(name, ".eml", [mid |-> mid, key |-> mid, ad |-> FALSE, msg |-> msg])

\* A body in two types, a note, and a mail with a body and a note of its own.
Eml == EmlFile("m.eml", "z",
  <<Part(<<>>, "multipart", FALSE, Base),
    Part(<<1>>, "multipart", FALSE, Base),
    Part(<<1, 1>>, "plain", FALSE, [text |-> Tokens("mx", 3)]),
    Part(<<1, 2>>, "html", FALSE, [text |-> Tokens("eh", 3)]),
    Part(<<2>>, "octet", TRUE, [name |-> "doc", file |-> Note("n1", 2)]),
    Part(<<3>>, "message", FALSE, [name |-> "fw.eml", file |-> EmlFile("fw.eml", "i", Inner(<<>>))])>>
  \o Inner(<<3, 1>>))

\* An Outlook mail with an HTML body, slides and an attached item that is passed over.
Msg == File("o.msg", ".msg", [mid |-> "", key |-> "o", ad |-> FALSE, body |-> << <<>> >>, html |-> <<Tokens("oh", 2)>>, items |->
  <<With(Att("it", FALSE, FALSE, Base), [item |-> TRUE]), With(Att("sl", FALSE, FALSE, Pptx("sl")), [item |-> FALSE]),
    With(Att("no", FALSE, TRUE, Base), [item |-> FALSE])>>])

\* An archive with a workbook without sheets, with an attachment before and after it.
EmptyBook == File("three.pst", ".pst", [opens |-> TRUE, folders |->
  <<Folder(<<"q">>, FALSE, <<Message("q", "6", "mq",
    <<Att("d0", TRUE, FALSE, Base), Att("d1", FALSE, FALSE, NoSheets), Att("d2", TRUE, FALSE, Base)>>)>>)>>])

MCFiles ==
  [one |-> Pst1, two |-> Pst2, mail |-> Eml, pdf |-> Pdf("pdf"), docx |-> Docx("docx"),
   xlsx |-> Xlsx("xlsx"), wide |-> Wide("wide"), outlook |-> Msg, text |-> TextFile("txt"),
   empty |-> EmptyBook,
   broken |-> With(Note("b", 1), [suffix |-> ".pdf"])]
=============================================================================
