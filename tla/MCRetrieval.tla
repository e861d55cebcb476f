---------------------------- MODULE MCRetrieval ----------------------------
EXTENDS Retrieval

\* A mail of two parts, a talk over the turn of a month, a file of the first day of the next one, a
\* file without a date, a mail of the year before.
MCParts == <<
  [unit |-> 1, type |-> "email", first |-> 20250331, last |-> 20250331, people |-> {"kim"}, author |-> "", editor |-> ""],
  [unit |-> 1, type |-> "email", first |-> 20250331, last |-> 20250331, people |-> {"kim"}, author |-> "", editor |-> ""],
  [unit |-> 2, type |-> "chat", first |-> 20250228, last |-> 20250301, people |-> {"kim", "lee"}, author |-> "", editor |-> ""],
  [unit |-> 3, type |-> "document", first |-> 20250401, last |-> 20250401, people |-> {}, author |-> "lee", editor |-> "kim"],
  [unit |-> 4, type |-> "document", first |-> 0, last |-> 0, people |-> {}, author |-> "kim", editor |-> ""],
  [unit |-> 5, type |-> "email", first |-> 20240105, last |-> 20240105, people |-> {"kim"}, author |-> "", editor |-> ""]>>

Plain == [types |-> {}, dates |-> <<>>, people |-> {}, authors |-> {}, editors |-> {}]

Date(joined, year, from, toYear, to) ==
  [form |-> "months", joined |-> joined, year |-> year, from |-> from, toYear |-> toYear, to |-> to]
OfYear(y) == [form |-> "year", year |-> y]
OfDay(d) == [form |-> "day", day |-> d]

\* One month, with a year and without; months in words, joined otherwise, over the turn of a year.
MCQuestions == {
  Plain,
  [Plain EXCEPT !.dates = <<Date("alone", 2025, 3, 0, 3)>>],
  [Plain EXCEPT !.dates = <<Date("words", 0, 2, 0, 3)>>, !.types = {"email", "chat"}],
  [Plain EXCEPT !.dates = <<Date("words", 2024, 1, 0, 12)>>],
  [Plain EXCEPT !.dates = <<Date("other", 2025, 2, 0, 3)>>, !.types = {"email"}],
  [Plain EXCEPT !.dates = <<Date("words", 2024, 11, 2025, 2)>>, !.types = {"chat"}],
  [Plain EXCEPT !.dates = <<Date("words", 2024, 11, 0, 2)>>, !.types = {"chat"}],
  [Plain EXCEPT !.dates = <<Date("alone", 0, 3, 0, 3)>>, !.types = {"email"}],
  [Plain EXCEPT !.dates = <<OfYear(2025)>>, !.people = {"kim"}],
  [Plain EXCEPT !.dates = <<OfDay(20250301), OfYear(2024)>>],
  [Plain EXCEPT !.dates = <<OfDay(20250301), OfDay(20250401)>>, !.types = {"document"}, !.authors = {"lee"}, !.editors = {"kim"}]}

MCRequested == {<<>>, [type |-> {"document", "email"}], [type |-> {}, gte |-> 20250301]}
=============================================================================
