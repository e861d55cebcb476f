-------------------------- MODULE ChatStream_proofs --------------------------
(***************************************************************************)
(* Proofs about ChatStream: for any cases, answers of any length and any   *)
(* number of questions, what the page shows of an answer is in its row of  *)
(* the history, and a complete answer exactly (RowCoversPage).             *)
(*                                                                         *)
(* Delivered relates what a stream still has under way to what the page    *)
(* has read: the tokens come first, and are those the page has not yet     *)
(* counted; the end of the answer is sent only by a server that has it in  *)
(* full. Sound is what holds of any one request. A step of the server is   *)
(* shown once to be of a few kinds (Served, Grows), which is all the page  *)
(* and the history depend on.                                              *)
(***************************************************************************)
EXTENDS ChatStream, SequenceTheorems, TLAPS

----------------------------------------------------------------------------
(* The inductive invariant. *)

AnyCase == Cases \cup {NoCase}
Events == [kind : {"token", "error", "done", "end", "http_error", "answer"}, answer : Nat]
Request ==
  [kind : {"stream", "query"}, case : AnyCase,
   at : {"check", "search", "found", "stream", "sources", "save", "reply", "ended"},
   wire : Seq(Events), gone : BOOLEAN, noticed : BOOLEAN, answer : Nat,
   llm : {"off", "running", "whole", "failed", "left"}, usage : Nat, lost : BOOLEAN]
Messages == [case : AnyCase, req : Nat, full : Nat, state : {"user", "loading", "done", "error", "stopped"}]
AskWith(slot) == [phase : {"idle", "stream", "fallback"}, req : Nat, case : AnyCase, slot : {slot}, full : Nat,
                  error : BOOLEAN, aborted : BOOLEAN]
Saved == [req : Nat, answer : Nat, stopped : BOOLEAN]

\* What holds of a request by itself.
Sound(q) ==
  /\ q.at \in {"check", "search", "found"} => q.answer = 0 /\ q.llm = "off"
  /\ q.at = "stream" => q.llm = "running"
  /\ q.at \in {"sources", "reply"} => q.llm \in {"off", "whole"}
  /\ q.at = "save" => q.llm \in {"off", "whole"} \/ (q.llm = "left" /\ q.noticed)
  /\ q.noticed => q.gone
  /\ q.at = "reply" => q.kind = "query"
  /\ q.kind = "query" => q.at \in {"check", "search", "reply", "ended"}
  /\ q.kind = "query" => \A j \in 1..Len(q.wire) :
       q.wire[j].kind = "answer" => q.wire[j].answer = q.answer /\ q.at = "ended" /\ q.llm # "left"

\* A stream of which the page has counted full tokens.
Delivered(q, full) ==
  /\ Len(q.wire) >= q.answer - full
  /\ \A j \in 1..Len(q.wire) :
       /\ q.wire[j].kind = "token" <=> j <= q.answer - full
       /\ q.wire[j].kind \in {"done", "end"} => q.at \in {"save", "ended"} /\ q.llm # "left"
       /\ q.wire[j].kind = "error" => q.at = "ended"
  /\ q.at \in {"check", "search", "found", "stream", "sources"} => Len(q.wire) = q.answer - full

OnlyItsEnd(q) == q.at = "ended" /\ \A j \in 1..Len(q.wire) : q.wire[j].kind = "end"

TypeOK ==
  /\ selected \in AnyCase
  /\ \A i \in DOMAIN messages : messages[i] \in Messages
  /\ ask \in AskWith(ask.slot)
  /\ requests \in Seq(Request)
  /\ history \subseteq Saved

RequestsSound == \A r \in DOMAIN requests : Sound(requests[r])

\* The call of handleSend and its request.
AskRight ==
  ask.phase # "idle" =>
    /\ ask.req \in DOMAIN requests
    /\ ask.full <= requests[ask.req].answer
    /\ ~ask.aborted => ~requests[ask.req].gone
    /\ ask.phase = "stream" => requests[ask.req].kind = "stream"
    /\ ask.phase = "fallback" => requests[ask.req].kind = "query"
    /\ ask.phase = "stream" /\ ~ask.aborted =>
         IF ask.error THEN OnlyItsEnd(requests[ask.req]) ELSE Delivered(requests[ask.req], ask.full)

MessagesRight ==
  \A i \in DOMAIN messages :
    LET msg == messages[i] IN
    /\ msg.req \in DOMAIN requests
    /\ msg.full <= requests[msg.req].answer
    /\ msg.state = "done" => /\ msg.full = requests[msg.req].answer
                             /\ requests[msg.req].at \in {"save", "ended"} /\ requests[msg.req].llm # "left"

RowsRight ==
  \A row \in history :
    /\ row.req \in DOMAIN requests
    /\ requests[row.req].at = "ended" /\ row.answer = requests[row.req].answer
    /\ row.stopped => requests[row.req].llm = "left"

IInv == TypeOK /\ RequestsSound /\ AskRight /\ MessagesRight /\ RowsRight

----------------------------------------------------------------------------
(* One step of a server. *)

\* What the page and the history may count on while a server goes from p to q.
Grows(p, q) ==
  /\ q \in Request /\ Sound(q)
  /\ q.kind = p.kind /\ q.gone = p.gone
  /\ q.answer >= p.answer
  /\ p.at \in {"save", "ended"} => q.answer = p.answer /\ q.at \in {"save", "ended"} /\ (p.llm # "left" => q.llm # "left")
  /\ p.at = "ended" => q.at = "ended" /\ q.llm = p.llm /\ q.wire = p.wire
  /\ \A full \in Nat : p.kind = "stream" /\ ~p.gone /\ full <= p.answer /\ Delivered(p, full) => Delivered(q, full)

Kinds == {"token", "error", "done", "end", "http_error", "answer"}
Places == {"check", "search", "found", "stream", "sources", "save", "reply", "ended"}

\* Events that are sent come after those under way.
LEMMA SentFacts ==
  ASSUME NEW wire \in Seq(Events), NEW kind \in Kinds, NEW answer \in Nat
  PROVE  LET sent == wire \o <<[kind |-> kind, answer |-> answer]>> IN
         /\ sent \in Seq(Events) /\ Len(sent) = Len(wire) + 1 /\ Len(wire) \in Nat
         /\ \A j \in 1..Len(wire) : sent[j] = wire[j]
         /\ sent[Len(wire) + 1].kind = kind /\ sent[Len(wire) + 1].answer = answer
<1> DEFINE e == [kind |-> kind, answer |-> answer]
<1>1. e \in Events /\ e.kind = kind /\ e.answer = answer
  BY DEF Events, Kinds
<1> HIDE DEF e
<1>2. Append(wire, e) = wire \o <<e>>
  BY <1>1, AppendIsConcat
<1>3. /\ Append(wire, e) \in Seq(Events) /\ Len(Append(wire, e)) = Len(wire) + 1
      /\ \A j \in 1..Len(wire) : Append(wire, e)[j] = wire[j]
      /\ Append(wire, e)[Len(wire) + 1] = e
  BY <1>1, AppendProperties
<1>4. Len(wire) \in Nat
  BY LenProperties
<1> QED BY <1>1, <1>2, <1>3, <1>4 DEF e

\* The request of a step that sends nothing, and of one that sends an event.
LEMMA QuietFacts ==
  ASSUME TypeOK, NEW r \in DOMAIN requests, NEW to \in Places
  PROVE  requests[r] \in Request /\ Serve(r, to, <<>>) = [requests[r] EXCEPT !.at = to]
<1>1. requests[r] \in Request
  BY ElementOfSeq, LenProperties DEF TypeOK
<1>2. requests[r].wire \in Seq(Events)
  BY <1>1 DEF Request
<1>3. requests[r].wire \o <<>> = requests[r].wire
  BY <1>2, ConcatEmptySeq
<1> QED BY <1>1, <1>3 DEF Serve, Request

Sent(p, q, kind, answer) ==
  /\ Len(q.wire) = Len(p.wire) + 1
  /\ \A j \in 1..Len(p.wire) : q.wire[j] = p.wire[j]
  /\ q.wire[Len(p.wire) + 1].kind = kind /\ q.wire[Len(p.wire) + 1].answer = answer

LEMMA ServeFacts ==
  ASSUME TypeOK, NEW r \in DOMAIN requests, NEW to \in Places, NEW kind \in Kinds, NEW answer \in Nat
  PROVE  LET p == requests[r]
             q == Serve(r, to, <<[kind |-> kind, answer |-> answer]>>)
         IN  /\ p \in Request /\ q \in Request
             /\ q.at = to /\ q.kind = p.kind /\ q.gone = p.gone /\ q.noticed = p.noticed
             /\ q.answer = p.answer /\ q.llm = p.llm /\ q.usage = p.usage
             /\ p.gone => q.wire = p.wire
             /\ ~p.gone => Sent(p, q, kind, answer)
<1> DEFINE p == requests[r]
           sent == p.wire \o <<[kind |-> kind, answer |-> answer]>>
           q == Serve(r, to, <<[kind |-> kind, answer |-> answer]>>)
<1>1. p \in Request
  BY ElementOfSeq, LenProperties DEF TypeOK
<1>2. p.wire \in Seq(Events)
  BY <1>1 DEF Request
<1>3. /\ sent \in Seq(Events) /\ Len(sent) = Len(p.wire) + 1
      /\ \A j \in 1..Len(p.wire) : sent[j] = p.wire[j]
      /\ sent[Len(p.wire) + 1].kind = kind /\ sent[Len(p.wire) + 1].answer = answer
  BY <1>2, SentFacts
<1>4. q = [p EXCEPT !.at = to, !.wire = IF p.gone THEN p.wire ELSE sent]
  BY <1>1 DEF Serve, Request
<1> HIDE DEF p, sent, q
<1>5. /\ q \in Request
      /\ q.at = to /\ q.kind = p.kind /\ q.gone = p.gone /\ q.noticed = p.noticed
      /\ q.answer = p.answer /\ q.llm = p.llm /\ q.usage = p.usage
      /\ q.wire = IF p.gone THEN p.wire ELSE sent
  BY <1>1, <1>2, <1>3, <1>4 DEF Request, Places
<1>6. (p.gone => q.wire = p.wire) /\ (~p.gone => Sent(p, q, kind, answer))
  BY <1>3, <1>5 DEF Sent
<1> QED BY <1>1, <1>5, <1>6 DEF p, q

\* A step of a server that says nothing of the answer.
LEMMA QuietGrows ==
  ASSUME NEW p \in Request, NEW q \in Request, Sound(p), Sound(q),
         q.kind = p.kind, q.gone = p.gone, q.answer = p.answer, q.wire = p.wire,
         p.at \in {"save", "ended"} => q.at \in {"save", "ended"} /\ (p.llm # "left" => q.llm # "left"),
         p.at = "ended" => q.at = "ended" /\ q.llm = p.llm,
         p.gone \/ p.kind = "query" \/ p.at = "ended" \/ {p.at, q.at} \subseteq {"check", "search", "found", "stream", "sources"}
  PROVE  Grows(p, q)
<1>1. q.answer >= p.answer
  BY DEF Request
<1>2. ASSUME NEW full \in Nat, p.kind = "stream", ~p.gone, Delivered(p, full)
      PROVE  Delivered(q, full)
  <2>1. CASE p.at = "ended"
    BY <1>2, <2>1 DEF Delivered
  <2>2. CASE p.at # "ended"
    BY <1>2, <2>2 DEF Delivered
  <2> QED BY <2>1, <2>2
<1> QED BY <1>1, <1>2 DEF Grows

\* A step of a server that sends an event which is not a token.
LEMMA SendingGrows ==
  ASSUME NEW p \in Request, NEW q \in Request, Sound(p), Sound(q), NEW kind \in Kinds \ {"token"}, NEW answer \in Nat,
         q.kind = p.kind, q.gone = p.gone, q.answer = p.answer, p.at # "ended",
         p.gone => q.wire = p.wire, ~p.gone => Sent(p, q, kind, answer),
         q.at \in {"save", "ended"},
         p.at = "save" => (p.llm # "left" => q.llm # "left"),
         kind = "error" => q.at = "ended",
         kind \in {"done", "end"} /\ ~p.gone => q.llm # "left"
  PROVE  Grows(p, q)
<1>1. q.answer >= p.answer
  BY DEF Request
<1>2. ASSUME NEW full \in Nat, p.kind = "stream", ~p.gone, full <= p.answer, Delivered(p, full)
      PROVE  Delivered(q, full)
  <2>1. /\ Len(q.wire) = Len(p.wire) + 1 /\ \A j \in 1..Len(p.wire) : q.wire[j] = p.wire[j]
        /\ q.wire[Len(p.wire) + 1].kind = kind
    BY <1>2 DEF Sent
  <2>2. Len(p.wire) \in Nat /\ p.answer \in Nat
    BY LenProperties DEF Request
  <2>3. Len(p.wire) >= p.answer - full
    BY <1>2 DEF Delivered
  <2>4. ASSUME NEW j \in 1..Len(q.wire)
        PROVE  /\ q.wire[j].kind = "token" <=> j <= q.answer - full
               /\ q.wire[j].kind \in {"done", "end"} => q.at \in {"save", "ended"} /\ q.llm # "left"
               /\ q.wire[j].kind = "error" => q.at = "ended"
    <3>1. CASE j \in 1..Len(p.wire)
      <4>1. q.wire[j] = p.wire[j]
        BY <2>1, <3>1
      <4>2. /\ p.wire[j].kind = "token" <=> j <= p.answer - full
            /\ p.wire[j].kind \in {"done", "end"} => p.at \in {"save", "ended"} /\ p.llm # "left"
            /\ p.wire[j].kind = "error" => p.at = "ended"
        BY <1>2, <3>1 DEF Delivered
      <4> QED BY <4>1, <4>2
    <3>2. CASE j = Len(p.wire) + 1
      BY <1>2, <2>1, <2>2, <2>3, <3>2
    <3> QED BY <2>1, <2>2, <3>1, <3>2
  <2>5. Len(q.wire) >= q.answer - full
    BY <2>1, <2>2, <2>3
  <2> QED BY <2>4, <2>5 DEF Delivered
<1> QED BY <1>1, <1>2 DEF Grows

\* A token is sent and counted.
LEMMA TokenGrows ==
  ASSUME NEW p \in Request, NEW q \in Request, Sound(p), Sound(q), NEW answer \in Nat,
         q.kind = p.kind, q.gone = p.gone, q.answer = p.answer + 1, p.at = "stream", q.at = "stream",
         ~p.gone => Sent(p, q, "token", answer)
  PROVE  Grows(p, q)
<1>1. q.answer >= p.answer
  BY DEF Request
<1>2. ASSUME NEW full \in Nat, p.kind = "stream", ~p.gone, full <= p.answer, Delivered(p, full)
      PROVE  Delivered(q, full)
  <2>1. /\ Len(q.wire) = Len(p.wire) + 1 /\ \A j \in 1..Len(p.wire) : q.wire[j] = p.wire[j]
        /\ q.wire[Len(p.wire) + 1].kind = "token"
    BY <1>2 DEF Sent
  <2>2. Len(p.wire) \in Nat /\ p.answer \in Nat
    BY LenProperties DEF Request
  <2>3. Len(p.wire) = p.answer - full
    BY <1>2 DEF Delivered
  <2>4. ASSUME NEW j \in 1..Len(q.wire)
        PROVE  q.wire[j].kind = "token" /\ j <= q.answer - full
    <3>1. CASE j \in 1..Len(p.wire)
      <4>1. q.wire[j] = p.wire[j] /\ p.wire[j].kind = "token"
        BY <1>2, <2>1, <2>3, <3>1 DEF Delivered
      <4> QED BY <2>2, <2>3, <3>1, <4>1
    <3>2. CASE j = Len(p.wire) + 1
      BY <1>2, <2>1, <2>2, <2>3, <3>2
    <3> QED BY <2>1, <2>2, <3>1, <3>2
  <2>5. Len(q.wire) = q.answer - full
    BY <1>2, <2>1, <2>2, <2>3
  <2> QED BY <2>4, <2>5, <1>2, <2>1, <2>2 DEF Delivered
<1> QED BY <1>1, <1>2 DEF Grows

\* What a step of a server is, for the page and the history.
Served(r) ==
  \E q \in Request :
    /\ Become(r, q)
    /\ Grows(requests[r], q)
    /\ \/ history' = history
       \/ /\ q.at = "ended"
          /\ \E stopped \in BOOLEAN :
               /\ history' = history \cup {[req |-> r, answer |-> q.answer, stopped |-> stopped]}
               /\ stopped => q.llm = "left"

\* An answer under way is the whole one.
LEMMA AnswersUnderWay ==
  ASSUME NEW p \in Request, NEW q \in Request, Sound(p), NEW kind \in Kinds, NEW answer \in Nat,
         q.kind = p.kind, p.at # "ended", p.gone => q.wire = p.wire, ~p.gone => Sent(p, q, kind, answer),
         kind = "answer" => answer = q.answer /\ q.at = "ended" /\ q.llm # "left"
  PROVE  q.kind = "query" => \A j \in 1..Len(q.wire) :
           q.wire[j].kind = "answer" => q.wire[j].answer = q.answer /\ q.at = "ended" /\ q.llm # "left"
<1> SUFFICES ASSUME q.kind = "query", NEW j \in 1..Len(q.wire), q.wire[j].kind = "answer"
             PROVE  q.wire[j].answer = q.answer /\ q.at = "ended" /\ q.llm # "left"
  OBVIOUS
<1>1. \A i \in 1..Len(p.wire) : p.wire[i].kind # "answer"
  BY DEF Sound
<1>2. ~p.gone /\ Sent(p, q, kind, answer)
  BY <1>1
<1>3. Len(p.wire) \in Nat
  BY LenProperties DEF Request
<1>4. j = Len(p.wire) + 1
  <2>1. j \notin 1..Len(p.wire)
    BY <1>1, <1>2 DEF Sent
  <2> QED BY <1>2, <1>3, <2>1 DEF Sent
<1> QED BY <1>2, <1>4 DEF Sent

\* The request as a step leaves it that sends an event and is over with the answer.
Sending(r, to, kind, llm, usage, lost) ==
  [Serve(r, to, Event(kind)) EXCEPT !.llm = llm, !.usage = usage, !.lost = lost]

LEMMA SendServes ==
  ASSUME TypeOK, RequestsSound, NEW r \in DOMAIN requests, requests[r].at # "ended",
         NEW to \in {"save", "ended"}, NEW kind \in Kinds \ {"token", "answer"},
         NEW llm \in {"off", "running", "whole", "failed", "left"}, NEW usage \in Nat, NEW lost \in BOOLEAN,
         Become(r, Sending(r, to, kind, llm, usage, lost)),
         requests[r].kind = "query" => to = "ended",
         to = "save" => llm \in {"off", "whole"},
         kind = "error" => to = "ended",
         kind \in {"done", "end"} /\ ~requests[r].gone => llm # "left",
         requests[r].at = "save" /\ requests[r].llm # "left" => llm # "left",
         \/ history' = history
         \/ /\ to = "ended"
            /\ \E stopped \in BOOLEAN :
                 /\ history' = history \cup {[req |-> r, answer |-> requests[r].answer, stopped |-> stopped]}
                 /\ stopped => llm = "left"
  PROVE  Served(r)
<1> DEFINE p == requests[r]
           s == Serve(r, to, Event(kind))
           q == [s EXCEPT !.llm = llm, !.usage = usage, !.lost = lost]
<1>1. /\ p \in Request /\ s \in Request
      /\ s.at = to /\ s.kind = p.kind /\ s.gone = p.gone /\ s.noticed = p.noticed /\ s.answer = p.answer
      /\ (p.gone => s.wire = p.wire) /\ (~p.gone => Sent(p, s, kind, 0))
  BY ServeFacts DEF Event, Kinds, Places
<1>2. Sound(p)
  BY DEF RequestsSound
<1> HIDE DEF s
<1>3. /\ q \in Request /\ q.at = to /\ q.kind = p.kind /\ q.gone = p.gone /\ q.noticed = p.noticed
      /\ q.answer = p.answer /\ q.llm = llm
      /\ (p.gone => q.wire = p.wire) /\ (~p.gone => Sent(p, q, kind, 0))
  BY <1>1 DEF Request, Sent
<1>4. Become(r, q)
  BY DEF s, Sending
<1> HIDE DEF p, q
<1>5. q.kind = "query" => \A j \in 1..Len(q.wire) :
        q.wire[j].kind = "answer" => q.wire[j].answer = q.answer /\ q.at = "ended" /\ q.llm # "left"
  BY <1>1, <1>2, <1>3, AnswersUnderWay DEF p
<1>6. Sound(q)
  <2>1. p.noticed => p.gone
    BY <1>2 DEF Sound
  <2>2. q.kind = "query" => q.at = "ended"
    BY <1>3 DEF p
  <2>3. q.at \in {"save", "ended"} /\ (q.at = "save" => q.llm \in {"off", "whole"})
    BY <1>3
  <2> QED BY <1>1, <1>3, <1>5, <2>1, <2>2, <2>3 DEF Sound
<1>7. Grows(p, q)
  BY <1>1, <1>2, <1>3, <1>6, SendingGrows DEF p
<1> QED BY <1>3, <1>4, <1>7 DEF Served, p

\* The request as a step leaves it that sends nothing and does not touch the answer.
Silent(r, to, llm, usage, noticed) ==
  [requests[r] EXCEPT !.at = to, !.llm = llm, !.usage = usage, !.noticed = noticed]

LEMMA QuietServes ==
  ASSUME TypeOK, RequestsSound, NEW r \in DOMAIN requests, NEW to \in Places,
         NEW llm \in {"off", "running", "whole", "failed", "left"}, NEW usage \in Nat, NEW noticed \in BOOLEAN,
         Become(r, Silent(r, to, llm, usage, noticed)),
         history' = history,
         to \in {"check", "search", "found"} => requests[r].answer = 0 /\ llm = "off",
         to = "stream" => llm = "running",
         to \in {"sources", "reply"} => llm \in {"off", "whole"},
         to = "save" => llm \in {"off", "whole"} \/ (llm = "left" /\ noticed),
         noticed => requests[r].gone,
         to = "reply" => requests[r].kind = "query",
         requests[r].kind = "query" => to \in {"check", "search", "reply", "ended"},
         requests[r].at = "ended" => to = "ended" /\ llm = requests[r].llm,
         requests[r].at = "save" => to \in {"save", "ended"} /\ (requests[r].llm # "left" => llm # "left"),
         \/ requests[r].gone \/ requests[r].kind = "query" \/ requests[r].at = "ended"
         \/ {requests[r].at, to} \subseteq {"check", "search", "found", "stream", "sources"}
  PROVE  Served(r)
<1> DEFINE p == requests[r]
           q == [p EXCEPT !.at = to, !.llm = llm, !.usage = usage, !.noticed = noticed]
<1>1. p \in Request
  BY QuietFacts DEF Places
<1>2. Sound(p)
  BY DEF RequestsSound
<1>3. /\ q \in Request /\ q.at = to /\ q.kind = p.kind /\ q.gone = p.gone /\ q.noticed = noticed
      /\ q.answer = p.answer /\ q.llm = llm /\ q.wire = p.wire
  BY <1>1 DEF Request, Places
<1>4. Become(r, q)
  BY DEF Silent
<1> HIDE DEF p, q
<1>5. Sound(q)
  BY <1>2, <1>3 DEF Sound, p
<1>6. Grows(p, q)
  BY <1>1, <1>2, <1>3, <1>5, QuietGrows DEF p
<1> QED BY <1>3, <1>4, <1>6 DEF Served, p

LEMMA SendingIs ==
  ASSUME TypeOK, NEW r \in DOMAIN requests, NEW to \in Places, NEW kind \in Kinds
  PROVE  LET p == requests[r] IN
         /\ Serve(r, to, Event(kind)) = Sending(r, to, kind, p.llm, p.usage, p.lost)
         /\ [Serve(r, to, Event(kind)) EXCEPT !.lost = TRUE] = Sending(r, to, kind, p.llm, p.usage, TRUE)
         /\ [Serve(r, to, Event(kind)) EXCEPT !.llm = "failed", !.usage = @ + 1] =
              Sending(r, to, kind, "failed", p.usage + 1, p.lost)
<1> DEFINE p == requests[r]
           s == Serve(r, to, Event(kind))
<1>1. s \in Request /\ s.llm = p.llm /\ s.usage = p.usage
  BY ServeFacts DEF Event
<1>2. p \in Request
  BY QuietFacts
<1>3. s.lost = p.lost
  BY <1>2 DEF Serve, Request
<1> HIDE DEF p, s
<1>4. /\ s = [s EXCEPT !.llm = p.llm, !.usage = p.usage, !.lost = p.lost]
      /\ [s EXCEPT !.lost = TRUE] = [s EXCEPT !.llm = p.llm, !.usage = p.usage, !.lost = TRUE]
      /\ [s EXCEPT !.llm = "failed", !.usage = @ + 1] = [s EXCEPT !.llm = "failed", !.usage = p.usage + 1, !.lost = p.lost]
  BY <1>1, <1>3 DEF Request
<1> QED BY <1>4 DEF Sending, p, s

LEMMA SilentIs ==
  ASSUME TypeOK, NEW r \in DOMAIN requests, NEW to \in Places, NEW llm
  PROVE  LET p == requests[r] IN
         /\ Serve(r, to, <<>>) = Silent(r, to, p.llm, p.usage, p.noticed)
         /\ [Serve(r, to, <<>>) EXCEPT !.llm = llm] = Silent(r, to, llm, p.usage, p.noticed)
         /\ [p EXCEPT !.at = to, !.llm = llm] = Silent(r, to, llm, p.usage, p.noticed)
         /\ [p EXCEPT !.at = to, !.llm = llm, !.usage = @ + 1] = Silent(r, to, llm, p.usage + 1, p.noticed)
         /\ [p EXCEPT !.usage = 1] = Silent(r, p.at, p.llm, 1, p.noticed)
         /\ [p EXCEPT !.noticed = TRUE] = Silent(r, p.at, p.llm, p.usage, TRUE)
<1> DEFINE p == requests[r]
<1>1. p \in Request /\ Serve(r, to, <<>>) = [p EXCEPT !.at = to]
  BY QuietFacts
<1> HIDE DEF p
<1>2. /\ [p EXCEPT !.at = to] = [p EXCEPT !.at = to, !.llm = p.llm, !.usage = p.usage, !.noticed = p.noticed]
      /\ [p EXCEPT !.at = to, !.llm = llm] = [p EXCEPT !.at = to, !.llm = llm, !.usage = p.usage, !.noticed = p.noticed]
      /\ [[p EXCEPT !.at = to] EXCEPT !.llm = llm] = [p EXCEPT !.at = to, !.llm = llm]
  BY <1>1 DEF Request
<1>3. /\ [p EXCEPT !.at = to, !.llm = llm, !.usage = @ + 1] =
           [p EXCEPT !.at = to, !.llm = llm, !.usage = p.usage + 1, !.noticed = p.noticed]
      /\ [p EXCEPT !.usage = 1] = [p EXCEPT !.at = p.at, !.llm = p.llm, !.usage = 1, !.noticed = p.noticed]
      /\ [p EXCEPT !.noticed = TRUE] = [p EXCEPT !.at = p.at, !.llm = p.llm, !.usage = p.usage, !.noticed = TRUE]
  BY <1>1 DEF Request
<1> QED BY <1>1, <1>2, <1>3 DEF Silent, p

\* Every step of the server, also the abandoned ones, is such a step.
LEMMA ServerServes ==
  ASSUME TypeOK, RequestsSound, NEW r, ServerStep(r) \/ Cancelled(r) \/ Notice(r)
  PROVE  r \in DOMAIN requests /\ Served(r) /\ PageUnchanged
<1> DEFINE p == requests[r]
<1>1. r \in DOMAIN requests /\ PageUnchanged
  BY DEF ServerStep, CheckCase, StreamSearch, StartStream, Token, StopStream, LlmEnds, LlmFails, SendSources,
         SaveStream, CloseGenerator, Query, Reply, Cancelled, Notice, Server
<1>2. p \in Request /\ Sound(p)
  BY <1>1, QuietFacts DEF RequestsSound, Places
<1>3. /\ p.llm \in {"off", "running", "whole", "failed", "left"} /\ p.usage \in Nat /\ p.usage + 1 \in Nat
      /\ p.noticed \in BOOLEAN /\ p.lost \in BOOLEAN /\ p.at \in Places
  BY <1>2 DEF Request, Places
<1>4. CASE CheckCase(r)
  <2>1. p.at = "check" /\ history' = history /\ p.answer = 0 /\ p.llm = "off"
    BY <1>2, <1>4 DEF CheckCase, Server, Sound
  <2>2. CASE Become(r, Serve(r, "ended", Event("http_error")))
    <3>1. Become(r, Sending(r, "ended", "http_error", p.llm, p.usage, p.lost))
      BY <1>1, <2>2, SendingIs DEF Kinds, Places
    <3> QED BY <1>1, <1>3, <2>1, <3>1, SendServes DEF Kinds
  <2>3. CASE Become(r, Serve(r, "search", <<>>))
    <3>1. Become(r, Silent(r, "search", p.llm, p.usage, p.noticed))
      BY <1>1, <2>3, SilentIs DEF Places
    <3> QED BY <1>1, <1>2, <1>3, <2>1, <3>1, QuietServes DEF Places, Sound
  <2> QED BY <1>1, <1>4, <2>2, <2>3 DEF CheckCase
<1>5. CASE StreamSearch(r)
  <2>1. p.at = "search" /\ p.kind = "stream" /\ history' = history /\ p.answer = 0 /\ p.llm = "off"
    BY <1>2, <1>5 DEF StreamSearch, Server, Sound
  <2>2. CASE Become(r, Serve(r, IF p.noticed THEN "sources" ELSE "found", <<>>))
    <3> DEFINE to == IF p.noticed THEN "sources" ELSE "found"
    <3>1. to \in {"sources", "found"}
      OBVIOUS
    <3> HIDE DEF to
    <3>2. Become(r, Serve(r, to, <<>>))
      BY <2>2 DEF to
    <3>3. Become(r, Silent(r, to, p.llm, p.usage, p.noticed))
      <4>1. to \in Places
        BY <3>1 DEF Places
      <4>2. Serve(r, to, <<>>) = Silent(r, to, p.llm, p.usage, p.noticed)
        BY <1>1, <4>1, SilentIs
      <4> QED BY <3>2, <4>2
    <3> QED BY <1>1, <1>2, <1>3, <2>1, <3>1, <3>3, QuietServes DEF Places, Sound
  <2>3. CASE Become(r, Serve(r, "ended", Event("error")))
    <3>1. Become(r, Sending(r, "ended", "error", p.llm, p.usage, p.lost))
      BY <1>1, <2>3, SendingIs DEF Kinds, Places
    <3> QED BY <1>1, <1>3, <2>1, <3>1, SendServes DEF Kinds
  <2> QED BY <1>1, <1>5, <2>2, <2>3 DEF StreamSearch
<1>6. CASE StartStream(r)
  <2>1. p.at = "found" /\ history' = history /\ p.answer = 0 /\ p.llm = "off"
    BY <1>2, <1>6 DEF StartStream, Server, Sound
  <2>2. p.kind = "stream"
    BY <1>2, <2>1 DEF Sound, Request
  <2>3. CASE Become(r, Serve(r, "sources", <<>>))
    <3>1. Become(r, Silent(r, "sources", p.llm, p.usage, p.noticed))
      BY <1>1, <2>3, SilentIs DEF Places
    <3> QED BY <1>1, <1>2, <1>3, <2>1, <2>2, <3>1, QuietServes DEF Places, Sound
  <2>4. CASE Become(r, [Serve(r, "stream", <<>>) EXCEPT !.llm = "running"])
    <3>1. Become(r, Silent(r, "stream", "running", p.usage, p.noticed))
      BY <1>1, <2>4, SilentIs DEF Places
    <3> QED BY <1>1, <1>2, <1>3, <2>1, <2>2, <3>1, QuietServes DEF Places, Sound
  <2>5. CASE Become(r, Serve(r, "ended", Event("error")))
    <3>1. Become(r, Sending(r, "ended", "error", p.llm, p.usage, p.lost))
      BY <1>1, <2>5, SendingIs DEF Kinds, Places
    <3> QED BY <1>1, <1>3, <2>1, <3>1, SendServes DEF Kinds
  <2> QED BY <1>1, <1>6, <2>3, <2>4, <2>5 DEF StartStream
<1>7. CASE Token(r)
  <2> DEFINE s == Serve(r, "stream", Event("token"))
             q == [s EXCEPT !.answer = @ + 1]
  <2>1. p.at = "stream" /\ history' = history /\ Become(r, q)
    BY <1>7 DEF Token, Server
  <2>2. /\ s \in Request /\ s.at = "stream" /\ s.kind = p.kind /\ s.gone = p.gone /\ s.noticed = p.noticed
        /\ s.answer = p.answer /\ s.llm = p.llm
        /\ (p.gone => s.wire = p.wire) /\ (~p.gone => Sent(p, s, "token", 0))
    BY <1>1, ServeFacts DEF Event, Kinds, Places
  <2> HIDE DEF p, s
  <2>3. /\ q \in Request /\ q.at = "stream" /\ q.kind = p.kind /\ q.gone = p.gone /\ q.noticed = p.noticed
        /\ q.answer = p.answer + 1 /\ q.llm = p.llm
        /\ (p.gone => q.wire = p.wire) /\ (~p.gone => Sent(p, q, "token", 0))
    BY <2>2 DEF Request, Sent
  <2> HIDE DEF q
  <2>4. Sound(q)
    BY <1>2, <2>1, <2>3 DEF Sound
  <2>5. Grows(p, q)
    BY <1>2, <2>1, <2>3, <2>4, TokenGrows
  <2> QED BY <1>1, <2>1, <2>3, <2>5 DEF Served, p
<1>8. CASE StopStream(r)
  <2>1. p.at = "stream" /\ history' = history /\ p.noticed /\ Become(r, [p EXCEPT !.at = "save", !.llm = "left"])
    BY <1>8 DEF StopStream, Server
  <2>2. p.kind = "stream" /\ p.gone
    BY <1>2, <2>1 DEF Sound, Request
  <2>3. Become(r, Silent(r, "save", "left", p.usage, p.noticed))
    <3>1. [p EXCEPT !.at = "save", !.llm = "left"] = Silent(r, "save", "left", p.usage, p.noticed)
      BY <1>1, SilentIs DEF Places
    <3> QED BY <2>1, <3>1
  <2> QED BY <1>1, <1>3, <2>1, <2>2, <2>3, QuietServes DEF Places
<1>9. CASE LlmEnds(r)
  <2>1. p.at = "stream" /\ history' = history /\ Become(r, [p EXCEPT !.at = "sources", !.llm = "whole", !.usage = @ + 1])
    BY <1>9 DEF LlmEnds, Server
  <2>2. p.kind = "stream" /\ (p.noticed => p.gone)
    BY <1>2, <2>1 DEF Sound, Request
  <2>3. Become(r, Silent(r, "sources", "whole", p.usage + 1, p.noticed))
    BY <1>1, <2>1, SilentIs DEF Places
  <2> QED BY <1>1, <1>3, <2>1, <2>2, <2>3, QuietServes DEF Places
<1>10. CASE LlmFails(r)
  <2>1. /\ p.at = "stream" /\ history' = history
        /\ Become(r, [Serve(r, "ended", Event("error")) EXCEPT !.llm = "failed", !.usage = @ + 1])
    BY <1>10 DEF LlmFails, Server
  <2>2. Become(r, Sending(r, "ended", "error", "failed", p.usage + 1, p.lost))
    BY <1>1, <2>1, SendingIs DEF Kinds, Places
  <2> QED BY <1>1, <1>3, <2>1, <2>2, SendServes DEF Kinds
<1>11. CASE SendSources(r)
  <2>1. p.at = "sources" /\ history' = history /\ Become(r, Serve(r, "save", Event("done")))
    BY <1>11 DEF SendSources, Server
  <2>2. p.llm \in {"off", "whole"} /\ p.kind # "query"
    BY <1>2, <2>1 DEF Sound
  <2>3. Become(r, Sending(r, "save", "done", p.llm, p.usage, p.lost))
    BY <1>1, <2>1, SendingIs DEF Kinds, Places
  <2> QED BY <1>1, <1>3, <2>1, <2>2, <2>3, SendServes DEF Kinds
<1>12. CASE SaveStream(r)
  <2>1. p.at = "save" /\ SaveHistory(r, p.llm = "left", Serve(r, "ended", Event("end")))
    BY <1>12 DEF SaveStream, Server
  <2>2. p.llm = "left" => p.gone
    BY <1>2, <2>1 DEF Sound
  <2>3. CASE Become(r, Serve(r, "ended", Event("end"))) /\ history' = history \cup {Row(r, p.llm = "left")}
    <3>1. Become(r, Sending(r, "ended", "end", p.llm, p.usage, p.lost))
      BY <1>1, <2>3, SendingIs DEF Kinds, Places
    <3>2. PICK stopped \in BOOLEAN : stopped = (p.llm = "left")
      BY Zenon
    <3>3. \E b \in BOOLEAN : history' = history \cup {[req |-> r, answer |-> p.answer, stopped |-> b]} /\ (b => p.llm = "left")
      BY <2>3, <3>2 DEF Row
    <3> QED BY <1>1, <1>3, <2>1, <2>2, <3>1, <3>3, SendServes DEF Kinds
  <2>4. CASE Become(r, [Serve(r, "ended", Event("end")) EXCEPT !.lost = TRUE]) /\ history' = history
    <3>1. Become(r, Sending(r, "ended", "end", p.llm, p.usage, TRUE))
      BY <1>1, <2>4, SendingIs DEF Kinds, Places
    <3> QED BY <1>1, <1>3, <2>1, <2>2, <2>4, <3>1, SendServes DEF Kinds
  <2> QED BY <1>1, <2>1, <2>3, <2>4 DEF SaveHistory
<1>13. CASE CloseGenerator(r)
  <2>1. p.at = "ended" /\ history' = history /\ Become(r, [p EXCEPT !.usage = 1])
    BY <1>13 DEF CloseGenerator, Ended
  <2>2. Become(r, Silent(r, p.at, p.llm, 1, p.noticed))
    BY <1>1, <2>1, SilentIs DEF Places
  <2>3. p.noticed => p.gone
    BY <1>2 DEF Sound
  <2> QED BY <1>1, <1>3, <2>1, <2>2, <2>3, QuietServes DEF Places
<1>14. CASE Query(r)
  <2>1. p.at = "search" /\ p.kind = "query" /\ history' = history /\ p.answer = 0 /\ p.llm = "off" /\ (p.noticed => p.gone)
    BY <1>2, <1>14 DEF Query, Server, Sound
  <2>2. ASSUME NEW logged \in 0..1, NEW llm \in {"whole", "off"},
               Become(r, [Serve(r, "reply", <<>>) EXCEPT !.answer = 1, !.usage = logged, !.llm = llm])
        PROVE  Served(r)
    <3> DEFINE s == Serve(r, "reply", <<>>)
               q == [s EXCEPT !.answer = 1, !.usage = logged, !.llm = llm]
    <3>1. s = [p EXCEPT !.at = "reply"]
      BY <1>1, QuietFacts DEF Places
    <3>2. s \in Request
      BY <1>2, <3>1 DEF Request
    <3>3. q \in Request
      <4>1. logged \in Nat /\ 1 \in Nat /\ llm \in {"off", "running", "whole", "failed", "left"}
        OBVIOUS
      <4> HIDE DEF s
      <4> QED BY <3>2, <4>1 DEF Request
    <3>4. /\ q.at = "reply" /\ q.kind = p.kind /\ q.gone = p.gone /\ q.noticed = p.noticed /\ q.wire = p.wire
          /\ q.answer = 1 /\ q.llm = llm
      BY <1>2, <3>1 DEF Request
    <3> HIDE DEF p, s, q
    <3>5. Sound(q)
      BY <1>2, <2>1, <3>4 DEF Sound
    <3>6. Grows(p, q)
      BY <2>1, <3>3, <3>4, <3>5 DEF Grows
    <3>7. Become(r, q)
      BY <2>2 DEF q, s
    <3> QED BY <1>1, <2>1, <3>3, <3>6, <3>7 DEF Served, p
  <2>3. CASE Become(r, Serve(r, "ended", Event("http_error")))
    <3>1. Become(r, Sending(r, "ended", "http_error", p.llm, p.usage, p.lost))
      BY <1>1, <2>3, SendingIs DEF Kinds, Places
    <3> QED BY <1>1, <1>3, <2>1, <3>1, SendServes DEF Kinds
  <2>4. CASE \E logged \in 0..1 :
               Become(r, [Serve(r, "reply", <<>>) EXCEPT !.answer = 1, !.usage = logged,
                                                        !.llm = IF logged = 1 THEN "whole" ELSE "off"])
    <3>1. PICK logged \in 0..1 :
                 Become(r, [Serve(r, "reply", <<>>) EXCEPT !.answer = 1, !.usage = logged,
                                                          !.llm = IF logged = 1 THEN "whole" ELSE "off"])
      BY <2>4
    <3> QED BY <1>1, <2>2, <3>1
  <2> QED BY <1>1, <1>14, <2>3, <2>4 DEF Query
<1>15. CASE Reply(r)
  <2> DEFINE s == Serve(r, "ended", <<[kind |-> "answer", answer |-> p.answer]>>)
  <2>1. p.at = "reply" /\ SaveHistory(r, FALSE, s)
    BY <1>15 DEF Reply, Server
  <2>2. /\ s \in Request /\ s.at = "ended" /\ s.kind = p.kind /\ s.gone = p.gone /\ s.noticed = p.noticed
        /\ s.answer = p.answer /\ s.llm = p.llm
        /\ (p.gone => s.wire = p.wire) /\ (~p.gone => Sent(p, s, "answer", p.answer))
    BY <1>1, <1>2, ServeFacts DEF Kinds, Places, Request
  <2> HIDE DEF s
  <2> DEFINE l == [s EXCEPT !.lost = TRUE]
  <2>3. ASSUME NEW q \in {s, l}, Become(r, q),
               history' = history \/ history' = history \cup {Row(r, FALSE)}
        PROVE  Served(r)
    <3>1. /\ q \in Request /\ q.at = "ended" /\ q.kind = p.kind /\ q.gone = p.gone /\ q.noticed = p.noticed
          /\ q.answer = p.answer /\ q.llm = p.llm
          /\ (p.gone => q.wire = p.wire) /\ (~p.gone => Sent(p, q, "answer", p.answer))
      BY <2>2 DEF Request, Sent
    <3>3. p.llm # "left" /\ p.kind = "query" /\ (p.noticed => p.gone)
      BY <1>2, <2>1 DEF Sound, Request
    <3>4. history' = history \cup {Row(r, FALSE)} =>
            \E b \in BOOLEAN : history' = history \cup {[req |-> r, answer |-> q.answer, stopped |-> b]} /\ (b => q.llm = "left")
      BY <3>1 DEF Row
    <3>5. p.answer \in Nat
      BY <1>2 DEF Request
    <3> HIDE DEF p
    <3>6. q.kind = "query" => \A j \in 1..Len(q.wire) :
            q.wire[j].kind = "answer" => q.wire[j].answer = q.answer /\ q.at = "ended" /\ q.llm # "left"
      BY <1>2, <2>1, <3>1, <3>3, <3>5, AnswersUnderWay DEF Kinds
    <3>7. Sound(q)
      BY <3>1, <3>3, <3>6 DEF Sound
    <3>8. Grows(p, q)
      BY <1>2, <2>1, <3>1, <3>3, <3>5, <3>7 DEF Grows
    <3> QED BY <1>1, <2>3, <3>1, <3>4, <3>8 DEF Served, p
  <2>4. s \in {s, l} /\ l \in {s, l}
    OBVIOUS
  <2>5. (Become(r, s) \/ Become(r, l)) /\ (history' = history \/ history' = history \cup {Row(r, FALSE)})
    BY <2>1 DEF SaveHistory
  <2> HIDE DEF l
  <2> QED BY <1>1, <2>3, <2>4, <2>5
<1>16. CASE Cancelled(r)
  <2>1. /\ p.kind = "stream" /\ p.noticed /\ p.at \in {"search", "found", "stream", "sources", "save"} /\ p.llm # "left"
        /\ history' = history
        /\ Become(r, [p EXCEPT !.at = "ended", !.llm = IF p.llm = "running" THEN "left" ELSE p.llm])
    BY <1>2, <1>16 DEF Cancelled, Request
  <2> DEFINE llm == IF p.llm = "running" THEN "left" ELSE p.llm
  <2>2. Become(r, Silent(r, "ended", llm, p.usage, p.noticed))
    <3>1. Become(r, [p EXCEPT !.at = "ended", !.llm = llm])
      BY <2>1
    <3> HIDE DEF llm
    <3>2. [p EXCEPT !.at = "ended", !.llm = llm] = Silent(r, "ended", llm, p.usage, p.noticed)
      BY <1>1, SilentIs DEF Places
    <3> QED BY <3>1, <3>2
  <2>3. p.noticed => p.gone
    BY <1>2 DEF Sound
  <2>4. p.at = "save" => llm # "left"
    BY <1>2, <2>1 DEF Sound
  <2>5. llm \in {"off", "running", "whole", "failed", "left"}
    BY <1>3
  <2> HIDE DEF llm
  <2> QED BY <1>1, <1>3, <2>1, <2>2, <2>3, <2>4, <2>5, QuietServes DEF Places
<1>17. CASE Notice(r)
  <2>1. p.gone /\ p.at # "ended" /\ history' = history /\ Become(r, [p EXCEPT !.noticed = TRUE])
    BY <1>17 DEF Notice, Ended
  <2>2. Become(r, Silent(r, p.at, p.llm, p.usage, TRUE))
    BY <1>1, <2>1, SilentIs DEF Places
  <2> QED BY <1>1, <1>2, <1>3, <2>1, <2>2, QuietServes DEF Places, Sound
<1> QED BY <1>4, <1>5, <1>6, <1>7, <1>8, <1>9, <1>10, <1>11, <1>12, <1>13, <1>14, <1>15, <1>16, <1>17 DEF ServerStep

\* A request is replaced by another.
LEMMA RequestsAfter ==
  ASSUME TypeOK, NEW r \in DOMAIN requests, NEW q \in Request, requests' = [requests EXCEPT ![r] = q]
  PROVE  /\ requests' \in Seq(Request)
         /\ DOMAIN requests' = DOMAIN requests
         /\ requests'[r] = q
         /\ \A i \in DOMAIN requests : i # r => requests'[i] = requests[i]
<1>1. requests \in Seq(Request) /\ r \in 1..Len(requests) /\ DOMAIN requests = 1..Len(requests)
  BY LenProperties DEF TypeOK
<1>2. requests' \in Seq(Request)
  BY <1>1, ExceptSeq
<1> QED BY <1>1, <1>2

\* The server's steps keep the invariant.
LEMMA ServerKept ==
  ASSUME IInv, NEW r \in DOMAIN requests, Served(r), PageUnchanged
  PROVE  IInv'
<1> USE DEF IInv, PageUnchanged
<1>1. PICK q \in Request :
        /\ Become(r, q)
        /\ Grows(requests[r], q)
        /\ \/ history' = history
           \/ /\ q.at = "ended"
              /\ \E stopped \in BOOLEAN :
                   /\ history' = history \cup {[req |-> r, answer |-> q.answer, stopped |-> stopped]}
                   /\ stopped => q.llm = "left"
  BY DEF Served
<1> DEFINE p == requests[r]
<1>2. /\ requests' \in Seq(Request) /\ DOMAIN requests' = DOMAIN requests /\ requests'[r] = q
      /\ \A i \in DOMAIN requests : i # r => requests'[i] = requests[i]
  BY <1>1, RequestsAfter DEF Become
<1>3. r \in Nat /\ q.answer \in Nat /\ p \in Request /\ p.answer \in Nat
  BY <1>1, QuietFacts, LenProperties DEF TypeOK, Request, Places
<1>4. /\ Sound(q) /\ q.kind = p.kind /\ q.gone = p.gone /\ q.answer >= p.answer
      /\ p.at \in {"save", "ended"} => q.answer = p.answer /\ q.at \in {"save", "ended"} /\ (p.llm # "left" => q.llm # "left")
      /\ p.at = "ended" => q.at = "ended" /\ q.llm = p.llm /\ q.wire = p.wire
  BY <1>1 DEF Grows
<1>5. TypeOK'
  <2>1. history' \subseteq Saved
    <3>1. CASE history' = history
      BY <3>1 DEF TypeOK
    <3>2. CASE history' # history
      <4>1. PICK stopped \in BOOLEAN : history' = history \cup {[req |-> r, answer |-> q.answer, stopped |-> stopped]}
        BY <1>1, <3>2
      <4>2. [req |-> r, answer |-> q.answer, stopped |-> stopped] \in Saved
        BY <1>3 DEF Saved
      <4> QED BY <4>1, <4>2 DEF TypeOK
    <3> QED BY <3>1, <3>2
  <2> QED BY <1>2, <2>1 DEF TypeOK
<1>6. RequestsSound'
  BY <1>2, <1>4 DEF RequestsSound
<1>7. AskRight'
  <2>1. CASE ask.phase = "idle"
    BY <2>1 DEF AskRight
  <2>2. CASE ask.phase # "idle" /\ ask.req # r
    BY <1>2, <2>2 DEF AskRight
  <2>3. CASE ask.phase # "idle" /\ ask.req = r
    <3>1. /\ ask.full <= p.answer /\ (~ask.aborted => ~p.gone)
          /\ ask.phase = "stream" => p.kind = "stream"
          /\ ask.phase = "fallback" => p.kind = "query"
      BY <2>3 DEF AskRight
    <3>2. ask.full \in Nat
      BY DEF TypeOK, AskWith
    <3>3. ASSUME ask.phase = "stream", ~ask.aborted
          PROVE  IF ask.error THEN OnlyItsEnd(q) ELSE Delivered(q, ask.full)
      <4>1. IF ask.error THEN OnlyItsEnd(p) ELSE Delivered(p, ask.full)
        BY <2>3, <3>3 DEF AskRight
      <4>2. CASE ask.error
        BY <1>4, <4>1, <4>2 DEF OnlyItsEnd
      <4>3. CASE ~ask.error
        BY <1>1, <3>1, <3>2, <3>3, <4>1, <4>3 DEF Grows
      <4> QED BY <4>2, <4>3
    <3>4. ask.full <= q.answer
      BY <1>3, <1>4, <3>1, <3>2
    <3> QED BY <1>2, <1>4, <2>3, <3>1, <3>3, <3>4 DEF AskRight
  <2> QED BY <2>1, <2>2, <2>3
<1>8. MessagesRight'
  <2> SUFFICES ASSUME NEW i \in DOMAIN messages
               PROVE  LET msg == messages[i] IN
                      /\ msg.req \in DOMAIN requests'
                      /\ msg.full <= requests'[msg.req].answer
                      /\ msg.state = "done" =>
                           /\ msg.full = requests'[msg.req].answer
                           /\ requests'[msg.req].at \in {"save", "ended"} /\ requests'[msg.req].llm # "left"
    BY DEF MessagesRight
  <2>1. /\ messages[i].req \in DOMAIN requests
        /\ messages[i].full <= requests[messages[i].req].answer
        /\ messages[i].state = "done" =>
             /\ messages[i].full = requests[messages[i].req].answer
             /\ requests[messages[i].req].at \in {"save", "ended"} /\ requests[messages[i].req].llm # "left"
    BY DEF MessagesRight
  <2>2. messages[i].full \in Nat
    BY DEF TypeOK, Messages
  <2>3. CASE messages[i].req = r
    BY <1>2, <1>3, <1>4, <2>1, <2>2, <2>3
  <2>4. CASE messages[i].req # r
    BY <1>2, <2>1, <2>4
  <2> QED BY <2>3, <2>4
<1>9. RowsRight'
  <2>1. ASSUME NEW row \in history
        PROVE  /\ row.req \in DOMAIN requests' /\ requests'[row.req].at = "ended"
               /\ row.answer = requests'[row.req].answer
               /\ row.stopped => requests'[row.req].llm = "left"
    BY <1>2, <1>4, <2>1 DEF RowsRight
  <2>2. CASE history' = history
    BY <2>1, <2>2 DEF RowsRight
  <2>3. CASE history' # history
    <3>1. PICK stopped \in BOOLEAN :
            /\ history' = history \cup {[req |-> r, answer |-> q.answer, stopped |-> stopped]}
            /\ q.at = "ended" /\ (stopped => q.llm = "left")
      BY <1>1, <2>3
    <3> QED BY <1>2, <2>1, <3>1 DEF RowsRight
  <2> QED BY <2>2, <2>3
<1> QED BY <1>5, <1>6, <1>7, <1>8, <1>9

\* A step of the page that changes one request but not its answer, its place or its LLM.
LEMMA PageTouches ==
  ASSUME IInv, NEW r \in DOMAIN requests, NEW q \in Request, Sound(q),
         requests' = [requests EXCEPT ![r] = q],
         q.answer = requests[r].answer, q.at = requests[r].at, q.llm = requests[r].llm, history' = history
  PROVE  /\ requests' \in Seq(Request) /\ DOMAIN requests' = DOMAIN requests /\ requests'[r] = q
         /\ RequestsSound' /\ RowsRight' /\ history' \subseteq Saved
         /\ \A i \in DOMAIN requests : /\ requests'[i].answer = requests[i].answer
                                       /\ requests'[i].at = requests[i].at /\ requests'[i].llm = requests[i].llm
<1>1. /\ requests' \in Seq(Request) /\ DOMAIN requests' = DOMAIN requests /\ requests'[r] = q
      /\ \A i \in DOMAIN requests : i # r => requests'[i] = requests[i]
  BY RequestsAfter DEF IInv
<1>2. \A i \in DOMAIN requests : /\ requests'[i].answer = requests[i].answer
                                 /\ requests'[i].at = requests[i].at /\ requests'[i].llm = requests[i].llm
  BY <1>1
<1>3. RequestsSound'
  BY <1>1 DEF RequestsSound, IInv
<1>4. RowsRight' /\ history' \subseteq Saved
  BY <1>1, <1>2 DEF RowsRight, IInv, TypeOK
<1> QED BY <1>1, <1>2, <1>3, <1>4

\* What a message may say of its request.
Says(msg) ==
  /\ msg.req \in DOMAIN requests
  /\ msg.full <= requests[msg.req].answer
  /\ msg.state = "done" => /\ msg.full = requests[msg.req].answer
                           /\ requests[msg.req].at \in {"save", "ended"} /\ requests[msg.req].llm # "left"

\* The page writes a message that is right.
LEMMA WriteKept ==
  ASSUME IInv, NEW slot, NEW msg \in Messages, messages' = Write(slot, msg), Says(msg),
         DOMAIN requests' = DOMAIN requests,
         \A i \in DOMAIN requests : /\ requests'[i].answer = requests[i].answer
                                    /\ requests'[i].at = requests[i].at /\ requests'[i].llm = requests[i].llm
  PROVE  MessagesRight' /\ \A i \in DOMAIN messages' : messages'[i] \in Messages
<1>1. \A i \in DOMAIN messages' : messages'[i] = msg \/ (i \in DOMAIN messages /\ messages'[i] = messages[i])
  BY DEF Write
<1>2. \A i \in DOMAIN messages : messages[i] \in Messages /\ Says(messages[i])
  BY DEF IInv, TypeOK, MessagesRight, Says
<1>3. \A i \in DOMAIN messages' : messages'[i] \in Messages /\ Says(messages'[i])
  BY <1>1, <1>2
<1> QED BY <1>3 DEF MessagesRight, Says

\* The page writes nothing.
LEMMA NoWriteKept ==
  ASSUME IInv, messages' = messages, DOMAIN requests' = DOMAIN requests,
         \A i \in DOMAIN requests : /\ requests'[i].answer = requests[i].answer
                                    /\ requests'[i].at = requests[i].at /\ requests'[i].llm = requests[i].llm
  PROVE  MessagesRight' /\ \A i \in DOMAIN messages' : messages'[i] \in Messages
BY DEF IInv, MessagesRight, TypeOK

\* The call of handleSend that is going on and its request.
LEMMA AskFacts ==
  ASSUME IInv, ask.phase # "idle"
  PROVE  LET p == requests[ask.req] IN
         /\ ask.req \in DOMAIN requests /\ p \in Request /\ Sound(p)
         /\ ask.full \in Nat /\ p.answer \in Nat /\ ask.full <= p.answer
         /\ p.wire \in Seq(Events) /\ Len(p.wire) \in Nat
         /\ ask.case \in AnyCase /\ ask.req \in Nat /\ selected \in AnyCase
         /\ \A state \in {"user", "loading", "done", "error", "stopped"} : Message(state) \in Messages
<1>1. ask.req \in DOMAIN requests /\ ask.full <= requests[ask.req].answer
  BY DEF IInv, AskRight
<1>2. requests[ask.req] \in Request
  BY <1>1, QuietFacts DEF IInv, Places
<1>3. ask.full \in Nat /\ ask.case \in AnyCase /\ ask.req \in Nat /\ selected \in AnyCase
  BY DEF IInv, TypeOK, AskWith
<1>4. \A state \in {"user", "loading", "done", "error", "stopped"} : Message(state) \in Messages
  BY <1>3 DEF Message, Messages
<1>5. requests[ask.req].wire \in Seq(Events)
  BY <1>2 DEF Request
<1> QED BY <1>1, <1>2, <1>3, <1>4, <1>5, LenProperties DEF IInv, RequestsSound, Request

\* A request whose next event has been read.
LEMMA TakeFacts ==
  ASSUME IInv, ask.phase # "idle", requests[ask.req].wire # <<>>, Take
  PROVE  LET p == requests[ask.req]
             q == [p EXCEPT !.wire = Tail(p.wire)]
         IN  /\ q \in Request /\ Sound(q) /\ requests' = [requests EXCEPT ![ask.req] = q]
             /\ q.answer = p.answer /\ q.at = p.at /\ q.llm = p.llm /\ q.gone = p.gone /\ q.kind = p.kind
             /\ Len(q.wire) = Len(p.wire) - 1 /\ Len(p.wire) >= 1
             /\ \A j \in 1..Len(q.wire) : q.wire[j] = p.wire[j + 1]
             /\ p.wire[1] = Head(p.wire)
<1> DEFINE p == requests[ask.req]
           q == [p EXCEPT !.wire = Tail(p.wire)]
<1>1. /\ p \in Request /\ Sound(p) /\ p.wire \in Seq(Events) /\ Len(p.wire) \in Nat
  BY AskFacts
<1>2. /\ Tail(p.wire) \in Seq(Events) /\ Len(Tail(p.wire)) = Len(p.wire) - 1 /\ Len(p.wire) >= 1
      /\ \A j \in 1..Len(Tail(p.wire)) : Tail(p.wire)[j] = p.wire[j + 1]
      /\ p.wire[1] = Head(p.wire)
  <2>1. p.wire # <<>> /\ Len(p.wire) # 0
    BY <1>1, EmptySeq
  <2> HIDE DEF p
  <2> QED BY <1>1, <2>1, HeadTailProperties
<1>3. requests' = [requests EXCEPT ![ask.req] = q]
  BY DEF Take
<1> HIDE DEF p
<1>4. /\ q \in Request /\ q.wire = Tail(p.wire)
      /\ q.answer = p.answer /\ q.at = p.at /\ q.llm = p.llm /\ q.gone = p.gone /\ q.kind = p.kind /\ q.noticed = p.noticed
  BY <1>1, <1>2 DEF Request
<1> HIDE DEF q
<1>5. Sound(q)
  <2>1. ASSUME q.kind = "query", NEW j \in 1..Len(q.wire), q.wire[j].kind = "answer"
        PROVE  q.wire[j].answer = q.answer /\ q.at = "ended" /\ q.llm # "left"
    <3>1. j + 1 \in 1..Len(p.wire) /\ q.wire[j] = p.wire[j + 1]
      BY <1>1, <1>2, <1>4, <2>1
    <3> QED BY <1>1, <1>4, <2>1, <3>1 DEF Sound
  <2> QED BY <1>1, <1>4, <2>1 DEF Sound
<1> QED BY <1>2, <1>3, <1>4, <1>5 DEF p, q

LEMMA SelectKept ==
  ASSUME IInv, NEW c \in AnyCase, Select(c)
  PROVE  IInv'
<1> USE DEF IInv, Select
<1>1. DOMAIN messages' = {}
  OBVIOUS
<1>2. TypeOK' /\ MessagesRight'
  BY <1>1 DEF TypeOK, MessagesRight
<1> QED BY <1>2 DEF RequestsSound, AskRight, RowsRight, OnlyItsEnd, Delivered

LEMMA StopKept ==
  ASSUME IInv, Stop
  PROVE  IInv'
<1> DEFINE p == requests[ask.req]
           q == [p EXCEPT !.gone = TRUE]
<1>1. /\ ask.phase # "idle" /\ ask' = [ask EXCEPT !.aborted = TRUE] /\ requests' = [requests EXCEPT ![ask.req] = q]
      /\ selected' = selected /\ messages' = messages /\ history' = history
  BY DEF Stop
<1>2. p \in Request /\ Sound(p) /\ ask.req \in DOMAIN requests
  BY <1>1, AskFacts
<1>3. /\ q \in Request /\ q.at = p.at /\ q.kind = p.kind /\ q.gone = TRUE /\ q.noticed = p.noticed /\ q.wire = p.wire
      /\ q.answer = p.answer /\ q.llm = p.llm
  BY <1>2 DEF Request
<1>4. Sound(q)
  BY <1>2, <1>3 DEF Sound
<1> HIDE DEF q
<1>5. /\ requests' \in Seq(Request) /\ DOMAIN requests' = DOMAIN requests /\ requests'[ask.req] = q
      /\ RequestsSound' /\ RowsRight' /\ history' \subseteq Saved
      /\ \A i \in DOMAIN requests : /\ requests'[i].answer = requests[i].answer
                                    /\ requests'[i].at = requests[i].at /\ requests'[i].llm = requests[i].llm
  BY <1>1, <1>2, <1>3, <1>4, PageTouches
<1>6. MessagesRight' /\ \A i \in DOMAIN messages' : messages'[i] \in Messages
  BY <1>1, <1>5, NoWriteKept
<1>7. /\ ask' \in AskWith(ask'.slot) /\ ask'.aborted = TRUE
      /\ ask'.phase = ask.phase /\ ask'.req = ask.req /\ ask'.full = ask.full
  BY <1>1 DEF IInv, TypeOK, AskWith
<1>8. AskRight'
  BY <1>1, <1>2, <1>3, <1>5, <1>7 DEF AskRight, IInv
<1>9. TypeOK'
  BY <1>1, <1>5, <1>6, <1>7 DEF TypeOK, IInv
<1> QED BY <1>5, <1>6, <1>8, <1>9 DEF IInv

LEMMA ReadTokenKept ==
  ASSUME IInv, ReadToken
  PROVE  IInv'
<1> DEFINE p == requests[ask.req]
           q == [p EXCEPT !.wire = Tail(p.wire)]
           msg == [Message("loading") EXCEPT !.full = ask.full + 1]
<1>1. /\ ask.phase = "stream" /\ ~ask.aborted /\ p.wire # <<>> /\ Head(p.wire).kind = "token" /\ Take
      /\ ask' = [ask EXCEPT !.full = ask.full + 1] /\ selected' = selected /\ history' = history
      /\ messages' = Write(ask.slot, [Message("loading") EXCEPT !.full = @ + 1])
  BY DEF ReadToken, Incoming
<1>2. /\ p \in Request /\ Sound(p) /\ ask.req \in DOMAIN requests /\ ask.full \in Nat /\ p.answer \in Nat
      /\ Len(p.wire) \in Nat /\ Message("loading") \in Messages
  BY <1>1, AskFacts
<1>3. /\ q \in Request /\ Sound(q) /\ requests' = [requests EXCEPT ![ask.req] = q]
      /\ q.answer = p.answer /\ q.at = p.at /\ q.llm = p.llm /\ q.gone = p.gone /\ q.kind = p.kind
      /\ Len(q.wire) = Len(p.wire) - 1 /\ Len(p.wire) >= 1
      /\ \A j \in 1..Len(q.wire) : q.wire[j] = p.wire[j + 1]
      /\ p.wire[1].kind = "token"
  BY <1>1, TakeFacts
<1>4. Message("loading").full = ask.full /\ Message("loading").req = ask.req /\ Message("loading").state = "loading"
  BY DEF Message
<1>5. /\ msg \in Messages /\ msg.req = ask.req /\ msg.full = ask.full + 1 /\ msg.state = "loading"
      /\ messages' = Write(ask.slot, msg)
  BY <1>1, <1>2, <1>4 DEF Messages
<1> HIDE DEF q, msg
<1>6. ~ask.error /\ Delivered(p, ask.full) /\ ~p.gone /\ p.kind = "stream"
  <2>1. IF ask.error THEN OnlyItsEnd(p) ELSE Delivered(p, ask.full)
    BY <1>1 DEF IInv, AskRight
  <2>2. ~ask.error
    BY <1>2, <1>3, <2>1 DEF OnlyItsEnd
  <2> QED BY <1>1, <2>1, <2>2 DEF IInv, AskRight
<1>7. ask.full + 1 <= p.answer
  BY <1>2, <1>3, <1>6 DEF Delivered
<1>8. Delivered(q, ask.full + 1)
  <2>1. ASSUME NEW j \in 1..Len(q.wire)
        PROVE  /\ q.wire[j].kind = "token" <=> j <= q.answer - (ask.full + 1)
               /\ q.wire[j].kind \in {"done", "end"} => q.at \in {"save", "ended"} /\ q.llm # "left"
               /\ q.wire[j].kind = "error" => q.at = "ended"
    <3>1. j + 1 \in 1..Len(p.wire) /\ q.wire[j] = p.wire[j + 1]
      BY <1>2, <1>3
    <3>2. /\ p.wire[j + 1].kind = "token" <=> j + 1 <= p.answer - ask.full
          /\ p.wire[j + 1].kind \in {"done", "end"} => p.at \in {"save", "ended"} /\ p.llm # "left"
          /\ p.wire[j + 1].kind = "error" => p.at = "ended"
      BY <1>6, <3>1 DEF Delivered
    <3>3. (j + 1 <= p.answer - ask.full) <=> (j <= q.answer - (ask.full + 1))
      BY <1>2, <1>3
    <3> QED BY <1>3, <3>1, <3>2, <3>3
  <2>2. /\ Len(p.wire) >= p.answer - ask.full
        /\ p.at \in {"check", "search", "found", "stream", "sources"} => Len(p.wire) = p.answer - ask.full
    BY <1>6 DEF Delivered
  <2>3. Len(q.wire) >= q.answer - (ask.full + 1)
    BY <1>2, <1>3, <2>2
  <2>4. q.at \in {"check", "search", "found", "stream", "sources"} => Len(q.wire) = q.answer - (ask.full + 1)
    BY <1>2, <1>3, <2>2
  <2> QED BY <2>1, <2>3, <2>4 DEF Delivered
<1>9. /\ requests' \in Seq(Request) /\ DOMAIN requests' = DOMAIN requests /\ requests'[ask.req] = q
      /\ RequestsSound' /\ RowsRight' /\ history' \subseteq Saved
      /\ \A i \in DOMAIN requests : /\ requests'[i].answer = requests[i].answer
                                    /\ requests'[i].at = requests[i].at /\ requests'[i].llm = requests[i].llm
  BY <1>1, <1>2, <1>3, PageTouches
<1>10. MessagesRight' /\ \A i \in DOMAIN messages' : messages'[i] \in Messages
  BY <1>2, <1>5, <1>7, <1>9, WriteKept DEF Says
<1>11. /\ ask' \in AskWith(ask'.slot) /\ ask'.aborted = ask.aborted /\ ask'.error = ask.error
       /\ ask'.phase = ask.phase /\ ask'.req = ask.req /\ ask'.full = ask.full + 1
  BY <1>1, <1>2 DEF IInv, TypeOK, AskWith
<1>12. AskRight'
  BY <1>1, <1>2, <1>3, <1>6, <1>7, <1>8, <1>9, <1>11 DEF AskRight
<1>13. TypeOK'
  BY <1>1, <1>9, <1>10, <1>11 DEF TypeOK, IInv
<1> QED BY <1>9, <1>10, <1>12, <1>13 DEF IInv

LEMMA ReadErrorKept ==
  ASSUME IInv, ReadError
  PROVE  IInv'
<1> DEFINE p == requests[ask.req]
           q == [p EXCEPT !.wire = Event("end")]
<1>1. /\ ask.phase = "stream" /\ ~ask.aborted /\ p.wire # <<>> /\ Head(p.wire).kind = "error"
      /\ ask' = [ask EXCEPT !.error = TRUE] /\ requests' = [requests EXCEPT ![ask.req] = q]
      /\ selected' = selected /\ messages' = messages /\ history' = history
  BY DEF ReadError, Incoming
<1>2. /\ p \in Request /\ Sound(p) /\ ask.req \in DOMAIN requests /\ p.wire \in Seq(Events) /\ Len(p.wire) \in Nat
      /\ ask.full <= p.answer
  BY <1>1, AskFacts
<1>3. /\ Event("end") \in Seq(Events) /\ \A j \in 1..Len(Event("end")) : Event("end")[j].kind = "end"
  <2>1. [kind |-> "end", answer |-> 0] \in Events
    BY DEF Events
  <2> QED BY <2>1 DEF Event
<1>4. /\ q \in Request /\ q.at = p.at /\ q.kind = p.kind /\ q.gone = p.gone /\ q.noticed = p.noticed
      /\ q.wire = Event("end") /\ q.answer = p.answer /\ q.llm = p.llm
  BY <1>2, <1>3 DEF Request
<1> HIDE DEF q
<1>5. ~p.gone /\ p.kind = "stream" /\ (IF ask.error THEN OnlyItsEnd(p) ELSE Delivered(p, ask.full))
  BY <1>1 DEF IInv, AskRight
<1>6. p.at = "ended"
  <2>1. Len(p.wire) >= 1
    BY <1>1, <1>2, EmptySeq
  <2>2. p.wire[1].kind = "error"
    BY <1>1
  <2> QED BY <1>2, <1>5, <2>1, <2>2 DEF OnlyItsEnd, Delivered
<1>7. Sound(q)
  BY <1>2, <1>4, <1>5 DEF Sound
<1>8. OnlyItsEnd(q)
  BY <1>3, <1>4, <1>6 DEF OnlyItsEnd
<1>9. /\ requests' \in Seq(Request) /\ DOMAIN requests' = DOMAIN requests /\ requests'[ask.req] = q
      /\ RequestsSound' /\ RowsRight' /\ history' \subseteq Saved
      /\ \A i \in DOMAIN requests : /\ requests'[i].answer = requests[i].answer
                                    /\ requests'[i].at = requests[i].at /\ requests'[i].llm = requests[i].llm
  BY <1>1, <1>2, <1>4, <1>7, PageTouches
<1>10. MessagesRight' /\ \A i \in DOMAIN messages' : messages'[i] \in Messages
  BY <1>1, <1>9, NoWriteKept
<1>11. /\ ask' \in AskWith(ask'.slot) /\ ask'.aborted = ask.aborted /\ ask'.error = TRUE
       /\ ask'.phase = ask.phase /\ ask'.req = ask.req /\ ask'.full = ask.full
  BY <1>1 DEF IInv, TypeOK, AskWith
<1>12. AskRight'
  BY <1>1, <1>2, <1>4, <1>5, <1>8, <1>9, <1>11 DEF AskRight
<1>13. TypeOK'
  BY <1>1, <1>9, <1>10, <1>11 DEF TypeOK, IInv
<1> QED BY <1>9, <1>10, <1>12, <1>13 DEF IInv

\* handleSend is over.
LEMMA FinishKept ==
  ASSUME IInv, ask' = Idle, selected' = selected, history' = history,
         NEW msg \in Messages, messages' = Write(ask.slot, msg), Says(msg),
         NEW r \in DOMAIN requests, NEW q \in Request, Sound(q), requests' = [requests EXCEPT ![r] = q],
         q.answer = requests[r].answer, q.at = requests[r].at, q.llm = requests[r].llm
  PROVE  IInv'
<1>1. /\ requests' \in Seq(Request) /\ DOMAIN requests' = DOMAIN requests
      /\ RequestsSound' /\ RowsRight' /\ history' \subseteq Saved
      /\ \A i \in DOMAIN requests : /\ requests'[i].answer = requests[i].answer
                                    /\ requests'[i].at = requests[i].at /\ requests'[i].llm = requests[i].llm
  BY PageTouches
<1>2. MessagesRight' /\ \A i \in DOMAIN messages' : messages'[i] \in Messages
  BY <1>1, WriteKept
<1>3. ask' \in AskWith(ask'.slot) /\ ask'.phase = "idle"
  BY DEF Idle, AskWith, AnyCase
<1>4. TypeOK' /\ AskRight'
  BY <1>1, <1>2, <1>3 DEF TypeOK, AskRight, IInv
<1> QED BY <1>1, <1>2, <1>4 DEF IInv

LEMMA ReadDoneKept ==
  ASSUME IInv, ReadDone
  PROVE  IInv'
<1> DEFINE p == requests[ask.req]
           q == [p EXCEPT !.wire = Tail(p.wire)]
           state == IF ask.error THEN "error" ELSE "done"
           msg == Message(state)
<1>1. /\ ask.phase = "stream" /\ ~ask.aborted /\ p.wire # <<>> /\ Head(p.wire).kind \in {"done", "end"} /\ Take
      /\ ask' = Idle /\ selected' = selected /\ history' = history /\ messages' = Write(ask.slot, msg)
  BY DEF ReadDone, Incoming, Finish
<1>2. /\ p \in Request /\ ask.req \in DOMAIN requests /\ ask.full \in Nat /\ p.answer \in Nat /\ ask.full <= p.answer
      /\ msg \in Messages
  BY <1>1, AskFacts
<1>3. /\ q \in Request /\ Sound(q) /\ requests' = [requests EXCEPT ![ask.req] = q]
      /\ q.answer = p.answer /\ q.at = p.at /\ q.llm = p.llm /\ Len(p.wire) >= 1
      /\ p.wire[1].kind \in {"done", "end"}
  BY <1>1, TakeFacts
<1>4. msg.full = ask.full /\ msg.req = ask.req /\ msg.state = state
  BY DEF Message
<1>5. ~ask.error => ask.full = p.answer /\ p.at \in {"save", "ended"} /\ p.llm # "left"
  <2> SUFFICES ASSUME ~ask.error
               PROVE  ask.full = p.answer /\ p.at \in {"save", "ended"} /\ p.llm # "left"
    OBVIOUS
  <2>1. Delivered(p, ask.full)
    BY <1>1 DEF IInv, AskRight
  <2>2. 1 \in 1..Len(p.wire)
    BY <1>3, AskFacts, <1>1
  <2>3. ~(1 <= p.answer - ask.full) /\ p.at \in {"save", "ended"} /\ p.llm # "left"
    BY <1>3, <2>1, <2>2 DEF Delivered
  <2> QED BY <1>2, <2>3
<1> HIDE DEF q, msg
<1>6. Says(msg)
  BY <1>2, <1>4, <1>5 DEF Says
<1> QED BY <1>1, <1>2, <1>3, <1>6, FinishKept

LEMMA AbortedKept ==
  ASSUME IInv, Aborted
  PROVE  IInv'
<1> DEFINE p == requests[ask.req]
           msg == Message("stopped")
<1>1. /\ ask.phase # "idle" /\ requests' = requests
      /\ ask' = Idle /\ selected' = selected /\ history' = history /\ messages' = Write(ask.slot, msg)
  BY DEF Aborted, Finish
<1>2. p \in Request /\ Sound(p) /\ ask.req \in DOMAIN requests /\ ask.full <= p.answer /\ msg \in Messages
  BY <1>1, AskFacts
<1>3. requests' = [requests EXCEPT ![ask.req] = p]
  BY <1>1, <1>2 DEF IInv, TypeOK
<1>4. Says(msg)
  BY <1>2 DEF Says, Message
<1> HIDE DEF msg
<1> QED BY <1>1, <1>2, <1>3, <1>4, FinishKept

LEMMA ReadAnswerKept ==
  ASSUME IInv, ReadAnswer
  PROVE  IInv'
<1> DEFINE p == requests[ask.req]
           q == [p EXCEPT !.wire = Tail(p.wire)]
           msg == [Message("done") EXCEPT !.full = Head(p.wire).answer]
<1>1. /\ ask.phase = "fallback" /\ p.wire # <<>> /\ Head(p.wire).kind = "answer" /\ Take
      /\ ask' = Idle /\ selected' = selected /\ history' = history /\ messages' = Write(ask.slot, msg)
  BY DEF ReadAnswer, Incoming
<1>2. /\ p \in Request /\ Sound(p) /\ ask.req \in DOMAIN requests /\ p.answer \in Nat /\ Message("done") \in Messages
      /\ Len(p.wire) \in Nat
  BY <1>1, AskFacts
<1>3. /\ q \in Request /\ Sound(q) /\ requests' = [requests EXCEPT ![ask.req] = q]
      /\ q.answer = p.answer /\ q.at = p.at /\ q.llm = p.llm /\ Len(p.wire) >= 1
      /\ p.wire[1] = Head(p.wire)
  BY <1>1, TakeFacts
<1>4. p.kind = "query"
  BY <1>1 DEF IInv, AskRight
<1>5. Head(p.wire).answer = p.answer /\ p.at = "ended" /\ p.llm # "left"
  <2>1. 1 \in 1..Len(p.wire) /\ p.wire[1].kind = "answer"
    BY <1>1, <1>2, <1>3
  <2>2. p.wire[1].answer = p.answer /\ p.at = "ended" /\ p.llm # "left"
    BY <1>2, <1>4, <2>1 DEF Sound
  <2> QED BY <1>3, <2>2
<1>6. Message("done").req = ask.req /\ Message("done").state = "done"
  BY DEF Message
<1>7. msg \in Messages /\ msg.full = p.answer /\ msg.req = ask.req /\ msg.state = "done"
  BY <1>2, <1>5, <1>6 DEF Messages
<1> HIDE DEF q, msg
<1>8. Says(msg)
  BY <1>2, <1>5, <1>7 DEF Says
<1> QED BY <1>1, <1>2, <1>3, <1>7, <1>8, FinishKept

LEMMA FallbackFailsKept ==
  ASSUME IInv, FallbackFails
  PROVE  IInv'
<1> DEFINE p == requests[ask.req]
           q == [p EXCEPT !.gone = TRUE]
           msg == Message("error")
<1>1. /\ ask.phase = "fallback" /\ requests' = [requests EXCEPT ![ask.req] = q]
      /\ ask' = Idle /\ selected' = selected /\ history' = history /\ messages' = Write(ask.slot, msg)
  BY DEF FallbackFails, Finish
<1>2. p \in Request /\ Sound(p) /\ ask.req \in DOMAIN requests /\ ask.full <= p.answer /\ msg \in Messages
  BY <1>1, AskFacts
<1>3. /\ q \in Request /\ q.at = p.at /\ q.kind = p.kind /\ q.gone = TRUE /\ q.noticed = p.noticed /\ q.wire = p.wire
      /\ q.answer = p.answer /\ q.llm = p.llm
  BY <1>2 DEF Request
<1>4. Says(msg)
  BY <1>2 DEF Says, Message
<1> HIDE DEF q, msg
<1>5. Sound(q)
  BY <1>2, <1>3 DEF Sound
<1> QED BY <1>1, <1>2, <1>3, <1>4, <1>5, FinishKept

LEMMA NewRequestFacts ==
  ASSUME NEW kind \in {"stream", "query"}, NEW case \in AnyCase
  PROVE  LET q == NewRequest(kind, case) IN
         /\ q \in Request /\ Sound(q) /\ q.kind = kind /\ ~q.gone /\ q.answer = 0 /\ Delivered(q, 0)
<1> DEFINE q == NewRequest(kind, case)
<1>1. <<>> \in Seq(Events) /\ Len(<<>>) = 0
  BY EmptySeq
<1>2. /\ q \in Request /\ q.kind = kind /\ q.gone = FALSE /\ q.answer = 0 /\ q.at = "check" /\ q.llm = "off"
      /\ q.noticed = FALSE /\ q.wire = <<>>
  BY <1>1 DEF NewRequest, Request
<1> HIDE DEF q
<1>3. Sound(q) /\ Delivered(q, 0)
  BY <1>1, <1>2 DEF Sound, Delivered
<1> QED BY <1>2, <1>3 DEF q

\* A request is sent.
LEMMA AppendFacts ==
  ASSUME NEW old \in Seq(Request), NEW q \in Request, DOMAIN old = DOMAIN requests,
         \A i \in DOMAIN old : /\ Sound(old[i]) /\ old[i].answer = requests[i].answer
                               /\ old[i].at = requests[i].at /\ old[i].llm = requests[i].llm,
         Sound(q), IInv, requests' = Append(old, q), history' = history
  PROVE  LET r == Len(old) + 1 IN
         /\ requests' \in Seq(Request) /\ DOMAIN requests' = DOMAIN requests \cup {r}
         /\ r \in Nat /\ r \notin DOMAIN requests /\ requests'[r] = q
         /\ \A i \in DOMAIN requests : /\ requests'[i].answer = requests[i].answer
                                       /\ requests'[i].at = requests[i].at /\ requests'[i].llm = requests[i].llm
         /\ RequestsSound' /\ RowsRight' /\ history' \subseteq Saved
<1>1. /\ requests' \in Seq(Request) /\ Len(requests') = Len(old) + 1
      /\ \A i \in 1..Len(old) : requests'[i] = old[i]
      /\ requests'[Len(old) + 1] = q
  BY AppendProperties
<1>2. Len(old) \in Nat /\ DOMAIN old = 1..Len(old) /\ DOMAIN requests' = 1..(Len(old) + 1)
  BY <1>1, LenProperties
<1>3. /\ DOMAIN requests' = DOMAIN requests \cup {Len(old) + 1} /\ Len(old) + 1 \in Nat
      /\ Len(old) + 1 \notin DOMAIN requests
  BY <1>2
<1>4. \A i \in DOMAIN requests : /\ requests'[i].answer = requests[i].answer
                                 /\ requests'[i].at = requests[i].at /\ requests'[i].llm = requests[i].llm
  BY <1>1, <1>2
<1>5. RequestsSound'
  BY <1>1, <1>2 DEF RequestsSound
<1>6. RowsRight' /\ history' \subseteq Saved
  BY <1>3, <1>4 DEF RowsRight, IInv, TypeOK
<1> QED BY <1>1, <1>3, <1>4, <1>5, <1>6

LEMMA FallbackKept ==
  ASSUME IInv, Fallback
  PROVE  IInv'
<1> DEFINE p == requests[ask.req]
           left == [p EXCEPT !.gone = TRUE]
           old == [requests EXCEPT ![ask.req] = left]
           r == Len(requests) + 1
           q == NewRequest("query", ask.case)
<1>1. /\ ask.phase = "stream" /\ ~ask.aborted /\ requests' = Append(old, q)
      /\ ask' = [ask EXCEPT !.phase = "fallback", !.req = r, !.full = 0]
      /\ selected' = selected /\ messages' = messages /\ history' = history
  BY DEF Fallback, AskAgain
<1>2. p \in Request /\ Sound(p) /\ ask.req \in DOMAIN requests /\ ask.case \in AnyCase
  BY <1>1, AskFacts
<1>3. /\ left \in Request /\ left.at = p.at /\ left.kind = p.kind /\ left.gone = TRUE /\ left.noticed = p.noticed
      /\ left.wire = p.wire /\ left.answer = p.answer /\ left.llm = p.llm
  BY <1>2 DEF Request
<1> HIDE DEF left
<1>4. Sound(left)
  BY <1>2, <1>3 DEF Sound
<1>5. /\ old \in Seq(Request) /\ DOMAIN old = DOMAIN requests /\ Len(old) = Len(requests)
      /\ \A i \in DOMAIN old : old[i] = IF i = ask.req THEN left ELSE requests[i]
  <2>1. requests \in Seq(Request) /\ ask.req \in 1..Len(requests) /\ DOMAIN requests = 1..Len(requests)
    BY <1>2, LenProperties DEF IInv, TypeOK
  <2>2. old \in Seq(Request) /\ Len(old) = Len(requests)
    BY <1>3, <2>1, ExceptSeq
  <2> QED BY <2>1, <2>2
<1>6. \A i \in DOMAIN old : /\ Sound(old[i]) /\ old[i].answer = requests[i].answer
                            /\ old[i].at = requests[i].at /\ old[i].llm = requests[i].llm
  BY <1>3, <1>4, <1>5 DEF IInv, RequestsSound
<1>7. q \in Request /\ Sound(q) /\ q.kind = "query" /\ ~q.gone /\ q.answer = 0
  BY <1>2, NewRequestFacts
<1> HIDE DEF old, q
<1>8. /\ requests' \in Seq(Request) /\ DOMAIN requests' = DOMAIN requests \cup {r}
      /\ r \in Nat /\ requests'[r] = q
      /\ \A i \in DOMAIN requests : /\ requests'[i].answer = requests[i].answer
                                    /\ requests'[i].at = requests[i].at /\ requests'[i].llm = requests[i].llm
      /\ RequestsSound' /\ RowsRight' /\ history' \subseteq Saved
  BY <1>1, <1>5, <1>6, <1>7, AppendFacts
<1> HIDE DEF r
<1>9. MessagesRight' /\ \A i \in DOMAIN messages' : messages'[i] \in Messages
  BY <1>1, <1>8 DEF IInv, TypeOK, MessagesRight
<1>10. ask' \in AskWith(ask'.slot) /\ ask'.phase = "fallback" /\ ask'.req = r /\ ask'.full = 0
  BY <1>1, <1>8 DEF IInv, TypeOK, AskWith
<1>11. TypeOK' /\ AskRight'
  BY <1>1, <1>7, <1>8, <1>9, <1>10 DEF TypeOK, IInv, AskRight
<1> QED BY <1>8, <1>9, <1>11 DEF IInv

LEMMA SendKept ==
  ASSUME IInv, Send
  PROVE  IInv'
<1> DEFINE r == Len(requests) + 1
           q == NewRequest("stream", selected)
           Said(state) == [case |-> selected, req |-> r, full |-> 0, state |-> state]
<1>1. /\ requests' = Append(requests, q) /\ selected' = selected /\ history' = history
      /\ ask' = [Idle EXCEPT !.phase = "stream", !.req = r, !.case = selected, !.slot = Length + 1]
      /\ messages' = [i \in DOMAIN messages \cup {Length, Length + 1} |->
           IF i \in DOMAIN messages THEN messages[i] ELSE Said(IF i = Length THEN "user" ELSE "loading")]
  BY DEF Send
<1>2. requests \in Seq(Request) /\ selected \in AnyCase
  BY DEF IInv, TypeOK
<1>3. q \in Request /\ Sound(q) /\ q.kind = "stream" /\ ~q.gone /\ q.answer = 0 /\ Delivered(q, 0)
  BY <1>2, NewRequestFacts
<1> HIDE DEF q
<1>4. /\ requests' \in Seq(Request) /\ DOMAIN requests' = DOMAIN requests \cup {r}
      /\ r \in Nat /\ requests'[r] = q
      /\ \A i \in DOMAIN requests : /\ requests'[i].answer = requests[i].answer
                                    /\ requests'[i].at = requests[i].at /\ requests'[i].llm = requests[i].llm
      /\ RequestsSound' /\ RowsRight' /\ history' \subseteq Saved
  BY <1>1, <1>2, <1>3, AppendFacts DEF IInv, RequestsSound
<1> HIDE DEF r
<1>5. ASSUME NEW i \in DOMAIN messages'
      PROVE  LET msg == messages'[i] IN
             /\ msg \in Messages /\ msg.req \in DOMAIN requests'
             /\ msg.full <= requests'[msg.req].answer
             /\ msg.state = "done" => /\ msg.full = requests'[msg.req].answer
                                      /\ requests'[msg.req].at \in {"save", "ended"} /\ requests'[msg.req].llm # "left"
  <2>1. CASE i \in DOMAIN messages
    <3>1. messages'[i] = messages[i] /\ messages[i] \in Messages /\ Says(messages[i])
      BY <1>1, <2>1 DEF IInv, TypeOK, MessagesRight, Says
    <3> QED BY <1>4, <3>1 DEF Says
  <2>2. CASE i \notin DOMAIN messages
    <3>1. PICK state \in {"user", "loading"} : messages'[i] = Said(state)
      BY <1>1, <2>2
    <3>2. messages'[i] \in Messages
      BY <1>2, <1>4, <3>1 DEF Messages
    <3>3. messages'[i].req = r /\ messages'[i].full = 0 /\ messages'[i].state # "done"
      BY <3>1
    <3> QED BY <1>3, <1>4, <3>2, <3>3
  <2> QED BY <2>1, <2>2
<1>6. MessagesRight' /\ \A i \in DOMAIN messages' : messages'[i] \in Messages
  BY <1>5 DEF MessagesRight
<1>7. /\ ask' \in AskWith(ask'.slot) /\ ask'.phase = "stream" /\ ask'.req = r /\ ask'.full = 0 /\ ask'.error = FALSE
  BY <1>1, <1>2, <1>4 DEF Idle, AskWith, AnyCase
<1>8. TypeOK'
  BY <1>1, <1>2, <1>4, <1>6, <1>7 DEF TypeOK
<1>9. AskRight'
  <2>1. ask'.full <= requests'[ask'.req].answer
    BY <1>3, <1>4, <1>7
  <2> QED BY <1>3, <1>4, <1>7, <2>1 DEF AskRight
<1> QED BY <1>4, <1>6, <1>8, <1>9 DEF IInv

----------------------------------------------------------------------------
(* The theorems. *)

LEMMA InitKept ==
  Init => IInv
<1> SUFFICES ASSUME Init PROVE IInv
  OBVIOUS
<1> USE DEF Init
<1>1. Len(requests) = 0 /\ DOMAIN requests = {} /\ requests \in Seq(Request) /\ DOMAIN messages = {}
  BY EmptySeq
<1>2. ask \in AskWith(ask.slot) /\ ask.phase = "idle"
  BY DEF Idle, AskWith, AnyCase
<1>3. TypeOK
  BY <1>1, <1>2 DEF TypeOK, AnyCase
<1> QED BY <1>1, <1>2, <1>3 DEF IInv, RequestsSound, AskRight, MessagesRight, RowsRight

\* Nothing changes.
LEMMA StutterKept ==
  IInv /\ UNCHANGED vars => IInv'
BY DEF vars, IInv, TypeOK, RequestsSound, AskRight, MessagesRight, RowsRight, Delivered, OnlyItsEnd

\* The inductive invariant holds of every reachable state of handleSend and of the two endpoints of chat.py.
THEOREM Inductive ==
  Spec => []IInv
<1>1. IInv /\ [Next]_vars => IInv'
  <2> SUFFICES ASSUME IInv, [Next]_vars PROVE IInv'
    OBVIOUS
  <2>1. ASSUME NEW c \in Cases \cup {NoCase}, Select(c) PROVE IInv'
    BY <2>1, SelectKept DEF AnyCase
  <2>2. ASSUME NEW r, ServerStep(r) \/ Cancelled(r) \/ Notice(r) PROVE IInv'
    BY <2>2, ServerServes, ServerKept DEF IInv
  <2>3. CASE UNCHANGED vars
    BY <2>3, StutterKept
  <2> QED BY <2>1, <2>2, <2>3, SendKept, StopKept, ReadTokenKept, ReadErrorKept, ReadDoneKept, AbortedKept,
             FallbackKept, ReadAnswerKept, FallbackFailsKept DEF Next
<1> QED BY <1>1, InitKept, PTL DEF Spec

\* The row of an answer holds at least what the page shows of it, and a complete answer exactly, whatever
\* was stopped, broken off or asked again: _save_chat_history saves what the stream has collected.
THEOREM RowsCoverThePage ==
  Spec => []RowCoversPage
<1>1. IInv => RowCoversPage
  <2> SUFFICES ASSUME IInv, NEW row \in history, NEW i \in DOMAIN messages, messages[i].req = row.req
               PROVE  /\ messages[i].full <= row.answer
                      /\ messages[i].state = "done" => messages[i].full = row.answer /\ ~row.stopped
    BY DEF RowCoversPage
  <2>1. row.answer = requests[row.req].answer /\ (row.stopped => requests[row.req].llm = "left")
    BY DEF IInv, RowsRight
  <2> QED BY <2>1 DEF IInv, MessagesRight
<1> QED BY <1>1, Inductive, PTL
=============================================================================
