----------------------------- MODULE ChatStream -----------------------------
(***************************************************************************)
(* A question on the analyst page, from handleSend to the chat history:    *)
(* the page streams the answer, falls back to the plain endpoint when the  *)
(* stream breaks, may be stopped by the user and may show another case     *)
(* meanwhile; the server checks the case, searches, streams the tokens of  *)
(* the LLM, looks for a disconnected client between them, logs the token   *)
(* usage and saves the answer.                                             *)
(*                                                                         *)
(* A token is a count, a message of the page its case and how far it is.   *)
(* What the libraries do is external: the LLM yields up to MaxTokens       *)
(* tokens or fails, uvicorn tells of a lost client some time later, and    *)
(* StreamingResponse may then cancel the generator at an await.            *)
(*                                                                         *)
(* OnlyLastToken, LlmFailsUnlogged, SaveNonEmpty and ReadDoneOnly are       *)
(* mutants of the definitions that follow them.                            *)
(***************************************************************************)
EXTENDS Integers, Sequences, FiniteSets, SequencesExt

CONSTANTS
  Cases,
  MaxTokens,   \* bound: tokens of an answer
  MaxAsks      \* bound: questions asked

ASSUME ChatAssumption ==
  /\ IsFiniteSet(Cases)
  /\ MaxTokens \in Nat \ {0}
  /\ MaxAsks \in Nat

VARIABLES
  selected,   \* page: selectedCase
  messages,   \* page: messages, by index; indexes may be missing
  ask,        \* page: the call of handleSend that is going on
  asks,       \* questions asked so far
  requests,   \* HTTP requests, in the order they were sent
  history     \* rows of chat_history

vars == <<selected, messages, ask, asks, requests, history>>

NoCase == "none"

----------------------------------------------------------------------------
(* Requests. *)

NewRequest(kind, case) ==
  [kind |-> kind, case |-> case,
   at |-> "check",      \* the server's next step
   wire |-> <<>>,       \* events on their way to the page
   gone |-> FALSE,      \* the client has left
   noticed |-> FALSE,   \* is_disconnected would say so
   answer |-> 0,        \* collected_answer
   llm |-> "off",       \* the LLM: off, running, whole, failed or left
   usage |-> 0,         \* lines in the token log
   lost |-> FALSE]      \* its row could not be saved

Ended(r) == requests[r].at = "ended"

Server(r, from) == r \in DOMAIN requests /\ requests[r].at = from

\* What a step of the server makes of its request, and what it sends.
Serve(r, to, event) ==
  [requests[r] EXCEPT !.at = to, !.wire = IF requests[r].gone THEN @ ELSE @ \o event]

Become(r, req) == requests' = [requests EXCEPT ![r] = req]

Event(kind) == <<[kind |-> kind, answer |-> 0]>>

Row(r, stopped) == [req |-> r, answer |-> requests[r].answer, stopped |-> stopped]

\* _save_chat_history, with the answer to the request: one row, or none when the database fails.
SaveHistory(r, stopped, req) ==
  \/ Become(r, req) /\ history' = history \cup {Row(r, stopped)}
  \/ Become(r, [req EXCEPT !.lost = TRUE]) /\ UNCHANGED history

PageUnchanged == UNCHANGED <<selected, messages, ask, asks>>

\* The case must exist and be ready or archived; a stream answers from here on with events.
CheckCase(r) ==
  /\ Server(r, "check")
  /\ \/ Become(r, Serve(r, "ended", Event("http_error")))
     \/ Become(r, Serve(r, "search", <<>>))
  /\ PageUnchanged /\ UNCHANGED history

\* query_stream. Nothing is searched for a client known to have left, and an empty stream follows;
\* nor is the LLM called when it has left by the end of the search.
StreamSearch(r) ==
  /\ Server(r, "search") /\ requests[r].kind = "stream"
  /\ \/ Become(r, Serve(r, IF requests[r].noticed THEN "sources" ELSE "found", <<>>))
     \/ ~requests[r].noticed /\ Become(r, Serve(r, "ended", Event("error")))
  /\ PageUnchanged /\ UNCHANGED history

StartStream(r) ==
  /\ Server(r, "found")
  /\ \/ requests[r].noticed /\ Become(r, Serve(r, "sources", <<>>))
     \/ ~requests[r].noticed /\ Become(r, [Serve(r, "stream", <<>>) EXCEPT !.llm = "running"])
     \/ ~requests[r].noticed /\ Become(r, Serve(r, "ended", Event("error")))
  /\ PageUnchanged /\ UNCHANGED history

OnlyLastToken(r) ==
  /\ Server(r, "stream") /\ ~requests[r].noticed
  /\ Become(r, [Serve(r, "stream", Event("token")) EXCEPT !.answer = 1])
  /\ PageUnchanged /\ UNCHANGED history

\* A token of generate_stream for a client not known to have left.
Token(r) ==
  /\ Server(r, "stream") /\ ~requests[r].noticed
  /\ requests[r].answer < MaxTokens
  /\ Become(r, [Serve(r, "stream", Event("token")) EXCEPT !.answer = @ + 1])
  /\ PageUnchanged /\ UNCHANGED history

\* A token for a client that has left: it is dropped with the rest. The generator of the LLM is
\* closed when nothing refers to it any more.
StopStream(r) ==
  /\ Server(r, "stream") /\ requests[r].noticed
  /\ Become(r, [requests[r] EXCEPT !.at = "save", !.llm = "left"])
  /\ PageUnchanged /\ UNCHANGED history

\* The last token has come: generate_stream logs the usage in its finally.
LlmEnds(r) ==
  /\ Server(r, "stream")
  /\ Become(r, [requests[r] EXCEPT !.at = "sources", !.llm = "whole", !.usage = @ + 1])
  /\ PageUnchanged /\ UNCHANGED history

LlmFailsUnlogged(r) ==
  /\ Server(r, "stream")
  /\ Become(r, [Serve(r, "ended", Event("error")) EXCEPT !.llm = "failed"])
  /\ PageUnchanged /\ UNCHANGED history

\* It fails: the same, and an error event instead of the answer; nothing is saved.
LlmFails(r) ==
  /\ Server(r, "stream")
  /\ Become(r, [Serve(r, "ended", Event("error")) EXCEPT !.llm = "failed", !.usage = @ + 1])
  /\ PageUnchanged /\ UNCHANGED history

\* Sources, usage and [DONE], then the history.
SendSources(r) ==
  /\ Server(r, "sources")
  /\ Become(r, Serve(r, "save", Event("done")))
  /\ PageUnchanged /\ UNCHANGED history

SaveNonEmpty(r) ==
  /\ Server(r, "save")
  /\ IF requests[r].answer > 0
     THEN SaveHistory(r, requests[r].llm = "left", Serve(r, "ended", Event("end")))
     ELSE Become(r, Serve(r, "ended", Event("end"))) /\ UNCHANGED history
  /\ PageUnchanged

SaveStream(r) ==
  /\ Server(r, "save")
  /\ SaveHistory(r, requests[r].llm = "left", Serve(r, "ended", Event("end")))
  /\ PageUnchanged

\* StreamingResponse hears of the disconnect first: CancelledError at an await of the generator.
Cancelled(r) ==
  /\ r \in DOMAIN requests
  /\ requests[r].kind = "stream" /\ requests[r].noticed
  /\ requests[r].at \in {"search", "found", "stream", "sources", "save"}
  /\ requests[r].llm # "left"
  /\ Become(r, [requests[r] EXCEPT !.at = "ended",
                                   !.llm = IF @ = "running" THEN "left" ELSE @])
  /\ PageUnchanged /\ UNCHANGED history

\* The generator left behind is closed by the event loop, and its finally logs the usage.
CloseGenerator(r) ==
  /\ r \in DOMAIN requests /\ Ended(r)
  /\ requests[r].llm = "left" /\ requests[r].usage = 0
  /\ Become(r, [requests[r] EXCEPT !.usage = 1])
  /\ PageUnchanged /\ UNCHANGED history

\* The plain endpoint. Nothing found and a failing LLM make an answer too; it is saved and sent
\* without a look at the client. Its length is not told apart.
Query(r) ==
  /\ Server(r, "search") /\ requests[r].kind = "query"
  /\ \/ \E logged \in 0..1 :
          Become(r, [Serve(r, "reply", <<>>) EXCEPT !.answer = 1, !.usage = logged,
                                                   !.llm = IF logged = 1 THEN "whole" ELSE "off"])
     \/ Become(r, Serve(r, "ended", Event("http_error")))
  /\ PageUnchanged /\ UNCHANGED history

Reply(r) ==
  /\ Server(r, "reply")
  /\ SaveHistory(r, FALSE, Serve(r, "ended", <<[kind |-> "answer", answer |-> requests[r].answer]>>))
  /\ PageUnchanged

ServerStep(r) ==
  \/ CheckCase(r) \/ StreamSearch(r) \/ StartStream(r)
  \/ Token(r) \/ StopStream(r) \/ LlmEnds(r) \/ LlmFails(r)
  \/ SendSources(r) \/ SaveStream(r) \/ CloseGenerator(r)
  \/ Query(r) \/ Reply(r)

----------------------------------------------------------------------------
(* The page. *)

Idle == [phase |-> "idle", req |-> 0, case |-> NoCase, slot |-> 0, full |-> 0, error |-> FALSE, aborted |-> FALSE]

Length == IF DOMAIN messages = {} THEN 0 ELSE 1 + Max(DOMAIN messages)

\* updated[assistantIdx] = ..., whatever the array holds now.
Write(slot, msg) == [i \in DOMAIN messages \cup {slot} |-> IF i = slot THEN msg ELSE messages[i]]

Message(state) == [case |-> ask.case, req |-> ask.req, full |-> ask.full, state |-> state]

\* The page's list of cases has an empty choice too.
Select(c) ==
  /\ selected # c
  /\ selected' = c
  /\ messages' = <<>>
  /\ UNCHANGED <<ask, asks, requests, history>>

\* handleSend: the question, a loading answer at the index after it, and the request.
Send ==
  /\ ask.phase = "idle"
  /\ selected # NoCase
  /\ asks < MaxAsks
  /\ asks' = asks + 1
  /\ LET r == Len(requests) + 1 IN
       /\ requests' = Append(requests, NewRequest("stream", selected))
       /\ ask' = [Idle EXCEPT !.phase = "stream", !.req = r, !.case = selected, !.slot = Length + 1]
       /\ messages' = [i \in DOMAIN messages \cup {Length, Length + 1} |->
            IF i \in DOMAIN messages THEN messages[i]
            ELSE [case |-> selected, req |-> r, full |-> 0,
                  state |-> IF i = Length THEN "user" ELSE "loading"]]
  /\ UNCHANGED <<selected, history>>

\* handleStop: the request is aborted at once, handleSend hears of it later.
Stop ==
  /\ ask.phase # "idle" /\ ~ask.aborted
  /\ ask' = [ask EXCEPT !.aborted = TRUE]
  /\ requests' = [requests EXCEPT ![ask.req].gone = TRUE]
  /\ UNCHANGED <<selected, messages, asks, history>>

Take == requests' = [requests EXCEPT ![ask.req].wire = Tail(@)]

\* The next event of a request; an abort throws away what has not been read.
Incoming(phase, kinds) ==
  /\ ask.phase = phase /\ ~ask.aborted
  /\ requests[ask.req].wire # <<>>
  /\ Head(requests[ask.req].wire).kind \in kinds

ReadToken ==
  /\ Incoming("stream", {"token"})
  /\ ask' = [ask EXCEPT !.full = @ + 1]
  /\ messages' = Write(ask.slot, [Message("loading") EXCEPT !.full = @ + 1])
  /\ Take
  /\ UNCHANGED <<selected, asks, history>>

ReadError ==
  /\ Incoming("stream", {"error"})
  /\ ask' = [ask EXCEPT !.error = TRUE]
  /\ requests' = [requests EXCEPT ![ask.req].wire = Event("end")]
  /\ UNCHANGED <<selected, messages, asks, history>>

\* handleSend is over, with the answer as it stands.
Finish(state) ==
  /\ messages' = Write(ask.slot, Message(state))
  /\ ask' = Idle
  /\ UNCHANGED <<selected, asks, history>>

ReadDoneOnly ==
  /\ Incoming("stream", {"done"})
  /\ Finish(IF ask.error THEN "error" ELSE "done")
  /\ Take

\* [DONE], or the end of the stream.
ReadDone ==
  /\ Incoming("stream", {"done", "end"})
  /\ Finish(IF ask.error THEN "error" ELSE "done")
  /\ Take

\* AbortError: the answer so far, marked as stopped.
Aborted ==
  /\ ask.phase # "idle" /\ ask.aborted
  /\ Finish("stopped")
  /\ UNCHANGED requests

\* The stream is refused or breaks: the same question to the plain endpoint, with the same signal.
AskAgain ==
  /\ LET r == Len(requests) + 1 IN
       /\ requests' = Append([requests EXCEPT ![ask.req].gone = TRUE], NewRequest("query", ask.case))
       /\ ask' = [ask EXCEPT !.phase = "fallback", !.req = r, !.full = 0]
  /\ UNCHANGED <<selected, messages, asks, history>>

Fallback ==
  /\ ask.phase = "stream" /\ ~ask.aborted
  /\ Incoming("stream", {"http_error"}) \/ ~Ended(ask.req)
  /\ AskAgain

\* Its answer, or its error shown as the answer.
ReadAnswer ==
  /\ Incoming("fallback", {"answer"})
  /\ messages' = Write(ask.slot, [Message("done") EXCEPT !.full = Head(requests[ask.req].wire).answer])
  /\ ask' = Idle
  /\ Take
  /\ UNCHANGED <<selected, asks, history>>

FallbackFails ==
  /\ ask.phase = "fallback" /\ ~ask.aborted
  /\ Incoming("fallback", {"http_error"}) \/ ~Ended(ask.req)
  /\ Finish("error")
  /\ requests' = [requests EXCEPT ![ask.req].gone = TRUE]

PageStep ==
  \/ ReadToken \/ ReadError \/ ReadDone \/ Aborted \/ ReadAnswer
  \/ Incoming("stream", {"http_error"}) /\ Fallback
  \/ Incoming("fallback", {"http_error"}) /\ FallbackFails

\* uvicorn reads the closed connection.
Notice(r) ==
  /\ r \in DOMAIN requests
  /\ requests[r].gone /\ ~requests[r].noticed /\ ~Ended(r)
  /\ Become(r, [requests[r] EXCEPT !.noticed = TRUE])
  /\ PageUnchanged /\ UNCHANGED history

Init ==
  /\ selected = NoCase
  /\ messages = <<>>
  /\ ask = Idle /\ asks = 0
  /\ requests = <<>>
  /\ history = {}

Next ==
  \/ \E c \in Cases \cup {NoCase} : Select(c)
  \/ Send \/ Stop
  \/ ReadToken \/ ReadError \/ ReadDone \/ Aborted \/ Fallback \/ ReadAnswer \/ FallbackFails
  \/ \E r \in 1..(2 * MaxAsks) : ServerStep(r) \/ Cancelled(r) \/ Notice(r)

Spec == Init /\ [][Next]_vars

\* The browser's and the server's event loops run, and an LLM call ends.
Fairness ==
  /\ WF_vars(PageStep)
  /\ \A r \in 1..(2 * MaxAsks) : WF_vars(ServerStep(r))

FairSpec == Spec /\ Fairness

----------------------------------------------------------------------------
(* Properties. *)

\* The row of a question holds at least what the page shows of the answer, and when the page shows
\* it as complete, exactly that, and not as a stopped one.
RowCoversPage ==
  \A row \in history : \A i \in {j \in DOMAIN messages : messages[j].req = row.req} :
    /\ messages[i].full <= row.answer
    /\ messages[i].state = "done" => messages[i].full = row.answer /\ ~row.stopped

\* An answer the page shows as complete gets into the history, although it is saved after the
\* last event was sent.
DoneIsSaved ==
  \A r \in 1..(2 * MaxAsks) :
    (\E i \in DOMAIN messages : messages[i].req = r /\ messages[i].state = "done")
      ~> ((r \in DOMAIN requests /\ requests[r].lost) \/ \E row \in history : row.req = r)

\* Every answer the LLM began is in the token log, however it ended: whole, failed, stopped by the
\* user or cancelled with the request.
UsageLogged ==
  \A r \in 1..(2 * MaxAsks) :
    (r \in DOMAIN requests /\ requests[r].llm = "running") ~>
      (r \in DOMAIN requests /\ requests[r].usage = 1)

\* Whatever fails, breaks or is stopped, the page takes questions again.
PageRecovers ==
  ask.phase # "idle" ~> ask.phase = "idle"

(* What the code does not keep. *)

\* An answer that was stopped is saved as stopped.
StoppedIsMarked ==
  \A row \in history :
    LET req == requests[row.req] IN
    req.kind = "stream" /\ req.noticed /\ req.llm # "whole" => row.stopped

\* The page shows messages of the selected case only.
OwnCaseOnly ==
  \A i \in DOMAIN messages : messages[i].state # "user" => messages[i].case = selected
=============================================================================
