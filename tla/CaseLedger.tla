---------------------------- MODULE CaseLedger ----------------------------
(***************************************************************************)
(* What the cases of the system promise to everyone who looks at them,     *)
(* whatever threads, processes and requests work behind them: the status   *)
(* of a case row moves along the table of src/src/cases/case_store.py, or  *)
(* to "error", or the row is deleted for good; and a case is only called   *)
(* "ready" once an index has been published for it.                        *)
(*                                                                         *)
(* CaseLifecycle is shown to implement this module.                        *)
(***************************************************************************)
CONSTANT Cases   \* the case ids

VARIABLES
  status,        \* case row: its status, or "unborn" / "deleted" when there is none
  index          \* case index folder: "none" (never written), "built" or "dropped"

ledgerVars == <<status, index>>

(***************************************************************************)
(* _VALID_TRANSITIONS: the <<from, to>> pairs update_status accepts. No      *)
(* pair starts at "archived".                                              *)
(***************************************************************************)
Moves ==
  {<<"created", "indexing">>, <<"created", "archived">>,
   <<"indexing", "ready">>, <<"indexing", "error">>, <<"indexing", "created">>,
   <<"ready", "indexing">>, <<"ready", "archived">>,
   <<"error", "indexing">>, <<"error", "created">>, <<"error", "archived">>}

Rows == {"created", "indexing", "ready", "error", "archived"}
HasRow(c) == status[c] \in Rows

LedgerInit ==
  /\ status = [c \in Cases |-> "unborn"]
  /\ index = [c \in Cases |-> "none"]

Open(c) ==
  /\ status[c] = "unborn"
  /\ status' = [status EXCEPT ![c] = "created"]
  /\ UNCHANGED index

\* "ready" is entered only with a published index: index[c] # "none".
Move(c, s) ==
  /\ <<status[c], s>> \in Moves
  /\ s = "ready" => index[c] # "none"
  /\ status' = [status EXCEPT ![c] = s]
  /\ UNCHANGED index

Fail(c) ==
  /\ HasRow(c)
  /\ status' = [status EXCEPT ![c] = "error"]
  /\ UNCHANGED index

Close(c) ==
  /\ HasRow(c)
  /\ status' = [status EXCEPT ![c] = "deleted"]
  /\ UNCHANGED index

Publish(c) ==
  /\ status[c] # "unborn"
  /\ index' = [index EXCEPT ![c] = "built"]
  /\ UNCHANGED status

Drop(c) ==
  /\ index[c] = "built"
  /\ HasRow(c)
  /\ index' = [index EXCEPT ![c] = "dropped"]
  /\ UNCHANGED status

LedgerNext ==
  \E c \in Cases :
    \/ Open(c)
    \/ \E s \in Rows : Move(c, s)
    \/ Fail(c)
    \/ Close(c)
    \/ Publish(c)
    \/ Drop(c)

LedgerSpec == LedgerInit /\ [][LedgerNext]_ledgerVars
=============================================================================
