----------------------------- MODULE EmbedCall -----------------------------
(***************************************************************************)
(* What EmbeddingService.embed_texts promises its caller, whatever the     *)
(* server, the clock and the cancel button do meanwhile: every text is     *)
(* settled once, with a vector or as failed, in any order and any number   *)
(* at a time, and nothing is settled again; the call returns when all are  *)
(* settled, or raises.                                                     *)
(***************************************************************************)
CONSTANT Texts

VARIABLES pending, embedded, failed, call

vars == <<pending, embedded, failed, call>>

Init ==
  /\ pending \subseteq Texts
  /\ embedded = {} /\ failed = {}
  /\ call = "running"

Settle ==
  /\ call = "running"
  /\ pending' \subseteq pending
  /\ embedded \subseteq embedded'
  /\ failed \subseteq failed'
  /\ (embedded' \ embedded) \cup (failed' \ failed) = pending \ pending'
  /\ embedded' \cap failed' = {}
  /\ UNCHANGED call

Return ==
  /\ call = "running"
  /\ pending = {}
  /\ call' = "returned"
  /\ UNCHANGED <<pending, embedded, failed>>

Raise ==
  /\ call = "running"
  /\ call' = "raised"
  /\ UNCHANGED <<pending, embedded, failed>>

Next == Settle \/ Return \/ Raise

Spec == Init /\ [][Next]_vars /\ WF_vars(Return)
=============================================================================
