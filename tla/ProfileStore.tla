---------------------------- MODULE ProfileStore ----------------------------
(***************************************************************************)
(* The vectors of a case and the name of the model that made them, while   *)
(* the embedding model is changed (src/api/routes/settings.py), a run      *)
(* reuses old vectors (reusable_vectors of src/index/case_index.py), a     *)
(* script rebuilds a profile (scripts/build_profiles.py, write_profile)    *)
(* and a question is asked (retrieve of src/rag/retrieval.py).             *)
(*                                                                         *)
(* A vector is the part it was computed for and the model that computed    *)
(* it; all models have vectors of one length (1024 for four of those       *)
(* embedding_service.py knows). A part stands for its id and its input. A  *)
(* profile is the label in its meta.json and the rows of its dense.npy.    *)
(* manifest.json changes its mtime whenever an index or a profile is       *)
(* written: parts[s] is what the index held at the s-th mtime, kept[s] are *)
(* the matrices that the object the API process loaded then has read.      *)
(* Writing the folder of an index is one step here, CaseIndexDir has the   *)
(* steps.                                                                  *)
(*                                                                         *)
(* TrustsAnyLabel, ListsForTheOld and NeverTouches are mutants of the       *)
(* definitions that follow them.                                           *)
(***************************************************************************)
EXTENDS Integers, Sequences, FiniteSets, SequencesExt

CONSTANTS
  Models,      \* embedding models
  EnvModel,    \* OLLAMA_EMBED_MODEL: what every process starts with
  Service,     \* service_index_profile
  Others,      \* profiles of experiments that use the same model setting
  Corpora,     \* the parts a run may find, in their order
  MaxPuts,     \* bound: PUT /embed-model
  MaxRuns,     \* bound: runs
  MaxBuilds,   \* bound: runs of the script
  MaxAsks      \* bound: questions

ASSUME ProfileAssumption ==
  /\ EnvModel \in Models
  /\ Service \notin Others
  /\ Corpora \subseteq Seq(UNION {ToSet(corpus) : corpus \in Corpora})
  /\ {MaxPuts, MaxRuns, MaxBuilds, MaxAsks} \subseteq Nat

VARIABLES
  model,     \* settings.ollama_embed_model of the API process
  parts,     \* what the index held at each mtime of its manifest
  kept,      \* the matrices of the objects of the API process
  slot,      \* [profile -> [final, old]]: the folders {profile} and {profile}.old
  tmp,       \* the folder the script has written its profile to
  run,       \* the run of the case
  put,       \* the request that changes the model
  build,     \* the script
  search,    \* the question
  unsafe,    \* history: a change the checks do not see has come between two steps
  count      \* what the bounds count

vars == <<model, parts, kept, slot, tmp, run, put, build, search, unsafe, count>>

Profiles == {Service} \cup Others

None == [label |-> "", rows |-> <<>>]
Fresh == [p \in Profiles |-> None]
Vector(part, m) == [part |-> part, model |-> m]
Now == Len(parts)

Init ==
  /\ model = EnvModel
  /\ parts = <<>> /\ kept = <<>>
  /\ slot = [p \in Profiles |-> [final |-> None, old |-> None]]
  /\ tmp = None
  /\ run = [pc |-> "idle", spec |-> "", seen |-> 0, reuse |-> {}]
  /\ put = [pc |-> "idle", to |-> "", listed |-> FALSE, sure |-> FALSE]
  /\ build = [pc |-> "idle", profile |-> Service, parts |-> <<>>, reuse |-> {}]
  /\ search = [pc |-> "idle", spec |-> "", seen |-> 0, rows |-> <<>>, clean |-> TRUE]
  /\ unsafe = FALSE
  /\ count = [puts |-> 0, runs |-> 0, builds |-> 0, asks |-> 0]

Counted(what, bound) == count[what] < bound /\ count' = [count EXCEPT ![what] = @ + 1]

\* dense: the matrix the object has, or the one on disk now if it has as many rows as the object parts.
Matrix(seen, p) == IF kept[seen][p] # None THEN kept[seen][p] ELSE slot[p].final
Fits(seen, p) == kept[seen][p] # None \/ (slot[p].final # None /\ Len(slot[p].final.rows) = Len(parts[seen]))
Keep(seen, p) == kept' = [kept EXCEPT ![seen][p] = Matrix(seen, p)]

\* The vectors found for the parts of an object, as pairs of a part and a vector.
Pairs(of, rows) == {<<of[i], rows[i]>> : i \in DOMAIN of}

VectorFor(part, reuse, m) ==
  IF \E pair \in reuse : pair[1] = part THEN (CHOOSE pair \in reuse : pair[1] = part)[2] ELSE Vector(part, m)

----------------------------------------------------------------------------
(* PUT /embed-model *)

\* What _cases_needing_reindex makes of a case that is READY.
Ready == Now > 0 /\ run.pc = "idle"

ListsForTheOld(m) == Ready /\ slot[Service].final.label # model
Listed(m) == Ready /\ slot[Service].final.label # m

PutList(m) ==
  /\ put.pc = "idle"
  /\ Counted("puts", MaxPuts)
  /\ put' = [pc |-> "set", to |-> m, listed |-> Listed(m), sure |-> Ready /\ build.pc = "idle"]
  /\ UNCHANGED <<model, parts, kept, slot, tmp, run, build, search, unsafe>>

\* A run that has read the model once and reads it a second time is told another one.
PutSet ==
  /\ put.pc = "set"
  /\ model' = put.to
  /\ put' = [put EXCEPT !.pc = "idle"]
  /\ unsafe' = (unsafe \/ (run.pc \in {"load", "meta"} /\ put.to # model))
  /\ UNCHANGED <<parts, kept, slot, tmp, run, build, search, count>>

----------------------------------------------------------------------------
(* A run, as far as it reuses vectors and writes them. *)

\* What PUT said holds until the next run or rebuilt profile.
Unsure == put' = [put EXCEPT !.sure = FALSE]

\* _run_pipeline: the spec that names the embedder and the label.
RunStart ==
  /\ run.pc = "idle"
  /\ Counted("runs", MaxRuns)
  /\ run' = [pc |-> "load", spec |-> model, seen |-> 0, reuse |-> {}]
  /\ Unsure
  /\ UNCHANGED <<model, parts, kept, slot, tmp, build, search, unsafe>>

\* reusable_vectors: load; the spec once more and the label; the matrix.
RunLoad ==
  /\ run.pc = "load"
  /\ run' = [run EXCEPT !.seen = Now, !.pc = IF Now = 0 THEN "embed" ELSE "meta"]
  /\ unsafe' = (unsafe \/ build.pc = "touch")
  /\ UNCHANGED <<model, parts, kept, slot, tmp, put, build, search, count>>

TrustsAnyLabel(p, m) == slot[p].final # None
Reusable(p, m) == slot[p].final # None /\ slot[p].final.label = m

RunMeta ==
  /\ run.pc = "meta"
  /\ run' = [run EXCEPT !.pc = IF Reusable(Service, model) THEN "dense" ELSE "embed"]
  /\ UNCHANGED <<model, parts, kept, slot, tmp, put, build, search, unsafe, count>>

RunDense ==
  /\ run.pc = "dense"
  /\ IF Fits(run.seen, Service)
     THEN /\ Keep(run.seen, Service)
          /\ run' = [run EXCEPT !.pc = "embed", !.reuse = Pairs(parts[run.seen], Matrix(run.seen, Service).rows)]
     ELSE /\ run' = [run EXCEPT !.pc = "embed"]
          /\ UNCHANGED kept
  /\ UNCHANGED <<model, parts, slot, tmp, put, build, search, unsafe, count>>

\* _carry_profile: the rows of another profile in the order of the new parts, or nothing.
Carried(p, corpus) ==
  LET reuse == IF Now > 0 /\ Reusable(p, model) /\ Fits(Now, p) THEN Pairs(parts[Now], Matrix(Now, p).rows) ELSE {}
  IN  IF reuse # {} /\ \A i \in DOMAIN corpus : \E pair \in reuse : pair[1] = corpus[i]
      THEN [label |-> slot[p].final.label, rows |-> [i \in DOMAIN corpus |-> VectorFor(corpus[i], reuse, "")]]
      ELSE None

\* What is new is embedded; the index and its profiles replace the old ones, whatever the script is at.
RunWrite ==
  /\ run.pc = "embed"
  /\ \E corpus \in Corpora :
       /\ parts' = Append(parts, corpus)
       /\ slot' = [p \in Profiles |-> [old |-> None, final |->
            IF p = Service
            THEN [label |-> run.spec, rows |-> [i \in DOMAIN corpus |-> VectorFor(corpus[i], run.reuse, run.spec)]]
            ELSE Carried(p, corpus)]]
  /\ kept' = Append(kept, Fresh)
  /\ tmp' = None
  /\ run' = [run EXCEPT !.pc = "idle", !.reuse = {}]
  /\ search' = [search EXCEPT !.clean = FALSE]
  /\ unsafe' = (unsafe \/ build.pc # "idle")
  /\ UNCHANGED <<model, put, build, count>>

\* A run that is stopped or fails before it writes.
RunFails ==
  /\ run.pc \in {"load", "embed"}
  /\ run' = [run EXCEPT !.pc = "idle", !.reuse = {}]
  /\ UNCHANGED <<model, parts, kept, slot, tmp, put, build, search, unsafe, count>>

----------------------------------------------------------------------------
(* The script, in a process with the model of its environment. *)

BuildStart(p) ==
  /\ build.pc = "idle" /\ Now > 0
  /\ Counted("builds", MaxBuilds)
  /\ build' = [pc |-> "meta", profile |-> p, parts |-> parts[Now], reuse |-> {}]
  /\ UNCHANGED <<model, parts, kept, slot, tmp, run, put, search, unsafe>>

\* reusable_vectors in a process of its own
BuildReuse ==
  /\ build.pc = "meta"
  /\ LET p == build.profile
         rows == slot[p].final.rows
         usable == Reusable(p, EnvModel) /\ Len(rows) = Len(parts[Now])
     IN  build' = [build EXCEPT !.pc = "embed", !.reuse = IF usable THEN Pairs(parts[Now], rows) ELSE {}]
  /\ UNCHANGED <<model, parts, kept, slot, tmp, run, put, search, unsafe, count>>

\* write_profile: the index is loaded again and only the number of its parts is compared.
BuildWrite ==
  /\ build.pc = "embed"
  /\ LET rows == [i \in DOMAIN build.parts |-> VectorFor(build.parts[i], build.reuse, EnvModel)] IN
     IF Len(rows) = Len(parts[Now])
     THEN tmp' = [label |-> EnvModel, rows |-> rows] /\ build' = [build EXCEPT !.pc = "away"]
     ELSE UNCHANGED tmp /\ build' = [build EXCEPT !.pc = "idle", !.reuse = {}]
  /\ UNCHANGED <<model, parts, kept, slot, run, put, search, unsafe, count>>

\* _swap_dir: .old is cleared and the profile renamed to it; the new one is renamed into its place.
BuildAway ==
  /\ build.pc = "away"
  /\ slot' = [slot EXCEPT ![build.profile] = [final |-> None, old |-> @.final]]
  /\ build' = [build EXCEPT !.pc = "swap"]
  /\ search' = [search EXCEPT !.clean = FALSE]
  /\ Unsure
  /\ UNCHANGED <<model, parts, kept, tmp, run, unsafe, count>>

BuildSwap ==
  /\ build.pc = "swap"
  /\ IF tmp = None
     THEN UNCHANGED slot /\ build' = [build EXCEPT !.pc = "idle", !.reuse = {}]
     ELSE /\ slot' = [slot EXCEPT ![build.profile] = [final |-> tmp, old |-> None]]
          /\ build' = [build EXCEPT !.pc = "touch"]
  /\ tmp' = None
  /\ search' = [search EXCEPT !.clean = FALSE]
  /\ Unsure
  /\ unsafe' = (unsafe \/ run.pc \in {"meta", "dense"})
  /\ UNCHANGED <<model, parts, kept, run, count>>

NeverTouches ==
  /\ build.pc = "touch"
  /\ build' = [build EXCEPT !.pc = "idle", !.reuse = {}]
  /\ UNCHANGED <<model, parts, kept, slot, tmp, run, put, search, unsafe, count>>
\* The new mtime makes every process load anew.
BuildTouch ==
  /\ build.pc = "touch"
  /\ parts' = Append(parts, parts[Now])
  /\ kept' = Append(kept, Fresh)
  /\ build' = [build EXCEPT !.pc = "idle", !.reuse = {}]
  /\ UNCHANGED <<model, slot, tmp, run, put, search, unsafe, count>>

\* Between the renames and the touch an object of the API process keeps what it has read.
BuildKilled ==
  /\ build.pc # "idle"
  /\ build' = [build EXCEPT !.pc = "idle", !.reuse = {}]
  /\ tmp' = None
  /\ unsafe' = (unsafe \/ build.pc = "touch")
  /\ UNCHANGED <<model, parts, kept, slot, run, put, search, count>>

----------------------------------------------------------------------------
(* A question. *)

\* retrieve: load, profile_spec and the embedder for it.
SearchLoad ==
  /\ search.pc \in {"idle", "refused", "answered"} /\ Now > 0
  /\ Counted("asks", MaxAsks)
  /\ search' = [pc |-> "check", spec |-> model, seen |-> Now, rows |-> <<>>, clean |-> build.pc # "touch"]
  /\ UNCHANGED <<model, parts, kept, slot, tmp, run, put, build, unsafe>>

\* check_embedding
SearchCheck ==
  /\ search.pc = "check"
  /\ search' = [search EXCEPT !.pc = IF slot[Service].final # None /\ slot[Service].final.label = search.spec
                                     THEN "dense" ELSE "refused"]
  /\ UNCHANGED <<model, parts, kept, slot, tmp, run, put, build, unsafe, count>>

SearchDense ==
  /\ search.pc = "dense"
  /\ IF Fits(search.seen, Service)
     THEN /\ Keep(search.seen, Service)
          /\ search' = [search EXCEPT !.pc = "answered", !.rows = Matrix(search.seen, Service).rows]
     ELSE /\ search' = [search EXCEPT !.pc = "refused"]
          /\ UNCHANGED kept
  /\ UNCHANGED <<model, parts, slot, tmp, run, put, build, unsafe, count>>

----------------------------------------------------------------------------
Next ==
  \/ \E m \in Models : PutList(m)
  \/ PutSet
  \/ RunStart \/ RunLoad \/ RunMeta \/ RunDense \/ RunWrite \/ RunFails
  \/ \E p \in Profiles : BuildStart(p)
  \/ BuildReuse \/ BuildWrite \/ BuildAway \/ BuildSwap \/ BuildTouch \/ BuildKilled
  \/ SearchLoad \/ SearchCheck \/ SearchDense

Spec == Init /\ [][Next]_vars

----------------------------------------------------------------------------
(* Properties. *)

\* A question that is answered was compared, part by part, with the vector of that part from the
\* model that embedded the question: whatever models were set, runs reused and scripts rebuilt
\* before. Excepted is what the checks cannot see: a write while the question is asked (not clean); a
\* profile that is renamed, and not yet touched, while a run reads it; a model set between the two
\* times a run reads it; an index replaced while the script is at work on it; a script killed before
\* it touches the manifest.
AnswersMatch ==
  search.pc = "answered" /\ search.clean /\ ~unsafe =>
    search.rows = [i \in DOMAIN parts[search.seen] |-> Vector(parts[search.seen][i], search.spec)]

\* The cases PUT lists are those whose questions will be refused, until a run or the script writes.
ListIsRight ==
  put.sure /\ put.pc = "idle" /\ put.to # "" /\ model = put.to =>
    (put.listed <=> slot[Service].final.label # model)

(* What the code does not keep. *)

\* Vectors of another model are never reused: a profile holds those of the model it names.
LabelTellsModel ==
  \A p \in Profiles : \A i \in DOMAIN slot[p].final.rows :
    slot[p].final.rows[i].model = slot[p].final.label
=============================================================================
