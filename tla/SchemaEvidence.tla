--------------------------- MODULE SchemaEvidence ---------------------------
(***************************************************************************)
(* Schema inference over all captured pages (engine/schema_evidence.py):   *)
(* the evidence of the pages is packed into batches, a pool of threads     *)
(* asks the providers about each batch, answers are cached on disk under   *)
(* their prompt, and the answers are merged when every batch has one.      *)
(*                                                                         *)
(* Text is its length.  An answer is the round of feedback its prompt      *)
(* carried; what the entities of an answer are is left out.                *)
(***************************************************************************)
EXTENDS FailoverLLM, SequencesExt

CONSTANTS
  Pages,        \* the captured addresses
  Contents,     \* what the evidence of a page may be
  ContentOf,    \* the evidence of each page, without what pages share
  Size,         \* its length
  SharedSize,   \* length of what all pages share, 0 if nothing
  Extra,        \* lengths of the extracted blocks
  MaxChars,     \* max_chars, the size of a batch
  MinRoom,      \* a batch with less room is closed (100 characters)
  Gap,          \* the blank line between two fragments (2)
  Label,        \* length of a fragment's label, without its page list
  Concurrency,  \* threads of the pool
  MaxAttempts,  \* times a batch is asked for a valid answer (3)
  MaxRounds,    \* bound on rejections with feedback
  Refused       \* bound: the batches whose answer the disk may refuse or damage

\* A label lists its pages, so it grows with them.
Header(pages) == Label + Cardinality(pages)

ASSUME EvidenceAssumption ==
  /\ ContentOf \in [Pages -> Contents] /\ Size \in [Contents -> Nat \ {0}]
  /\ SharedSize \in Nat /\ Extra \in Seq(Nat \ {0})
  /\ Gap \in Nat /\ MinRoom \in Nat /\ Gap < MinRoom
  /\ Label \in Nat /\ MaxChars \in Nat \ {0}
ASSUME PoolAssumption ==
  Concurrency \in 1 .. 4 /\ MaxAttempts \in Nat \ {0} /\ MaxRounds \in Nat

\* Not checked by the code: packing a label must leave room for text.
ASSUME LabelAssumption == MaxChars > Label + Cardinality(Pages)

VARIABLES
  stage,    \* where infer_all_pages is
  sources,  \* the pages it was called with
  todo,     \* fragments not packed yet
  batches,  \* the batches packed
  jobs,     \* the future of each batch: its state and its attempt
  answer,   \* completed: the round of the answer each batch got
  round,    \* rejections whose feedback is in the prompt
  cache,    \* the answers the disk was given: batch and round
  broken    \* those it does not give back: no file, no schema, not readable

planVars  == <<sources, todo, batches>>
poolVars  == <<jobs, answer>>
evidenceVars == <<stage, planVars, poolVars, round, cache, broken, failoverVars>>

EvidenceInit ==
  /\ stage = "idle" /\ sources = <<>> /\ todo = <<>> /\ batches = <<>>
  /\ jobs = <<>> /\ answer = <<>>
  /\ round = 0 /\ cache = {} /\ broken = {}
  /\ Unasked

-----------------------------------------------------------------------------
(* Planning.                                                               *)

Fragment(pages, size) == [pages |-> pages, size |-> size]

\* A text is cut into pieces of at most MaxChars, each with its label.
Pieces(pages, size) ==
  [ i \in 1 .. (size + MaxChars - 1) \div MaxChars |->
      Fragment(pages, Header(pages) + Min({MaxChars, size - (i - 1) * MaxChars})) ]

PagesWith(ps, content) == {i \in DOMAIN ps : ContentOf[ps[i]] = content}

\* Identical evidence is sent once, under the numbers of all its pages.
Distinct(ps) ==
  [ i \in DOMAIN ps |->
      IF \A j \in 1 .. i - 1 : ContentOf[ps[j]] # ContentOf[ps[i]]
      THEN Pieces(PagesWith(ps, ContentOf[ps[i]]), Size[ContentOf[ps[i]]]) ELSE <<>> ]

Fragments(ps) ==
  FlattenSeq(Distinct(ps))
    \o (IF SharedSize > 0 /\ Len(ps) > 1 THEN Pieces(DOMAIN ps, SharedSize) ELSE <<>>)
    \o [i \in DOMAIN Extra |-> Fragment({}, Extra[i])]

\* infer_all_pages is called; a failed stage may be called again.
start_stage(ps) ==
  /\ stage \in {"idle", "failed"} /\ ps # <<>>
  /\ stage' = "planning"
  /\ sources' = ps /\ todo' = Fragments(ps) /\ batches' = <<>>
  /\ jobs' = <<>> /\ answer' = <<>>
  /\ UNCHANGED <<round, cache, broken, failoverVars>>

\* One turn of the packing loop: the first fragment fills the last batch, or
\* a new one when that is full; its rest continues under a label of its own.
pack_fragment ==
  LET f == Head(todo)
      open == batches # <<>> /\ MaxChars - Last(batches).size >= MinRoom
      full == IF open THEN Front(batches) ELSE batches
      batch == IF open THEN Last(batches) ELSE Fragment({}, 0)
      prefix == IF batch.size > 0 THEN Gap ELSE 0
      taken == Min({MaxChars - batch.size - prefix, f.size})
      rest == IF taken = f.size THEN <<>>
              ELSE <<Fragment(f.pages, Header(f.pages) + f.size - taken)>> IN
  /\ stage = "planning" /\ todo # <<>>
  /\ batches' = Append(full, Fragment(batch.pages \union f.pages, batch.size + prefix + taken))
  /\ todo' = rest \o Tail(todo)
  /\ UNCHANGED <<stage, sources, poolVars, round, cache, broken, failoverVars>>

submit_batches ==
  /\ stage = "planning" /\ todo = <<>>
  /\ stage' = "inferring"
  /\ jobs' = [i \in DOMAIN batches |-> [state |-> "pending", attempt |-> 0]]
  /\ answer' = [i \in DOMAIN batches |-> -1]
  /\ UNCHANGED <<planVars, round, cache, broken, failoverVars>>

-----------------------------------------------------------------------------
(* The pool.                                                               *)

In(state) == {i \in DOMAIN jobs : jobs[i].state = state}

Becomes(i, state) == jobs' = [jobs EXCEPT ![i] = [state |-> state, attempt |-> 0]]

\* Fault: the cache is looked up by batch only.
Cached_any_round(i) == {r \in 0 .. MaxRounds : <<i, r>> \in cache \ broken}

\* Fault: the cache is written but never read.
Cached_unread(i) == {}

\* The cached answers to the batch's prompt, which carries the feedback.  A
\* file that cannot be read, or that holds no schema, is passed over.
Cached(i) == {r \in {round} : <<i, r>> \in cache \ broken}

\* The batch has its answer.  Reporting it saves the job, and a store that
\* refuses fails the batch after all.
Completes(i, r) ==
  /\ answer' = [answer EXCEPT ![i] = r]
  /\ \E state \in {"done", "failed"} : Becomes(i, state)

\* A thread that is free takes the next batch and looks into the cache.
take_batch(i) ==
  /\ Cardinality(In("asking")) < Concurrency
  /\ i \in In("pending") /\ \A j \in In("pending") : i <= j
  /\ IF Cached(i) = {}
     THEN /\ jobs' = [jobs EXCEPT ![i] = [state |-> "asking", attempt |-> 1]]
          /\ begin_call(i)
          /\ UNCHANGED answer
     ELSE /\ Completes(i, CHOOSE r \in Cached(i) : TRUE)
          /\ UNCHANGED failoverVars
  /\ UNCHANGED <<stage, planVars, round, cache, broken>>

ask_fails(i) ==
  /\ i \in In("asking")
  /\ provider_fails(i)
  /\ UNCHANGED <<stage, planVars, poolVars, round, cache, broken>>

\* FailoverLLM.invoke raises at once when no provider is left, and passes on what
\* saving a progress report raises before that.
batch_raises(i) ==
  /\ i \in In("asking")
  /\ Becomes(i, "failed")
  /\ call_ends(i)
  /\ UNCHANGED <<stage, planVars, answer, round, cache, broken, preferred, blocked>>

\* Fault: one attempt too many.
invalid_answer_once_more(i) ==
  /\ i \in In("asking")
  /\ IF jobs[i].attempt <= MaxAttempts
     THEN asked_again(i) /\ jobs' = [jobs EXCEPT ![i].attempt = @ + 1]
     ELSE provider_answers(i) /\ Becomes(i, "failed")
  /\ UNCHANGED <<stage, planVars, answer, round, cache, broken>>

\* An answer that is not a schema is asked for again, a few times.
invalid_answer(i) ==
  /\ i \in In("asking")
  /\ IF jobs[i].attempt < MaxAttempts
     THEN asked_again(i) /\ jobs' = [jobs EXCEPT ![i].attempt = @ + 1]
     ELSE provider_answers(i) /\ Becomes(i, "failed")
  /\ UNCHANGED <<stage, planVars, answer, round, cache, broken>>

\* A valid answer is given to the disk, in place of a file that was no use.
\* The disk may refuse it; it completes the batch either way.
valid_answer(i) ==
  /\ i \in In("asking")
  /\ provider_answers(i)
  /\ cache' = cache \union {<<i, round>>}
  /\ \/ broken' = broken \ {<<i, round>>}
     \/ i \in Refused /\ broken' = broken \union {<<i, round>>}
  /\ Completes(i, round)
  /\ UNCHANGED <<stage, planVars, round>>

\* The first failure that is noticed cancels what has not started.
notice_failure ==
  /\ stage = "inferring" /\ In("failed") # {}
  /\ stage' = "aborting"
  /\ jobs' = [i \in DOMAIN jobs |->
                IF i \in In("pending") THEN [jobs[i] EXCEPT !.state = "cancelled"] ELSE jobs[i]]
  /\ UNCHANGED <<planVars, answer, round, cache, broken, failoverVars>>

\* Fault: the failure is raised at once.
raise_failure_early ==
  /\ stage = "aborting"
  /\ stage' = "failed"
  /\ UNCHANGED <<planVars, poolVars, round, cache, broken, failoverVars>>

\* The pool waits for the batches that are running before it is left.
raise_failure ==
  /\ stage = "aborting" /\ In("asking") = {}
  /\ stage' = "failed"
  /\ UNCHANGED <<planVars, poolVars, round, cache, broken, failoverVars>>

merge_answers ==
  /\ stage = "inferring" /\ In("done") = DOMAIN jobs
  /\ stage' = "merged"
  /\ UNCHANGED <<planVars, poolVars, round, cache, broken, failoverVars>>

\* The reviewer rejects the schema; the feedback, if it is new, goes into
\* the prompts of the next inference.
reject_schema ==
  /\ stage = "merged"
  /\ stage' = "idle"
  /\ round' \in {round, round + 1} \intersect 0 .. MaxRounds
  /\ sources' = <<>> /\ batches' = <<>> /\ jobs' = <<>> /\ answer' = <<>>
  /\ UNCHANGED <<todo, cache, broken, failoverVars>>

\* The process dies; the cache stays.
evidence_lost ==
  /\ stage \in {"planning", "inferring", "aborting"}
  /\ stage' = "idle"
  /\ sources' = <<>> /\ todo' = <<>> /\ batches' = <<>> /\ jobs' = <<>> /\ answer' = <<>>
  /\ failover_lost
  /\ UNCHANGED <<round, cache, broken>>

\* The file of a saved answer is damaged, or can no longer be read.  (Answers
\* of earlier rounds are not read again.)
damage_answer(i) ==
  /\ <<i, round>> \in cache \ broken
  /\ broken' = broken \union {<<i, round>>}
  /\ UNCHANGED <<stage, planVars, poolVars, round, cache, failoverVars>>

BatchStep(i) ==
  \/ take_batch(i) \/ ask_fails(i) \/ batch_raises(i)
  \/ invalid_answer(i) \/ valid_answer(i)

StageStep ==
  \/ pack_fragment \/ submit_batches
  \/ notice_failure \/ raise_failure \/ merge_answers
  \/ \E i \in DOMAIN jobs : BatchStep(i)

BackoffEnds ==
  \E p \in Providers : backoff_ends(p) /\ UNCHANGED <<stage, planVars, poolVars, round, cache, broken>>

-----------------------------------------------------------------------------
(* Properties.                                                             *)

Stages == {"idle", "planning", "inferring", "aborting", "merged", "failed"}

\* Every variable has its type; a batch holds at most MaxChars.
EvidenceTypeOK ==
  /\ stage \in Stages
  /\ sources \in Seq(Pages)
  /\ \A i \in DOMAIN todo :
       todo[i].pages \subseteq DOMAIN sources /\ todo[i].size \in Nat \ {0}
  /\ \A i \in DOMAIN batches :
       batches[i].pages \subseteq DOMAIN sources /\ batches[i].size \in 1 .. MaxChars
  /\ \A i \in DOMAIN jobs :
       /\ jobs[i].state \in {"pending", "asking", "done", "failed", "cancelled"}
       /\ jobs[i].attempt \in 0 .. MaxAttempts
  /\ DOMAIN answer = DOMAIN jobs
  /\ round \in 0 .. MaxRounds
  /\ broken \subseteq cache
  /\ FailoverTypeOK

\* A merged schema rests on an answer for every batch, each to a prompt that
\* carried the current feedback, and the batches on every page that was given.
MergedIsWhole ==
  stage = "merged" =>
    /\ In("done") = DOMAIN batches
    /\ \A i \in DOMAIN batches : answer[i] = round
    /\ UNION {batches[i].pages : i \in DOMAIN batches} = DOMAIN sources

\* Once the stage has failed or was merged no thread works for it any more,
\* so nothing it reports can follow the result.
NothingRunsAfter == stage \in {"idle", "merged", "failed"} => In("asking") = {}

\* A batch whose answer was saved is not asked about again, through failures,
\* crashes and repetitions of the stage, unless the disk does not give it back:
\* the file was refused, no longer holds a schema or cannot be read.
SavedIsNotAsked ==
  \A i \in In("asking") : <<i, round>> \in cache => <<i, round>> \in broken

=============================================================================
