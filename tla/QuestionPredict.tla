--------------------------- MODULE QuestionPredict ---------------------------
(***************************************************************************)
(* The answers of one file are extracted by two producers that share the   *)
(* rows of the question table: the local predictor (preset_answer_by_fid,  *)
(* one Celery task per file) and an external LLM service, the studio       *)
(* (files are submitted by studio tasks and answers come back through a    *)
(* callback, process_file_extract).  A user may reset the questions and    *)
(* start everything again while tasks are still in flight.                 *)
(*                                                                         *)
(* This module models the tasks that take the row locks of the questions   *)
(* (SELECT ... FOR UPDATE inside pw_db.atomic) and the reset handler, whose *)
(* plain UPDATEs wait for those locks.  row is what the database has       *)
(* committed, draft is what the holder of a row's lock has written so far. *)
(* The tables read or written besides question (file, model versions, rule *)
(* audits) appear as constants or as the flag audited.                     *)
(***************************************************************************)
EXTENDS Naturals, FiniteSets

CONSTANTS
    Question,     \* the questions of the file, one per mold (schema)
    Worker,       \* Celery workers and web processes
    None,         \* no worker, no question, no job
    MoldType,     \* MoldType[q]: who extracts q
    Model,        \* Model[q]: the predictor's model versions for q's mold
    Initial,      \* Initial[q]: what _initialize_ai_status computes for q
    Faults,       \* which things may go wrong
    MaxRequests   \* bound on what users do: resets, reruns, work in the studio

AIStatus == {"SKIP_PREDICT", "TODO", "DOING", "FAILED", "FINISH", "DISABLE", "UNCORRELATED"}
LLMStatus == {"SKIP_PREDICT", "TODO", "DOING", "FAILED", "FINISH"}
Fault == {"crash", "recruit", "predict", "extract", "studio", "pipe", "interdoc", "spontaneous"}

ASSUME QuestionPredictAssumption ==
    /\ None \notin Worker \cup Question
    /\ MoldType \in [Question -> {"COMPLEX", "LLM", "HYBRID"}]
    /\ Model \in [Question -> {"enabled", "disabled", "none"}]
    /\ Initial \in [Question -> {"TODO", "DISABLE", "SKIP_PREDICT"}]
    /\ Faults \subseteq Fault
    /\ MaxRequests \in Nat
    \* Questions start DISABLEd only where no model version is enabled.
    /\ \A q \in Question : Initial[q] = "DISABLE" => Model[q] # "enabled"

\* An answer is the set of producers whose items it holds; {} is JSON null.
Source == {"predictor", "studio"}

Row == [ai : AIStatus, exclusive : AIStatus, llm : LLMStatus,
        preset : SUBSET Source, answer : SUBSET Source]

Predictable == {q \in Question : MoldType[q] # "LLM"}
Extractable == {q \in Question : MoldType[q] # "COMPLEX"}

Message ==
    [kind : {"predict"}, force : BOOLEAN]
        \cup [kind : {"studio"}, op : {"add", "re"}]
        \cup [kind : {"callback"}, question : Extractable, ok : BOOLEAN]

Job == Message \cup [kind : {"reset"}, force : BOOLEAN, skipped : SUBSET Question]

VARIABLES
    row,       \* row[q]: the committed row of q
    draft,     \* draft[q]: the row as the transaction that holds its lock sees it
    lock,      \* lock[q]: the worker that holds the row lock of q
    pc,        \* pc[w]: where worker w is in its job
    job,       \* job[w]: the job worker w runs
    todo,      \* todo[w]: the questions the job has still to visit
    cur,       \* cur[w]: the question whose prediction runs
    queue,     \* queue[m]: copies of the Celery message m at the broker
    studio,    \* studio[q]: extractions of q open at the studio
    audited,   \* the rules were inspected since the last reset
    requests   \* user requests so far

vars == <<row, draft, lock, pc, job, todo, cur, queue, studio, audited, requests>>

-----------------------------------------------------------------------------
(* What one UPDATE of a question writes. *)

HybridStatus(exclusive, llm) ==
    IF exclusive \in {"DISABLE", "SKIP_PREDICT", "UNCORRELATED"} THEN exclusive
    ELSE IF "TODO" \in {exclusive, llm} THEN "TODO"
    ELSE IF "DOING" \in {exclusive, llm} THEN "DOING"
    ELSE IF "FAILED" \in {exclusive, llm} THEN "FAILED"
    ELSE "FINISH"

\* Mutant: the two columns swapped.
UpdateRecordSwapped(q, r, exclusive, llm) ==
    [r EXCEPT !.exclusive = llm, !.llm = exclusive, !.ai = HybridStatus(exclusive, llm)]

\* update_record recomputes ai_status from both columns of the instance.
UpdateRecord(q, r, exclusive, llm) ==
    IF MoldType[q] = "COMPLEX" THEN [r EXCEPT !.ai = exclusive]
    ELSE [r EXCEPT !.exclusive = exclusive, !.llm = llm,
                   !.ai = IF MoldType[q] = "LLM" THEN llm
                          ELSE HybridStatus(exclusive, llm)]

SetExclusive(q, r, status) == UpdateRecord(q, r, status, r.llm)
SetLLM(q, r, status) == UpdateRecord(q, r, r.exclusive, status)

\* set_answer: the merge of the users' answers (none here) and the preset one.
SetAnswer(r) == [r EXCEPT !.answer = r.preset]

NewRow(q) ==
    [ai |-> Initial[q], exclusive |-> Initial[q],
     llm |-> IF MoldType[q] = "COMPLEX" \/ Initial[q] # "TODO"
             THEN "SKIP_PREDICT" ELSE "TODO",
     preset |-> {}, answer |-> {}]

\* Mutant: ai_status is left as it was.
ResetRowParts(q, r, skipped) ==
    [r EXCEPT !.exclusive = Initial[q], !.llm = IF q \in skipped THEN "SKIP_PREDICT" ELSE "TODO"]

ResetRow(q, r, skipped) ==
    [r EXCEPT !.ai = Initial[q], !.exclusive = Initial[q],
              !.llm = IF q \in skipped THEN "SKIP_PREDICT" ELSE "TODO"]

-----------------------------------------------------------------------------
(* The predictor's part of a question (start_preset_answer, predict_answer). *)

\* The rows a question may be left with when its prediction does not start.
NotPredicted(q, r, force) ==
    IF Model[q] = "disabled" THEN {SetExclusive(q, r, "DISABLE")}
    ELSE IF Model[q] = "none" THEN {SetExclusive(q, r, "UNCORRELATED")}
    ELSE IF r.ai = "SKIP_PREDICT" \/ (~force /\ r.ai # "TODO") THEN {r}
    ELSE (IF "recruit" \in Faults THEN {r} ELSE {})
         \cup (IF "predict" \in Faults
               THEN {SetExclusive(q, r, "DISABLE"), SetExclusive(q, r, "FAILED")} ELSE {})

Predicts(q, r, force) ==
    /\ Model[q] = "enabled"
    /\ r.ai # "SKIP_PREDICT"
    /\ force \/ r.ai = "TODO"

\* Mutant: the predictor's answer replaces the studio's.
MergesStudioNever(q, r) == FALSE

\* A finished studio answer is merged into the predictor's.
MergesStudio(q, r) == MoldType[q] = "HYBRID" /\ r.llm = "FINISH"

\* Merging with a null answer raises, and the question fails.
PredictionRows(q, r) ==
    (IF MergesStudio(q, r) /\ r.preset = {} THEN {}
     ELSE {SetAnswer(SetExclusive(q,
              [r EXCEPT !.preset = {"predictor"} \cup (IF MergesStudio(q, r) THEN r.preset ELSE {})],
              "FINISH"))})
    \cup (IF "predict" \in Faults \/ (MergesStudio(q, r) /\ r.preset = {})
          THEN {SetExclusive(q, r, "FAILED")} ELSE {})

(* The studio's part of a question (run_extract_answer). *)

\* Mutant: the studio's answer replaces the predictor's.
MergesPredictorNever(q, r) == FALSE

MergesPredictor(q, r) == MoldType[q] = "HYBRID" /\ r.exclusive = "FINISH"

Extracted(q, r) ==
    SetAnswer(SetLLM(q,
        [r EXCEPT !.preset = {"studio"} \cup (IF MergesPredictor(q, r) THEN r.preset ELSE {})],
        "FINISH"))

\* The studio reports a failed extraction: preset_answer=None is written too.
ExtractionFailed(q, r) == SetAnswer(SetLLM(q, [r EXCEPT !.preset = {}], "FAILED"))

-----------------------------------------------------------------------------
(* Transactions. *)

Held(w) == {q \in Question : lock[q] = w}

Unlock(w) == lock' = [q \in Question |-> IF lock[q] = w THEN None ELSE lock[q]]

Commit(w) ==
    /\ row' = [q \in Question |-> IF lock[q] = w THEN draft[q] ELSE row[q]]
    /\ Unlock(w)
    /\ UNCHANGED draft

\* Mutant: what a dying process wrote is kept.
RollbackNothing(w) == Commit(w)

Rollback(w) ==
    /\ draft' = [q \in Question |-> IF lock[q] = w THEN row[q] ELSE draft[q]]
    /\ Unlock(w)
    /\ UNCHANGED row

\* READ COMMITTED: a transaction sees its own writes and what others committed.
View(w) == [q \in Question |-> IF lock[q] = w THEN draft[q] ELSE row[q]]

AllFinish(rows) == \A q \in Question : rows[q].ai = "FINISH"

Goto(w, label) == pc' = [pc EXCEPT ![w] = label]

EndJob(w) ==
    /\ Goto(w, "idle")
    /\ job' = [job EXCEPT ![w] = None]
    /\ todo' = [todo EXCEPT ![w] = {}]
    /\ cur' = [cur EXCEPT ![w] = None]

At(w, label, kind) == pc[w] = label /\ job[w].kind = kind

Send(messages) ==
    queue' = [m \in Message |-> IF m \in messages THEN queue[m] + 1 ELSE queue[m]]

\* A worker takes a message off the broker; it is acknowledged at once.
Receive(w) ==
    /\ pc[w] = "idle"
    /\ \E m \in Message :
        /\ queue[m] > 0
        /\ queue' = [queue EXCEPT ![m] = @ - 1]
        /\ job' = [job EXCEPT ![w] = m]
        /\ todo' = [todo EXCEPT ![w] = IF m.kind = "studio" THEN Extractable ELSE {}]
    /\ Goto(w, "start")
    /\ UNCHANGED <<row, draft, lock, cur, studio, audited, requests>>

-----------------------------------------------------------------------------
(* preset_answer_by_fid *)

PredictLock(w) ==
    /\ At(w, "start", "predict")
    /\ Predictable # {}
    /\ \A q \in Predictable : lock[q] = None
    /\ lock' = [q \in Question |-> IF q \in Predictable THEN w ELSE lock[q]]
    /\ todo' = [todo EXCEPT ![w] = Predictable]
    /\ Goto(w, "predict")
    /\ UNCHANGED <<row, draft, job, cur, queue, studio, audited, requests>>

\* "No question found for fid"
PredictNothing(w) ==
    /\ At(w, "start", "predict")
    /\ Predictable = {}
    /\ EndJob(w)
    /\ UNCHANGED <<row, draft, lock, queue, studio, audited, requests>>

\* check_pdfinsight raises: only the file's status is written.
PredictNoInterdoc(w) ==
    /\ "interdoc" \in Faults
    /\ pc[w] = "predict"
    /\ todo[w] = Predictable
    /\ Commit(w)
    /\ EndJob(w)
    /\ UNCHANGED <<queue, studio, audited, requests>>

PredictSkip(w) ==
    /\ pc[w] = "predict"
    /\ \E q \in todo[w] :
        /\ \E r \in NotPredicted(q, draft[q], job[w].force) :
            draft' = [draft EXCEPT ![q] = r]
        /\ todo' = [todo EXCEPT ![w] = @ \ {q}]
    /\ UNCHANGED <<row, lock, pc, job, cur, queue, studio, audited, requests>>

\* Mutant: DOING is committed before the prophet runs.
PredictBeginVisible(w) ==
    /\ pc[w] = "predict"
    /\ \E q \in todo[w] :
        /\ Predicts(q, draft[q], job[w].force)
        /\ draft' = [draft EXCEPT ![q] = SetExclusive(q, @, "DOING")]
        /\ row' = [row EXCEPT ![q] = draft'[q]]
        /\ todo' = [todo EXCEPT ![w] = @ \ {q}]
        /\ cur' = [cur EXCEPT ![w] = q]
    /\ Goto(w, "run")
    /\ UNCHANGED <<lock, job, queue, studio, audited, requests>>

\* _predict_answer marks the question DOING just before the prophet runs.
PredictBegin(w) ==
    /\ pc[w] = "predict"
    /\ \E q \in todo[w] :
        /\ Predicts(q, draft[q], job[w].force)
        /\ draft' = [draft EXCEPT ![q] = SetExclusive(q, @, "DOING")]
        /\ todo' = [todo EXCEPT ![w] = @ \ {q}]
        /\ cur' = [cur EXCEPT ![w] = q]
    /\ Goto(w, "run")
    /\ UNCHANGED <<row, lock, job, queue, studio, audited, requests>>

PredictEnd(w) ==
    /\ pc[w] = "run"
    /\ \E r \in PredictionRows(cur[w], draft[cur[w]]) :
        draft' = [draft EXCEPT ![cur[w]] = r]
    /\ cur' = [cur EXCEPT ![w] = None]
    /\ Goto(w, "predict")
    /\ UNCHANGED <<row, lock, job, todo, queue, studio, audited, requests>>

PredictCommit(w) ==
    /\ pc[w] = "predict"
    /\ todo[w] = {}
    /\ Commit(w)
    /\ Goto(w, "pipe")
    /\ UNCHANGED <<job, todo, cur, queue, studio, audited, requests>>

\* The post pipes run after the commit; a hook that raises ends the task.
PredictPipe(w) ==
    /\ At(w, "pipe", "predict")
    /\ \/ audited' = (audited \/ AllFinish(row))
       \/ "pipe" \in Faults /\ UNCHANGED audited
    /\ EndJob(w)
    /\ UNCHANGED <<row, draft, lock, queue, studio, requests>>

-----------------------------------------------------------------------------
(* process_file_extract: one transaction around everything, post pipes too. *)

\* Mutant: the callback does not wait for the lock.
ExtractLockNoWait(w) ==
    /\ At(w, "start", "callback")
    /\ lock' = [lock EXCEPT ![job[w].question] = w]
    /\ Goto(w, "extract")
    /\ UNCHANGED <<row, draft, job, todo, cur, queue, studio, audited, requests>>

ExtractLock(w) ==
    /\ At(w, "start", "callback")
    /\ lock[job[w].question] = None
    /\ lock' = [lock EXCEPT ![job[w].question] = w]
    /\ Goto(w, "extract")
    /\ UNCHANGED <<row, draft, job, todo, cur, queue, studio, audited, requests>>

\* Mutant: a failed extraction is ignored.
ExtractErrorIgnored(w) ==
    /\ pc[w] = "extract"
    /\ ~job[w].ok \/ "extract" \in Faults
    /\ Goto(w, "commit")
    /\ UNCHANGED <<row, draft, lock, job, todo, cur, queue, studio, audited, requests>>

\* The studio reported failure, its result cannot be fetched, or merging the
\* new answer with a null preset answer raises.
ExtractError(w) ==
    /\ pc[w] = "extract"
    /\ LET q == job[w].question IN
        /\ \/ ~job[w].ok
           \/ "extract" \in Faults
           \/ MergesPredictor(q, draft[q]) /\ draft[q].preset = {}
        /\ draft' = [draft EXCEPT ![q] = SetLLM(q, @, "FAILED")]
    /\ Goto(w, "commit")
    /\ UNCHANGED <<row, lock, job, todo, cur, queue, studio, audited, requests>>

ExtractResult(w) ==
    /\ pc[w] = "extract"
    /\ job[w].ok
    /\ LET q == job[w].question IN
        \/ /\ ~(MergesPredictor(q, draft[q]) /\ draft[q].preset = {})
           /\ draft' = [draft EXCEPT ![q] = Extracted(q, @)]
        \/ /\ "extract" \in Faults
           /\ draft' = [draft EXCEPT ![q] = ExtractionFailed(q, @)]
    /\ Goto(w, "pipe")
    /\ UNCHANGED <<row, lock, job, todo, cur, queue, studio, audited, requests>>

\* Mutant: the pipe reads through a connection outside the transaction.
ExtractPipeOutside(w) ==
    /\ At(w, "pipe", "callback")
    /\ Goto(w, IF AllFinish(row) THEN "audit" ELSE "commit")
    /\ UNCHANGED <<row, draft, lock, job, todo, cur, queue, studio, audited, requests>>

\* The file's post pipe reads the questions inside the transaction.
ExtractPipe(w) ==
    /\ At(w, "pipe", "callback")
    /\ Goto(w, IF AllFinish(View(w)) THEN "audit" ELSE "commit")
    /\ UNCHANGED <<row, draft, lock, job, todo, cur, queue, studio, audited, requests>>

\* A post pipe raises: the exception handler marks the extraction as failed.
ExtractPipeError(w) ==
    /\ "pipe" \in Faults
    /\ At(w, "pipe", "callback")
    /\ draft' = [draft EXCEPT ![job[w].question] = SetLLM(job[w].question, @, "FAILED")]
    /\ Goto(w, "commit")
    /\ UNCHANGED <<row, lock, job, todo, cur, queue, studio, audited, requests>>

ExtractCommit(w) ==
    /\ pc[w] \in {"commit", "audit"}
    /\ job[w].kind = "callback"
    /\ Commit(w)
    /\ audited' = (audited \/ pc[w] = "audit")
    /\ EndJob(w)
    /\ UNCHANGED <<queue, studio, requests>>

-----------------------------------------------------------------------------
(* add_file_using_studio and re_extract_by_studio: a transaction per mold. *)

StudioLock(w) ==
    /\ At(w, "start", "studio")
    /\ \E q \in todo[w] :
        /\ lock[q] = None
        /\ lock' = [lock EXCEPT ![q] = w]
        /\ todo' = [todo EXCEPT ![w] = @ \ {q}]
        /\ cur' = [cur EXCEPT ![w] = q]
    /\ Goto(w, "call")
    /\ UNCHANGED <<row, draft, job, queue, studio, audited, requests>>

StudioSkips(q, op) ==
    /\ MoldType[q] = "HYBRID"
    /\ IF op = "add" THEN draft[q].llm = "SKIP_PREDICT" ELSE Model[q] # "enabled"

\* No transaction is left open: the mold is skipped with "continue".
StudioSkip(w) ==
    /\ pc[w] = "call"
    /\ StudioSkips(cur[w], job[w].op)
    /\ Goto(w, "commit")
    /\ UNCHANGED <<row, draft, lock, job, todo, cur, queue, studio, audited, requests>>

\* Mutant: the exception of a failed request is swallowed.
StudioCallHopeful(w) ==
    /\ pc[w] = "call"
    /\ ~StudioSkips(cur[w], job[w].op)
    /\ \E accepted \in BOOLEAN :
        /\ accepted \/ "studio" \in Faults
        /\ studio' = [studio EXCEPT ![cur[w]] = IF accepted THEN @ + 1 ELSE @]
        /\ draft' = [draft EXCEPT ![cur[w]] = SetLLM(cur[w], @, "DOING")]
    /\ Goto(w, "commit")
    /\ UNCHANGED <<row, lock, job, todo, cur, queue, audited, requests>>

\* Past its timeout the request fails here although the studio accepted it.
StudioCall(w) ==
    /\ pc[w] = "call"
    /\ ~StudioSkips(cur[w], job[w].op)
    /\ \E accepted \in BOOLEAN, heard \in BOOLEAN :
        /\ (accepted /\ heard) \/ "studio" \in Faults
        /\ studio' = [studio EXCEPT ![cur[w]] = IF accepted THEN @ + 1 ELSE @]
        /\ draft' = [draft EXCEPT ![cur[w]] =
                SetLLM(cur[w], @, IF accepted /\ heard THEN "DOING" ELSE "FAILED")]
    /\ Goto(w, "commit")
    /\ UNCHANGED <<row, lock, job, todo, cur, queue, audited, requests>>

StudioCommit(w) ==
    /\ At(w, "commit", "studio")
    /\ Commit(w)
    /\ cur' = [cur EXCEPT ![w] = None]
    /\ Goto(w, "start")
    /\ UNCHANGED <<job, todo, queue, studio, audited, requests>>

StudioDone(w) ==
    /\ At(w, "start", "studio")
    /\ todo[w] = {}
    /\ EndJob(w)
    /\ UNCHANGED <<row, draft, lock, queue, studio, audited, requests>>

-----------------------------------------------------------------------------
(* The studio itself. *)

StudioFinish(q) ==
    /\ q \in Extractable
    /\ studio[q] > 0
    /\ studio' = [studio EXCEPT ![q] = @ - 1]
    /\ \E ok \in BOOLEAN :
        Send({[kind |-> "callback", question |-> q, ok |-> ok]})
    /\ UNCHANGED <<row, draft, lock, pc, job, todo, cur, audited, requests>>

\* Somebody extracts the document again in the studio, whose hook calls back.
StudioSpontaneous(q) ==
    /\ "spontaneous" \in Faults
    /\ q \in Extractable
    /\ requests < MaxRequests
    /\ requests' = requests + 1
    /\ studio' = [studio EXCEPT ![q] = @ + 1]
    /\ UNCHANGED <<row, draft, lock, pc, job, todo, cur, queue, audited>>

-----------------------------------------------------------------------------
(* User requests. *)

\* Rerun the extraction (the "predict" task of files, or a change of molds):
\* the questions' llm_status is read before any of them is reset.
ResetStart(w) ==
    /\ pc[w] = "idle"
    /\ requests < MaxRequests
    /\ requests' = requests + 1
    /\ audited' = FALSE
    /\ \E force \in BOOLEAN :
        job' = [job EXCEPT ![w] =
            [kind |-> "reset", force |-> force,
             skipped |-> {q \in Question : row[q].llm = "SKIP_PREDICT"}]]
    /\ todo' = [todo EXCEPT ![w] = Question]
    /\ Goto(w, "start")
    /\ UNCHANGED <<row, draft, lock, cur, queue, studio>>

\* A plain UPDATE that waits for the row lock and commits by itself.
ResetOne(w) ==
    /\ At(w, "start", "reset")
    /\ \E q \in todo[w] :
        /\ lock[q] = None
        /\ row' = [row EXCEPT ![q] = ResetRow(q, @, job[w].skipped)]
        /\ draft' = [draft EXCEPT ![q] = row'[q]]
        /\ todo' = [todo EXCEPT ![w] = @ \ {q}]
    /\ UNCHANGED <<lock, pc, job, cur, queue, studio, audited, requests>>

\* Mutant: the extraction by the studio is not started again.
ResetDispatchPredict(w) ==
    /\ At(w, "start", "reset")
    /\ todo[w] = {}
    /\ Send({[kind |-> "predict", force |-> job[w].force]})
    /\ EndJob(w)
    /\ UNCHANGED <<row, draft, lock, studio, audited, requests>>

ResetDispatch(w) ==
    /\ At(w, "start", "reset")
    /\ todo[w] = {}
    /\ Send({[kind |-> "studio", op |-> "re"], [kind |-> "predict", force |-> job[w].force]})
    /\ EndJob(w)
    /\ UNCHANGED <<row, draft, lock, studio, audited, requests>>

\* The run handler queues a forced prediction without a reset.
Rerun ==
    /\ requests < MaxRequests
    /\ requests' = requests + 1
    /\ Send({[kind |-> "predict", force |-> TRUE]})
    /\ UNCHANGED <<row, draft, lock, pc, job, todo, cur, studio, audited>>

\* A process dies: its transaction is rolled back and its message is lost.
Crash(w) ==
    /\ "crash" \in Faults
    /\ pc[w] # "idle"
    /\ Rollback(w)
    /\ EndJob(w)
    /\ UNCHANGED <<queue, studio, audited, requests>>

-----------------------------------------------------------------------------
\* The file has just been parsed: both producers are about to start on it.
Init ==
    /\ row = [q \in Question |-> NewRow(q)]
    /\ draft = row
    /\ lock = [q \in Question |-> None]
    /\ pc = [w \in Worker |-> "idle"]
    /\ job = [w \in Worker |-> None]
    /\ todo = [w \in Worker |-> {}]
    /\ cur = [w \in Worker |-> None]
    /\ queue = [m \in Message |->
                   IF m \in {[kind |-> "predict", force |-> TRUE], [kind |-> "studio", op |-> "add"]}
                   THEN 1 ELSE 0]
    /\ studio = [q \in Question |-> 0]
    /\ audited = FALSE
    /\ requests = 0

Predict(w) ==
    \/ PredictLock(w) \/ PredictNothing(w) \/ PredictNoInterdoc(w) \/ PredictSkip(w)
    \/ PredictBegin(w) \/ PredictEnd(w) \/ PredictCommit(w) \/ PredictPipe(w)

Extract(w) ==
    \/ ExtractLock(w) \/ ExtractError(w) \/ ExtractResult(w)
    \/ ExtractPipe(w) \/ ExtractPipeError(w) \/ ExtractCommit(w)

Submit(w) ==
    \/ StudioLock(w) \/ StudioSkip(w) \/ StudioCall(w) \/ StudioCommit(w) \/ StudioDone(w)

Reset(w) == ResetOne(w) \/ ResetDispatch(w)

\* What a worker does once it has a job, up to the end of the job.
Work(w) == Predict(w) \/ Extract(w) \/ Submit(w) \/ Reset(w)

Next ==
    \/ \E w \in Worker : Receive(w) \/ Work(w) \/ ResetStart(w) \/ Crash(w)
    \/ \E q \in Question : StudioFinish(q) \/ StudioSpontaneous(q)
    \/ Rerun

Spec == Init /\ [][Next]_vars

\* Workers run, PostgreSQL serves lock waiters in turn, and the studio answers;
\* users, crashes and the studio's own users owe nothing.
FairSpec ==
    /\ Spec
    /\ \A w \in Worker : WF_vars(Receive(w)) /\ WF_vars(Work(w))
    /\ \A q \in Question : WF_vars(StudioFinish(q))
-----------------------------------------------------------------------------
(* Properties *)

TypeOK ==
    /\ row \in [Question -> Row]
    /\ draft \in [Question -> Row]
    /\ lock \in [Question -> Worker \cup {None}]
    /\ pc \in [Worker -> {"idle", "start", "predict", "run", "extract", "call",
                          "commit", "audit", "pipe"}]
    /\ job \in [Worker -> Job \cup {None}]
    /\ todo \in [Worker -> SUBSET Question]
    /\ cur \in [Worker -> Question \cup {None}]
    /\ queue \in [Message -> Nat]
    /\ studio \in [Question -> Nat]
    /\ audited \in BOOLEAN
    /\ requests \in Nat

\* The ai_status users see is the combination of the two producers' statuses,
\* whatever order their tasks, the resets and the crashes come in: every UPDATE
\* writes the three columns from one reading of the row (update_record).
Derived(q, r) == MoldType[q] = "HYBRID" => r.ai = HybridStatus(r.exclusive, r.llm)
StatusDerived == \A q \in Question : Derived(q, row[q])

\* The answer of a finished question holds the items of the producers that
\* finished it, both for a hybrid question that both extracted, whichever came
\* last and however often each ran, and nothing left from before a reset (the
\* merges of _predict_answer and run_extract_answer, each decided on a status
\* read under the row lock, and the set_answer that publishes them).
Producers(q, r) ==
    (IF MoldType[q] # "LLM" THEN {"predictor"} ELSE {})
        \cup (IF MoldType[q] = "LLM" \/ r.llm = "FINISH" THEN {"studio"} ELSE {})
HoldsItsAnswers(q, r) == r.ai = "FINISH" => r.answer = Producers(q, r)
FinishedHoldsItsAnswers == \A q \in Question : HoldsItsAnswers(q, row[q])

\* No crash, failure or rollback leaves a question that the predictor has
\* marked DOING with nobody working on it: the mark is written inside the
\* transaction that also ends it.
NoRunLeftBehind ==
    \A q \in Question :
        /\ row[q].exclusive # "DOING"
        /\ MoldType[q] = "COMPLEX" => row[q].ai # "DOING"

\* As long as no process dies, a question waits for the studio (llm_status
\* DOING) only while the studio still owes it an answer or the answer is on its
\* way: the submission writes DOING under the lock the callback has to wait for.
AnswerUnderWay(q) ==
    \/ studio[q] > 0
    \/ \E ok \in BOOLEAN : queue[[kind |-> "callback", question |-> q, ok |-> ok]] > 0
    \/ \E w \in Worker :
        pc[w] # "idle" /\ job[w].kind = "callback" /\ job[w].question = q
DoingIsAnswered ==
    \A q \in Extractable : row[q].llm = "DOING" => AnswerUnderWay(q)

\* Every question that waits for its extraction gets a result, a failure or a
\* verdict that it is not predicted (no process dies, no element is missing).
Settles ==
    \A q \in Question :
        row[q].ai \in {"TODO", "DOING"} ~> row[q].ai \notin {"TODO", "DOING"}

\* NewFileService.post_pipe: once all questions of the file are finished the
\* rules of the file are inspected, or some question is reset first.
FinishedFileIsAudited == AllFinish(row) ~> (audited \/ ~AllFinish(row))

\* The committed rows change as if the predictor, the studio and the users took
\* their turns: no producer overwrites the other's status or loses its items,
\* though each works on a copy of the row for as long as its transaction lasts.
Predictor(q) == IF MoldType[q] = "COMPLEX" THEN row[q].ai ELSE row[q].exclusive
Turns == INSTANCE Producers WITH
    predictor <- [q \in Question |-> Predictor(q)],
    studio <- [q \in Question |-> row[q].llm],
    answer <- [q \in Question |-> row[q].answer]
ProducersTakeTurns == Turns!Spec
=============================================================================
