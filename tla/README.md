# Scriber-Backend: models, checks and proofs

Scriber (`remarkable/`) is a document annotation server. Users upload files; a
parser turns them into structured documents; for every schema ("mold") attached
to a file a *question* is created, answered by a local predictor, by an external
LLM service ("chatdoc studio"), or by both; when all questions of a file are
answered its rules are inspected. Files may also be judged against laws by an
LLM. Web processes (Tornado and FastAPI) and Celery workers share a PostgreSQL
database and Redis; nothing else coordinates them.

This directory models the parts of that system where processes meet: the state
machines kept in the database, the locks, the callbacks. It does not model what
an extraction or an inspection concludes.

## 1. Inventory

| Component | State | Operations | Meets |
|---|---|---|---|
| Question table (`pw_models/question.py`) | per file and mold: `ai_status`, `exclusive_status` (predictor), `llm_status` (studio), `preset_answer`, `answer` | `create_by_mold`, `reset_predict_status`, `update_record`, `set_answer` | everything below |
| Predictor tasks (`worker/tasks/predict_tasks.py`, `predictor/predict.py`) | in flight: row locks of the file's questions | `preset_answer_by_fid` (one transaction, all molds), `preset_answer_by_qid`, `preset_answer_online` (fewer or no locks) | question rows, post pipes |
| Studio (`service/studio.py`, `worker/tasks/studio_tasks.py`) | `studio_upload_id` of a file, extractions open at the service | `add_file_using_studio`, `re_extract_by_studio`, hook and callback | HTTP out, callback in, question rows |
| Question tasks (`worker/tasks/question_tasks.py`) | Celery messages | `process_file` (parse or predict), `process_file_extract` (callback), post pipe task | parser, predictor, studio |
| Post pipes and inspection (`service/new_file.py`, `service/rule.py`, `rule/`) | audit status, rule results | `post_pipe`: when all questions are FINISH, inspect | question rows |
| File API (`plugins/fileapi/handlers.py`, `routers/answer.py`) | - | reset and predict again, run, `extract_complete` | question rows, Celery |
| Locked cache (`common/async_redis_cache.py`) | one cache key and one lock key in Redis, both with expiry | `redis_acache`, `redis_acache_with_lock` | law judging, public law tree |
| Law pipeline (`worker/tasks/law_tasks.py`, `pw_models/law.py`, `routers/law.py`) | status of laws and of the order that holds them, rules of a law | create, fetch, parse (callback), split, compare; trigger, refresh, apply, revert, delete | parser, chatdoc |
| Rules and check points (the same sources) | status and switch of a rule; review status, switch, draft and parent of a check point | convert a rule, edit, ask for deletion, review, switch, replace by the next law | LLM, law pipeline |
| Law judging (`service/law.py`, `pw_models/law_judge.py`, `routers/law_judge.py`, `judge_file` in `predict_tasks.py`) | one result per file and check point, tasks for them | `judge_file`, a task for the templates and one per rule, judge one result again | LLM, locked cache, check points |
| File parsing (`worker/tasks/question_tasks.py`, `meta/handlers.py`, `common/util.py`) | `pdf_parse_status`, a Redis lock per file hash | dispatch, parser's callback, files of one hash | parser |
| Sessions and login (`session.py`, `user/`) | session keys and login list in Redis | login, fail counter, eviction | - |
| Training queue (`worker/tasks/model_tasks.py`) | status of model versions | train, enable | predictor |
| User answers (`service/answer.py`, `utils/answer_util.py`) | answers per user, merged answer | submit, merge | question rows |
| Predictor rules, readers, converters, checkers (~250k lines) | none shared | pure functions of documents, one set per customer | - |
| Plugins, hooks, synchronisation | per customer | I/O | - |

What is hard here: tasks are acknowledged before they run, so a death loses
them; row locks are taken on some paths and not on others; answers of the
studio arrive through callbacks that race the submission, the predictor and the
user's reset; inspection must start exactly when the last of several
independent writers has finished; locks in Redis expire under running work.
`PROJECT.json` lists these hazards one by one, at their lines, with the
properties that cover them or the planned module that will.

What makes each component correct:

- question table: a question's `ai_status` is the combination of its two
  producers, who take turns at its row; a finished question publishes the answers of exactly the producers
  that finished it; nobody waits for work that nobody does;
- post pipes: a file whose questions are all finished is inspected;
- locked cache: one execution at a time, and a value served is one that some
  execution returned;
- law pipeline: no law is left in the middle of its way; a law that is split has
  its rules once; a refresh comes to an end;
- check points: contracts are judged only by texts that somebody else than their
  writer approved, of rules that exist, made by one conversion of what was asked
  for last;
- law judging: the results of a file are those of one judging, none is forgotten,
  a file that shows a verdict is not being judged, and a verdict stands;
- file parsing: a file in PARSING is being parsed by somebody.

## 2. Plan

| # | Modules | What | State |
|---|---|---|---|
| 1 | `QuestionPredict`, `Producers`, `MCQuestionPredict`, `QuestionPredict_proofs` | the shared question rows: predictor, studio, callbacks, resets, crashes; the abstract turns of two producers they implement | done |
| 2 | `LockedCache`, `SingleFlight`, `MCLockedCache`, `LockedCache_proofs` | one execution at a time under an expiring lock; the abstract single-flight cache it refines while nothing but processes fails | done |
| 3 | `FileParse`, `MCFileParse`, `FileParse_proofs` | parse lock, parser callbacks, files of one hash | done |
| 4 | `LawPipeline`, `LawPipeline_proofs` | the statuses of laws and of their order: tasks, callbacks, refreshes | done |
| 5 | `CheckPointReview`, `MCCheckPointReview`, `CheckPointReview_proofs` | conversion of rules, drafts and reviews of check points, replacement of a law | done |
| 6 | `LawJudge`, `MCLawJudge`, `LawJudge_proofs` | concurrent judgings of one file, tasks, judging one result again, changes of check points meanwhile | done |
| 7 | `QuestionPredictUnlocked` | the tasks that write the same rows without the locks (`preset_answer_by_qid`, `preset_answer_online`) next to module 1's tasks | open |
| 8 | `FileQuestions` | modules 3 and 1 composed: the callback's last step starts the questions, a file parsed again meets predictions in flight | open |
| 9 | `AnswerMerge`, `Session` | merging of user answers against a reference definition; fail counter and login list | open |

The three modules about laws follow one another without sharing variables:
`LawPipeline` says when rules are there, `CheckPointReview` starts from rules that
are there and says which check points are in force, `LawJudge` lets check points
in force change at any moment, as `CheckPointReview` may change them.

Runs: one safety run with every fault, one liveness run with the faults under
which the code promises progress, one violation run per disagreement met.
Theorems: types, every safety invariant, refinement steps.

## 3. The modules

### QuestionPredict

One file that has just been parsed, its questions, and the processes that work
on them.

| In the module | In the code |
|---|---|
| `row[q]` | the committed row of `question`: `ai_status`, `exclusive_status`, `llm_status`, `preset_answer`, `answer` |
| `draft[q]`, `lock[q]` | the row as the transaction sees it that selected it FOR UPDATE, and that transaction's process |
| `queue`, `studio` | Celery messages at the broker, extractions open at the studio |
| `audited` | the inspection has been started since the last reset |
| `MoldType`, `Model`, `Initial` | `mold_type` (who extracts), the model versions of the mold (one enabled, all disabled, none), what `_initialize_ai_status` computes |
| `UpdateRecord`, `SetAnswer`, `NewRow`, `ResetRow` | `_Question.update_record`, `set_answer`, `create_by_mold`, `reset_predict_status` |
| `Predict(w)`: Lock, Skip, Begin, End, Commit, Pipe | `preset_answer_by_fid`: one transaction that locks the rows of all molds the predictor handles, `start_preset_answer` for each, commit, post pipes |
| `Extract(w)`: Lock, Error or Result, Pipe, Commit | `process_file_extract`: one transaction from the lock to the end of the post pipes, `run_extract_answer` inside |
| `Submit(w)`: Lock, Skip or Call, Commit, Done | `add_file_using_studio` (`op = "add"`) and `re_extract_by_studio` (`"re"`): a transaction and an HTTP request per mold |
| `ResetStart`, `ResetOne`, `ResetDispatch` | `PredictFileHandler`: reads `llm_status` of all questions, updates them one by one without a lock of its own, sends both tasks |
| `StudioFinish`, `StudioSpontaneous` | the studio's hook; a result for a question nobody submitted is one that was extracted again in the studio |
| `Rerun`, `Crash`, `Receive` | the run handler; the death of a process, which rolls its transaction back and loses its message; early acknowledgement |

The answer of a question is reduced to the set of producers whose items it
holds. A transaction reads its own drafts and what others have committed
(`View`): PostgreSQL's READ COMMITTED. What a model predicts, what the studio
extracts and what inspectors conclude is left out; that each of them may fail is
not.

`Producers` is what the row locks are for, without locks, drafts, tasks or
queues: three variables a question (each producer's status, and whose items the
answer holds) and three actions. `Predict` treats all questions of the file at
once, `Extract(q)` is a submission or an answer of the studio, `Reset(q)` a user
who starts again. Each action reads only the state it changes: a producer that
finishes publishes its own items and those the other one has finished *by then*,
and leaves the other's status alone. `QuestionPredict` maps to it by its
committed rows: `predictor` is `ai_status` or `exclusive_status`, `studio` is
`llm_status`, `answer` is `answer`. A transaction that commits minutes after it
has read its rows is one step there, which is true because nobody else writes
them meanwhile: with a callback that does not wait for the lock of its row the run
finds a commit that is nobody's turn.

### LockedCache and SingleFlight

`LockedCache` is `redis_acache_with_lock` for one key. `pc[p]` is the place in
the wrapper: `lookup` (first get), `wait` (`acquire`), `check` (second get inside
the lock), `exec`, `store`, `release`, `direct` (the outer exception handler) and
`return`. `lock` is the token in Redis, `holds[p]` the token in the process: they
differ after an expiry, which is what makes `release()` raise. `CacheExpire`,
`LockExpire` and `ClearCache` change Redis from outside, `Change` the data the
function reads, so that a value is the version it was computed from.

`SingleFlight` is what callers may rely on: ask, take the cached value, or fly
for it alone. `LockedCache` maps to it by `Place` and `Answer`: what happens
between a miss and an execution is "asked", execution and storing are "flying",
release and return are "served". `ReleaseError`, `GiveUp`, `Bypass` and `Direct`
have no counterpart, which is why the refinement is claimed only for
`Faults \subseteq {"crash"}`.

`untimely` is an auxiliary variable, read by one property only: an execution
outlasted the lock, a wait was given up, or the namespace was cleared. After that
an older value may replace a newer one in the code, and `StoredInOrder` says
nothing; before it, it is claimed whatever else fails.

### FileParse

The files of one content hash (one lock in Redis) from upload to the dispatch of
their predictions.

| In the module | In the code |
|---|---|
| `status[f]`, `doc[f]` | `pdf_parse_status`, and whether `pdfinsight` is set |
| `lock` | the key of `run_singleton_task(convert_or_parse_file, ...)` |
| `flights` | where a parse is: task to convert, task to parse, at the parser, answer under way |
| `predicts` | messages of `process_file_predict`, with or without `create_cache` |
| `Upload`, `Ask`, `Rerun` | `create_file` with the dispatch that follows it; `PredictFileHandler` and "parse again"; the run handler's "pdfinsight" task, which deletes the lock |
| `ProcessParse`, `ProcessSkip`, `ProcessPredict`, `Mark` | `process_file` (and `parse_file` of the file flow): decide from what was read of the file, take the lock or not, write PARSING after the dispatch |
| `Convert`, `ConvertFails`, `StartParse`, `PushFails`, `PushRefused` | `convert_to_pdf`, whose handler gives the lock back but does not catch `ConvertPDFError` (a `BaseException`), so that the lock may stay; `start_parse_pdf` and its error paths, of which only the HTTP error gives the lock back |
| `CallbackReceive` ... `CallbackPipe` | `PreProcessCallbackHandler.post` in its order: select the files of the same content, delete the lock, store the document, write the status, complete the others, `process_file` for all |
| `CallbackFail` | `handle_receive_fail_callback` |
| `PredictStart`, `CacheEnd` | `process_file_predict` and `create_pdf_cache`, which writes its result into every file of the hash |
| `Lose`, `LosePredict`, `Crash`, `LockExpire` | early acknowledgement, deaths, expiry |

`trouble` is an auxiliary variable: it records which kinds of faults have
happened (and `"early"`, the PARSING mark that came after the parse was over), so
that each property can name exactly what it does not survive. No guard of a code
action reads it except through `MaxFaults`. `create_pdf_cache` updates its own
file first and the others next; the module makes this one step. Conversions to
docx, one customer's start report and Excel branch are left out.

### LawPipeline

One law order, the laws (rows) it may ever have, and what is under way for them.

| In the module | In the code |
|---|---|
| `order`, `refresh` | the `LawOrder` row: there, deleted; `refresh_status` |
| `alive[l]`, `current[l]`, `status[l]`, `doc[l]` | the `Law` row: `deleted_utc`, `is_current`, `status`, `pdfinsight` set |
| `rules[l]` | how many times the text of the law is in its live rules |
| `flights[x]` | how many tasks for a law are at a place: message, fetching, posting, at the parser (`insight`, or `outdated` once the law's hash is another one), splitting, about to report; with what the task has read of `is_current` |
| `diffs[s]` | the same for `diff_law_rules_task` of the order |
| `request[u]` | what a user's request has read of the order and its laws |
| `ParseStart` ... `ParseRecord` | `parse_law_file`, `parse_law_by_insight`; `ParseRecord` writes PARSING after the parser has accepted |
| `Fetch`, `FetchPage`, `FetchFails` | `fetch_law_from_chatdoc`: a parsed document, or a page (text, HTML) that is fetched before anything looks whether its law has been parsed already (`refetching`), and whose hash is written |
| `Callback`, `EarlyCallback`, `CallbackFails`, `CallbackRefused` | `handler_pdfinsight_callback`: it refuses an answer with another hash than the law's |
| `SplitStart`, `SplitCommit`, `SplitFails`, `Report` | `split_law_rules` and `LawOrder.refresh_err`, which follows the law's own status |
| `DiffCheck`, `DiffCompare`, `DiffWrite` | `diff_law_rules_process`: the look at the drafts under their row locks, the comparison without them, which may raise outside of its handler (fault "compare"), its result |
| `Create`, `Dispatch`, `Trigger`, `Refresh`, `RefreshRefused`, `Revert`, `Apply`, `Delete` | the routes, each in two or more steps: what is read, what is committed, the messages that follow |

What a comparison concludes is either of its outcomes. `SplitCommit` is one
step: the transaction locks the law's row before it reads the rules it deletes
(`law_tasks.py:194`); `SplitHasRules` rests on that lock. A page that has changed
since it was fetched (fault "changed") turns the requests at the parser into
outdated ones. Left out is the case that another task of the same law has fetched
the page before and is only about to post it: its answer would carry the old hash
as well, and the properties except "changed" anyhow.

### CheckPointReview

A rule of the current law (`Left`), its counterpart in the draft that is to
replace the law (`Right`), and their check points.

| In the module | In the code |
|---|---|
| `rules[r]` | the `LawRule` row, its law's state, and a version of its text |
| `rows[c]` | the `LawCheckPoint` row with that id: `rule_id`, `law_id` set or not, `parent_id`, `review_status`, `enable`, `abandoned`, `updated_by_id`; as history who wrote and who approved its text, which version it was converted from, and whether another conversion has replaced that one (`superseded`); `unseen` are the conversions whose update had begun when it was inserted, which do not see it |
| `queued[r]`, `running[r][v]` | messages `convert_rule_task`, and tasks that convert version `v` |
| `open[r]` | conversions whose transaction has begun the update that abandons the rule's check points |
| `request[u]` | what `switch_check_point`, `switch_rule`, `convert_rule`, `apply_law` have read before they write |
| `UpdateCheckPoint`, `StartCheckPointDel`, `Reject`, `Approve` | the routes that lock the check point (`for_update=True`): one step each |
| `Pending`, `Draft`, `Approved` | `check_point.draft or check_point`, `create_draft`, what `review_check_point` writes |
| `Met` | the rows as such a request finds them when it writes: its draft, which is not locked, may have been approved by its own id meanwhile |
| `ConvertStart`, `ConvertCommit`, `ConvertFails`, `ConvertRaises` | `convert_rule_task`, whose claim of the rule decides nothing, and whose scenarios are determined outside of its handler |
| `ConvertUpdate`, `ConvertInsert` | the same transaction in two steps: it waits for row locks in its update and inserts afterwards |
| `ApplyRead`, `Apply` | `apply_law`: rules and check points are read before the transaction that copies them |
| `DeleteRule`, `DeleteOrder` | `LawRule.soft_delete`, `LawOrder.soft_delete` |

The routes load any `LawCheckPoint` by its id, and so do the actions: a draft can
be edited, which gives it a draft of its own, be switched, reviewed and approved
by its own id, and be left behind when its parent is replaced. A draft that is
approved takes the id of the row it is a draft *of*, as `review_check_point` does;
so a draft of a draft, approved by the draft's id, stands at top level beside the
check point it came from. Approved by an id without drafts of its own, a row keeps
its parent. Ids are not used again while anything refers to them (`Free`).

A conversion inserts one check point that stands for all it makes. Its transaction
is one step or, for what others insert while it waits for their row locks, two,
taken by one conversion of each text at a time. A conversion that fails in
between has changed nothing. The bulk updates of `DeleteRule`, `DeleteOrder` and
`Apply` are one step each. Not in the module: `delete_check_point` (it hides a row
that is abandoned already), aliases, scenarios, merging of rules.

### LawJudge

The results of one file and the judgings of it.

| In the module | In the code |
|---|---|
| `status[r]` | `judge_status` of the `LawJudgeResult` inserted by a judging, for a task, for a check point |
| `judging[j]`, `seen[j]`, `read[j]` | how far the transaction of `judge_file` is; the results its DELETE sees; the check points of its first SELECT |
| `beside[j]` | history: the judgings whose transactions were open when this one began |
| `task[j][g]` | `judge_file_law_templates_task` or the `judge_file_law_rule_task` of a rule: check points left, the result being judged |
| `request[u]` | the result that `update_judge_results` judges again |
| `active`, `method`, `gone` | which check points are in force, which have a `check_method`, which rules were deleted |
| `TaskNext` | `get_by_cond` by file and check point, which finds any result of that check point |
| `TaskExtractFails`, `TaskRaises` | the handler around `extract_contract_contents`: it writes FAILED by file and check points, or raises itself where the rule was deleted |
| `Display` | `display_status_by_counter` |

In each of the three modules `trouble` is an auxiliary variable as in `FileParse`:
it names the faults, and the orders of events the code does not survive, that
have happened.

## 4. The runs

| Run | Specification, instance | Distinct states | Shows |
|---|---|---|---|
| `question_safety` | `Spec`, 2 hybrid questions (one without model and skipped), 2 workers, 1 request, all 8 kinds of faults | 431k | types, `StatusDerived`, `FinishedHoldsItsAnswers`, `NoRunLeftBehind`, the refinement `ProducersTakeTurns` |
| `question_live` | `FairSpec`, 1 hybrid question, failing predictions, extractions, requests | 110k | `DoingIsAnswered`, `Settles`, `FinishedFileIsAudited` |
| `question_llm` | `FairSpec`, 1 question of the studio alone | 18k | the same where only callbacks finish a file |
| `question_audit_lost` | `FairSpec`, two questions, no faults | - | violation of `FinishedFileIsAudited`, see 7 |
| `cache_single` | `Spec`, 3 processes that may die, 3 versions of the data | 1.4k | `OneExecution`, the refinement `FlightSpec` |
| `cache_faults` | `FairSpec`, 2 processes, 3 versions, every fault | 23k | types, `StoredInOrder`, `CallsReturn` |
| `file_parse` | `Spec`, 2 files, 2 processes, any one kind of fault, 1 request | 1.26M | types, `OneParse`, `ParsingIsParsed`, `PredictedIsParsed` |
| `file_missed` | `FairSpec`, 2 files, no faults | - | violation of `UploadedIsParsed`, see 7 |
| `law_pipeline` | `FairSpec`, a law to parse and a page to fetch, 2 users, 2 requests, any one kind of fault | 105k | types, `SplitHasRules`, `NotStranded`, `RefreshHasWork`, `RefreshEnds` |
| `law_refresh` | `FairSpec`, 4 laws of which 2 come from chatdoc together, 2 users, 2 requests, failing fetches or splits | 48k | `RefreshEnds` with two drafts at once and with drafts that are replaced |
| `check_points` | `Spec`, 4 check points and drafts, 2 users, 3 requests and any reviews, 1 edit of the rule, any one kind of fault | 374k | types, `InForceApproved`, `OneDraft`, `ConversionUnderWay`, `NewestConverted`, `OneGeneration`, `InForceHasRule` |
| `law_judge` | `FairSpec`, a template and a method of one rule, 2 judgings, 1 user, 1 change or failure | 496k | types, `OneJudging`, `NoneForgotten`, `ShownIsJudged`, `VerdictsStand`, `AllJudged` |

Bounds, and why they are enough to meet the hard cases:

- `MaxRequests = 1`: one user request (reset, run again, parse again) at any
  moment. It is enough to have two predictions, two submissions and stale
  callbacks of one question in flight together.
- Two workers: every pair of tasks interleaves. A third could only wait for a
  lock one of the two holds, or repeat one of their tasks; messages that wait at
  the broker stand for it. The theorems hold for any number.
- Two questions: the smallest file where "all questions finished" differs from
  "this one finished". In `question_safety` the second one is not to be predicted
  at all; the liveness runs have one question because of their cost,
  and `question_audit_lost` shows what two change.
- `Process` of 3 in `cache_single`: one holds the lock, one waits, one comes late.
  Two processes where liveness is checked, with every fault: one goes around the
  lock while the other one holds it.
- `MaxVersion = 2`: a value may be stale twice over, so that an older one can
  replace a newer one.
- Two files and `MaxFaults = 1` in `file_parse`: each behaviour may meet one
  fault, of any of the seven kinds, at any moment. What each property survives is
  a single kind of fault by its statement (`OneParse` all but an early expiry and
  a rerun, `PredictedIsParsed` all); the theorems hold for any number of them.

- `law_pipeline`: two laws are the current one and its draft, or two of either;
  the second request reverts, applies, triggers or deletes while the tasks of the
  refresh run, and two users do it at once.
- `law_refresh`: four laws are a current one, and two drafts that chatdoc delivers
  in one refresh, or one draft and the one or two that a second refresh puts in its
  place. `MaxTriggered = 0`: no law is triggered again there, which would square the
  number of its tasks; `law_pipeline` triggers every law it has (`MaxTriggered = 2`).
- `check_points`: four ids are a check point, its draft and their copies in the
  next law, or a check point with a draft of a draft and one that another
  conversion makes; with fewer no law with a draft can be applied. Two users are
  one who writes and one who approves; a third could only repeat one of them, and
  requests that write late are there for both. One edit and one message per
  rule suffice for two conversions of different texts at once.
- `law_judge`: two judgings overlap, or a task of the first meets the results of
  the second. One template and one method, of which only the method may be judged
  FAILED: enough for every status that a file shows.

Symmetry is used in safety runs only. `CHECK_DEADLOCK FALSE` stands where the
system comes to rest: all files processed, no request left. The cache runs check
for deadlock, since processes may always call again.

Each property is also checked against a plausible mistake in the code (an
operator marked "Mutant" next to the definition it would replace): `PROJECT.json`
lists the pairs, and with the mistake in place the run reports the property
violated.

## 5. Fairness

- `QuestionPredict`: weak fairness of `Receive(w)`, `Work(w)` and
  `StudioFinish(q)`. Workers take messages and go on with the job they have;
  PostgreSQL serves the waiters of a row lock in turn; the studio answers what it
  accepted. Nothing is owed by users, crashes or the studio's own users. `Work`
  is one disjunction: no single failing or succeeding branch is promised.
- `LockedCache`: weak fairness of `Work(p)`. The function ends because its HTTP
  requests have timeouts. A waiter depends on nobody: when the holder has died,
  the wait ends after `blocking_timeout` (`GiveUp`), which `CallsReturn` needs:
  without the fault "wait" a call would hang for as long as the lock stays, and
  nothing obliges `LockExpire` to happen in the model.
- `LawPipeline`: weak fairness of `Work`, one disjunction of all steps of tasks,
  of the parser's answers and of requests that have begun: as long as there is
  work some worker goes on, and none is promised its turn. It is enough because
  all work is finite.
- `LawJudge`: weak fairness of `Work`, the same for its tasks, open transactions
  and requests.
- `FileParse`: weak fairness of `Receive(p)`, `Work(p)` and `Task(f)`: processes
  and workers run, the parser answers. Used only by the violation run.

## 6. The proofs

The proofs hold for all values of the constants that satisfy the named
assumptions (`QuestionPredictAssumption`, `LockedCacheAssumption`, `FileParseAssumption`,
`LawPipelineAssumption`, `CheckPointReviewAssumption`, `LawJudgeAssumption`), which ask for types and for special values that differ
from the others. `QuestionPredictAssumption` also says that a question starts
DISABLE only where no model version is enabled, which is what
`_initialize_ai_status` does.

| Theorem | Extra assumption | Argument |
|---|---|---|
| `QuestionPredict_proofs!TypeCorrect` | - | types together with `Control(w)`: which places belong to which kind of job and which locks are held there. Types alone are not inductive: `cur[w]` must be a question wherever it indexes a row. |
| `StatusAlwaysDerived`, `FinishedAlwaysHoldsItsAnswers`, `NoRunIsLeftBehind` | - | one invariant, `SafeInv`: every committed row and every draft is `Good` (status derived, answer matching, and the facts about `preset` that merging relies on), a draft is marked DOING by the predictor only while its worker is in the prophet (`RunBy`), and an unlocked draft equals its row. Drafts must be included, since they become rows at the commit. |
| `ProducersAlwaysTakeTurns` | - | with types and `SafeInv`: `TurnInv`, which says of every draft what its transaction has done so far. It equals its committed row before the worker has come to it and in the prophet it is that row marked DOING; afterwards the two are a whole turn of `Producers` (`PredictorRun`, `StudioRun`). The locks enter where another worker's steps leave both alone (`OthersTurn`). Then a commit maps to a turn on all its questions, a reset to `Reset`, every other step to a stutter. |
| `DoingIsAlwaysAnswered` | `"crash" \notin Faults` | `AwaitInv`: a row or draft that waits has an open extraction, a message or a callback at work, and a callback past its decision has removed DOING from its draft (`Told`), so that its end never leaves one behind. |
| `LockedCache_proofs!TypeCorrect` | - | `TypeOK` is inductive. |
| `CacheNeverGoesBack` | - | until something `untimely` happens: `Locked` (who is inside has the token, and it is the one in Redis) and `Ordered` (what is about to be stored was read after whatever is stored). |
| `OneExecutionAtATime` | `Reliable`: `Faults \subseteq {"crash"}` | the same with `Straight`: nobody goes around the lock. |
| `ImplementsSingleFlight` | `Reliable` | initial states map to initial states and each action to its counterpart in `SingleFlight` or to a stutter, under the invariant of the two rows above. |
| `FileParse_proofs!TypeCorrect` | - | `TypeOK` is inductive; it contains the types of jobs at each place. |
| `OneParseAtATime` | - | `OneInv`: unless the lock was taken away (`Robbed`), `LockHeld`: a parse in flight implies the lock, there is one, and a callback about to delete the lock excludes any other. |
| `ParsingFilesAreParsed` | - | inductive with types: `Underway` is handed from task to parser to answer to callback and given up only by the step that overwrites PARSING. |
| `PredictedFilesAreParsed` | - | `PredictInv`: everything under way belongs to an uploaded file (`Known`) and a process that will queue a prediction has seen the document (`Trusted`), which stays, since files and documents are never taken away (`Grows`). |
| `LawPipeline_proofs!TypeCorrect` | - | `TypeOK` is inductive; the counters of flights only take what they have. |
| `SplitWithRules` | - | inductive with types: a split writes rules and status in one commit, and whatever deletes the rules deletes the law. |
| `NoneStranded` | - | `OnTheWay`: each status of work in progress has its place (`Way(l)`), under `Ground`: tasks of laws that are not there do not exist, what is split has a document, a task that has read "current" is right. Without `Ground` a split could end at once and leave PARSED behind. A page that is fetched once more is no place of its own: what goes on with its law does so beside it. |
| `RefreshesHaveWork` | - | `RefreshOn`: an order that shows REFRESHING has drafts, and one of them is on its way, about to report, or a comparison is to come; a task that takes a draft off its way leaves a report or a comparison (`Forwards`). It holds for any number of drafts. |
| `CheckPointReview_proofs!TypeCorrect`, `DraftsAreOne` | - | one invariant, `Typed`: types, and `Alone` of the rows and of what each request has read: no two rows have the same parent, a row and its parent are of one rule. Types alone are not inductive: the copy that `apply_law` makes of a draft refers to the copy of its parent, which must have been read with it (`Whole`). |
| `InForceIsApproved` | - | `Eyes`: unless a request crossed the approval of a draft (`Met`), every row is `Sound`: what waits for its first review shows its writer in `updated_by_id`, what has passed, and what is enabled and no draft, is `Settled` (abandoned, or approved by another than its writer). The requests are included: `apply_law` writes copies of rows that may have changed since, `switch_check_point` enables what it has seen as passed. |
| `ConversionsUnderWay` | - | inductive with `Typed`: whoever writes WAITING queues a message, which turns it into a conversion, which ends with CONVERTED or CONVERT_FAILED; a status written from an earlier reading is the exception the property names. |
| `RulesHaveOneGeneration` | - | `Generations` under `Base`: what is superseded is abandoned, in the rows and in what a request has read (`Gone`). An approval makes one row of two, so that each row *descends* (`Descends`) from one of before that is no less abandoned and of the same generation, and `Carries` says it of all rows of a rule. `Base` also says that the rule of a draft law has no check points yet (`Unused`), into which `apply_law` copies. |
| `NewestAreConverted` | - | `Newest` under `Base`: either a conversion of the newest text asked for is queued, running or open (`Newer`), or what is in use is of that text and such a text has been converted (`rules[r].converted`). The second half is what lets a conversion of an older text that commits afterwards count as overtaken; without it the invariant is not inductive. A message counts whatever its text, since the task reads the text when it begins. |
| `InForceHasItsRule` | - | `DeletedOut`: all rows of a deleted rule are out, their drafts included, which would otherwise take their parents' places when approved. |
| `LawJudge_proofs!TypeCorrect` | - | `TypeOK` is inductive. |
| `OneJudgingShows` | - | with `Fresh` (a judging whose transaction has not ended has no results, tasks or requests) and `InOrder`: an open judging sees the results of every judging it did not begin beside, so that its commit deletes them; hence two judgings that both left results are beside each other (`Siblings`). |
| `NoneIsForgotten` | - | with `Fresh`, `Shapes` (what a task has in each state) and the theorem above: a result is handed from the message to the task to its verdict (`Held`). |
| `ShownAreJudged` | - | `Working` unless the judgings got mixed: what a task of a judging that has results still has left is TODO, what it or a user is at is DOING, and a judging has a check point once. So a file with a task or a user at work has a result that is TODO or DOING, and shows it. |
| `VerdictsAlwaysStand` | - | an action property from the same invariant: what a task takes up or fails is its own and TODO, what it or a user writes a verdict to is DOING, what a transaction inserts was not there. |

Left to model checking: everything about liveness (`Settles`,
`FinishedFileIsAudited`, `CallsReturn`, `RefreshEnds`, `AllJudged`), because it
rests on fairness and `ENABLED`, which the proof system does not handle; and the
violations. Every safety invariant, action property and refinement that a run
checks is proved.

## 7. Findings

- `question_audit_lost`: a callback asks "are all questions finished?" inside its
  uncommitted transaction, the predictor after its own commit. Each can miss the
  other's last answer; the file is then finished and its rules are never
  inspected (`service/new_file.py:559`).
- `file_missed`: files of the same content that are uploaded during a parse are
  to be completed by its callback. It selects them before it deletes the lock;
  a file uploaded between the two is skipped by both
  (`meta/handlers.py:224`).

Known and stated in the properties rather than reported:

- a question whose task died stays as it was, because messages are acknowledged
  before they run; so do laws and judgements;
- a file whose conversion or request failed may keep its status, because the
  transaction that writes FAIL is rolled back or the mark PARSING comes late
  (`trouble`); a law whose parser is that fast stays PARSING
  (`worker/tasks/law_tasks.py:95`);
- `redis_acache_with_lock` says that one process executes the function on a miss.
  Its outer handler also catches what the function itself raises and executes it
  again outside the lock (`common/async_redis_cache.py:305`): `OneExecution` is
  claimed for functions that do not raise, `StoredInOrder` for all;
- `convert_rule_task` converts a rule it has just logged to skip
  (`worker/tasks/law_tasks.py:284`): an older text may be committed last
  ("overtaken"), and of two transactions at once the later one, whose update has
  waited, does not abandon what the earlier one inserted ("unseen"), so that the
  rule has two generations of check points in use: `NewestConverted` and
  `OneGeneration` except these. The scenarios of a rule are determined before the
  handler begins (`worker/tasks/law_tasks.py:290-291`): an error there leaves the
  rule CONVERTING ("early"), which `ConversionUnderWay` excepts;
- a draft can be edited, reviewed and approved by its own id. A draft of a draft
  that is approved so stands at top level beside the check point it came from, and
  both are judged by (`routers/law.py:1205`, `1321-1343`). A request on a check
  point locks that row only; when its draft is approved by its own id at the same
  time, what was to be written to the draft is written to the text in force
  ("crossed", `routers/law.py:1202`), which `InForceApproved` excepts;
- a comparison of drafts that raises outside of its handler
  (`worker/tasks/law_tasks.py:238`, `255-263`) leaves its order REFRESHING, and so
  does a page of chatdoc that has changed between two fetches, because the answer
  to the first parse is refused (`routers/law.py:531`): `RefreshHasWork` and
  `RefreshEnds` except both, `NotStranded` the second;
- a check point whose draft was approved has no `law_id`, so that the deletion or
  replacement of its law does not abandon it (`pw_models/law.py:461`, `221`):
  `InForceHasRule` excepts it. Replacing the law copies what is in use to the next
  one, so that it is then in force twice;
- a rule may be left WAITING with no conversion to come, when a switch or the
  replacement of its law writes a status it has read before
  (`routers/law.py:695`, `898`);
- two runs of `judge_file` for one file that overlap leave two results of each
  check point (`worker/tasks/predict_tasks.py:72`), whose tasks find either, and a rule deleted before its
  task begins leaves its results TODO (`service/law.py:131`).

## 8. Not modelled

- The prediction paths without row locks, user answers, sessions: planned above,
  open.
- What a comparison of laws, a conversion or a judgement concludes: answers of an
  LLM, any outcome in the modules. Scenarios, names, merged rules and aliases of
  check points: data of the rows that decides nothing here.
- `SELECT ... FOR UPDATE` over a join (`preset_answer_by_fid`) locks rows in an
  order the query planner chooses; tasks of two files with the same molds may wait
  for each other until PostgreSQL aborts one. `QuestionPredict` has one file and
  takes its locks at once.
- The training queue: one consumer, one status that follows one task.
- Predictor rules, document readers, converters, inspectors (most of the code):
  pure functions of a document or of answers, one set per customer; nothing is
  shared between actors.
- Web framework, permissions, plugins, synchronisation: I/O, no protocol state.
- Redis, PostgreSQL, Celery, the studio and the parser themselves: modelled as
  the code uses them (row locks, READ COMMITTED, early acknowledgement, a lock
  with a token and an expiry, answers that come once), marked external in the map.
