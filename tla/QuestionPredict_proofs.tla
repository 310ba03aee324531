----------------------- MODULE QuestionPredict_proofs -----------------------
(***************************************************************************)
(* Proofs about QuestionPredict, for any number of questions and workers,  *)
(* any molds and models, any set of faults and any number of requests.     *)
(***************************************************************************)
EXTENDS QuestionPredict, TLAPS

\* The worker holds the row locks its place in the code says it holds.
InCallback(w) == pc[w] \in {"extract", "pipe", "commit", "audit"} /\ job[w].kind = "callback"
InStudio(w) == pc[w] \in {"call", "commit"} /\ job[w].kind = "studio"
Outside(w) == pc[w] \in {"idle", "start"} \/ (pc[w] = "pipe" /\ job[w].kind = "predict")

Control(w) ==
    /\ pc[w] # "idle" => job[w] \in Job
    /\ pc[w] \in {"predict", "run"} =>
        /\ job[w].kind = "predict"
        /\ todo[w] \subseteq Predictable
        /\ \A q \in Predictable : lock[q] = w
    /\ pc[w] = "run" => cur[w] \in Predictable
    /\ pc[w] \in {"extract", "audit"} => job[w].kind = "callback"
    /\ pc[w] = "call" => job[w].kind = "studio"
    /\ pc[w] = "commit" => job[w].kind \in {"callback", "studio"}
    /\ pc[w] = "pipe" => job[w].kind \in {"predict", "callback"}
    /\ InCallback(w) => lock[job[w].question] = w
    /\ InStudio(w) => cur[w] \in Extractable /\ lock[cur[w]] = w
    /\ pc[w] # "idle" /\ job[w].kind = "studio" => todo[w] \subseteq Extractable
    /\ Outside(w) => \A q \in Question : lock[q] # w

Controlled == \A w \in Worker : Control(w)

TypeInv == TypeOK /\ Controlled

-----------------------------------------------------------------------------
(* What the updates of a row return. *)

\* update_record returns a row, whatever statuses it is given.
LEMMA UpdateRecordType ==
    ASSUME NEW q \in Question, NEW r \in Row, NEW e \in AIStatus, NEW l \in LLMStatus
    PROVE  UpdateRecord(q, r, e, l) \in Row
BY ZenonT(30) DEF UpdateRecord, Row, AIStatus, LLMStatus, HybridStatus

\* The predictor's side of update_record returns a row.
LEMMA SetExclusiveType ==
    ASSUME NEW q \in Question, NEW r \in Row, NEW e \in AIStatus
    PROVE  SetExclusive(q, r, e) \in Row
BY UpdateRecordType DEF SetExclusive, Row

\* The studio's side of update_record returns a row.
LEMMA SetLLMType ==
    ASSUME NEW q \in Question, NEW r \in Row, NEW l \in LLMStatus
    PROVE  SetLLM(q, r, l) \in Row
BY UpdateRecordType DEF SetLLM, Row

\* set_answer returns a row.
LEMMA SetAnswerType ==
    ASSUME NEW r \in Row
    PROVE  SetAnswer(r) \in Row
BY DEF SetAnswer, Row

\* A question is created as a row.
LEMMA NewRowType ==
    ASSUME NEW q \in Question
    PROVE  NewRow(q) \in Row
BY QuestionPredictAssumption DEF NewRow, Row, AIStatus, LLMStatus

\* reset_predict_status returns a row.
LEMMA ResetRowType ==
    ASSUME NEW q \in Question, NEW r \in Row, NEW skipped
    PROVE  ResetRow(q, r, skipped) \in Row
BY QuestionPredictAssumption DEF ResetRow, Row, AIStatus, LLMStatus

\* A question whose prediction does not start stays a row.
LEMMA NotPredictedType ==
    ASSUME NEW q \in Question, NEW r \in Row, NEW force,
           NEW s \in NotPredicted(q, r, force)
    PROVE  s \in Row
BY SetExclusiveType DEF NotPredicted, AIStatus

\* Every end of a prediction leaves a row.
LEMMA PredictionRowsType ==
    ASSUME NEW q \in Question, NEW r \in Row, NEW s \in PredictionRows(q, r)
    PROVE  s \in Row
<1> DEFINE p == {"predictor"} \cup (IF MergesStudio(q, r) THEN r.preset ELSE {})
<1>1. [r EXCEPT !.preset = p] \in Row
  BY DEF Row, Source
<1>2. SetAnswer(SetExclusive(q, [r EXCEPT !.preset = p], "FINISH")) \in Row
  BY <1>1, SetExclusiveType, SetAnswerType DEF AIStatus
<1>3. SetExclusive(q, r, "FAILED") \in Row
  BY SetExclusiveType DEF AIStatus
<1> QED
  BY <1>2, <1>3 DEF PredictionRows

\* A successful extraction leaves a row.
LEMMA ExtractedType ==
    ASSUME NEW q \in Question, NEW r \in Row
    PROVE  Extracted(q, r) \in Row
<1> DEFINE p == {"studio"} \cup (IF MergesPredictor(q, r) THEN r.preset ELSE {})
<1>1. [r EXCEPT !.preset = p] \in Row
  BY DEF Row, Source
<1> QED
  BY <1>1, SetLLMType, SetAnswerType DEF Extracted, LLMStatus

\* An extraction the studio failed leaves a row.
LEMMA ExtractionFailedType ==
    ASSUME NEW q \in Question, NEW r \in Row
    PROVE  ExtractionFailed(q, r) \in Row
<1>1. [r EXCEPT !.preset = {}] \in Row
  BY DEF Row
<1> QED
  BY <1>1, SetLLMType, SetAnswerType DEF ExtractionFailed, LLMStatus

-----------------------------------------------------------------------------
(* Types and control. *)

\* A worker's part of the invariant depends on its own variables and on which
\* locks it holds.
LEMMA Frame ==
    ASSUME NEW v \in Worker, Control(v),
           pc'[v] = pc[v], job'[v] = job[v], todo'[v] = todo[v], cur'[v] = cur[v],
           \A q \in Question : lock'[q] = v <=> lock[q] = v
    PROVE  Control(v)'
<1>1. Predictable \subseteq Question /\ Extractable \subseteq Question
  BY DEF Predictable, Extractable
<1>2. (InCallback(v) <=> InCallback(v)') /\ (InStudio(v) <=> InStudio(v)') /\ (Outside(v) <=> Outside(v)')
  BY DEF InCallback, InStudio, Outside
<1>3. InCallback(v) => job[v].question \in Question
  BY <1>1 DEF Control, InCallback, Job, Message
<1> QED
  BY <1>1, <1>2, <1>3 DEF Control

\* The initial state is typed and nobody holds a lock.
LEMMA TypeInit == Init => TypeInv
<1> SUFFICES ASSUME Init PROVE TypeInv
  OBVIOUS
<1>1. TypeOK
  BY NewRowType DEF Init, TypeOK, Message
<1>2. Controlled
  BY QuestionPredictAssumption DEF Init, Controlled, Control, InCallback, InStudio, Outside
<1> QED
  BY <1>1, <1>2 DEF TypeInv

\* The bookkeeping of a transaction's end.
LEMMA CommitFacts ==
    ASSUME TypeOK, NEW w \in Worker, Commit(w)
    PROVE  /\ row' \in [Question -> Row] /\ draft' \in [Question -> Row]
           /\ lock' \in [Question -> Worker \cup {None}]
           /\ \A q \in Question : lock'[q] # w
           /\ \A v \in Worker \ {w}, q \in Question : lock'[q] = v <=> lock[q] = v
BY QuestionPredictAssumption DEF TypeOK, Commit, Unlock

\* A rolled back transaction leaves the types and frees its locks.
LEMMA RollbackFacts ==
    ASSUME TypeOK, NEW w \in Worker, Rollback(w)
    PROVE  /\ row' \in [Question -> Row] /\ draft' \in [Question -> Row]
           /\ lock' \in [Question -> Worker \cup {None}]
           /\ \A q \in Question : lock'[q] # w
           /\ \A v \in Worker \ {w}, q \in Question : lock'[q] = v <=> lock[q] = v
BY QuestionPredictAssumption DEF TypeOK, Rollback, Unlock

\* Sending messages keeps the queue a bag of messages.
LEMMA SendType ==
    ASSUME TypeOK, NEW M, Send(M)
    PROVE  queue' \in [Message -> Nat]
BY DEF TypeOK, Send

\* Taking a message off the broker keeps types and locks in place.
LEMMA TypeReceive ==
    ASSUME TypeInv, NEW w \in Worker, Receive(w)
    PROVE  TypeInv'
<1> USE DEF TypeInv
<1>1. PICK m \in Message : /\ queue[m] > 0
                           /\ queue' = [queue EXCEPT ![m] = @ - 1]
                           /\ job' = [job EXCEPT ![w] = m]
                           /\ todo' = [todo EXCEPT ![w] = IF m.kind = "studio" THEN Extractable ELSE {}]
  BY DEF Receive
<1>2. TypeOK'
  <2>1. queue' \in [Message -> Nat]
    BY <1>1 DEF TypeOK
  <2>2. job' \in [Worker -> Job \cup {None}]
    BY <1>1 DEF TypeOK, Job
  <2> QED
    BY <1>1, <2>1, <2>2 DEF TypeOK, Receive, Goto, Extractable
<1>3. Control(w)'
  BY <1>1 DEF TypeOK, Receive, Goto, Controlled, Control, InCallback, InStudio, Outside, Job
<1>4. ASSUME NEW v \in Worker \ {w} PROVE Control(v)'
  BY <1>1, Frame DEF TypeOK, Receive, Goto, Controlled
<1> QED
  BY <1>2, <1>3, <1>4 DEF Controlled

\* So does every step of preset_answer_by_fid,
LEMMA TypePredict ==
    ASSUME TypeInv, NEW w \in Worker, Predict(w)
    PROVE  TypeInv'
<1> USE DEF TypeInv
<1>1. CASE PredictLock(w)
  <2>1. TypeOK'
    BY <1>1 DEF TypeOK, PredictLock, Goto, Predictable
  <2>2. Control(w)'
    BY <1>1 DEF TypeOK, PredictLock, Goto, At, Controlled, Control, InCallback, InStudio, Outside, Predictable
  <2>3. ASSUME NEW v \in Worker \ {w} PROVE Control(v)'
    BY <1>1, <2>3, Frame, QuestionPredictAssumption DEF TypeOK, PredictLock, Goto, Controlled
  <2> QED
    BY <2>1, <2>2, <2>3 DEF Controlled
<1>2. CASE PredictNothing(w)
  <2>1. TypeOK'
    BY <1>2 DEF TypeOK, PredictNothing, EndJob, Goto
  <2>2. Control(w)'
    BY <1>2 DEF TypeOK, PredictNothing, EndJob, Goto, At, Controlled, Control, InCallback, InStudio, Outside
  <2>3. ASSUME NEW v \in Worker \ {w} PROVE Control(v)'
    BY <1>2, <2>3, Frame DEF TypeOK, PredictNothing, EndJob, Goto, Controlled
  <2> QED
    BY <2>1, <2>2, <2>3 DEF Controlled
<1>3. CASE PredictNoInterdoc(w)
  <2>1. TypeOK'
    BY <1>3, CommitFacts DEF TypeOK, PredictNoInterdoc, EndJob, Goto
  <2>2. Control(w)'
    BY <1>3, CommitFacts DEF TypeOK, PredictNoInterdoc, EndJob, Goto, Control, InCallback, InStudio, Outside
  <2>3. ASSUME NEW v \in Worker \ {w} PROVE Control(v)'
    BY <1>3, <2>3, Frame, CommitFacts DEF TypeOK, PredictNoInterdoc, EndJob, Goto, Controlled
  <2> QED
    BY <2>1, <2>2, <2>3 DEF Controlled
<1>4. CASE PredictSkip(w)
  <2>0. PICK q \in todo[w] :
            /\ \E r \in NotPredicted(q, draft[q], job[w].force) : draft' = [draft EXCEPT ![q] = r]
            /\ todo' = [todo EXCEPT ![w] = @ \ {q}]
    BY <1>4 DEF PredictSkip
  <2>1. TypeOK'
    <3>1. q \in Question
      BY <2>0 DEF TypeOK
    <3>2. draft' \in [Question -> Row]
      BY <2>0, <3>1, NotPredictedType DEF TypeOK
    <3> QED
      BY <1>4, <2>0, <3>2 DEF TypeOK, PredictSkip
  <2>2. Control(w)'
    BY <1>4, <2>0 DEF TypeOK, PredictSkip, Controlled, Control, InCallback, InStudio, Outside
  <2>3. ASSUME NEW v \in Worker \ {w} PROVE Control(v)'
    BY <1>4, <2>0, <2>3, Frame DEF TypeOK, PredictSkip, Controlled
  <2> QED
    BY <2>1, <2>2, <2>3 DEF Controlled
<1>5. CASE PredictBegin(w)
  <2>0. PICK q \in todo[w] :
            /\ draft' = [draft EXCEPT ![q] = SetExclusive(q, @, "DOING")]
            /\ todo' = [todo EXCEPT ![w] = @ \ {q}]
            /\ cur' = [cur EXCEPT ![w] = q]
    BY <1>5 DEF PredictBegin
  <2>1. TypeOK'
    <3>1. q \in Question
      BY <2>0 DEF TypeOK
    <3>2. draft' \in [Question -> Row]
      BY <2>0, <3>1, SetExclusiveType DEF TypeOK, AIStatus
    <3> QED
      BY <1>5, <2>0, <3>1, <3>2 DEF TypeOK, PredictBegin, Goto
  <2>2. Control(w)'
    BY <1>5, <2>0 DEF TypeOK, PredictBegin, Goto, Controlled, Control, InCallback, InStudio, Outside
  <2>3. ASSUME NEW v \in Worker \ {w} PROVE Control(v)'
    BY <1>5, <2>0, <2>3, Frame DEF TypeOK, PredictBegin, Goto, Controlled
  <2> QED
    BY <2>1, <2>2, <2>3 DEF Controlled
<1>6. CASE PredictEnd(w)
  <2>0. PICK r \in PredictionRows(cur[w], draft[cur[w]]) : draft' = [draft EXCEPT ![cur[w]] = r]
    BY <1>6 DEF PredictEnd
  <2>1. TypeOK'
    <3>1. cur[w] \in Question
      BY <1>6 DEF PredictEnd, Controlled, Control, Predictable
    <3>2. draft' \in [Question -> Row]
      BY <2>0, <3>1, PredictionRowsType DEF TypeOK
    <3> QED
      BY <1>6, <3>2 DEF TypeOK, PredictEnd, Goto
  <2>2. Control(w)'
    BY <1>6 DEF TypeOK, PredictEnd, Goto, Controlled, Control, InCallback, InStudio, Outside
  <2>3. ASSUME NEW v \in Worker \ {w} PROVE Control(v)'
    BY <1>6, <2>3, Frame DEF TypeOK, PredictEnd, Goto, Controlled
  <2> QED
    BY <2>1, <2>2, <2>3 DEF Controlled
<1>7. CASE PredictCommit(w)
  <2>1. TypeOK'
    BY <1>7, CommitFacts DEF TypeOK, PredictCommit, Goto
  <2>2. Control(w)'
    BY <1>7, CommitFacts DEF TypeOK, PredictCommit, Goto, Controlled, Control, InCallback, InStudio, Outside
  <2>3. ASSUME NEW v \in Worker \ {w} PROVE Control(v)'
    BY <1>7, <2>3, Frame, CommitFacts DEF TypeOK, PredictCommit, Goto, Controlled
  <2> QED
    BY <2>1, <2>2, <2>3 DEF Controlled
<1>8. CASE PredictPipe(w)
  <2>1. TypeOK'
    BY <1>8 DEF TypeOK, PredictPipe, EndJob, Goto, AllFinish
  <2>2. Control(w)'
    BY <1>8 DEF TypeOK, PredictPipe, EndJob, Goto, At, Controlled, Control, InCallback, InStudio, Outside
  <2>3. ASSUME NEW v \in Worker \ {w} PROVE Control(v)'
    BY <1>8, <2>3, Frame DEF TypeOK, PredictPipe, EndJob, Goto, Controlled
  <2> QED
    BY <2>1, <2>2, <2>3 DEF Controlled
<1> QED
  BY <1>1, <1>2, <1>3, <1>4, <1>5, <1>6, <1>7, <1>8 DEF Predict

\* every step of process_file_extract,
LEMMA TypeExtract ==
    ASSUME TypeInv, NEW w \in Worker, Extract(w)
    PROVE  TypeInv'
<1> USE DEF TypeInv
<1>1. CASE ExtractLock(w)
  <2>1. TypeOK'
    BY <1>1 DEF TypeOK, ExtractLock, Goto
  <2>2. Control(w)'
    BY <1>1 DEF TypeOK, ExtractLock, Goto, At, Controlled, Control, InCallback, InStudio, Outside, Job, Message, Extractable
  <2>3. ASSUME NEW v \in Worker \ {w} PROVE Control(v)'
    BY <1>1, <2>3, Frame, QuestionPredictAssumption DEF TypeOK, ExtractLock, Goto, Controlled
  <2> QED
    BY <2>1, <2>2, <2>3 DEF Controlled
<1>2. CASE ExtractError(w)
  <2>1. TypeOK'
    <3>1. job[w].question \in Question
      BY <1>2 DEF TypeOK, ExtractError, At, Controlled, Control, InCallback, InStudio, Job, Message, Extractable
    <3>2. draft' \in [Question -> Row]
      BY <1>2, <3>1, SetLLMType DEF TypeOK, ExtractError, LLMStatus
    <3> QED
      BY <1>2, <3>2 DEF TypeOK, ExtractError, Goto
  <2>2. Control(w)'
    BY <1>2 DEF TypeOK, ExtractError, Goto, At, Controlled, Control, InCallback, InStudio, Outside
  <2>3. ASSUME NEW v \in Worker \ {w} PROVE Control(v)'
    BY <1>2, <2>3, Frame DEF TypeOK, ExtractError, Goto, Controlled
  <2> QED
    BY <2>1, <2>2, <2>3 DEF Controlled
<1>3. CASE ExtractResult(w)
  <2>1. TypeOK'
    <3>1. job[w].question \in Question
      BY <1>3 DEF TypeOK, ExtractResult, At, Controlled, Control, InCallback, InStudio, Job, Message, Extractable
    <3>2. draft' \in [Question -> Row]
      BY <1>3, <3>1, ExtractedType, ExtractionFailedType DEF TypeOK, ExtractResult
    <3> QED
      BY <1>3, <3>2 DEF TypeOK, ExtractResult, Goto
  <2>2. Control(w)'
    BY <1>3 DEF TypeOK, ExtractResult, Goto, At, Controlled, Control, InCallback, InStudio, Outside
  <2>3. ASSUME NEW v \in Worker \ {w} PROVE Control(v)'
    BY <1>3, <2>3, Frame DEF TypeOK, ExtractResult, Goto, Controlled
  <2> QED
    BY <2>1, <2>2, <2>3 DEF Controlled
<1>4. CASE ExtractPipe(w)
  <2>1. TypeOK'
    BY <1>4 DEF TypeOK, ExtractPipe, Goto
  <2>2. Control(w)'
    BY <1>4 DEF TypeOK, ExtractPipe, Goto, At, Controlled, Control, InCallback, InStudio, Outside
  <2>3. ASSUME NEW v \in Worker \ {w} PROVE Control(v)'
    BY <1>4, <2>3, Frame DEF TypeOK, ExtractPipe, Goto, Controlled
  <2> QED
    BY <2>1, <2>2, <2>3 DEF Controlled
<1>5. CASE ExtractPipeError(w)
  <2>1. TypeOK'
    <3>1. job[w].question \in Question
      BY <1>5 DEF TypeOK, ExtractPipeError, At, Controlled, Control, InCallback, InStudio, Job, Message, Extractable
    <3>2. draft' \in [Question -> Row]
      BY <1>5, <3>1, SetLLMType DEF TypeOK, ExtractPipeError, LLMStatus
    <3> QED
      BY <1>5, <3>2 DEF TypeOK, ExtractPipeError, Goto
  <2>2. Control(w)'
    BY <1>5 DEF TypeOK, ExtractPipeError, Goto, At, Controlled, Control, InCallback, InStudio, Outside
  <2>3. ASSUME NEW v \in Worker \ {w} PROVE Control(v)'
    BY <1>5, <2>3, Frame DEF TypeOK, ExtractPipeError, Goto, Controlled
  <2> QED
    BY <2>1, <2>2, <2>3 DEF Controlled
<1>6. CASE ExtractCommit(w)
  <2>1. TypeOK'
    BY <1>6, CommitFacts DEF TypeOK, ExtractCommit, EndJob, Goto
  <2>2. Control(w)'
    BY <1>6, CommitFacts DEF TypeOK, ExtractCommit, EndJob, Goto, At, Controlled, Control, InCallback, InStudio, Outside
  <2>3. ASSUME NEW v \in Worker \ {w} PROVE Control(v)'
    BY <1>6, <2>3, Frame, CommitFacts DEF TypeOK, ExtractCommit, EndJob, Goto, Controlled
  <2> QED
    BY <2>1, <2>2, <2>3 DEF Controlled
<1> QED
  BY <1>1, <1>2, <1>3, <1>4, <1>5, <1>6 DEF Extract

\* every step of a submission to the studio,
LEMMA TypeSubmit ==
    ASSUME TypeInv, NEW w \in Worker, Submit(w)
    PROVE  TypeInv'
<1> USE DEF TypeInv
<1>1. CASE StudioLock(w)
  <2>1. TypeOK'
    BY <1>1 DEF TypeOK, StudioLock, Goto
  <2>2. Control(w)'
    BY <1>1 DEF TypeOK, StudioLock, Goto, At, Controlled, Control, InCallback, InStudio, Outside
  <2>3. ASSUME NEW v \in Worker \ {w} PROVE Control(v)'
    BY <1>1, <2>3, Frame, QuestionPredictAssumption DEF TypeOK, StudioLock, Goto, Controlled
  <2> QED
    BY <2>1, <2>2, <2>3 DEF Controlled
<1>2. CASE StudioSkip(w)
  <2>1. TypeOK'
    BY <1>2 DEF TypeOK, StudioSkip, Goto
  <2>2. Control(w)'
    BY <1>2 DEF TypeOK, StudioSkip, Goto, At, Controlled, Control, InCallback, InStudio, Outside
  <2>3. ASSUME NEW v \in Worker \ {w} PROVE Control(v)'
    BY <1>2, <2>3, Frame DEF TypeOK, StudioSkip, Goto, Controlled
  <2> QED
    BY <2>1, <2>2, <2>3 DEF Controlled
<1>3. CASE StudioCall(w)
  <2>1. TypeOK'
    <3>1. cur[w] \in Question
      BY <1>3 DEF TypeOK, StudioCall, At, Controlled, Control, InCallback, InStudio, Job, Message, Extractable
    <3>2. draft' \in [Question -> Row]
      BY <1>3, <3>1, SetLLMType DEF TypeOK, StudioCall, LLMStatus
    <3> QED
      BY <1>3, <3>2 DEF TypeOK, StudioCall, Goto
  <2>2. Control(w)'
    BY <1>3 DEF TypeOK, StudioCall, Goto, At, Controlled, Control, InCallback, InStudio, Outside
  <2>3. ASSUME NEW v \in Worker \ {w} PROVE Control(v)'
    BY <1>3, <2>3, Frame DEF TypeOK, StudioCall, Goto, Controlled
  <2> QED
    BY <2>1, <2>2, <2>3 DEF Controlled
<1>4. CASE StudioCommit(w)
  <2>1. TypeOK'
    BY <1>4, CommitFacts DEF TypeOK, StudioCommit, Goto
  <2>2. Control(w)'
    BY <1>4, CommitFacts DEF TypeOK, StudioCommit, Goto, At, Controlled, Control, InCallback, InStudio, Outside
  <2>3. ASSUME NEW v \in Worker \ {w} PROVE Control(v)'
    BY <1>4, <2>3, Frame, CommitFacts DEF TypeOK, StudioCommit, Goto, Controlled
  <2> QED
    BY <2>1, <2>2, <2>3 DEF Controlled
<1>5. CASE StudioDone(w)
  <2>1. TypeOK'
    BY <1>5 DEF TypeOK, StudioDone, EndJob, Goto
  <2>2. Control(w)'
    BY <1>5 DEF TypeOK, StudioDone, EndJob, Goto, At, Controlled, Control, InCallback, InStudio, Outside
  <2>3. ASSUME NEW v \in Worker \ {w} PROVE Control(v)'
    BY <1>5, <2>3, Frame DEF TypeOK, StudioDone, EndJob, Goto, Controlled
  <2> QED
    BY <2>1, <2>2, <2>3 DEF Controlled
<1> QED
  BY <1>1, <1>2, <1>3, <1>4, <1>5 DEF Submit

\* every step of a reset,
LEMMA TypeReset ==
    ASSUME TypeInv, NEW w \in Worker, Reset(w)
    PROVE  TypeInv'
<1> USE DEF TypeInv
<1>1. CASE ResetOne(w)
  <2>1. TypeOK'
    <3>1. PICK q \in todo[w] :
              /\ row' = [row EXCEPT ![q] = ResetRow(q, @, job[w].skipped)]
              /\ draft' = [draft EXCEPT ![q] = row'[q]]
              /\ todo' = [todo EXCEPT ![w] = @ \ {q}]
      BY <1>1 DEF ResetOne
    <3>2. q \in Question
      BY <3>1 DEF TypeOK
    <3>3. row' \in [Question -> Row]
      BY <3>1, <3>2, ResetRowType DEF TypeOK
    <3>4. draft' \in [Question -> Row]
      BY <3>1, <3>2, <3>3 DEF TypeOK
    <3> QED
      BY <1>1, <3>1, <3>3, <3>4 DEF TypeOK, ResetOne
  <2>2. Control(w)'
    BY <1>1 DEF TypeOK, ResetOne, At, Controlled, Control, InCallback, InStudio, Outside
  <2>3. ASSUME NEW v \in Worker \ {w} PROVE Control(v)'
    BY <1>1, <2>3, Frame DEF TypeOK, ResetOne, Controlled
  <2> QED
    BY <2>1, <2>2, <2>3 DEF Controlled
<1>2. CASE ResetDispatch(w)
  <2>1. TypeOK'
    BY <1>2, SendType DEF TypeOK, ResetDispatch, EndJob, Goto
  <2>2. Control(w)'
    BY <1>2, SendType DEF TypeOK, ResetDispatch, EndJob, Goto, At, Controlled, Control, InCallback, InStudio, Outside
  <2>3. ASSUME NEW v \in Worker \ {w} PROVE Control(v)'
    BY <1>2, <2>3, Frame, SendType DEF TypeOK, ResetDispatch, EndJob, Goto, Controlled
  <2> QED
    BY <2>1, <2>2, <2>3 DEF Controlled
<1> QED
  BY <1>1, <1>2 DEF Reset

\* the requests of users and the death of a process,
LEMMA TypeUser ==
    ASSUME TypeInv, NEW w \in Worker, ResetStart(w) \/ Crash(w)
    PROVE  TypeInv'
<1> USE DEF TypeInv
<1>1. CASE ResetStart(w)
  <2>0. PICK force \in BOOLEAN :
            job' = [job EXCEPT ![w] =
                [kind |-> "reset", force |-> force,
                 skipped |-> {q \in Question : row[q].llm = "SKIP_PREDICT"}]]
    BY <1>1 DEF ResetStart
  <2>1. TypeOK'
    <3>1. [kind |-> "reset", force |-> force,
           skipped |-> {q \in Question : row[q].llm = "SKIP_PREDICT"}] \in Job
      BY DEF Job
    <3>2. job' \in [Worker -> Job \cup {None}]
      BY <2>0, <3>1 DEF TypeOK
    <3>3. /\ pc' = [pc EXCEPT ![w] = "start"] /\ todo' = [todo EXCEPT ![w] = Question]
          /\ requests' = requests + 1 /\ audited' = FALSE
          /\ UNCHANGED <<row, draft, lock, cur, queue, studio>>
      BY <1>1 DEF ResetStart, Goto
    <3>4. requests' \in Nat
      BY <3>3 DEF TypeOK
    <3>5. audited' \in BOOLEAN
      BY <3>3
    <3> QED
      BY <3>2, <3>3, <3>4, <3>5, Zenon DEF TypeOK
  <2>2. Control(w)'
    BY <1>1, <2>0 DEF TypeOK, ResetStart, Goto, Job, Controlled, Control, InCallback, InStudio, Outside
  <2>3. ASSUME NEW v \in Worker \ {w} PROVE Control(v)'
    BY <1>1, <2>0, <2>3, Frame DEF TypeOK, ResetStart, Goto, Controlled
  <2> QED
    BY <2>1, <2>2, <2>3 DEF Controlled
<1>2. CASE Crash(w)
  <2>1. TypeOK'
    BY <1>2, RollbackFacts DEF TypeOK, Crash, EndJob, Goto
  <2>2. Control(w)'
    BY <1>2, RollbackFacts DEF TypeOK, Crash, EndJob, Goto, Controlled, Control, InCallback, InStudio, Outside
  <2>3. ASSUME NEW v \in Worker \ {w} PROVE Control(v)'
    BY <1>2, <2>3, Frame, RollbackFacts DEF TypeOK, Crash, EndJob, Goto, Controlled
  <2> QED
    BY <2>1, <2>2, <2>3 DEF Controlled
<1> QED
  BY <1>1, <1>2

\* and the studio.
LEMMA TypeWorld ==
    ASSUME TypeInv, (\E q \in Question : StudioFinish(q) \/ StudioSpontaneous(q)) \/ Rerun
    PROVE  TypeInv'
<1> USE DEF TypeInv
<1>1. TypeOK'
  <2>1. ASSUME NEW q \in Question, StudioFinish(q) PROVE TypeOK'
    BY <2>1, SendType DEF TypeOK, StudioFinish
  <2>2. ASSUME NEW q \in Question, StudioSpontaneous(q) PROVE TypeOK'
    BY <2>2 DEF TypeOK, StudioSpontaneous
  <2>3. ASSUME Rerun PROVE TypeOK'
    BY <2>3, SendType DEF TypeOK, Rerun
  <2> QED
    BY <2>1, <2>2, <2>3
<1>2. ASSUME NEW v \in Worker PROVE Control(v)'
  BY <1>2, Frame DEF Controlled, StudioFinish, StudioSpontaneous, Rerun
<1> QED
  BY <1>1, <1>2 DEF Controlled

\* TypeInv is inductive.
LEMMA TypeNext == TypeInv /\ [Next]_vars => TypeInv'
<1> SUFFICES ASSUME TypeInv, [Next]_vars PROVE TypeInv'
  OBVIOUS
<1>1. CASE UNCHANGED vars
  <2>1. TypeOK'
    BY <1>1 DEF TypeInv, TypeOK, vars
  <2>2. ASSUME NEW v \in Worker PROVE Control(v)'
    BY <1>1, <2>2, Frame DEF TypeInv, Controlled, vars
  <2> QED
    BY <2>1, <2>2 DEF TypeInv, Controlled
<1>2. CASE Next
  BY <1>2, TypeReceive, TypePredict, TypeExtract, TypeSubmit, TypeReset, TypeUser, TypeWorld
  DEF Next, Work
<1> QED
  BY <1>1, <1>2

\* Types and locks are as stated in every reachable state.
LEMMA TypeInvariant == Spec => []TypeInv
BY TypeInit, TypeNext, PTL DEF Spec

\* Every variable keeps its type.
THEOREM TypeCorrect == Spec => []TypeOK
BY TypeInvariant, PTL DEF TypeInv

-----------------------------------------------------------------------------
(* What the rows hold.  Neither Derived nor HoldsItsAnswers is inductive:   *)
(* one has to know what a half-finished question keeps from the producer    *)
(* that is done, and that a failed extraction may have wiped it.            *)

Good(q, r) ==
    /\ r.answer = r.preset
    /\ MoldType[q] = "HYBRID" =>
        /\ r.ai = HybridStatus(r.exclusive, r.llm)
        /\ r.llm = "FINISH" => "studio" \in r.preset
        /\ r.exclusive = "FINISH" =>
            \/ "predictor" \in r.preset
            \/ r.preset = {} /\ r.llm \notin {"FINISH", "SKIP_PREDICT"}
        /\ r.exclusive = "FINISH" /\ r.llm = "SKIP_PREDICT" => r.preset = {"predictor"}
    /\ MoldType[q] = "LLM" => (r.ai = "FINISH" => r.preset = {"studio"})
    /\ MoldType[q] = "COMPLEX" =>
        /\ r.llm # "FINISH" /\ r.exclusive # "DOING"
        /\ r.ai = "FINISH" => r.preset = {"predictor"}

\* The predictor has marked the row as being worked on.
Marked(q, r) == r.exclusive = "DOING" \/ (MoldType[q] = "COMPLEX" /\ r.ai = "DOING")

\* A good row has the derived status, and the right answers when finished.
LEMMA GoodAnswers ==
    ASSUME NEW q \in Question, NEW r \in Row, Good(q, r)
    PROVE  Derived(q, r) /\ HoldsItsAnswers(q, r)
<1>1. Derived(q, r)
  BY DEF Good, Derived
<1>2. ASSUME r.ai = "FINISH" PROVE r.answer = Producers(q, r)
  <2>1. CASE MoldType[q] = "HYBRID"
    <3>1. r.exclusive = "FINISH" /\ r.llm \in {"FINISH", "SKIP_PREDICT"}
      BY <1>2, <2>1 DEF Good, HybridStatus, Row, AIStatus, LLMStatus
    <3>2. CASE r.llm = "FINISH"
      <4>1. "studio" \in r.preset /\ "predictor" \in r.preset /\ r.preset \subseteq {"predictor", "studio"}
        BY <2>1, <3>1, <3>2 DEF Good, Row, Source
      <4> QED
        BY <2>1, <3>2, <4>1 DEF Good, Producers
    <3>3. CASE r.llm = "SKIP_PREDICT"
      BY <2>1, <3>1, <3>3 DEF Good, Producers
    <3> QED
      BY <3>1, <3>2, <3>3
  <2>2. CASE MoldType[q] = "LLM"
    BY <1>2, <2>2 DEF Good, Producers
  <2>3. CASE MoldType[q] = "COMPLEX"
    BY <1>2, <2>3 DEF Good, Producers
  <2> QED
    BY <2>1, <2>2, <2>3, QuestionPredictAssumption
<1> QED
  BY <1>1, <1>2 DEF HoldsItsAnswers

\* A new question is good.
LEMMA GoodNewRow ==
    ASSUME NEW q \in Question
    PROVE  Good(q, NewRow(q)) /\ ~Marked(q, NewRow(q))
BY QuestionPredictAssumption DEF Good, Marked, NewRow, HybridStatus

\* A reset keeps a row good.
LEMMA GoodResetRow ==
    ASSUME NEW q \in Question, NEW r \in Row, NEW skipped, Good(q, r)
    PROVE  Good(q, ResetRow(q, r, skipped)) /\ ~Marked(q, ResetRow(q, r, skipped))
BY QuestionPredictAssumption DEF Good, Marked, ResetRow, HybridStatus, Row

\* The predictor may set any status but FINISH without a new answer.
LEMMA GoodSetExclusive ==
    ASSUME NEW q \in Predictable, NEW r \in Row, Good(q, r),
           NEW s \in AIStatus \ {"FINISH"}
    PROVE  /\ Good(q, SetExclusive(q, r, s))
           /\ s # "DOING" => ~Marked(q, SetExclusive(q, r, s))
BY QuestionPredictAssumption
DEF Good, Marked, Predictable, SetExclusive, UpdateRecord, HybridStatus, Row, AIStatus, LLMStatus

\* A prediction that does not start keeps the row good.
LEMMA GoodNotPredicted ==
    ASSUME NEW q \in Predictable, NEW r \in Row, Good(q, r), ~Marked(q, r), NEW force,
           NEW s \in NotPredicted(q, r, force)
    PROVE  Good(q, s) /\ ~Marked(q, s)
BY GoodSetExclusive DEF NotPredicted, AIStatus

\* However a prediction ends, the row is good and no longer marked.
LEMMA GoodPrediction ==
    ASSUME NEW q \in Predictable, NEW r \in Row, Good(q, r), NEW s \in PredictionRows(q, r)
    PROVE  Good(q, s) /\ ~Marked(q, s)
<1> DEFINE p == {"predictor"} \cup (IF MergesStudio(q, r) THEN r.preset ELSE {})
           t == [r EXCEPT !.preset = p]
<1>1. CASE s = SetExclusive(q, r, "FAILED")
  BY <1>1, GoodSetExclusive DEF AIStatus
<1>2. CASE s = SetAnswer(SetExclusive(q, t, "FINISH")) /\ ~(MergesStudio(q, r) /\ r.preset = {})
  <2>1. t.preset = p /\ t.llm = r.llm /\ t.exclusive = r.exclusive /\ t \in Row
    BY DEF Row, Source
  <2>2. CASE MoldType[q] = "HYBRID"
    <3>1. s.exclusive = "FINISH" /\ s.llm = r.llm /\ s.preset = p /\ s.answer = p
          /\ s.ai = HybridStatus("FINISH", r.llm)
      BY <1>2, <2>1, <2>2 DEF SetAnswer, SetExclusive, UpdateRecord, Row
    <3>2. "predictor" \in p
      OBVIOUS
    <3>3. r.llm = "FINISH" => "studio" \in p
      BY <2>2 DEF Good, MergesStudio
    <3>4. r.llm = "SKIP_PREDICT" => p = {"predictor"}
      BY DEF MergesStudio
    <3> QED
      BY <2>2, <3>1, <3>2, <3>3, <3>4 DEF Good, Marked
  <2>3. CASE MoldType[q] = "COMPLEX"
    <3>1. s.ai = "FINISH" /\ s.exclusive = r.exclusive /\ s.llm = r.llm
          /\ s.preset = p /\ s.answer = p
      BY <1>2, <2>1, <2>3 DEF SetAnswer, SetExclusive, UpdateRecord, Row
    <3>2. p = {"predictor"}
      BY <2>3 DEF MergesStudio
    <3> QED
      BY <2>3, <3>1, <3>2 DEF Good, Marked
  <2> QED
    BY <2>2, <2>3, QuestionPredictAssumption DEF Predictable
<1> QED
  BY <1>1, <1>2 DEF PredictionRows

\* The studio may set any status but FINISH without a new answer.
LEMMA GoodSetLLM ==
    ASSUME NEW q \in Extractable, NEW r \in Row, Good(q, r), NEW l \in {"DOING", "FAILED"}
    PROVE  /\ Good(q, SetLLM(q, r, l))
           /\ ~Marked(q, r) => ~Marked(q, SetLLM(q, r, l))
BY QuestionPredictAssumption
DEF Good, Marked, Extractable, SetLLM, UpdateRecord, HybridStatus, Row, AIStatus, LLMStatus

\* A successful extraction keeps the row good.
LEMMA GoodExtracted ==
    ASSUME NEW q \in Extractable, NEW r \in Row, Good(q, r),
           ~(MergesPredictor(q, r) /\ r.preset = {})
    PROVE  /\ Good(q, Extracted(q, r))
           /\ ~Marked(q, r) => ~Marked(q, Extracted(q, r))
BY QuestionPredictAssumption
DEF Good, Marked, Extractable, Extracted, MergesPredictor, SetAnswer, SetLLM,
    UpdateRecord, HybridStatus, Row, Source, AIStatus, LLMStatus

\* A failed extraction, which wipes the answer, keeps the row good.
LEMMA GoodExtractionFailed ==
    ASSUME NEW q \in Extractable, NEW r \in Row, Good(q, r)
    PROVE  /\ Good(q, ExtractionFailed(q, r))
           /\ ~Marked(q, r) => ~Marked(q, ExtractionFailed(q, r))
BY QuestionPredictAssumption
DEF Good, Marked, Extractable, ExtractionFailed, SetAnswer, SetLLM,
    UpdateRecord, HybridStatus, Row, Source, AIStatus, LLMStatus

-----------------------------------------------------------------------------
(* The rows along the steps. *)

RunBy(w, q) == lock[q] = w /\ pc[w] = "run" /\ cur[w] = q

Rows(q) ==
    /\ Good(q, row[q]) /\ ~Marked(q, row[q])
    /\ Good(q, draft[q])
    /\ Marked(q, draft[q]) => \E w \in Worker : RunBy(w, q)
    /\ lock[q] = None => draft[q] = row[q]

SafeInv == \A q \in Question : Rows(q)

\* Rows are safe when the file has been parsed.
LEMMA SafeInit == Init => SafeInv
BY GoodNewRow DEF Init, SafeInv, Rows

\* A step that leaves the tables and the runs alone.
LEMMA SafeFrame ==
    ASSUME SafeInv, UNCHANGED <<row, draft, lock>>,
           \A w \in Worker : pc[w] = "run" => pc'[w] = "run" /\ cur'[w] = cur[w]
    PROVE  SafeInv'
BY DEF SafeInv, Rows, RunBy

\* The predictor does not run in a transaction that ends.
LEMMA SafeCommit ==
    ASSUME TypeInv, SafeInv, NEW w \in Worker, Commit(w), pc[w] # "run",
           \A v \in Worker \ {w} : pc'[v] = pc[v] /\ cur'[v] = cur[v]
    PROVE  SafeInv'
<1> SUFFICES ASSUME NEW q \in Question PROVE Rows(q)'
  BY DEF SafeInv
<1>1. CASE lock[q] = w
  <2>1. row'[q] = draft[q] /\ draft'[q] = draft[q] /\ ~Marked(q, draft[q])
    BY <1>1 DEF Commit, SafeInv, Rows, RunBy
  <2> QED
    BY <2>1 DEF SafeInv, Rows
<1>2. CASE lock[q] # w
  <2>1. row'[q] = row[q] /\ draft'[q] = draft[q] /\ lock'[q] = lock[q]
    BY <1>2 DEF Commit, Unlock
  <2> QED
    BY <1>2, <2>1 DEF SafeInv, Rows, RunBy
<1> QED
  BY <1>1, <1>2

\* A rollback returns to committed rows, which are safe.
LEMMA SafeRollback ==
    ASSUME TypeInv, SafeInv, NEW w \in Worker, Rollback(w),
           \A v \in Worker \ {w} : pc'[v] = pc[v] /\ cur'[v] = cur[v]
    PROVE  SafeInv'
<1> SUFFICES ASSUME NEW q \in Question PROVE Rows(q)'
  BY DEF SafeInv
<1>1. CASE lock[q] = w
  <2>1. row'[q] = row[q] /\ draft'[q] = row[q]
    BY <1>1 DEF Rollback
  <2> QED
    BY <2>1 DEF SafeInv, Rows
<1>2. CASE lock[q] # w
  <2>1. row'[q] = row[q] /\ draft'[q] = draft[q] /\ lock'[q] = lock[q]
    BY <1>2 DEF Rollback, Unlock
  <2> QED
    BY <1>2, <2>1 DEF SafeInv, Rows, RunBy
<1> QED
  BY <1>1, <1>2

\* A write of the transaction that holds p's lock, outside of a run.
LEMMA SafeWrite ==
    ASSUME TypeInv, SafeInv, NEW w \in Worker, NEW p \in Question, lock[p] = w,
           UNCHANGED <<row, lock>>, NEW r, draft' = [draft EXCEPT ![p] = r],
           Good(p, r), ~Marked(p, r),
           \A v \in Worker \ {w} : pc'[v] = pc[v] /\ cur'[v] = cur[v],
           \A q \in Question \ {p} : RunBy(w, q) => RunBy(w, q)'
    PROVE  SafeInv'
<1> SUFFICES ASSUME NEW q \in Question PROVE Rows(q)'
  BY DEF SafeInv
<1>1. lock[p] # None
  BY QuestionPredictAssumption
<1>2. CASE q = p
  BY <1>1, <1>2 DEF SafeInv, Rows, TypeInv, TypeOK
<1>3. CASE q # p
  BY <1>3 DEF SafeInv, Rows, RunBy, TypeInv, TypeOK
<1> QED
  BY <1>2, <1>3

\* Every step of preset_answer_by_fid keeps the rows safe,
LEMMA SafePredict ==
    ASSUME TypeInv, SafeInv, NEW w \in Worker, Predict(w)
    PROVE  SafeInv'
<1>0. Control(w) /\ Predictable \subseteq Question
  BY DEF TypeInv, Controlled, Predictable
<1>1. CASE PredictLock(w)
  <2> SUFFICES ASSUME NEW q \in Question PROVE Rows(q)'
    BY DEF SafeInv
  <2>1. row' = row /\ draft' = draft /\ cur' = cur
    BY <1>1 DEF PredictLock
  <2>2. ASSUME NEW v \in Worker, RunBy(v, q) PROVE RunBy(v, q)'
    <3>1. v # w /\ lock[q] # None
      BY <1>1, <2>2, QuestionPredictAssumption DEF RunBy, PredictLock, At
    <3> QED
      BY <1>1, <2>2, <3>1 DEF RunBy, PredictLock, Goto, TypeInv, TypeOK
  <2>3. lock'[q] = None => lock[q] = None
    BY <1>1, QuestionPredictAssumption DEF PredictLock
  <2> QED
    BY <2>1, <2>2, <2>3 DEF SafeInv, Rows
<1>2. CASE PredictNothing(w)
  BY <1>2, SafeFrame DEF PredictNothing, At, EndJob, Goto, TypeInv, TypeOK
<1>3. CASE PredictNoInterdoc(w)
  BY <1>3, SafeCommit DEF PredictNoInterdoc, EndJob, Goto, TypeInv, TypeOK
<1>4. CASE PredictSkip(w)
  <2>0. PICK q \in todo[w] : \E r \in NotPredicted(q, draft[q], job[w].force) :
            draft' = [draft EXCEPT ![q] = r]
    BY <1>4 DEF PredictSkip
  <2>1. PICK r \in NotPredicted(q, draft[q], job[w].force) : draft' = [draft EXCEPT ![q] = r]
    BY <2>0
  <2>2. q \in Predictable /\ q \in Question /\ lock[q] = w
    BY <1>0, <1>4, <2>1 DEF PredictSkip, Control
  <2>3. draft[q] \in Row /\ Good(q, draft[q]) /\ ~Marked(q, draft[q])
    BY <1>4, <2>2 DEF PredictSkip, SafeInv, Rows, RunBy, TypeInv, TypeOK
  <2>4. Good(q, r) /\ ~Marked(q, r)
    BY <2>2, <2>3, GoodNotPredicted
  <2> QED
    BY <1>4, <2>1, <2>2, <2>4, SafeWrite DEF PredictSkip, RunBy
<1>5. CASE PredictBegin(w)
  <2>1. PICK p \in todo[w] : /\ draft' = [draft EXCEPT ![p] = SetExclusive(p, @, "DOING")]
                             /\ cur' = [cur EXCEPT ![w] = p]
    BY <1>5 DEF PredictBegin
  <2>2. p \in Predictable /\ p \in Question /\ lock[p] = w
    BY <1>0, <1>5, <2>1 DEF PredictBegin, Control
  <2>3. Good(p, SetExclusive(p, draft[p], "DOING"))
    BY <2>2, GoodSetExclusive DEF SafeInv, Rows, TypeInv, TypeOK, AIStatus
  <2>4. RunBy(w, p)'
    BY <1>5, <2>1, <2>2 DEF RunBy, PredictBegin, Goto, TypeInv, TypeOK
  <2> SUFFICES ASSUME NEW q \in Question PROVE Rows(q)'
    BY DEF SafeInv
  <2>5. row' = row /\ lock' = lock
    BY <1>5 DEF PredictBegin
  <2>6. CASE q = p
    BY <2>1, <2>2, <2>3, <2>4, <2>5, <2>6, QuestionPredictAssumption DEF SafeInv, Rows, TypeInv, TypeOK
  <2>7. CASE q # p
    <3>1. draft'[q] = draft[q]
      BY <2>1, <2>7 DEF TypeInv, TypeOK
    <3>2. ASSUME NEW v \in Worker, RunBy(v, q) PROVE RunBy(v, q)'
      BY <1>5, <2>1, <3>2 DEF RunBy, PredictBegin, Goto, TypeInv, TypeOK
    <3> QED
      BY <2>5, <3>1, <3>2 DEF SafeInv, Rows
  <2> QED
    BY <2>6, <2>7
<1>6. CASE PredictEnd(w)
  <2>1. PICK r \in PredictionRows(cur[w], draft[cur[w]]) : draft' = [draft EXCEPT ![cur[w]] = r]
    BY <1>6 DEF PredictEnd
  <2>2. cur[w] \in Predictable /\ cur[w] \in Question /\ lock[cur[w]] = w
    BY <1>0, <1>6 DEF PredictEnd, Control
  <2>3. Good(cur[w], r) /\ ~Marked(cur[w], r)
    BY <2>2, GoodPrediction DEF SafeInv, Rows, TypeInv, TypeOK
  <2> QED
    BY <1>6, <2>1, <2>2, <2>3, SafeWrite DEF PredictEnd, Goto, RunBy, TypeInv, TypeOK
<1>7. CASE PredictCommit(w)
  BY <1>7, SafeCommit DEF PredictCommit, Goto, TypeInv, TypeOK
<1>8. CASE PredictPipe(w)
  BY <1>8, SafeFrame DEF PredictPipe, At, EndJob, Goto, TypeInv, TypeOK
<1> QED
  BY <1>1, <1>2, <1>3, <1>4, <1>5, <1>6, <1>7, <1>8 DEF Predict

\* Taking a free lock outside of a run.
LEMMA SafeLock ==
    ASSUME TypeInv, SafeInv, NEW w \in Worker, NEW p \in Question, lock[p] = None,
           lock' = [lock EXCEPT ![p] = w], UNCHANGED <<row, draft>>, pc[w] # "run",
           \A v \in Worker \ {w} : pc'[v] = pc[v] /\ cur'[v] = cur[v]
    PROVE  SafeInv'
<1> SUFFICES ASSUME NEW q \in Question PROVE Rows(q)'
  BY DEF SafeInv
<1>1. ASSUME NEW v \in Worker, RunBy(v, q) PROVE RunBy(v, q)'
  <2>1. v # w /\ q # p
    BY <1>1, QuestionPredictAssumption DEF RunBy
  <2> QED
    BY <1>1, <2>1 DEF RunBy, TypeInv, TypeOK
<1>2. lock'[q] = None => lock[q] = None
  BY QuestionPredictAssumption DEF TypeInv, TypeOK
<1> QED
  BY <1>1, <1>2 DEF SafeInv, Rows

\* and so does every step of process_file_extract,
LEMMA SafeExtract ==
    ASSUME TypeInv, SafeInv, NEW w \in Worker, Extract(w)
    PROVE  SafeInv'
<1> DEFINE q == job[w].question
<1>0. ASSUME InCallback(w) \/ At(w, "start", "callback")
      PROVE  q \in Extractable /\ q \in Question /\ draft[q] \in Row /\ Good(q, draft[q])
  BY <1>0 DEF InCallback, At, TypeInv, TypeOK, Controlled, Control, Job, Message, Extractable, SafeInv, Rows
<1>1. CASE ExtractLock(w)
  BY <1>0, <1>1, SafeLock DEF ExtractLock, At, Goto, TypeInv, TypeOK
<1>a. ASSUME InCallback(w) PROVE lock[q] = w /\ ~Marked(q, draft[q])
  BY <1>0, <1>a DEF InCallback, TypeInv, Controlled, Control, SafeInv, Rows, RunBy
<1>2. CASE ExtractError(w)
  <2>1. InCallback(w)
    BY <1>2 DEF ExtractError, InCallback, TypeInv, Controlled, Control
  <2>2. PICK r : Good(q, r) /\ ~Marked(q, r) /\ draft' = [draft EXCEPT ![q] = r]
    BY <1>0, <1>a, <1>2, <2>1, GoodSetLLM DEF ExtractError
  <2> QED
    BY <1>0, <1>a, <1>2, <2>1, <2>2, SafeWrite, ZenonT(30) DEF ExtractError, Goto, RunBy, TypeInv, TypeOK
<1>3. CASE ExtractResult(w)
  <2>1. InCallback(w)
    BY <1>3 DEF ExtractResult, InCallback, TypeInv, Controlled, Control
  <2>2. PICK r : Good(q, r) /\ ~Marked(q, r) /\ draft' = [draft EXCEPT ![q] = r]
    <3>1. CASE ~(MergesPredictor(q, draft[q]) /\ draft[q].preset = {})
               /\ draft' = [draft EXCEPT ![q] = Extracted(q, @)]
      BY <1>0, <1>a, <2>1, <3>1, GoodExtracted
    <3>2. CASE draft' = [draft EXCEPT ![q] = ExtractionFailed(q, @)]
      BY <1>0, <1>a, <2>1, <3>2, GoodExtractionFailed
    <3> QED
      BY <1>3, <3>1, <3>2 DEF ExtractResult
  <2> QED
    BY <1>0, <1>a, <1>3, <2>1, <2>2, SafeWrite DEF ExtractResult, Goto, RunBy, TypeInv, TypeOK
<1>4. CASE ExtractPipe(w)
  BY <1>4, SafeFrame DEF ExtractPipe, At, Goto, TypeInv, TypeOK
<1>5. CASE ExtractPipeError(w)
  <2>1. InCallback(w)
    BY <1>5 DEF ExtractPipeError, At, InCallback
  <2>2. PICK r : Good(q, r) /\ ~Marked(q, r) /\ draft' = [draft EXCEPT ![q] = r]
    BY <1>0, <1>a, <1>5, <2>1, GoodSetLLM DEF ExtractPipeError
  <2> QED
    BY <1>0, <1>a, <1>5, <2>1, <2>2, SafeWrite DEF ExtractPipeError, At, Goto, RunBy, TypeInv, TypeOK
<1>6. CASE ExtractCommit(w)
  BY <1>6, SafeCommit DEF ExtractCommit, EndJob, Goto, TypeInv, TypeOK
<1> QED
  BY <1>1, <1>2, <1>3, <1>4, <1>5, <1>6 DEF Extract

\* every step of a submission to the studio,
LEMMA SafeSubmit ==
    ASSUME TypeInv, SafeInv, NEW w \in Worker, Submit(w)
    PROVE  SafeInv'
<1>1. CASE StudioLock(w)
  BY <1>1, SafeLock DEF StudioLock, At, Goto, TypeInv, TypeOK
<1>2. CASE StudioSkip(w)
  BY <1>2, SafeFrame DEF StudioSkip, Goto, TypeInv, TypeOK
<1>3. CASE StudioCall(w)
  <2> DEFINE q == cur[w]
  <2>1. q \in Extractable /\ q \in Question /\ lock[q] = w
    BY <1>3 DEF StudioCall, TypeInv, Controlled, Control, InStudio, Extractable
  <2>2. draft[q] \in Row /\ Good(q, draft[q]) /\ ~Marked(q, draft[q])
    BY <1>3, <2>1 DEF StudioCall, SafeInv, Rows, RunBy, TypeInv, TypeOK
  <2>3. PICK l \in {"DOING", "FAILED"} : draft' = [draft EXCEPT ![q] = SetLLM(q, @, l)]
    BY <1>3 DEF StudioCall
  <2>4. Good(q, SetLLM(q, draft[q], l)) /\ ~Marked(q, SetLLM(q, draft[q], l))
    BY <2>1, <2>2, GoodSetLLM
  <2> QED
    BY <1>3, <2>1, <2>3, <2>4, SafeWrite DEF StudioCall, Goto, RunBy, TypeInv, TypeOK
<1>4. CASE StudioCommit(w)
  BY <1>4, SafeCommit DEF StudioCommit, At, Goto, TypeInv, TypeOK
<1>5. CASE StudioDone(w)
  BY <1>5, SafeFrame DEF StudioDone, At, EndJob, Goto, TypeInv, TypeOK
<1> QED
  BY <1>1, <1>2, <1>3, <1>4, <1>5 DEF Submit

\* and every step of a reset.
LEMMA SafeReset ==
    ASSUME TypeInv, SafeInv, NEW w \in Worker, Reset(w)
    PROVE  SafeInv'
<1>1. CASE ResetOne(w)
  <2>1. PICK p \in todo[w] : /\ lock[p] = None
                             /\ row' = [row EXCEPT ![p] = ResetRow(p, @, job[w].skipped)]
                             /\ draft' = [draft EXCEPT ![p] = row'[p]]
    BY <1>1 DEF ResetOne
  <2>2. p \in Question
    BY <2>1 DEF TypeInv, TypeOK
  <2>3. Good(p, row'[p]) /\ ~Marked(p, row'[p]) /\ draft'[p] = row'[p]
    BY <2>1, <2>2, GoodResetRow DEF SafeInv, Rows, TypeInv, TypeOK
  <2>4. \A v \in Worker, q \in Question : RunBy(v, q) => RunBy(v, q)'
    BY <1>1 DEF ResetOne, RunBy
  <2>5. \A q \in Question \ {p} : row'[q] = row[q] /\ draft'[q] = draft[q]
    BY <2>1 DEF TypeInv, TypeOK
  <2>6. lock' = lock
    BY <1>1 DEF ResetOne
  <2> QED
    BY <2>3, <2>4, <2>5, <2>6 DEF SafeInv, Rows
<1>2. CASE ResetDispatch(w)
  BY <1>2, SafeFrame DEF ResetDispatch, At, EndJob, Goto, TypeInv, TypeOK
<1> QED
  BY <1>1, <1>2 DEF Reset

\* SafeInv is inductive relative to TypeInv.
LEMMA SafeNext == TypeInv /\ SafeInv /\ [Next]_vars => SafeInv'
<1> SUFFICES ASSUME TypeInv, SafeInv, [Next]_vars PROVE SafeInv'
  OBVIOUS
<1>1. CASE UNCHANGED vars
  BY <1>1, SafeFrame DEF vars
<1>2. ASSUME NEW w \in Worker, Receive(w) PROVE SafeInv'
  BY <1>2, SafeFrame DEF Receive, Goto, TypeInv, TypeOK
<1>3. ASSUME NEW w \in Worker, Work(w) PROVE SafeInv'
  BY <1>3, SafePredict, SafeExtract, SafeSubmit, SafeReset DEF Work
<1>4. ASSUME NEW w \in Worker, ResetStart(w) PROVE SafeInv'
  BY <1>4, SafeFrame DEF ResetStart, Goto, TypeInv, TypeOK
<1>5. ASSUME NEW w \in Worker, Crash(w) PROVE SafeInv'
  BY <1>5, SafeRollback DEF Crash, EndJob, Goto, TypeInv, TypeOK
<1>6. ASSUME NEW q \in Question, StudioFinish(q) PROVE SafeInv'
  BY <1>6, SafeFrame DEF StudioFinish
<1>7. ASSUME NEW q \in Question, StudioSpontaneous(q) PROVE SafeInv'
  BY <1>7, SafeFrame DEF StudioSpontaneous
<1>8. CASE Rerun
  BY <1>8, SafeFrame DEF Rerun
<1> QED
  BY <1>1, <1>2, <1>3, <1>4, <1>5, <1>6, <1>7, <1>8 DEF Next

\* Rows are safe in every reachable state.
LEMMA SafeInvariant == Spec => [](TypeInv /\ SafeInv)
<1>1. Init => TypeInv /\ SafeInv
  BY TypeInit, SafeInit
<1>2. TypeInv /\ SafeInv /\ [Next]_vars => (TypeInv /\ SafeInv)'
  BY TypeNext, SafeNext
<1> QED
  BY <1>1, <1>2, PTL DEF Spec

\* ai_status is always the combination of the producers' statuses.
THEOREM StatusAlwaysDerived == Spec => []StatusDerived
<1>1. TypeInv /\ SafeInv => StatusDerived
  BY GoodAnswers DEF SafeInv, Rows, StatusDerived, TypeInv, TypeOK
<1> QED
  BY <1>1, SafeInvariant, PTL

\* A finished question holds exactly the answers of those who finished it.
THEOREM FinishedAlwaysHoldsItsAnswers == Spec => []FinishedHoldsItsAnswers
<1>1. TypeInv /\ SafeInv => FinishedHoldsItsAnswers
  BY GoodAnswers DEF SafeInv, Rows, FinishedHoldsItsAnswers, TypeInv, TypeOK
<1> QED
  BY <1>1, SafeInvariant, PTL

\* A question marked DOING by the predictor is never visible outside its run.
THEOREM NoRunIsLeftBehind == Spec => []NoRunLeftBehind
<1>1. SafeInv => NoRunLeftBehind
  BY DEF SafeInv, Rows, Marked, NoRunLeftBehind
<1> QED
  BY <1>1, SafeInvariant, PTL

-----------------------------------------------------------------------------
(* Whoever waits for the studio is owed an answer, as long as no process    *)
(* dies.  The invariant follows the transaction's copy of the row too, and  *)
(* knows that a callback has dealt with DOING before it commits.            *)

Waits(q) == row[q].llm = "DOING" \/ draft[q].llm = "DOING"

Busy(w, q) == pc[w] # "idle" /\ job[w].kind = "callback" /\ job[w].question = q

Told(w) ==
    pc[w] \in {"pipe", "commit", "audit"} /\ job[w].kind = "callback"
        => draft[job[w].question].llm # "DOING"

AwaitInv ==
    /\ \A q \in Extractable : Waits(q) => AnswerUnderWay(q)
    /\ \A w \in Worker : Told(w)

\* The strengthened invariant implies the property.
LEMMA AwaitAnswers == AwaitInv => DoingIsAnswered
BY DEF AwaitInv, Waits, DoingIsAnswered

\* Nobody waits for the studio when the file has just been parsed.
LEMMA AwaitInit == Init => AwaitInv
<1> SUFFICES ASSUME Init PROVE AwaitInv
  OBVIOUS
<1>1. ASSUME NEW q \in Extractable PROVE ~Waits(q)
  BY <1>1 DEF Init, Waits, NewRow, Extractable
<1>2. ASSUME NEW w \in Worker PROVE Told(w)
  BY DEF Init, Told
<1> QED
  BY <1>1, <1>2 DEF AwaitInv

\* The predictor leaves llm_status alone.
LEMMA PredictorKeepsLLM ==
    ASSUME NEW q \in Question, NEW r \in Row
    PROVE  /\ \A s \in AIStatus : SetExclusive(q, r, s).llm = r.llm
           /\ \A force, s : s \in NotPredicted(q, r, force) => s.llm = r.llm
           /\ \A s \in PredictionRows(q, r) : s.llm = r.llm
<1>1. ASSUME NEW t \in Row, NEW s PROVE SetExclusive(q, t, s).llm = t.llm
  BY DEF SetExclusive, UpdateRecord, Row
<1>2. ASSUME NEW force, NEW s \in NotPredicted(q, r, force) PROVE s.llm = r.llm
  BY <1>1 DEF NotPredicted
<1>3. ASSUME NEW s \in PredictionRows(q, r) PROVE s.llm = r.llm
  <2> DEFINE p == {"predictor"} \cup (IF MergesStudio(q, r) THEN r.preset ELSE {})
             t == [r EXCEPT !.preset = p]
             u == SetExclusive(q, t, "FINISH")
  <2>1. t \in Row /\ t.llm = r.llm
    BY DEF Row, Source
  <2>2. u \in Row /\ u.llm = r.llm
    BY <1>1, <2>1, SetExclusiveType DEF AIStatus
  <2>3. SetAnswer(u).llm = r.llm
    BY <2>2 DEF SetAnswer, Row
  <2> QED
    BY <1>1, <2>3 DEF PredictionRows
<1> QED
  BY <1>1, <1>2, <1>3

\* update_record writes the llm_status it is given.
LEMMA SetLLMSets ==
    ASSUME NEW q \in Extractable, NEW r \in Row, NEW l
    PROVE  SetLLM(q, r, l).llm = l
BY DEF Extractable, SetLLM, UpdateRecord, Row

\* After an extraction llm_status is FINISH or FAILED.
LEMMA ExtractionEnds ==
    ASSUME NEW q \in Extractable, NEW r \in Row
    PROVE  Extracted(q, r).llm = "FINISH" /\ ExtractionFailed(q, r).llm = "FAILED"
<1>1. \A p \in SUBSET Source : [r EXCEPT !.preset = p] \in Row
  BY DEF Row
<1>2. \A t \in Row, l \in LLMStatus : SetAnswer(SetLLM(q, t, l)).llm = l
  BY SetLLMSets, SetLLMType DEF SetAnswer, Row, Extractable
<1>3. {"studio"} \cup (IF MergesPredictor(q, r) THEN r.preset ELSE {}) \in SUBSET Source
  BY DEF Row, Source
<1> QED
  BY <1>1, <1>2, <1>3 DEF Extracted, ExtractionFailed, LLMStatus

\* What has to be shown of a step of w.
LEMMA AwaitStep ==
    ASSUME TypeInv, AwaitInv, NEW w \in Worker,
           \A v \in Worker \ {w} : pc'[v] = pc[v] /\ job'[v] = job[v],
           \A q \in Question : lock[q] \notin {w, None} => draft'[q].llm = draft[q].llm,
           \A q \in Extractable : Waits(q)' => Waits(q) \/ AnswerUnderWay(q)',
           \A q \in Extractable : AnswerUnderWay(q) => AnswerUnderWay(q)' \/ ~Waits(q)',
           Told(w)'
    PROVE  AwaitInv'
<1>1. ASSUME NEW v \in Worker \ {w} PROVE Told(v)'
  <2> SUFFICES ASSUME Told(v)!1 PROVE draft'[job[v].question].llm # "DOING"
    BY <1>1 DEF Told
  <2>1. job[v].question \in Question /\ lock[job[v].question] = v
    BY DEF TypeInv, Controlled, Control, InCallback, Job, Message, Extractable
  <2>2. lock[job[v].question] \notin {w, None}
    BY <2>1, QuestionPredictAssumption
  <2> QED
    BY <2>1, <2>2 DEF AwaitInv, Told
<1>2. \A q \in Extractable : Waits(q)' => AnswerUnderWay(q)'
  BY DEF AwaitInv
<1> QED
  BY <1>1, <1>2 DEF AwaitInv

\* An answer stays under way when the queue, the studio and the callbacks do.
LEMMA UnderWayKept ==
    ASSUME NEW w \in Worker, NEW q, UNCHANGED <<queue, studio>>,
           \A v \in Worker \ {w} : pc'[v] = pc[v] /\ job'[v] = job[v],
           Busy(w, q) => Busy(w, q)', AnswerUnderWay(q)
    PROVE  AnswerUnderWay(q)'
BY DEF AnswerUnderWay, Busy

\* Every step of preset_answer_by_fid keeps AwaitInv,
LEMMA AwaitPredict ==
    ASSUME TypeInv, AwaitInv, NEW w \in Worker, Predict(w)
    PROVE  AwaitInv'
<1>0. Control(w) /\ Predictable \subseteq Question /\ Extractable \subseteq Question
  BY DEF TypeInv, Controlled, Predictable, Extractable
<1>1. job[w].kind = "predict"
  BY <1>0 DEF Predict, PredictLock, PredictNothing, PredictNoInterdoc, PredictSkip, PredictBegin,
              PredictEnd, PredictCommit, PredictPipe, At, Control
<1>2. UNCHANGED <<queue, studio>> /\ \A v \in Worker \ {w} : pc'[v] = pc[v] /\ job'[v] = job[v]
  BY DEF Predict, PredictLock, PredictNothing, PredictNoInterdoc, PredictSkip, PredictBegin,
         PredictEnd, PredictCommit, PredictPipe, EndJob, Goto, TypeInv, TypeOK
<1>3. pc'[w] = "idle" \/ job'[w] = job[w]
  BY DEF Predict, PredictLock, PredictNothing, PredictNoInterdoc, PredictSkip, PredictBegin,
         PredictEnd, PredictCommit, PredictPipe, EndJob, Goto, TypeInv, TypeOK
<1>4. ASSUME NEW q \in Question PROVE draft'[q].llm = draft[q].llm
  <2>1. CASE PredictSkip(w)
    <3>1. PICK p \in todo[w] : \E r \in NotPredicted(p, draft[p], job[w].force) :
              draft' = [draft EXCEPT ![p] = r]
      BY <2>1 DEF PredictSkip
    <3> QED
      BY <3>1, PredictorKeepsLLM DEF TypeInv, TypeOK
  <2>2. CASE PredictBegin(w)
    <3>1. PICK p \in todo[w] : draft' = [draft EXCEPT ![p] = SetExclusive(p, @, "DOING")]
      BY <2>2 DEF PredictBegin
    <3> QED
      BY <3>1, PredictorKeepsLLM DEF TypeInv, TypeOK, AIStatus
  <2>3. CASE PredictEnd(w)
    <3>1. cur[w] \in Question
      BY <1>0, <2>3 DEF PredictEnd, Control
    <3> QED
      BY <2>3, <3>1, PredictorKeepsLLM DEF PredictEnd, TypeInv, TypeOK
  <2>4. CASE draft' = draft
    BY <2>4
  <2> QED
    BY <2>1, <2>2, <2>3, <2>4
    DEF Predict, PredictLock, PredictNothing, PredictNoInterdoc, PredictCommit, PredictPipe, Commit
<1>5. ASSUME NEW q \in Question PROVE row'[q] \in {row[q], draft[q]}
  BY DEF Predict, PredictLock, PredictNothing, PredictNoInterdoc, PredictSkip, PredictBegin,
         PredictEnd, PredictCommit, PredictPipe, Commit
<1>6. \A q \in Extractable : Waits(q)' => Waits(q)
  BY <1>0, <1>4, <1>5 DEF Waits
<1>7. \A q \in Extractable : AnswerUnderWay(q) => AnswerUnderWay(q)'
  BY <1>1, <1>2, <1>3, UnderWayKept DEF Busy
<1>8. Told(w)'
  BY <1>1, <1>3 DEF Told
<1> QED
  BY <1>2, <1>4, <1>6, <1>7, <1>8, AwaitStep

\* A write of the callback's or submission's transaction.
LEMMA OthersKeepLLM ==
    ASSUME TypeInv, NEW w \in Worker, NEW p \in Question, lock[p] = w,
           NEW r, draft' = [draft EXCEPT ![p] = r]
    PROVE  \A q \in Question : lock[q] \notin {w, None} => draft'[q].llm = draft[q].llm
BY DEF TypeInv, TypeOK

\* and so does every step of process_file_extract,
LEMMA AwaitExtract ==
    ASSUME TypeInv, AwaitInv, NEW w \in Worker, Extract(w)
    PROVE  AwaitInv'
<1>q. PICK q : q = job[w].question
  OBVIOUS
<1>0. Control(w) /\ Extractable \subseteq Question
  BY DEF TypeInv, Controlled, Extractable
<1>1. job[w].kind = "callback" /\ pc[w] # "idle"
  BY <1>0 DEF Extract, ExtractLock, ExtractError, ExtractResult, ExtractPipe, ExtractPipeError,
              ExtractCommit, At, Control
<1>2. q \in Extractable /\ q \in Question /\ draft[q] \in Row
  BY <1>q, <1>0, <1>1 DEF Control, Job, Message, Extractable, TypeInv, TypeOK
<1>3. UNCHANGED <<queue, studio>> /\ \A v \in Worker \ {w} : pc'[v] = pc[v] /\ job'[v] = job[v]
  BY DEF Extract, ExtractLock, ExtractError, ExtractResult, ExtractPipe, ExtractPipeError,
         ExtractCommit, EndJob, Goto, TypeInv, TypeOK
<1>4. CASE ExtractLock(w) \/ ExtractPipe(w)
  <2>1. row' = row /\ draft' = draft /\ job' = job /\ pc'[w] # "idle"
    BY <1>4 DEF ExtractLock, ExtractPipe, Goto, TypeInv, TypeOK
  <2>2. \A p \in Extractable : AnswerUnderWay(p) => AnswerUnderWay(p)'
    BY <1>1, <1>3, <2>1, UnderWayKept DEF Busy
  <2>3. Told(w)'
    BY <1>4, <2>1 DEF ExtractLock, ExtractPipe, At, Goto, Told, AwaitInv, TypeInv, TypeOK
  <2> QED
    BY <1>3, <2>1, <2>2, <2>3, AwaitStep DEF Waits
<1>5. CASE ExtractError(w) \/ ExtractResult(w) \/ ExtractPipeError(w)
  <2>1. InCallback(w) /\ lock[q] = w
    BY <1>q, <1>0, <1>1, <1>5 DEF ExtractError, ExtractResult, ExtractPipeError, At, InCallback, Control
  <2>2. PICK r : r.llm # "DOING" /\ draft' = [draft EXCEPT ![q] = r]
    <3>1. CASE ExtractError(w) \/ ExtractPipeError(w)
      <4>1. draft' = [draft EXCEPT ![q] = SetLLM(q, draft[q], "FAILED")]
        BY <1>q, <3>1 DEF ExtractError, ExtractPipeError
      <4>2. SetLLM(q, draft[q], "FAILED").llm = "FAILED"
        BY <1>2, SetLLMSets
      <4> QED
        BY <4>1, <4>2
    <3>2. CASE ExtractResult(w)
      BY <1>q, <1>2, <3>2, ExtractionEnds DEF ExtractResult
    <3> QED
      BY <1>5, <3>1, <3>2
  <2>3. row' = row /\ job' = job /\ pc'[w] # "idle"
    BY <1>5 DEF ExtractError, ExtractResult, ExtractPipeError, Goto, TypeInv, TypeOK
  <2>4. draft'[q].llm # "DOING" /\ \A p \in Question \ {q} : draft'[p] = draft[p]
    BY <1>2, <2>2 DEF TypeInv, TypeOK
  <2>5. \A p \in Extractable : Waits(p)' => Waits(p)
    BY <1>0, <2>3, <2>4 DEF Waits
  <2>6. \A p \in Extractable : AnswerUnderWay(p) => AnswerUnderWay(p)'
    BY <1>1, <1>3, <2>3, UnderWayKept DEF Busy
  <2>7. Told(w)'
    BY <1>q, <2>3, <2>4 DEF Told
  <2>8. \A p \in Question : lock[p] \notin {w, None} => draft'[p].llm = draft[p].llm
    BY <1>2, <2>1, <2>2, OthersKeepLLM
  <2> QED
    BY <1>3, <2>5, <2>6, <2>7, <2>8, AwaitStep
<1>6. CASE ExtractCommit(w)
  <2>1. lock[q] = w /\ draft[q].llm # "DOING"
    BY <1>q, <1>0, <1>1, <1>6 DEF ExtractCommit, InCallback, Control, AwaitInv, Told
  <2>2. draft' = draft /\ row'[q] = draft[q] /\ \A p \in Question : row'[p] \in {row[p], draft[p]}
    BY <1>2, <1>6, <2>1 DEF ExtractCommit, Commit
  <2>3. ~Waits(q)' /\ \A p \in Extractable : Waits(p)' => Waits(p)
    BY <1>0, <2>1, <2>2 DEF Waits
  <2>4. ASSUME NEW p \in Extractable, AnswerUnderWay(p) PROVE AnswerUnderWay(p)' \/ ~Waits(p)'
    <3>1. CASE p = q
      BY <2>3, <3>1
    <3>2. CASE p # q
      BY <1>q, <1>3, <2>4, <3>2, UnderWayKept DEF Busy
    <3> QED
      BY <3>1, <3>2
  <2>5. Told(w)'
    BY <1>6 DEF ExtractCommit, EndJob, Goto, Told, TypeInv, TypeOK
  <2> QED
    BY <1>3, <2>2, <2>3, <2>4, <2>5, AwaitStep
<1> QED
  BY <1>4, <1>5, <1>6 DEF Extract

\* every step of a submission to the studio,
LEMMA AwaitSubmit ==
    ASSUME TypeInv, AwaitInv, NEW w \in Worker, Submit(w)
    PROVE  AwaitInv'
<1>0. Control(w) /\ Extractable \subseteq Question
  BY DEF TypeInv, Controlled, Extractable
<1>1. job[w].kind = "studio"
  BY <1>0 DEF Submit, StudioLock, StudioSkip, StudioCall, StudioCommit, StudioDone, At, Control
<1>2. \A v \in Worker \ {w} : pc'[v] = pc[v] /\ job'[v] = job[v]
  BY DEF Submit, StudioLock, StudioSkip, StudioCall, StudioCommit, StudioDone, EndJob, Goto,
         TypeInv, TypeOK
<1>3. pc'[w] = "idle" \/ job'[w] = job[w]
  BY DEF Submit, StudioLock, StudioSkip, StudioCall, StudioCommit, StudioDone, EndJob, Goto,
         TypeInv, TypeOK
<1>4. Told(w)'
  BY <1>1, <1>3 DEF Told
<1>5. CASE StudioCall(w)
  <2> DEFINE q == cur[w]
  <2>1. q \in Extractable /\ q \in Question /\ lock[q] = w /\ draft[q] \in Row
    BY <1>0, <1>1, <1>5 DEF StudioCall, Control, InStudio, TypeInv, TypeOK
  <2>2. PICK accepted \in BOOLEAN, heard \in BOOLEAN :
            /\ studio' = [studio EXCEPT ![q] = IF accepted THEN @ + 1 ELSE @]
            /\ draft' = [draft EXCEPT ![q] = SetLLM(q, @, IF accepted /\ heard THEN "DOING" ELSE "FAILED")]
    BY <1>5 DEF StudioCall
  <2>3. queue' = queue /\ row' = row /\ job' = job
    BY <1>5 DEF StudioCall
  <2>4. \A p \in Question : studio[p] > 0 => studio'[p] > 0
    BY <2>1, <2>2 DEF TypeInv, TypeOK
  <2>5. \A p \in Extractable : AnswerUnderWay(p) => AnswerUnderWay(p)'
    BY <1>0, <1>1, <1>2, <2>3, <2>4 DEF AnswerUnderWay
  <2>6. CASE accepted
    <3>1. studio'[q] > 0
      BY <2>1, <2>2, <2>6 DEF TypeInv, TypeOK
    <3>2. \A p \in Question \ {q} : draft'[p] = draft[p]
      BY <2>1, <2>2 DEF TypeInv, TypeOK
    <3>3. \A p \in Extractable : Waits(p)' => Waits(p) \/ AnswerUnderWay(p)'
      BY <1>0, <2>3, <3>1, <3>2 DEF Waits, AnswerUnderWay
    <3>4. \A p \in Question : lock[p] \notin {w, None} => draft'[p].llm = draft[p].llm
      BY <2>1, <3>2
    <3> QED
      BY <1>2, <1>4, <2>5, <3>3, <3>4, AwaitStep
  <2>7. CASE ~accepted
    <3>1. draft' = [draft EXCEPT ![q] = SetLLM(q, @, "FAILED")]
      BY <2>2, <2>7
    <3>2. draft'[q].llm # "DOING" /\ \A p \in Question \ {q} : draft'[p] = draft[p]
      BY <2>1, <3>1, SetLLMSets DEF TypeInv, TypeOK
    <3>3. \A p \in Extractable : Waits(p)' => Waits(p)
      BY <1>0, <2>3, <3>2 DEF Waits
    <3>4. \A p \in Question : lock[p] \notin {w, None} => draft'[p].llm = draft[p].llm
      BY <2>1, <3>2
    <3> QED
      BY <1>2, <1>4, <2>5, <3>3, <3>4, AwaitStep
  <2> QED
    BY <2>6, <2>7
<1>6. CASE ~StudioCall(w)
  <2>1. UNCHANGED <<queue, studio>> /\ draft' = draft /\ \A q \in Question : row'[q] \in {row[q], draft[q]}
    BY <1>6 DEF Submit, StudioLock, StudioSkip, StudioCommit, StudioDone, Commit
  <2>2. \A q \in Extractable : Waits(q)' => Waits(q)
    BY <1>0, <2>1 DEF Waits
  <2>3. \A q \in Extractable : AnswerUnderWay(q) => AnswerUnderWay(q)'
    BY <1>1, <1>2, <2>1, UnderWayKept DEF Busy
  <2> QED
    BY <1>2, <1>4, <2>1, <2>2, <2>3, AwaitStep
<1> QED
  BY <1>5, <1>6

\* Everything that is not a step of a running job.
LEMMA AwaitOther ==
    ASSUME TypeInv, AwaitInv, NEW w \in Worker, Receive(w) \/ ResetStart(w) \/ Reset(w)
    PROVE  AwaitInv'
<1>0. Extractable \subseteq Question
  BY DEF Extractable
<1>1. \A v \in Worker \ {w} : pc'[v] = pc[v] /\ job'[v] = job[v]
  BY DEF Receive, ResetStart, Reset, ResetOne, ResetDispatch, EndJob, Goto, TypeInv, TypeOK
<1>2. studio' = studio /\ pc[w] \in {"idle", "start"} /\ pc'[w] \in {"idle", "start"}
  BY DEF Receive, ResetStart, Reset, ResetOne, ResetDispatch, At, EndJob, Goto, TypeInv, TypeOK
<1>3. Told(w)'
  BY <1>2 DEF Told
<1>4. CASE Receive(w)
  <2>1. PICK m \in Message : queue' = [queue EXCEPT ![m] = @ - 1] /\ job' = [job EXCEPT ![w] = m]
    BY <1>4 DEF Receive
  <2>2. row' = row /\ draft' = draft /\ pc[w] = "idle" /\ pc'[w] = "start" /\ job'[w] = m
    BY <1>4, <2>1 DEF Receive, Goto, TypeInv, TypeOK
  <2>3. ASSUME NEW q \in Extractable, AnswerUnderWay(q) PROVE AnswerUnderWay(q)'
    <3>1. CASE \E ok \in BOOLEAN : queue[[kind |-> "callback", question |-> q, ok |-> ok]] > 0
      <4>1. PICK ok \in BOOLEAN : queue[[kind |-> "callback", question |-> q, ok |-> ok]] > 0
        BY <3>1
      <4> DEFINE c == [kind |-> "callback", question |-> q, ok |-> ok]
      <4>2. c \in Message
        BY DEF Message
      <4>3. CASE m = c
        <5>1. job'[w].kind = "callback" /\ job'[w].question = q
          BY <2>2, <4>3
        <5> QED
          BY <2>2, <5>1 DEF AnswerUnderWay
      <4>4. CASE m # c
        <5>1. queue'[c] = queue[c]
          BY <2>1, <4>2, <4>4 DEF TypeInv, TypeOK
        <5> QED
          BY <4>1, <5>1 DEF AnswerUnderWay
      <4> QED
        BY <4>3, <4>4
    <3>2. CASE ~\E ok \in BOOLEAN : queue[[kind |-> "callback", question |-> q, ok |-> ok]] > 0
      BY <1>1, <1>2, <2>2, <2>3, <3>2 DEF AnswerUnderWay
    <3> QED
      BY <3>1, <3>2
  <2> QED
    BY <1>1, <1>3, <2>2, <2>3, AwaitStep DEF Waits
<1>5. CASE ResetStart(w)
  <2>1. UNCHANGED <<row, draft, queue>> /\ pc[w] = "idle"
    BY <1>5 DEF ResetStart
  <2>2. \A q \in Extractable : AnswerUnderWay(q) => AnswerUnderWay(q)'
    BY <1>1, <1>2, <2>1, UnderWayKept DEF Busy
  <2> QED
    BY <1>1, <1>3, <2>1, <2>2, AwaitStep DEF Waits
<1>6. CASE ResetOne(w)
  <2>1. PICK p \in todo[w] : /\ lock[p] = None
                             /\ row' = [row EXCEPT ![p] = ResetRow(p, @, job[w].skipped)]
                             /\ draft' = [draft EXCEPT ![p] = row'[p]]
    BY <1>6 DEF ResetOne
  <2>2. p \in Question /\ UNCHANGED <<pc, job, queue>>
    BY <1>6, <2>1 DEF ResetOne, TypeInv, TypeOK
  <2>3. row'[p].llm # "DOING" /\ draft'[p] = row'[p]
    BY <2>1, <2>2 DEF ResetRow, TypeInv, TypeOK, Row
  <2>4. \A q \in Question \ {p} : row'[q] = row[q] /\ draft'[q] = draft[q]
    BY <2>1, <2>2 DEF TypeInv, TypeOK
  <2>5. \A q \in Extractable : Waits(q)' => Waits(q)
    BY <1>0, <2>3, <2>4 DEF Waits
  <2>6. \A q \in Extractable : AnswerUnderWay(q) => AnswerUnderWay(q)'
    BY <1>2, <2>2 DEF AnswerUnderWay
  <2>7. \A q \in Question : lock[q] \notin {w, None} => draft'[q].llm = draft[q].llm
    BY <2>1, <2>4
  <2> QED
    BY <1>1, <1>3, <2>5, <2>6, <2>7, AwaitStep
<1>7. CASE ResetDispatch(w)
  <2>1. UNCHANGED <<row, draft>> /\ job[w].kind = "reset"
    BY <1>7 DEF ResetDispatch, At
  <2>2. \A m \in Message : queue[m] > 0 => queue'[m] > 0
    BY <1>7 DEF ResetDispatch, Send, TypeInv, TypeOK
  <2>3. ASSUME NEW q \in Extractable, AnswerUnderWay(q) PROVE AnswerUnderWay(q)'
    <3>1. \A ok \in BOOLEAN : [kind |-> "callback", question |-> q, ok |-> ok] \in Message
      BY DEF Message
    <3> QED
      BY <1>1, <1>2, <2>1, <2>2, <2>3, <3>1 DEF AnswerUnderWay
  <2> QED
    BY <1>1, <1>3, <2>1, <2>3, AwaitStep DEF Waits
<1> QED
  BY <1>4, <1>5, <1>6, <1>7 DEF Reset

\* and the studio itself.
LEMMA AwaitWorld ==
    ASSUME TypeInv, AwaitInv, (\E q \in Question : StudioFinish(q) \/ StudioSpontaneous(q)) \/ Rerun
    PROVE  AwaitInv'
<1>1. UNCHANGED <<row, draft, pc, job>>
  BY DEF StudioFinish, StudioSpontaneous, Rerun
<1>2. ASSUME NEW q \in Extractable, NEW ok \in BOOLEAN
      PROVE  [kind |-> "callback", question |-> q, ok |-> ok] \in Message
  BY DEF Message
<1>3. ASSUME NEW q \in Extractable, AnswerUnderWay(q) PROVE AnswerUnderWay(q)'
  <2>1. CASE Rerun
    <3>1. studio' = studio /\ \A m \in Message : queue[m] > 0 => queue'[m] > 0
      BY <2>1 DEF Rerun, Send, TypeInv, TypeOK
    <3> QED
      BY <1>1, <1>2, <1>3, <3>1 DEF AnswerUnderWay
  <2>2. ASSUME NEW p \in Question, StudioSpontaneous(p) PROVE AnswerUnderWay(q)'
    <3>1. queue' = queue /\ (studio[q] > 0 => studio'[q] > 0)
      BY <2>2 DEF StudioSpontaneous, TypeInv, TypeOK, Extractable
    <3> QED
      BY <1>1, <1>3, <3>1 DEF AnswerUnderWay
  <2>3. ASSUME NEW p \in Question, StudioFinish(p) PROVE AnswerUnderWay(q)'
    <3>1. PICK ok \in BOOLEAN : Send({[kind |-> "callback", question |-> p, ok |-> ok]})
      BY <2>3 DEF StudioFinish
    <3>2. p \in Extractable /\ \A m \in Message : queue[m] > 0 => queue'[m] > 0
      BY <2>3, <3>1 DEF StudioFinish, Send, TypeInv, TypeOK
    <3>3. CASE p = q
      <4>1. queue'[[kind |-> "callback", question |-> q, ok |-> ok]] > 0
        BY <1>2, <3>1, <3>3 DEF Send, TypeInv, TypeOK
      <4> QED
        BY <4>1 DEF AnswerUnderWay
    <3>4. CASE p # q
      <4>1. studio'[q] = studio[q]
        BY <2>3, <3>4 DEF StudioFinish, TypeInv, TypeOK, Extractable
      <4> QED
        BY <1>1, <1>2, <1>3, <3>2, <4>1 DEF AnswerUnderWay
    <3> QED
      BY <3>3, <3>4
  <2> QED
    BY <2>1, <2>2, <2>3
<1>4. \A w \in Worker : Told(w)'
  BY <1>1 DEF AwaitInv, Told
<1>5. \A q \in Extractable : Waits(q)' => AnswerUnderWay(q)'
  BY <1>1, <1>3 DEF AwaitInv, Waits
<1> QED
  BY <1>4, <1>5 DEF AwaitInv

\* AwaitInv is inductive while no process dies.
LEMMA AwaitNext ==
    ASSUME "crash" \notin Faults
    PROVE  TypeInv /\ AwaitInv /\ [Next]_vars => AwaitInv'
<1> SUFFICES ASSUME TypeInv, AwaitInv, [Next]_vars PROVE AwaitInv'
  OBVIOUS
<1>1. CASE UNCHANGED vars
  BY <1>1 DEF vars, AwaitInv, Waits, Told, AnswerUnderWay
<1>2. CASE Next
  <2>1. \A w \in Worker : ~Crash(w)
    BY DEF Crash
  <2> QED
    BY <1>2, <2>1, AwaitPredict, AwaitExtract, AwaitSubmit, AwaitOther, AwaitWorld DEF Next, Work
<1> QED
  BY <1>1, <1>2

\* As long as no process dies, nobody waits for the studio in vain.
THEOREM DoingIsAlwaysAnswered ==
    ASSUME "crash" \notin Faults
    PROVE  Spec => []DoingIsAnswered
<1>1. Init => TypeInv /\ AwaitInv
  BY TypeInit, AwaitInit
<1>2. TypeInv /\ AwaitInv /\ [Next]_vars => (TypeInv /\ AwaitInv)'
  BY TypeNext, AwaitNext
<1>3. AwaitInv => DoingIsAnswered
  BY AwaitAnswers
<1> QED
  BY <1>1, <1>2, <1>3, PTL DEF Spec

-----------------------------------------------------------------------------
(* The committed rows implement Producers: every transaction that commits is  *)
(* a whole run of one producer on the row it found.                           *)

\* The predictor's status in a row.
Part(q, r) == IF MoldType[q] = "COMPLEX" THEN r.ai ELSE r.exclusive

\* The items a producer publishes.
Publishes(q, producer, other, status) ==
    {producer} \cup {o \in {other} : q \in Predictable \cap Extractable /\ status = "FINISH"}

\* A run of the predictor that finds r and leaves s.
PredictorRun(q, r, s) ==
    /\ s.llm = r.llm
    /\ \/ Part(q, s) \in {Part(q, r), "DISABLE", "UNCORRELATED"} /\ s.answer = r.answer
       \/ /\ Part(q, r) # "SKIP_PREDICT"
          /\ \/ Part(q, s) = "FAILED" /\ s.answer = r.answer
             \/ /\ Part(q, s) = "FINISH"
                /\ s.answer = Publishes(q, "predictor", "studio", r.llm)

\* A run of the studio's tasks or of its callback.
StudioRun(q, r, s) ==
    /\ Part(q, s) = Part(q, r)
    /\ \/ s.llm \in {r.llm, "DOING", "FAILED"} /\ s.answer = r.answer
       \/ s.llm = "FAILED" /\ s.answer = {}
       \/ /\ s.llm \in {"FINISH", "FAILED"}
          /\ s.answer = Publishes(q, "studio", "predictor", Part(q, r))

\* The transaction of w has its copy of q's row as it found it, as the prophet
\* begins with it, or as a whole run leaves it.
Predicting(w, q) ==
    \/ /\ q \in todo[w] /\ ~(pc[w] = "run" /\ cur[w] = q)
       /\ draft[q] = row[q]
    \/ /\ q \notin todo[w] /\ pc[w] = "run" /\ cur[w] = q
       /\ Part(q, row[q]) # "SKIP_PREDICT" /\ draft[q] = SetExclusive(q, row[q], "DOING")
    \/ /\ q \notin todo[w] /\ ~(pc[w] = "run" /\ cur[w] = q)
       /\ PredictorRun(q, row[q], draft[q])

\* A lock is held for the question that is worked on, and by nobody else.
Holds(w, q) ==
    \/ pc[w] \in {"predict", "run"} /\ q \in Predictable /\ Predicting(w, q)
    \/ /\ InCallback(w) /\ q = job[w].question
       /\ IF pc[w] = "extract" THEN draft[q] = row[q] ELSE StudioRun(q, row[q], draft[q])
    \/ /\ InStudio(w) /\ q = cur[w]
       /\ IF pc[w] = "call" THEN draft[q] = row[q] ELSE StudioRun(q, row[q], draft[q])

Turn(q) ==
    IF lock[q] = None THEN draft[q] = row[q]
    ELSE Holds(lock[q], q)

TurnInv == \A q \in Question : Turn(q)

Base == TypeInv /\ SafeInv /\ TurnInv

\* A question is to be skipped when the predictor is to skip it.
LEMMA SkipsPart ==
    ASSUME NEW q \in Predictable, NEW r \in Row, Good(q, r), r.ai # "SKIP_PREDICT"
    PROVE  Part(q, r) # "SKIP_PREDICT"
BY QuestionPredictAssumption DEF Good, Part, Predictable, HybridStatus

\* What the predictor's side of update_record leaves alone.
LEMMA SetExclusiveIs ==
    ASSUME NEW q \in Predictable, NEW r \in Row, NEW s \in AIStatus
    PROVE  /\ Part(q, SetExclusive(q, r, s)) = s
           /\ SetExclusive(q, r, s).llm = r.llm
           /\ SetExclusive(q, r, s).answer = r.answer
           /\ SetExclusive(q, r, s).preset = r.preset
<1>1. CASE MoldType[q] = "COMPLEX"
  BY <1>1 DEF Part, SetExclusive, UpdateRecord, Row
<1>2. CASE MoldType[q] = "HYBRID"
  BY <1>2 DEF Part, SetExclusive, UpdateRecord, Row
<1> QED
  BY <1>1, <1>2, QuestionPredictAssumption DEF Predictable

\* And the studio's.
LEMMA SetLLMIs ==
    ASSUME NEW q \in Extractable, NEW r \in Row, NEW l \in LLMStatus
    PROVE  /\ Part(q, SetLLM(q, r, l)) = Part(q, r)
           /\ SetLLM(q, r, l).llm = l
           /\ SetLLM(q, r, l).answer = r.answer
           /\ SetLLM(q, r, l).preset = r.preset
<1>1. MoldType[q] # "COMPLEX"
  BY DEF Extractable
<1> QED
  BY <1>1 DEF Part, SetLLM, UpdateRecord, Row

\* A prediction that does not start is a run.
LEMMA SkipRuns ==
    ASSUME NEW q \in Predictable, NEW r \in Row, Good(q, r), NEW force,
           NEW s \in NotPredicted(q, r, force)
    PROVE  PredictorRun(q, r, s)
<1>1. \/ s = r
      \/ s = SetExclusive(q, r, "DISABLE")
      \/ s = SetExclusive(q, r, "UNCORRELATED")
      \/ r.ai # "SKIP_PREDICT" /\ s = SetExclusive(q, r, "FAILED")
  BY DEF NotPredicted
<1>2. \A t \in {"DISABLE", "UNCORRELATED", "FAILED"} :
         /\ Part(q, SetExclusive(q, r, t)) = t
         /\ SetExclusive(q, r, t).llm = r.llm
         /\ SetExclusive(q, r, t).answer = r.answer
  BY SetExclusiveIs DEF AIStatus
<1> QED
  BY <1>1, <1>2, SkipsPart DEF PredictorRun

\* So is one that ends, whatever the prophet did.
LEMMA PredictionRuns ==
    ASSUME NEW q \in Predictable, NEW r \in Row, Good(q, r), Part(q, r) # "SKIP_PREDICT",
           NEW s \in PredictionRows(q, SetExclusive(q, r, "DOING"))
    PROVE  PredictorRun(q, r, s)
<1> DEFINE d == SetExclusive(q, r, "DOING")
           p == {"predictor"} \cup (IF MergesStudio(q, d) THEN d.preset ELSE {})
           t == [d EXCEPT !.preset = p]
<1>1. /\ d \in Row /\ d.llm = r.llm /\ d.answer = r.answer /\ d.preset = r.preset
  BY SetExclusiveIs, SetExclusiveType DEF AIStatus, Predictable
<1>2. \/ s = SetExclusive(q, d, "FAILED")
      \/ s = SetAnswer(SetExclusive(q, t, "FINISH"))
  BY DEF PredictionRows
<1>3. CASE s = SetExclusive(q, d, "FAILED")
  <2> HIDE DEF d
  <2>1. Part(q, s) = "FAILED" /\ s.llm = d.llm /\ s.answer = d.answer
    BY <1>1, <1>3, SetExclusiveIs DEF AIStatus
  <2> QED
    BY <1>1, <2>1 DEF PredictorRun
<1>4. CASE s = SetAnswer(SetExclusive(q, t, "FINISH"))
  <2>1. p = Publishes(q, "predictor", "studio", r.llm)
    <3>1. CASE MergesStudio(q, d)
      <4>1. MoldType[q] = "HYBRID" /\ r.llm = "FINISH"
        BY <1>1, <3>1 DEF MergesStudio
      <4>2. "studio" \in r.preset /\ r.preset \subseteq {"predictor", "studio"}
        BY <4>1 DEF Good, Row, Source
      <4>3. q \in Predictable \cap Extractable
        BY <4>1 DEF Extractable, Predictable
      <4> HIDE DEF d
      <4> QED
        BY <1>1, <3>1, <4>1, <4>2, <4>3 DEF Publishes
    <3>2. CASE ~MergesStudio(q, d)
      <4>1. ~(q \in Predictable \cap Extractable /\ r.llm = "FINISH")
        BY <1>1, <3>2, QuestionPredictAssumption DEF MergesStudio, Extractable, Predictable
      <4> HIDE DEF d
      <4> QED
        BY <3>2, <4>1 DEF Publishes
    <3> QED
      BY <3>1, <3>2
  <2>2. p \subseteq Source
    BY <1>1 DEF Row, Source
  <2> HIDE DEF d, p
  <2>3. t \in Row /\ t.llm = d.llm /\ t.preset = p
    BY <1>1, <2>2 DEF Row
  <2> HIDE DEF t
  <2> DEFINE e == SetExclusive(q, t, "FINISH")
  <2>4. e \in Row /\ Part(q, e) = "FINISH" /\ e.llm = t.llm /\ e.preset = t.preset
    BY <2>3, SetExclusiveIs, SetExclusiveType DEF AIStatus, Predictable
  <2> HIDE DEF e
  <2>5. s = SetAnswer(e)
    BY <1>4 DEF e
  <2>6. Part(q, s) = "FINISH" /\ s.llm = t.llm /\ s.answer = p
    BY <2>3, <2>4, <2>5 DEF SetAnswer, Part, Row
  <2> QED
    BY <1>1, <2>1, <2>3, <2>6 DEF PredictorRun
<1> QED
  BY <1>2, <1>3, <1>4

\* A submission is a run of the studio's tasks, as is one that is left out.
LEMMA SubmitRuns ==
    ASSUME NEW q \in Extractable, NEW r \in Row, NEW l \in {"DOING", "FAILED"}
    PROVE  StudioRun(q, r, r) /\ StudioRun(q, r, SetLLM(q, r, l))
<1>1. l \in LLMStatus
  BY DEF LLMStatus
<1> QED
  BY <1>1, SetLLMIs DEF StudioRun

\* A callback that brings a result is a run,
LEMMA ExtractRuns ==
    ASSUME NEW q \in Extractable, NEW r \in Row, Good(q, r),
           ~(MergesPredictor(q, r) /\ r.preset = {})
    PROVE  StudioRun(q, r, Extracted(q, r))
<1> DEFINE p == {"studio"} \cup (IF MergesPredictor(q, r) THEN r.preset ELSE {})
           t == [r EXCEPT !.preset = p]
<1>1. p = Publishes(q, "studio", "predictor", Part(q, r))
  <2>1. CASE MergesPredictor(q, r)
    <3>1. MoldType[q] = "HYBRID" /\ r.exclusive = "FINISH"
      BY <2>1 DEF MergesPredictor
    <3>2. "predictor" \in r.preset /\ r.preset \subseteq {"predictor", "studio"}
      BY <2>1, <3>1 DEF Good, Row, Source
    <3>3. q \in Predictable \cap Extractable /\ Part(q, r) = "FINISH"
      BY <3>1 DEF Predictable, Extractable, Part
    <3> QED
      BY <2>1, <3>2, <3>3 DEF Publishes
  <2>2. CASE ~MergesPredictor(q, r)
    <3>1. ~(q \in Predictable \cap Extractable /\ Part(q, r) = "FINISH")
      BY <2>2, QuestionPredictAssumption DEF MergesPredictor, Part, Predictable, Extractable
    <3> QED
      BY <2>2, <3>1 DEF Publishes
  <2> QED
    BY <2>1, <2>2
<1>2. p \subseteq Source
  BY DEF Row, Source
<1> HIDE DEF p
<1>3. t \in Row /\ Part(q, t) = Part(q, r) /\ t.preset = p
  BY <1>2 DEF Row, Part
<1>4. Extracted(q, r) = SetAnswer(SetLLM(q, t, "FINISH"))
  BY DEF Extracted, p
<1> HIDE DEF t
<1> DEFINE e == SetLLM(q, t, "FINISH")
<1>5. e \in Row /\ Part(q, e) = Part(q, t) /\ e.llm = "FINISH" /\ e.preset = t.preset
  BY <1>3, SetLLMIs, SetLLMType DEF LLMStatus, Extractable
<1> HIDE DEF e
<1>6. Extracted(q, r) = SetAnswer(e)
  BY <1>4 DEF e
<1>7. /\ Part(q, Extracted(q, r)) = Part(q, r)
      /\ Extracted(q, r).llm = "FINISH" /\ Extracted(q, r).answer = p
  BY <1>3, <1>5, <1>6 DEF SetAnswer, Part, Row
<1> QED
  BY <1>1, <1>7 DEF StudioRun

\* one that brings a failure is, too,
LEMMA FailureRuns ==
    ASSUME NEW q \in Extractable, NEW r \in Row
    PROVE  StudioRun(q, r, ExtractionFailed(q, r))
<1> DEFINE t == [r EXCEPT !.preset = {}]
<1>1. t \in Row /\ Part(q, t) = Part(q, r) /\ t.preset = {}
  BY DEF Row, Part
<1>2. ExtractionFailed(q, r) = SetAnswer(SetLLM(q, t, "FAILED"))
  BY DEF ExtractionFailed
<1> HIDE DEF t
<1> DEFINE e == SetLLM(q, t, "FAILED")
<1>3. e \in Row /\ Part(q, e) = Part(q, t) /\ e.llm = "FAILED" /\ e.preset = t.preset
  BY <1>1, SetLLMIs, SetLLMType DEF LLMStatus, Extractable
<1> HIDE DEF e
<1>4. ExtractionFailed(q, r) = SetAnswer(e)
  BY <1>2 DEF e
<1>5. /\ Part(q, ExtractionFailed(q, r)) = Part(q, r)
      /\ ExtractionFailed(q, r).llm = "FAILED" /\ ExtractionFailed(q, r).answer = {}
  BY <1>1, <1>3, <1>4 DEF SetAnswer, Part, Row
<1> QED
  BY <1>5 DEF StudioRun

\* and one after which a pipe fails.
LEMMA PipeRuns ==
    ASSUME NEW q \in Extractable, NEW r \in Row, NEW s \in Row, StudioRun(q, r, s)
    PROVE  StudioRun(q, r, SetLLM(q, s, "FAILED"))
<1>1. "FAILED" \in LLMStatus
  BY DEF LLMStatus
<1> QED
  BY <1>1, SetLLMIs DEF StudioRun

-----------------------------------------------------------------------------
(* The transactions along the steps. *)

\* A question whose lock another worker holds, or nobody.
LEMMA OthersTurn ==
    ASSUME TypeInv, NEW w \in Worker, NEW q \in Question, Turn(q), lock[q] # w,
           lock'[q] = lock[q], row'[q] = row[q], draft'[q] = draft[q],
           \A v \in Worker \ {w} :
              pc'[v] = pc[v] /\ job'[v] = job[v] /\ todo'[v] = todo[v] /\ cur'[v] = cur[v]
    PROVE  Turn(q)'
<1>1. CASE lock[q] = None
  BY <1>1 DEF Turn
<1>2. CASE lock[q] # None
  <2>1. lock[q] \in Worker \ {w}
    BY <1>2 DEF TypeInv, TypeOK
  <2> QED
    BY <1>2, <2>1 DEF Turn, Holds, Predicting, InCallback, InStudio
<1> QED
  BY <1>1, <1>2

\* A transaction that ends.
LEMMA EndedTurns ==
    ASSUME TypeInv, TurnInv, NEW w \in Worker, Commit(w) \/ Rollback(w),
           \A v \in Worker \ {w} :
              pc'[v] = pc[v] /\ job'[v] = job[v] /\ todo'[v] = todo[v] /\ cur'[v] = cur[v]
    PROVE  TurnInv'
<1> SUFFICES ASSUME NEW q \in Question PROVE Turn(q)'
  BY DEF TurnInv
<1>1. CASE lock[q] = w
  <2>1. lock'[q] = None /\ draft'[q] = row'[q]
    BY <1>1 DEF Commit, Rollback, Unlock
  <2> QED
    BY <2>1 DEF Turn
<1>2. CASE lock[q] # w
  <2>1. lock'[q] = lock[q] /\ row'[q] = row[q] /\ draft'[q] = draft[q]
    BY <1>2 DEF Commit, Rollback, Unlock
  <2> QED
    BY <1>2, <2>1, OthersTurn DEF TurnInv
<1> QED
  BY <1>1, <1>2

\* A worker outside of its transactions.
LEMMA OutsideTurns ==
    ASSUME TypeInv, TurnInv, NEW w \in Worker, Outside(w), UNCHANGED <<row, draft, lock>>,
           \A v \in Worker \ {w} :
              pc'[v] = pc[v] /\ job'[v] = job[v] /\ todo'[v] = todo[v] /\ cur'[v] = cur[v]
    PROVE  TurnInv'
<1>1. \A q \in Question : lock[q] # w
  BY DEF TypeInv, Controlled, Control
<1> QED
  BY <1>1, OthersTurn DEF TurnInv

\* One that takes a free lock.
LEMMA LockTurns ==
    ASSUME TypeInv, TurnInv, NEW w \in Worker, Outside(w), NEW p \in Question, lock[p] = None,
           lock' = [lock EXCEPT ![p] = w], UNCHANGED <<row, draft>>,
           \/ pc'[w] = "extract" /\ job'[w].kind = "callback" /\ job'[w].question = p
           \/ pc'[w] = "call" /\ job'[w].kind = "studio" /\ cur'[w] = p,
           \A v \in Worker \ {w} :
              pc'[v] = pc[v] /\ job'[v] = job[v] /\ todo'[v] = todo[v] /\ cur'[v] = cur[v]
    PROVE  TurnInv'
<1> SUFFICES ASSUME NEW q \in Question PROVE Turn(q)'
  BY DEF TurnInv
<1>0. lock \in [Question -> Worker \cup {None}] /\ w # None
  BY QuestionPredictAssumption DEF TypeInv, TypeOK
<1>1. CASE q = p
  <2>1. lock'[q] = w /\ draft'[q] = row'[q]
    BY <1>0, <1>1 DEF TurnInv, Turn
  <2>2. Holds(w, q)'
    BY <1>1, <2>1 DEF Holds, InCallback, InStudio
  <2> QED
    BY <1>0, <2>1, <2>2 DEF Turn
<1>2. CASE q # p
  <2>1. lock[q] # w /\ lock'[q] = lock[q]
    BY <1>0, <1>2 DEF TypeInv, Controlled, Control
  <2> QED
    BY <2>1, OthersTurn DEF TurnInv
<1> QED
  BY <1>1, <1>2

\* One that goes on with the question it holds the lock of.
LEMMA WriteTurns ==
    ASSUME TypeInv, TurnInv, NEW w \in Worker, NEW p \in Question, lock[p] = w,
           InCallback(w) \/ InStudio(w), Holds(w, p)',
           UNCHANGED <<row, lock>>, \A q \in Question \ {p} : draft'[q] = draft[q],
           \A v \in Worker \ {w} :
              pc'[v] = pc[v] /\ job'[v] = job[v] /\ todo'[v] = todo[v] /\ cur'[v] = cur[v]
    PROVE  TurnInv'
<1> SUFFICES ASSUME NEW q \in Question PROVE Turn(q)'
  BY DEF TurnInv
<1>0. w # None
  BY QuestionPredictAssumption
<1>1. CASE q = p
  BY <1>0, <1>1 DEF Turn
<1>2. CASE q # p
  <2>1. lock[q] # w
    <3>1. \A x \in {q, p} : lock[x] = w => Holds(w, x)
      BY <1>0 DEF TurnInv, Turn
    <3>2. \A x \in {q, p} : lock[x] = w =>
             \/ InCallback(w) /\ x = job[w].question
             \/ InStudio(w) /\ x = cur[w]
      BY <3>1 DEF Holds, InCallback, InStudio
    <3> QED
      BY <1>2, <3>2 DEF InCallback, InStudio
  <2> QED
    BY <1>2, <2>1, OthersTurn DEF TurnInv
<1> QED
  BY <1>1, <1>2

\* Every step of preset_answer_by_fid keeps the turns,
LEMMA PredictTurns ==
    ASSUME Base, NEW w \in Worker, Predict(w)
    PROVE  TurnInv'
<1>0. /\ TypeInv /\ TurnInv /\ w # None /\ Predictable \subseteq Question
      /\ pc \in [Worker -> {"idle", "start", "predict", "run", "extract", "call",
                            "commit", "audit", "pipe"}]
      /\ todo \in [Worker -> SUBSET Question] /\ cur \in [Worker -> Question \cup {None}]
      /\ draft \in [Question -> Row] /\ row \in [Question -> Row]
      /\ lock \in [Question -> Worker \cup {None}]
  BY QuestionPredictAssumption DEF Base, TypeInv, TypeOK, Predictable
<1>a. ASSUME NEW q \in Question, lock[q] = w, pc[w] \in {"predict", "run"}
      PROVE  q \in Predictable /\ Predicting(w, q) /\ Good(q, row[q])
  BY <1>0, <1>a DEF TurnInv, Turn, Holds, InCallback, InStudio, Base, SafeInv, Rows,
     TypeInv, Controlled, Control
<1>b. ASSUME UNCHANGED <<row, lock, job>>, pc[w] \in {"predict", "run"},
             pc'[w] \in {"predict", "run"},
             \A v \in Worker \ {w} : pc'[v] = pc[v] /\ todo'[v] = todo[v] /\ cur'[v] = cur[v],
             \A q \in Question : lock[q] # w => draft'[q] = draft[q],
             \A q \in Question : lock[q] = w => Predicting(w, q)'
      PROVE  TurnInv'
  <2> SUFFICES ASSUME NEW q \in Question PROVE Turn(q)'
    BY DEF TurnInv
  <2>1. CASE lock[q] = w
    BY <1>0, <1>a, <1>b, <2>1 DEF Turn, Holds
  <2>2. CASE lock[q] # w
    BY <1>0, <1>b, <2>2, OthersTurn DEF TurnInv
  <2> QED
    BY <2>1, <2>2
<1>1. CASE PredictLock(w)
  <2> SUFFICES ASSUME NEW q \in Question PROVE Turn(q)'
    BY DEF TurnInv
  <2>1. /\ UNCHANGED <<row, draft, job, cur>> /\ Outside(w)
        /\ pc' = [pc EXCEPT ![w] = "predict"] /\ todo' = [todo EXCEPT ![w] = Predictable]
        /\ lock' = [p \in Question |-> IF p \in Predictable THEN w ELSE lock[p]]
        /\ \A p \in Predictable : lock[p] = None
    BY <1>1 DEF PredictLock, Goto, At, Outside
  <2>2. lock[q] # w
    BY <1>0, <2>1 DEF TypeInv, Controlled, Control
  <2>3. CASE q \in Predictable
    <3>1. lock'[q] = w /\ draft'[q] = row'[q] /\ pc'[w] = "predict" /\ q \in todo'[w]
      BY <1>0, <2>1, <2>3 DEF TurnInv, Turn
    <3> QED
      BY <1>0, <2>3, <3>1 DEF Turn, Holds, Predicting
  <2>4. CASE q \notin Predictable
    BY <1>0, <2>1, <2>2, <2>4, OthersTurn DEF TurnInv
  <2> QED
    BY <2>3, <2>4
<1>2. CASE PredictNothing(w) \/ PredictPipe(w)
  <2>1. Outside(w)
    BY <1>2 DEF PredictNothing, PredictPipe, At, Outside
  <2> QED
    BY <1>0, <1>2, <2>1, OutsideTurns DEF PredictNothing, PredictPipe, EndJob, Goto, TypeInv, TypeOK
<1>3. CASE PredictNoInterdoc(w) \/ PredictCommit(w)
  BY <1>0, <1>3, EndedTurns DEF PredictNoInterdoc, PredictCommit, EndJob, Goto, TypeInv, TypeOK
<1>4. CASE PredictSkip(w)
  <2>0. PICK p \in todo[w] :
           /\ \E r \in NotPredicted(p, draft[p], job[w].force) : draft' = [draft EXCEPT ![p] = r]
           /\ todo' = [todo EXCEPT ![w] = @ \ {p}]
    BY <1>4 DEF PredictSkip
  <2>1. PICK r \in NotPredicted(p, draft[p], job[w].force) : draft' = [draft EXCEPT ![p] = r]
    BY <2>0
  <2>2. /\ p \in Question /\ lock[p] = w /\ pc[w] = "predict" /\ UNCHANGED <<row, lock, pc, job, cur>>
    BY <1>0, <1>4, <2>0 DEF PredictSkip, TypeInv, Controlled, Control
  <2>3. /\ p \in Predictable /\ draft[p] = row[p] /\ Good(p, row[p])
    BY <1>a, <2>0, <2>2 DEF Predicting
  <2>4. PredictorRun(p, row[p], r)
    BY <1>0, <2>1, <2>2, <2>3, SkipRuns
  <2>5. ASSUME NEW q \in Question, lock[q] = w PROVE Predicting(w, q)'
    <3>1. CASE q = p
      <4>1. q \notin todo'[w] /\ draft'[q] = r /\ pc'[w] = "predict" /\ row'[q] = row[q]
        BY <1>0, <2>0, <2>1, <2>2, <3>1
      <4> QED
        BY <2>4, <3>1, <4>1 DEF Predicting
    <3>2. CASE q # p
      <4>1. (q \in todo'[w] <=> q \in todo[w]) /\ draft'[q] = draft[q] /\ pc' = pc /\ cur' = cur
            /\ row' = row
        BY <1>0, <2>0, <2>1, <2>2, <3>2
      <4>2. Predicting(w, q)
        BY <1>a, <2>2, <2>5
      <4> QED
        BY <4>1, <4>2 DEF Predicting
    <3> QED
      BY <3>1, <3>2
  <2> QED
    BY <1>0, <1>b, <2>0, <2>1, <2>2, <2>5
<1>5. CASE PredictBegin(w)
  <2>1. PICK p \in todo[w] :
           /\ Predicts(p, draft[p], job[w].force)
           /\ draft' = [draft EXCEPT ![p] = SetExclusive(p, draft[p], "DOING")]
           /\ todo' = [todo EXCEPT ![w] = @ \ {p}]
           /\ cur' = [cur EXCEPT ![w] = p]
    BY <1>5 DEF PredictBegin
  <2>2. /\ p \in Question /\ lock[p] = w /\ pc[w] = "predict" /\ UNCHANGED <<row, lock, job>>
        /\ pc' = [pc EXCEPT ![w] = "run"]
    BY <1>0, <1>5, <2>1 DEF PredictBegin, Goto, TypeInv, Controlled, Control
  <2>3. /\ p \in Predictable /\ draft[p] = row[p] /\ Good(p, row[p])
    BY <1>a, <2>1, <2>2 DEF Predicting
  <2>4. Part(p, row[p]) # "SKIP_PREDICT"
    BY <1>0, <2>1, <2>3, SkipsPart DEF Predicts
  <2>5. ASSUME NEW q \in Question, lock[q] = w PROVE Predicting(w, q)'
    <3>0. pc'[w] = "run" /\ cur'[w] = p /\ row' = row
      BY <1>0, <2>1, <2>2
    <3>1. CASE q = p
      <4>1. q \notin todo'[w] /\ draft'[q] = SetExclusive(q, row[q], "DOING")
        BY <1>0, <2>1, <2>2, <2>3, <3>1
      <4> QED
        BY <2>4, <3>0, <3>1, <4>1 DEF Predicting
    <3>2. CASE q # p
      <4>1. (q \in todo'[w] <=> q \in todo[w]) /\ draft'[q] = draft[q]
        BY <1>0, <2>1, <2>2, <3>2
      <4>2. Predicting(w, q) /\ pc[w] # "run"
        BY <1>a, <2>2, <2>5
      <4> QED
        BY <3>0, <3>2, <4>1, <4>2 DEF Predicting
    <3> QED
      BY <3>1, <3>2
  <2> QED
    BY <1>0, <1>b, <2>1, <2>2, <2>5
<1>6. CASE PredictEnd(w)
  <2> DEFINE p == cur[w]
  <2>1. PICK r \in PredictionRows(p, draft[p]) : draft' = [draft EXCEPT ![p] = r]
    BY <1>6 DEF PredictEnd
  <2>2. /\ p \in Question /\ lock[p] = w /\ pc[w] = "run" /\ UNCHANGED <<row, lock, job, todo>>
        /\ pc' = [pc EXCEPT ![w] = "predict"] /\ cur' = [cur EXCEPT ![w] = None]
    BY <1>0, <1>6 DEF PredictEnd, Goto, TypeInv, Controlled, Control
  <2>3. /\ p \in Predictable /\ p \notin todo[w] /\ Good(p, row[p])
        /\ Part(p, row[p]) # "SKIP_PREDICT" /\ draft[p] = SetExclusive(p, row[p], "DOING")
    BY <1>a, <2>2 DEF Predicting
  <2>4. PredictorRun(p, row[p], r)
    BY <1>0, <2>1, <2>3, PredictionRuns
  <2> HIDE DEF p
  <2>5. ASSUME NEW q \in Question, lock[q] = w PROVE Predicting(w, q)'
    <3>0. pc'[w] = "predict" /\ row' = row /\ todo' = todo
      BY <1>0, <2>2
    <3>1. CASE q = p
      <4>1. draft'[q] = r
        BY <1>0, <2>1, <2>2, <3>1
      <4> QED
        BY <2>3, <2>4, <3>0, <3>1, <4>1 DEF Predicting
    <3>2. CASE q # p
      <4>1. draft'[q] = draft[q]
        BY <1>0, <2>1, <2>2, <3>2
      <4>2. Predicting(w, q)
        BY <1>a, <2>2, <2>5
      <4> QED
        BY <3>0, <3>2, <4>1, <4>2 DEF Predicting, p
    <3> QED
      BY <3>1, <3>2
  <2> QED
    BY <1>0, <1>b, <2>1, <2>2, <2>5
<1> QED
  BY <1>1, <1>2, <1>3, <1>4, <1>5, <1>6 DEF Predict

\* every step of process_file_extract,
LEMMA ExtractTurns ==
    ASSUME Base, NEW w \in Worker, Extract(w)
    PROVE  TurnInv'
<1> DEFINE p == job[w].question
<1>0. /\ TypeInv /\ TurnInv /\ w # None
      /\ draft \in [Question -> Row] /\ row \in [Question -> Row]
  BY QuestionPredictAssumption DEF Base, TypeInv, TypeOK
<1>1. CASE ExtractLock(w)
  <2>1. p \in Question /\ Outside(w)
    BY <1>0, <1>1 DEF ExtractLock, At, Outside, TypeInv, Controlled, Control, Job, Message, Extractable
  <2> QED
    BY <1>0, <1>1, <2>1, LockTurns DEF ExtractLock, At, Goto, TypeInv, TypeOK
<1>a. ASSUME InCallback(w)
      PROVE  /\ p \in Extractable /\ p \in Question /\ lock[p] = w /\ Good(p, row[p])
             /\ draft[p] \in Row /\ row[p] \in Row
             /\ IF pc[w] = "extract" THEN draft[p] = row[p] ELSE StudioRun(p, row[p], draft[p])
  <2>1. p \in Extractable /\ p \in Question /\ lock[p] = w
    BY <1>0, <1>a DEF InCallback, TypeInv, Controlled, Control, Job, Message, Extractable
  <2>2. Holds(w, p) /\ Good(p, row[p])
    BY <1>0, <2>1 DEF TurnInv, Turn, Base, SafeInv, Rows
  <2> QED
    BY <1>0, <1>a, <2>1, <2>2 DEF Holds, InCallback, InStudio
<1>b. ASSUME InCallback(w), NEW s, draft' = [draft EXCEPT ![p] = s], StudioRun(p, row[p], s),
             UNCHANGED <<row, lock, job, todo, cur>>,
             NEW label \in {"pipe", "commit", "audit"}, Goto(w, label)
      PROVE  TurnInv'
  <2>1. /\ p \in Question /\ lock[p] = w
    BY <1>a, <1>b
  <2>2. /\ draft'[p] = s /\ pc'[w] = label /\ job'[w].question = p
        /\ \A q \in Question \ {p} : draft'[q] = draft[q]
        /\ \A v \in Worker \ {w} : pc'[v] = pc[v]
    BY <1>0, <1>b, <2>1 DEF Goto, TypeInv, TypeOK
  <2>3. Holds(w, p)'
    BY <1>b, <2>2 DEF Holds, InCallback
  <2> QED
    BY <1>0, <1>b, <2>1, <2>2, <2>3, WriteTurns
<1>2. CASE ExtractError(w)
  <2>1. InCallback(w) /\ pc[w] = "extract"
    BY <1>2 DEF ExtractError, InCallback, Base, TypeInv, Controlled, Control
  <2>2. StudioRun(p, row[p], SetLLM(p, draft[p], "FAILED"))
    BY <1>a, <2>1, SubmitRuns
  <2> QED
    BY <1>2, <1>b, <2>1, <2>2 DEF ExtractError
<1>3. CASE ExtractResult(w)
  <2>1. InCallback(w) /\ pc[w] = "extract"
    BY <1>3 DEF ExtractResult, InCallback, Base, TypeInv, Controlled, Control
  <2>2. /\ ~(MergesPredictor(p, draft[p]) /\ draft[p].preset = {}) =>
              StudioRun(p, row[p], Extracted(p, draft[p]))
        /\ StudioRun(p, row[p], ExtractionFailed(p, draft[p]))
    BY <1>a, <2>1, ExtractRuns, FailureRuns
  <2> QED
    BY <1>3, <1>b, <2>1, <2>2 DEF ExtractResult
<1>4. CASE ExtractPipe(w)
  <2>1. InCallback(w) /\ pc[w] # "extract"
    BY <1>4 DEF ExtractPipe, At, InCallback
  <2>2. StudioRun(p, row[p], draft[p]) /\ draft' = [draft EXCEPT ![p] = draft[p]]
    BY <1>0, <1>4, <1>a, <2>1 DEF ExtractPipe
  <2> QED
    BY <1>4, <1>b, <2>1, <2>2 DEF ExtractPipe
<1>5. CASE ExtractPipeError(w)
  <2>1. InCallback(w) /\ pc[w] # "extract"
    BY <1>5 DEF ExtractPipeError, At, InCallback
  <2>2. StudioRun(p, row[p], SetLLM(p, draft[p], "FAILED"))
    BY <1>a, <2>1, PipeRuns
  <2> QED
    BY <1>5, <1>b, <2>1, <2>2 DEF ExtractPipeError
<1>6. CASE ExtractCommit(w)
  BY <1>0, <1>6, EndedTurns DEF ExtractCommit, EndJob, Goto, TypeInv, TypeOK
<1> QED
  BY <1>1, <1>2, <1>3, <1>4, <1>5, <1>6 DEF Extract

\* every step of a submission,
LEMMA SubmitTurns ==
    ASSUME Base, NEW w \in Worker, Submit(w)
    PROVE  TurnInv'
<1>0. /\ TypeInv /\ TurnInv /\ w # None
      /\ draft \in [Question -> Row] /\ row \in [Question -> Row]
  BY QuestionPredictAssumption DEF Base, TypeInv, TypeOK
<1>1. CASE StudioLock(w)
  <2>1. PICK p \in todo[w] :
           lock[p] = None /\ lock' = [lock EXCEPT ![p] = w] /\ cur' = [cur EXCEPT ![w] = p]
    BY <1>1 DEF StudioLock
  <2>2. p \in Question /\ Outside(w)
    BY <1>0, <1>1, <2>1 DEF StudioLock, At, Outside, TypeInv, TypeOK
  <2> QED
    BY <1>0, <1>1, <2>1, <2>2, LockTurns DEF StudioLock, At, Goto, TypeInv, TypeOK
<1>a. ASSUME pc[w] = "call"
      PROVE  /\ InStudio(w) /\ cur[w] \in Extractable /\ cur[w] \in Question
             /\ lock[cur[w]] = w /\ draft[cur[w]] = row[cur[w]] /\ row[cur[w]] \in Row
  <2>1. InStudio(w) /\ cur[w] \in Extractable /\ cur[w] \in Question /\ lock[cur[w]] = w
    BY <1>0, <1>a DEF InStudio, TypeInv, Controlled, Control, Extractable
  <2>2. Holds(w, cur[w])
    BY <1>0, <2>1 DEF TurnInv, Turn
  <2> QED
    BY <1>0, <1>a, <2>1, <2>2 DEF Holds, InCallback, InStudio
<1>b. ASSUME pc[w] = "call", NEW s, draft' = [draft EXCEPT ![cur[w]] = s],
             StudioRun(cur[w], row[cur[w]], s), UNCHANGED <<row, lock, job, todo, cur>>,
             Goto(w, "commit")
      PROVE  TurnInv'
  <2> DEFINE p == cur[w]
  <2>1. p \in Question /\ lock[p] = w /\ InStudio(w)
    BY <1>a, <1>b
  <2>2. /\ draft'[p] = s /\ pc'[w] = "commit" /\ cur'[w] = p
        /\ \A q \in Question \ {p} : draft'[q] = draft[q]
        /\ \A v \in Worker \ {w} : pc'[v] = pc[v]
    BY <1>0, <1>b, <2>1 DEF Goto, TypeInv, TypeOK
  <2>3. Holds(w, p)'
    BY <1>b, <2>1, <2>2 DEF Holds, InStudio
  <2> QED
    BY <1>0, <1>b, <2>1, <2>2, <2>3, WriteTurns
<1>2. CASE StudioSkip(w)
  <2>1. pc[w] = "call" /\ draft' = [draft EXCEPT ![cur[w]] = row[cur[w]]]
    BY <1>0, <1>2, <1>a DEF StudioSkip
  <2>2. StudioRun(cur[w], row[cur[w]], row[cur[w]])
    BY <1>a, <2>1, SubmitRuns
  <2> QED
    BY <1>2, <1>b, <2>1, <2>2 DEF StudioSkip
<1>3. CASE StudioCall(w)
  <2>1. PICK l \in {"DOING", "FAILED"} :
           draft' = [draft EXCEPT ![cur[w]] = SetLLM(cur[w], draft[cur[w]], l)]
    BY <1>3 DEF StudioCall
  <2>2. pc[w] = "call" /\ StudioRun(cur[w], row[cur[w]], SetLLM(cur[w], draft[cur[w]], l))
    BY <1>3, <1>a, SubmitRuns DEF StudioCall
  <2> QED
    BY <1>3, <1>b, <2>1, <2>2 DEF StudioCall
<1>4. CASE StudioCommit(w)
  BY <1>0, <1>4, EndedTurns DEF StudioCommit, Goto, TypeInv, TypeOK
<1>5. CASE StudioDone(w)
  <2>1. Outside(w)
    BY <1>5 DEF StudioDone, At, Outside
  <2> QED
    BY <1>0, <1>5, <2>1, OutsideTurns DEF StudioDone, EndJob, Goto, TypeInv, TypeOK
<1> QED
  BY <1>1, <1>2, <1>3, <1>4, <1>5 DEF Submit

\* every step of a reset, and all the others.
LEMMA TurnNext == Base /\ [Next]_vars => TurnInv'
<1> SUFFICES ASSUME Base, [Next]_vars PROVE TurnInv'
  OBVIOUS
<1>0. TypeInv /\ TurnInv
  BY DEF Base
<1>1. CASE UNCHANGED <<row, draft, lock, pc, job, todo, cur>>
  BY <1>0, <1>1 DEF TurnInv, Turn, Holds, Predicting, InCallback, InStudio
<1>2. CASE UNCHANGED vars
  BY <1>1, <1>2 DEF vars
<1>3. ASSUME NEW w \in Worker, Receive(w) \/ ResetStart(w) PROVE TurnInv'
  <2>1. Outside(w)
    BY <1>3 DEF Receive, ResetStart, Outside
  <2> QED
    BY <1>0, <1>3, <2>1, OutsideTurns DEF Receive, ResetStart, Goto, TypeInv, TypeOK
<1>4. ASSUME NEW w \in Worker, Reset(w) PROVE TurnInv'
  <2>1. Outside(w)
    BY <1>4 DEF Reset, ResetOne, ResetDispatch, At, Outside
  <2>2. CASE ResetDispatch(w)
    BY <1>0, <2>1, <2>2, OutsideTurns DEF ResetDispatch, EndJob, Goto, TypeInv, TypeOK
  <2>3. CASE ResetOne(w)
    <3>1. PICK p \in todo[w] : /\ lock[p] = None
                               /\ row' = [row EXCEPT ![p] = ResetRow(p, @, job[w].skipped)]
                               /\ draft' = [draft EXCEPT ![p] = row'[p]]
      BY <2>3 DEF ResetOne
    <3>2. /\ p \in Question /\ row'[p] = draft'[p] /\ UNCHANGED <<lock, pc, job, cur>>
          /\ \A v \in Worker \ {w} : todo'[v] = todo[v]
          /\ \A q \in Question \ {p} : row'[q] = row[q] /\ draft'[q] = draft[q]
      BY <1>0, <2>3, <3>1 DEF ResetOne, TypeInv, TypeOK
    <3>3. Turn(p)'
      BY <3>1, <3>2 DEF Turn
    <3>4. ASSUME NEW q \in Question \ {p} PROVE Turn(q)'
      <4>1. lock[q] # w
        BY <1>0, <2>1 DEF TypeInv, Controlled, Control
      <4> QED
        BY <1>0, <3>2, <4>1, OthersTurn DEF TurnInv
    <3> QED
      BY <3>3, <3>4 DEF TurnInv
  <2> QED
    BY <1>4, <2>2, <2>3 DEF Reset
<1>5. ASSUME NEW w \in Worker, Work(w) PROVE TurnInv'
  BY <1>4, <1>5, PredictTurns, ExtractTurns, SubmitTurns DEF Work
<1>6. ASSUME NEW w \in Worker, Crash(w) PROVE TurnInv'
  BY <1>0, <1>6, EndedTurns DEF Crash, EndJob, Goto, TypeInv, TypeOK
<1>7. ASSUME NEW q \in Question, StudioFinish(q) \/ StudioSpontaneous(q) PROVE TurnInv'
  BY <1>1, <1>7 DEF StudioFinish, StudioSpontaneous
<1>8. CASE Rerun
  BY <1>1, <1>8 DEF Rerun
<1> QED
  BY <1>2, <1>3, <1>5, <1>6, <1>7, <1>8 DEF Next

\* The turns are kept in every reachable state.
LEMMA TurnInvariant == Spec => []Base
<1>1. Init => Base
  <2>1. Init => TurnInv
    BY DEF Init, TurnInv, Turn
  <2> QED
    BY <2>1, TypeInit, SafeInit DEF Base
<1>2. Base /\ [Next]_vars => Base'
  BY TypeNext, SafeNext, TurnNext DEF Base
<1> QED
  BY <1>1, <1>2, PTL DEF Spec

-----------------------------------------------------------------------------
(* The steps of Producers. *)

\* What Producers sees of the rows.
LEMMA SeenIs ==
    ASSUME NEW q \in Question
    PROVE  /\ [p \in Question |-> Predictor(p)][q] = Part(q, row[q])
           /\ [p \in Question |-> row[p].llm][q] = row[q].llm
           /\ [p \in Question |-> row[p].answer][q] = row[q].answer
BY DEF Predictor, Part

\* A row that stays.
LEMMA StayIs ==
    ASSUME NEW q \in Question, row'[q] = row[q]
    PROVE  Turns!Stays(q)
BY DEF Turns!Stays, Predictor

\* A run of the predictor on all of its questions.
LEMMA PredictIs ==
    ASSUME \A q \in Question : IF q \in Predictable THEN PredictorRun(q, row[q], row'[q])
                               ELSE row'[q] = row[q]
    PROVE  Turns!Predict
<1>1. ASSUME NEW q \in Question, PredictorRun(q, row[q], row'[q]) PROVE Turns!PredictOne(q)
  BY <1>1 DEF PredictorRun, Turns!PredictOne, Turns!Published, Publishes, Predictor, Part
<1> QED
  BY <1>1, StayIs DEF Turns!Predict

\* A run of the studio on one question.
LEMMA ExtractIs ==
    ASSUME NEW p \in Question, p \in Extractable, StudioRun(p, row[p], row'[p]),
           \A q \in Question \ {p} : row'[q] = row[q]
    PROVE  Turns!Extract(p)
<1>1. Turns!ExtractOne(p)
  BY DEF StudioRun, Turns!ExtractOne, Turns!Published, Publishes, Predictor, Part
<1> QED
  BY <1>1, StayIs DEF Turns!Extract

\* A reset of one question.
LEMMA ResetIs ==
    ASSUME NEW p \in Question, row[p] \in Row, NEW skipped, row'[p] = ResetRow(p, row[p], skipped),
           \A q \in Question \ {p} : row'[q] = row[q]
    PROVE  Turns!Reset(p)
<1>1. /\ Part(p, row'[p]) = Initial[p] /\ row'[p].llm \in {"TODO", "SKIP_PREDICT"}
      /\ row'[p].answer = row[p].answer
  BY DEF ResetRow, Part, Row
<1> QED
  BY <1>1, StayIs DEF Turns!Reset, Predictor, Part

\* Rows change only where a transaction commits or a reset writes.
LEMMA TurnStep ==
    ASSUME Base, [Next]_vars
    PROVE  [Turns!Next]_(Turns!vars)
<1>0. /\ TypeInv /\ TurnInv /\ None \notin Worker
      /\ draft \in [Question -> Row] /\ row \in [Question -> Row]
      /\ todo \in [Worker -> SUBSET Question]
  BY QuestionPredictAssumption DEF Base, TypeInv, TypeOK
<1>1. CASE UNCHANGED row
  BY <1>1 DEF Turns!vars, Predictor
<1>2. ASSUME NEW w \in Worker, PredictCommit(w) PROVE Turns!Next
  <2>1. pc[w] = "predict" /\ todo[w] = {} /\ Commit(w)
    BY <1>2 DEF PredictCommit
  <2>2. \A q \in Predictable : lock[q] = w
    BY <1>0, <2>1 DEF TypeInv, Controlled, Control
  <2>3. ASSUME NEW q \in Question, lock[q] = w
        PROVE  q \in Predictable /\ PredictorRun(q, row[q], draft[q])
    <3>1. Holds(w, q)
      BY <1>0, <2>3 DEF TurnInv, Turn
    <3> QED
      BY <2>1, <3>1 DEF Holds, Predicting, InCallback, InStudio
  <2>4. \A q \in Question : IF q \in Predictable THEN PredictorRun(q, row[q], row'[q])
                            ELSE row'[q] = row[q]
    BY <2>1, <2>2, <2>3 DEF Commit
  <2> QED
    BY <2>4, PredictIs DEF Turns!Next
<1>3. ASSUME NEW w \in Worker, PredictNoInterdoc(w) PROVE UNCHANGED row
  <2>1. pc[w] = "predict" /\ todo[w] = Predictable /\ Commit(w)
    BY <1>3 DEF PredictNoInterdoc
  <2>2. ASSUME NEW q \in Question, lock[q] = w PROVE draft[q] = row[q]
    <3>1. Holds(w, q)
      BY <1>0, <2>2 DEF TurnInv, Turn
    <3> QED
      BY <2>1, <3>1 DEF Holds, Predicting, InCallback, InStudio
  <2>3. row' = [q \in Question |-> row[q]]
    BY <2>1, <2>2 DEF Commit
  <2> QED
    BY <1>0, <2>3
<1>4. ASSUME NEW w \in Worker, NEW p \in Question, p \in Extractable, lock[p] = w, Commit(w),
             StudioRun(p, row[p], draft[p]), \A q \in Question \ {p} : lock[q] # w
      PROVE  Turns!Next
  <2>1. row'[p] = draft[p] /\ \A q \in Question \ {p} : row'[q] = row[q]
    BY <1>4 DEF Commit
  <2> QED
    BY <1>4, <2>1, ExtractIs DEF Turns!Next
<1>5. ASSUME NEW w \in Worker, ExtractCommit(w) PROVE Turns!Next
  <2> DEFINE p == job[w].question
  <2>1. InCallback(w) /\ pc[w] # "extract" /\ Commit(w)
    BY <1>5 DEF ExtractCommit, InCallback
  <2>2. p \in Extractable /\ p \in Question /\ lock[p] = w
    BY <1>0, <2>1 DEF InCallback, TypeInv, Controlled, Control, Job, Message, Extractable
  <2>3. ASSUME NEW q \in Question, lock[q] = w PROVE q = p /\ StudioRun(q, row[q], draft[q])
    <3>1. Holds(w, q)
      BY <1>0, <2>3 DEF TurnInv, Turn
    <3> QED
      BY <2>1, <3>1 DEF Holds, InCallback, InStudio
  <2> QED
    BY <1>4, <2>1, <2>2, <2>3
<1>6. ASSUME NEW w \in Worker, StudioCommit(w) PROVE Turns!Next
  <2> DEFINE p == cur[w]
  <2>1. InStudio(w) /\ pc[w] = "commit" /\ Commit(w)
    BY <1>6 DEF StudioCommit, At, InStudio
  <2>2. p \in Extractable /\ p \in Question /\ lock[p] = w
    BY <1>0, <2>1 DEF TypeInv, Controlled, Control, Extractable
  <2>3. ASSUME NEW q \in Question, lock[q] = w PROVE q = p /\ StudioRun(q, row[q], draft[q])
    <3>1. Holds(w, q)
      BY <1>0, <2>3 DEF TurnInv, Turn
    <3> QED
      BY <2>1, <3>1 DEF Holds, InCallback, InStudio
  <2> QED
    BY <1>4, <2>1, <2>2, <2>3
<1>7. ASSUME NEW w \in Worker, ResetOne(w) PROVE Turns!Next
  <2>1. PICK p \in todo[w] : row' = [row EXCEPT ![p] = ResetRow(p, @, job[w].skipped)]
    BY <1>7 DEF ResetOne
  <2>2. /\ p \in Question /\ row[p] \in Row /\ row'[p] = ResetRow(p, row[p], job[w].skipped)
        /\ \A q \in Question \ {p} : row'[q] = row[q]
    BY <1>0, <2>1
  <2> QED
    BY <2>2, ResetIs DEF Turns!Next
<1>8. \/ UNCHANGED row
      \/ \E w \in Worker : \/ PredictCommit(w) \/ PredictNoInterdoc(w) \/ ExtractCommit(w)
                           \/ StudioCommit(w) \/ ResetOne(w)
  <2>1. ASSUME NEW w \in Worker, Predict(w)
        PROVE  UNCHANGED row \/ PredictCommit(w) \/ PredictNoInterdoc(w)
    BY <2>1 DEF Predict, PredictLock, PredictNothing, PredictSkip, PredictBegin, PredictEnd, PredictPipe
  <2>2. ASSUME NEW w \in Worker, Extract(w) PROVE UNCHANGED row \/ ExtractCommit(w)
    BY <2>2 DEF Extract, ExtractLock, ExtractError, ExtractResult, ExtractPipe, ExtractPipeError
  <2>3. ASSUME NEW w \in Worker, Submit(w) PROVE UNCHANGED row \/ StudioCommit(w)
    BY <2>3 DEF Submit, StudioLock, StudioSkip, StudioCall, StudioDone
  <2>4. ASSUME NEW w \in Worker, Reset(w) PROVE UNCHANGED row \/ ResetOne(w)
    BY <2>4 DEF Reset, ResetDispatch
  <2>5. ASSUME NEW w \in Worker, Receive(w) \/ ResetStart(w) \/ Crash(w) PROVE UNCHANGED row
    BY <2>5 DEF Receive, ResetStart, Crash, Rollback
  <2>6. ASSUME NEW q \in Question, StudioFinish(q) \/ StudioSpontaneous(q) PROVE UNCHANGED row
    BY <2>6 DEF StudioFinish, StudioSpontaneous
  <2> QED
    BY <2>1, <2>2, <2>3, <2>4, <2>5, <2>6 DEF Next, Work, Rerun, vars
<1> QED
  BY <1>1, <1>2, <1>3, <1>5, <1>6, <1>7, <1>8

\* Whatever order the tasks, callbacks, resets and crashes come in, the committed
\* rows change as if the predictor, the studio and the users took their turns.
THEOREM ProducersAlwaysTakeTurns == Spec => ProducersTakeTurns
<1>1. Init => Turns!Init
  <2> SUFFICES ASSUME Init, NEW q \in Question
               PROVE  /\ Part(q, row[q]) = Initial[q]
                      /\ row[q].llm \in {"TODO", "SKIP_PREDICT"}
                      /\ row[q].answer = {}
    BY SeenIs DEF Turns!Init
  <2> QED
    BY DEF Init, NewRow, Part
<1>2. Base /\ [Next]_vars => [Turns!Next]_(Turns!vars)
  BY TurnStep
<1> QED
  BY <1>1, <1>2, TurnInvariant, PTL DEF Spec, ProducersTakeTurns, Turns!Spec
=============================================================================
