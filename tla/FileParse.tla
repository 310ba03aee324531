------------------------------ MODULE FileParse ------------------------------
(***************************************************************************)
(* From an uploaded file to a parsed one: process_file and its relatives   *)
(* hand a file to the external parser (pdfinsight), whose callback stores  *)
(* the parsed document and goes on to the predictions.  Files of the same  *)
(* content share a lock in Redis, taken without waiting and deleted by     *)
(* key: only one of them is parsed, and the callback completes the others. *)
(* The files of this module all have the same content.                     *)
(*                                                                         *)
(* Web processes and the workers that run process_file_predict are         *)
(* Processes; tasks that do one thing to the shared state are actions on   *)
(* the messages themselves (flights).  trouble is an auxiliary variable:   *)
(* it records what has gone wrong so far and is read by properties only.   *)
(***************************************************************************)
EXTENDS Naturals, FiniteSets

CONSTANTS
    File,         \* the files (rows) of one content
    Process,      \* web processes and workers
    None,         \* no job
    Convertible,  \* the files that are converted to PDF before they are parsed
    Faults,       \* which things may go wrong
    MaxFaults,    \* bound on how many kinds of them do in one behaviour
    MaxRequests   \* bound on the requests of users about uploaded files

Fault == {"crash",     \* a process dies, or a message is lost with its worker
          "push",      \* the parser cannot be reached
          "refuse",    \* the parser answers with an HTTP error
          "convert",   \* the conversion to PDF fails
          "vanish",    \* a stored document is not found again
          "slow",      \* the lock expires before the parser has answered
          "rerun"}     \* a user orders a new parse, which deletes the lock

\* PDFParseStatus: PARSED also stands for OCR_EXPIRED and UN_CONFIRMED, COMPLETE
\* for PAGE_CACHED, FAIL for CANCELLED, which are treated alike; "absent"
\* is a file that is not uploaded yet.
Status == {"absent", "PENDING", "PARSING", "PARSED", "CACHING", "COMPLETE", "FAIL"}

\* Where a parse is before its callback is handled: a task to convert or to
\* parse, at the parser, or an answer under way to the callback handler.
Answers == {"ok", "fail", "colour"}
Stage == {"convert", "parse", "insight"} \cup Answers
Flight == [file : File, stage : Stage]
Fly(f, s) == [file |-> f, stage |-> s]

\* A file at work: parse tells whether what was read of it says that it has to
\* be parsed, cache is create_cache, same the files of the same content.
Job == [file : File, parse : BOOLEAN, cache : BOOLEAN, same : SUBSET File]

ASSUME FileParseAssumption ==
    /\ None \notin Job
    /\ Convertible \subseteq File
    /\ Faults \subseteq Fault
    /\ MaxFaults \in Nat
    /\ MaxRequests \in Nat

VARIABLES
    status,    \* status[f]: pdf_parse_status
    doc,       \* doc[f]: pdfinsight is set, the parsed document is there
    lock,      \* the key "convert_or_parse_file:<hash>" exists in Redis
    flights,   \* flights[x]: how many parses are at x
    predicts,  \* predicts[f]: process_file_predict messages, by create_cache
    pc,        \* pc[p]: where process p is
    job,       \* job[p]: what it works on
    todo,      \* todo[p]: the files it has still to visit
    requests,  \* requests of users so far
    trouble    \* what has gone wrong so far

vars == <<status, doc, lock, flights, predicts, pc, job, todo, requests, trouble>>

-----------------------------------------------------------------------------
Uploaded(f) == status[f] # "absent"

Goto(p, label) == pc' = [pc EXCEPT ![p] = label]

Begin(p, label, j, files) ==
    /\ Goto(p, label)
    /\ job' = [job EXCEPT ![p] = j]
    /\ todo' = [todo EXCEPT ![p] = files]

End(p) == Begin(p, "idle", None, {})

Move(x, y) ==
    /\ flights[x] > 0
    /\ flights' = [flights EXCEPT ![x] = @ - 1, ![y] = @ + 1]

Drop(x) ==
    /\ flights[x] > 0
    /\ flights' = [flights EXCEPT ![x] = @ - 1]

Fails(fault) ==
    /\ fault \in Faults
    /\ Cardinality(trouble \ {"early"}) < MaxFaults
    /\ trouble' = trouble \cup {fault}

\* Mutant: the status alone tells whether a file is parsed.
NeedsParseByStatus(hasDoc, s) == s \in {"PENDING", "FAIL"}

NeedsParse(hasDoc, s) == ~hasDoc \/ s \in {"PENDING", "FAIL"}

Read(f, parse) == [file |-> f, parse |-> parse, cache |-> FALSE, same |-> {}]

\* A process calls process_file for one file, or parse_file of the file flow,
\* which does the same to files that have to be parsed and is given no others.
ProcessFile(p, f, parse) == Begin(p, "process", Read(f, parse), {f})

\* The parse of f is under way until its answer has been written into f.
Handled == {"release", "fail", "store", "status"}
Underway(f) ==
    \/ \E s \in Stage : flights[Fly(f, s)] > 0
    \/ \E p \in Process : pc[p] \in Handled /\ job[p].file = f

\* The callback handler deletes the lock before it looks at the answer.
InFlight ==
    \/ \E x \in Flight : flights[x] > 0
    \/ \E p \in Process : pc[p] = "release"

-----------------------------------------------------------------------------
(* Requests. *)

\* create_file of the service and of the file flow: the second one leaves a
\* file PENDING even if a document is given, which is a recent one of the same
\* content or has been uploaded along with the file.
Upload(p) ==
    /\ pc[p] = "idle"
    /\ \E f \in File, flow \in BOOLEAN, given \in BOOLEAN :
        /\ ~Uploaded(f)
        /\ doc' = [doc EXCEPT ![f] = given]
        /\ status' = [status EXCEPT ![f] = IF given /\ ~flow THEN "COMPLETE" ELSE "PENDING"]
        /\ ProcessFile(p, f, NeedsParse(given, status'[f]))
    /\ UNCHANGED <<lock, flights, predicts, requests, trouble>>

\* A user asks for a file to be processed again: its molds have changed, or it
\* is to be parsed again, for which it is marked PENDING.
Ask(p) ==
    /\ pc[p] = "idle"
    /\ requests < MaxRequests
    /\ requests' = requests + 1
    /\ \E f \in File, again \in BOOLEAN :
        /\ Uploaded(f)
        /\ status' = [status EXCEPT ![f] = IF again THEN "PENDING" ELSE @]
        /\ ProcessFile(p, f, NeedsParse(doc[f], status'[f]))
    /\ UNCHANGED <<doc, lock, flights, predicts, trouble>>

\* RunTaskHandler, task "pdfinsight": the lock is deleted whoever holds it.
Rerun(p) ==
    /\ pc[p] = "idle"
    /\ requests < MaxRequests
    /\ requests' = requests + 1
    /\ lock' = FALSE
    /\ \E f \in File :
        /\ Uploaded(f)
        /\ ProcessFile(p, f, TRUE)
    /\ Fails("rerun")
    /\ UNCHANGED <<status, doc, flights, predicts>>

-----------------------------------------------------------------------------
(* process_file, and parse_file of the file flow. *)

FirstStage(f) == IF f \in Convertible THEN "convert" ELSE "parse"

\* On to the next of the files, or back to idle.
Onward(p, rest) ==
    IF rest = {} THEN End(p)
    ELSE Begin(p, "process", job[p], rest)

ProcessParse(p) ==
    /\ pc[p] = "process"
    /\ job[p].parse
    /\ ~lock
    /\ lock' = TRUE
    /\ \E f \in todo[p] :
        /\ flights' = [flights EXCEPT ![Fly(f, FirstStage(f))] = @ + 1]
        /\ Begin(p, "mark", [job[p] EXCEPT !.file = f], todo[p] \ {f})
    /\ UNCHANGED <<status, doc, predicts, requests, trouble>>

\* "Someone else has the lock": nothing is done for this file.
ProcessSkip(p) ==
    /\ pc[p] = "process"
    /\ job[p].parse
    /\ lock
    /\ \E f \in todo[p] : Onward(p, todo[p] \ {f})
    /\ UNCHANGED <<status, doc, lock, flights, predicts, requests, trouble>>

ProcessPredict(p) ==
    /\ pc[p] = "process"
    /\ ~job[p].parse
    /\ \E f \in todo[p] :
        /\ predicts' = [predicts EXCEPT ![f][job[p].cache] = @ + 1]
        /\ Onward(p, todo[p] \ {f})
    /\ UNCHANGED <<status, doc, lock, flights, requests, trouble>>

\* PARSING is written once the task is at the broker; by then it may be over.
Mark(p) ==
    /\ pc[p] = "mark"
    /\ status' = [status EXCEPT ![job[p].file] = "PARSING"]
    /\ trouble' = IF Underway(job[p].file) THEN trouble ELSE trouble \cup {"early"}
    /\ Onward(p, todo[p])
    /\ UNCHANGED <<doc, lock, flights, predicts, requests>>

-----------------------------------------------------------------------------
(* Tasks: conversion, the request to the parser; and the parser itself. *)

Convert(f) ==
    /\ Move(Fly(f, "convert"), Fly(f, "parse"))
    /\ UNCHANGED <<status, doc, lock, predicts, pc, job, todo, requests, trouble>>

\* FAIL is written too, but the exception rolls the task's transaction back.
\* ConvertPDFError and its kind are BaseExceptions, which the handler does not
\* catch: then the lock is kept, too.
ConvertFails(f) ==
    /\ Drop(Fly(f, "convert"))
    /\ lock' \in {FALSE, lock}
    /\ Fails("convert")
    /\ UNCHANGED <<status, doc, predicts, pc, job, todo, requests>>

\* Mutant: a request that timed out gives the lock back.
StartParseReleasing(f) ==
    /\ Move(Fly(f, "parse"), Fly(f, "insight"))
    /\ lock' = FALSE
    /\ UNCHANGED <<status, doc, predicts, pc, job, todo, requests, trouble>>

\* The request may time out after the parser has accepted it: the task fails,
\* but nothing else changes.
StartParse(f) ==
    /\ Move(Fly(f, "parse"), Fly(f, "insight"))
    /\ UNCHANGED <<status, doc, lock, predicts, pc, job, todo, requests, trouble>>

\* PushError, or an answer with status "error": the lock is kept.
PushFails(f) ==
    /\ Drop(Fly(f, "parse"))
    /\ Fails("push")
    /\ UNCHANGED <<status, doc, lock, predicts, pc, job, todo, requests>>

\* An HTTP error: the lock is given back, the status stays as it is.
PushRefused(f) ==
    /\ Drop(Fly(f, "parse"))
    /\ lock' = FALSE
    /\ Fails("refuse")
    /\ UNCHANGED <<status, doc, predicts, pc, job, todo, requests>>

InsightEnd(f) ==
    /\ \E r \in Answers :
        Move(Fly(f, "insight"), Fly(f, r))
    /\ UNCHANGED <<status, doc, lock, predicts, pc, job, todo, requests, trouble>>

-----------------------------------------------------------------------------
(* PreProcessCallbackHandler *)

\* The files of the same content that have no document yet.
SameFiles(f) == {g \in File \ {f} : Uploaded(g) /\ ~doc[g]}

\* The same files are selected first; the answer is kept as the next label.
CallbackReceive(p) ==
    /\ pc[p] = "idle"
    /\ \E f \in File, r \in Answers :
        /\ Drop(Fly(f, r))
        /\ Begin(p, "release",
                 [file |-> f, parse |-> r = "colour", cache |-> r = "ok",
                  same |-> SameFiles(f)], {})
    /\ UNCHANGED <<status, doc, lock, predicts, requests, trouble>>

CallbackRelease(p) ==
    /\ pc[p] = "release"
    /\ lock' = FALSE
    /\ Goto(p, IF job[p].cache THEN "store" ELSE "fail")
    /\ UNCHANGED <<status, doc, flights, predicts, job, todo, requests, trouble>>

\* Mutant: only the files that wait for this parse are marked.
CallbackFailOthers(p) ==
    /\ pc[p] = "fail"
    /\ status' = [g \in File |-> IF g \in SameFiles(job[p].file) THEN "FAIL" ELSE status[g]]
    /\ IF job[p].parse THEN ProcessFile(p, job[p].file, TRUE) ELSE End(p)
    /\ UNCHANGED <<doc, lock, flights, predicts, requests, trouble>>

\* handle_receive_fail_callback.  Where colouring has failed the file is parsed
\* again, as a PDF.
CallbackFail(p) ==
    /\ pc[p] = "fail"
    /\ LET f == job[p].file IN
        /\ status' = [g \in File |-> IF g = f \/ g \in SameFiles(f) THEN "FAIL" ELSE status[g]]
        /\ IF job[p].parse THEN ProcessFile(p, f, TRUE) ELSE End(p)
    /\ UNCHANGED <<doc, lock, flights, predicts, requests, trouble>>

\* clean_and_save
CallbackStore(p) ==
    /\ pc[p] = "store"
    /\ doc' = [doc EXCEPT ![job[p].file] = TRUE]
    /\ Goto(p, "status")
    /\ UNCHANGED <<status, lock, flights, predicts, job, todo, requests, trouble>>

\* Mutant: the file is forgotten before the others are updated.
CallbackStatusForgets(p) ==
    /\ pc[p] = "status"
    /\ status' = [status EXCEPT ![job[p].file] = "PARSED"]
    /\ Begin(p, "same", None, job[p].same)
    /\ UNCHANGED <<doc, lock, flights, predicts, requests, trouble>>

\* update_file_info: FAIL if the stored document is not found again.
CallbackStatus(p) ==
    /\ pc[p] = "status"
    /\ \E s \in {"PARSED", "FAIL"} :
        /\ status' = [status EXCEPT ![job[p].file] = s]
        /\ Begin(p, "same", [job[p] EXCEPT !.parse = s = "FAIL"], job[p].same)
        /\ IF s = "FAIL" THEN Fails("vanish") ELSE UNCHANGED trouble
    /\ UNCHANGED <<doc, lock, flights, predicts, requests>>

CallbackSame(p) ==
    /\ pc[p] = "same"
    /\ \E g \in todo[p] :
        /\ status' = [status EXCEPT ![g] = IF job[p].parse THEN "FAIL" ELSE "PARSED"]
        /\ doc' = [doc EXCEPT ![g] = TRUE]
        /\ todo' = [todo EXCEPT ![p] = @ \ {g}]
    /\ UNCHANGED <<lock, flights, predicts, pc, job, requests, trouble>>

\* post_pipe_after_succeed: process_file for all of them.
CallbackPipe(p) ==
    /\ pc[p] = "same"
    /\ todo[p] = {}
    /\ Begin(p, "process", [job[p] EXCEPT !.same = {}], {job[p].file} \cup job[p].same)
    /\ UNCHANGED <<status, doc, lock, flights, predicts, requests, trouble>>

-----------------------------------------------------------------------------
(* process_file_predict *)

\* Without create_cache only the prediction is queued.
PredictStart(p) ==
    /\ pc[p] = "idle"
    /\ \E f \in File, cache \in BOOLEAN :
        /\ predicts[f][cache] > 0
        /\ predicts' = [predicts EXCEPT ![f][cache] = @ - 1]
        /\ IF cache
           THEN /\ status' = [status EXCEPT ![f] = "CACHING"]
                /\ Begin(p, "cache", Read(f, FALSE), {})
           ELSE UNCHANGED <<status, pc, job, todo>>
    /\ UNCHANGED <<doc, lock, flights, requests, trouble>>

\* create_pdf_cache writes its result into every file of the content (its own
\* first, which is one step here).
CacheEnd(p) ==
    /\ pc[p] = "cache"
    /\ \E s \in {"COMPLETE", "FAIL"} :
        status' = [g \in File |-> IF Uploaded(g) THEN s ELSE "absent"]
    /\ End(p)
    /\ UNCHANGED <<doc, lock, flights, predicts, requests, trouble>>

-----------------------------------------------------------------------------
(* Deaths and the expiry of the lock. *)

Crash(p) ==
    /\ pc[p] # "idle"
    /\ End(p)
    /\ Fails("crash")
    /\ UNCHANGED <<status, doc, lock, flights, predicts, requests>>

\* Tasks are acknowledged before they run.
Lose(f) ==
    /\ \E s \in {"convert", "parse"} : Drop(Fly(f, s))
    /\ Fails("crash")
    /\ UNCHANGED <<status, doc, lock, predicts, pc, job, todo, requests>>

LosePredict(f) ==
    /\ \E cache \in BOOLEAN :
        /\ predicts[f][cache] > 0
        /\ predicts' = [predicts EXCEPT ![f][cache] = @ - 1]
    /\ Fails("crash")
    /\ UNCHANGED <<status, doc, lock, flights, pc, job, todo, requests>>

\* After some ten minutes, which is long for a parse unless it is "slow".
LockExpire ==
    /\ lock
    /\ lock' = FALSE
    /\ IF InFlight THEN Fails("slow") ELSE UNCHANGED trouble
    /\ UNCHANGED <<status, doc, flights, predicts, pc, job, todo, requests>>

-----------------------------------------------------------------------------
Init ==
    /\ status = [f \in File |-> "absent"]
    /\ doc = [f \in File |-> FALSE]
    /\ lock = FALSE
    /\ flights = [x \in Flight |-> 0]
    /\ predicts = [f \in File |-> [cache \in BOOLEAN |-> 0]]
    /\ pc = [p \in Process |-> "idle"]
    /\ job = [p \in Process |-> None]
    /\ todo = [p \in Process |-> {}]
    /\ requests = 0
    /\ trouble = {}

\* What the system owes: messages are taken, jobs are worked off.
Receive(p) == CallbackReceive(p) \/ PredictStart(p)

Work(p) ==
    \/ ProcessParse(p) \/ ProcessSkip(p) \/ ProcessPredict(p) \/ Mark(p)
    \/ CallbackRelease(p) \/ CallbackFail(p) \/ CallbackStore(p)
    \/ CallbackStatus(p) \/ CallbackSame(p) \/ CallbackPipe(p) \/ CacheEnd(p)

Task(f) ==
    \/ Convert(f) \/ ConvertFails(f) \/ StartParse(f) \/ PushFails(f) \/ PushRefused(f) \/ InsightEnd(f)

Next ==
    \/ \E p \in Process : Upload(p) \/ Ask(p) \/ Rerun(p) \/ Receive(p) \/ Work(p) \/ Crash(p)
    \/ \E f \in File : Task(f) \/ Lose(f) \/ LosePredict(f)
    \/ LockExpire

Spec == Init /\ [][Next]_vars

\* Processes and workers run and the parser answers; users, deaths and expiries
\* owe nothing.
FairSpec ==
    /\ Spec
    /\ \A p \in Process : WF_vars(Receive(p)) /\ WF_vars(Work(p))
    /\ \A f \in File : WF_vars(Task(f))

-----------------------------------------------------------------------------
(* Properties *)

Label == {"idle", "process", "mark", "same", "cache"} \cup Handled

JobsOK ==
    /\ pc \in [Process -> Label]
    /\ job \in [Process -> Job \cup {None}]
    /\ todo \in [Process -> SUBSET File]
    /\ \A p \in Process : pc[p] = "idle" <=> job[p] = None

TypeOK ==
    /\ status \in [File -> Status]
    /\ doc \in [File -> BOOLEAN]
    /\ lock \in BOOLEAN
    /\ flights \in [Flight -> Nat]
    /\ predicts \in [File -> [BOOLEAN -> Nat]]
    /\ requests \in Nat
    /\ trouble \subseteq Fault \cup {"early"}
    /\ JobsOK

\* One content is parsed once at a time, from the task to the moment its
\* callback is received, unless the lock has expired too early or a user has
\* deleted it: everybody who ends a parse gives the lock back, nobody else does
\* (run_singleton_task, release_parse_file_lock).
OneParse ==
    trouble \cap {"slow", "rerun"} = {} =>
        /\ \A x \in Flight : flights[x] <= 1
        /\ \A x, y \in Flight : flights[x] > 0 /\ flights[y] > 0 => x = y

\* A file that shows PARSING is being parsed or its answer is being written,
\* as long as nothing has gone wrong (the statement names what may).
ParsingIsParsed ==
    trouble = {} => \A f \in File : status[f] = "PARSING" => Underway(f)

\* Nothing is predicted for a file without a document: create_pdf_cache marks
\* files COMPLETE that have none, so that process_file must not trust a status.
PredictedIsParsed ==
    \A f \in File, cache \in BOOLEAN : predicts[f][cache] > 0 => doc[f]

\* "Files of the same content that are uploaded meanwhile are not parsed, but
\* updated here": an uploaded file gets its document, or fails.
UploadedIsParsed ==
    \A f \in File : status[f] = "PENDING" ~> (doc[f] \/ status[f] = "FAIL")
=============================================================================
