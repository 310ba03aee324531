--------------------------- MODULE FileParse_proofs ---------------------------
(***************************************************************************)
(* Proofs about FileParse, for any number of files, processes, requests    *)
(* and faults.                                                             *)
(***************************************************************************)
EXTENDS FileParse, TLAPS

\* A flight has a file and a stage, and is told by them.
LEMMA FlightIs ==
    /\ \A f \in File, s \in Stage : Fly(f, s) \in Flight
    /\ \A f, g \in File, s, t \in Stage : Fly(f, s) = Fly(g, t) => f = g /\ s = t
    /\ \A x \in Flight : \E f \in File, s \in Stage : x = Fly(f, s)
BY DEF Fly, Flight

\* The stages have different names.
LEMMA StageIs ==
    /\ {"convert", "parse", "insight"} \subseteq Stage
    /\ Answers \subseteq Stage
    /\ \A f \in File : FirstStage(f) \in Stage
BY DEF Stage, FirstStage

\* What is read of a file is a job.
LEMMA ReadIs == \A f \in File, parse \in BOOLEAN : Read(f, parse) \in Job
BY DEF Read, Job

\* A job with other fields is a job.
LEMMA JobIs ==
    ASSUME NEW j \in Job
    PROVE  /\ \A f \in File : [j EXCEPT !.file = f] \in Job
           /\ \A b \in BOOLEAN : [j EXCEPT !.parse = b] \in Job
           /\ [j EXCEPT !.same = {}] \in Job
           /\ j.file \in File /\ j.same \in SUBSET File
           /\ j.parse \in BOOLEAN /\ j.cache \in BOOLEAN
BY DEF Job

\* What moves and drops leave of the flights.
LEMMA MoveIs ==
    ASSUME flights \in [Flight -> Nat], NEW x \in Flight, NEW y \in Flight, x # y,
           Move(x, y)
    PROVE  /\ flights' \in [Flight -> Nat]
           /\ flights'[x] = flights[x] - 1 /\ flights'[y] = flights[y] + 1
           /\ \A z \in Flight \ {x, y} : flights'[z] = flights[z]
           /\ flights[x] > 0
BY DEF Move

\* The same for a flight that ends.
LEMMA DropIs ==
    ASSUME flights \in [Flight -> Nat], NEW x \in Flight, Drop(x)
    PROVE  /\ flights' \in [Flight -> Nat]
           /\ flights'[x] = flights[x] - 1
           /\ \A z \in Flight \ {x} : flights'[z] = flights[z]
           /\ flights[x] > 0
BY DEF Drop

\* The other processes stay where they are.
OthersStay(p) ==
    \A q \in Process \ {p} : pc'[q] = pc[q] /\ job'[q] = job[q] /\ todo'[q] = todo[q]

\* One counter of predictions changes.
LEMMA PredictsAre ==
    ASSUME predicts \in [File -> [BOOLEAN -> Nat]], NEW f \in File, NEW cache \in BOOLEAN,
           NEW n \in Nat, predicts' = [predicts EXCEPT ![f][cache] = n]
    PROVE  /\ predicts' \in [File -> [BOOLEAN -> Nat]]
           /\ \A g \in File, c \in BOOLEAN :
                predicts'[g][c] = IF g = f /\ c = cache THEN n ELSE predicts[g][c]
<1> DEFINE row == [predicts[f] EXCEPT ![cache] = n]
<1>1. predicts[f] \in [BOOLEAN -> Nat]
  OBVIOUS
<1>2. row \in [BOOLEAN -> Nat] /\ \A c \in BOOLEAN : row[c] = IF c = cache THEN n ELSE predicts[f][c]
  BY <1>1
<1>3. predicts' = [predicts EXCEPT ![f] = row]
  OBVIOUS
<1> HIDE DEF row
<1> QED
  BY <1>2, <1>3

\* What a process becomes when it begins a job, and that others stay.
LEMMA BeginIs ==
    ASSUME JobsOK, NEW p \in Process, NEW label \in Label, NEW j \in Job \cup {None},
           NEW files \in SUBSET File, (label = "idle") <=> (j = None),
           Begin(p, label, j, files)
    PROVE  /\ JobsOK'
           /\ pc'[p] = label /\ job'[p] = j /\ todo'[p] = files
           /\ OthersStay(p)
BY DEF Begin, Goto, JobsOK, OthersStay

\* A process that is not idle has a job.
LEMMA BusyIs ==
    ASSUME JobsOK, NEW p \in Process, pc[p] # "idle"
    PROVE  job[p] \in Job
BY DEF JobsOK

\* The same for a process that ends its job.
LEMMA EndIs ==
    ASSUME JobsOK, NEW p \in Process, End(p)
    PROVE  /\ JobsOK'
           /\ pc'[p] = "idle" /\ todo'[p] = {} /\ job'[p] = None
           /\ OthersStay(p)
BY BeginIs DEF End, Label

\* The same for a process that goes on to its next file.
LEMMA OnwardIs ==
    ASSUME JobsOK, NEW p \in Process, pc[p] # "idle", NEW rest \in SUBSET File,
           Onward(p, rest)
    PROVE  /\ JobsOK'
           /\ pc'[p] \in {"idle", "process"}
           /\ pc'[p] = "process" => job'[p] = job[p] /\ todo'[p] = rest
           /\ OthersStay(p)
<1>1. CASE rest = {}
  BY <1>1, EndIs DEF Onward
<1>2. CASE rest # {}
  <2>1. Begin(p, "process", job[p], rest) /\ job[p] \in Job
    BY <1>2, BusyIs DEF Onward
  <2>2. (job[p] # None) /\ "process" \in Label
    BY <2>1, FileParseAssumption DEF Label
  <2> QED
    BY <2>1, <2>2, BeginIs
<1> QED
  BY <1>1, <1>2

\* The same for a process that calls process_file.
LEMMA ProcessFileIs ==
    ASSUME JobsOK, NEW p \in Process, NEW f \in File, NEW parse \in BOOLEAN,
           ProcessFile(p, f, parse)
    PROVE  /\ JobsOK'
           /\ pc'[p] = "process" /\ job'[p] = Read(f, parse) /\ todo'[p] = {f}
           /\ OthersStay(p)
<1>1. Read(f, parse) \in Job /\ Read(f, parse) # None /\ "process" \in Label
  BY ReadIs, FileParseAssumption DEF Label
<1> QED
  BY <1>1, BeginIs DEF ProcessFile

-----------------------------------------------------------------------------
(* Types *)

\* What TypeOK says of the data, apart from the processes.
DataOK ==
    /\ status \in [File -> Status]
    /\ doc \in [File -> BOOLEAN]
    /\ lock \in BOOLEAN
    /\ flights \in [Flight -> Nat]
    /\ predicts \in [File -> [BOOLEAN -> Nat]]
    /\ requests \in Nat
    /\ trouble \subseteq Fault \cup {"early"}

\* TypeOK is the two parts.
LEMMA TypeParts == TypeOK <=> DataOK /\ JobsOK
BY DEF TypeOK, DataOK

\* The initial state is well typed.
LEMMA TypeInit == Init => TypeOK
<1> SUFFICES ASSUME Init PROVE TypeOK
  OBVIOUS
<1>1. DataOK
  BY DEF Init, DataOK, Status, Uploaded
<1>2. JobsOK
  BY DEF Init, JobsOK, Label
<1> QED
  BY <1>1, <1>2, TypeParts

\* Who may be idle: only a process without a job.
LEMMA LabelIs == /\ Handled \subseteq Label /\ "idle" \notin Handled
                 /\ {"idle", "process", "mark", "same", "cache"} \subseteq Label
BY DEF Label, Handled

\* A step of a process keeps the jobs well formed and the others where they are.
LEMMA JobsProcess ==
    ASSUME TypeOK, NEW p \in Process,
           Upload(p) \/ Ask(p) \/ Rerun(p) \/ Receive(p) \/ Work(p) \/ Crash(p)
    PROVE  JobsOK' /\ OthersStay(p)
<1> USE DEF TypeOK
<1>1. CASE Upload(p)
  <2>1. PICK f \in File, flow \in BOOLEAN, given \in BOOLEAN :
           ProcessFile(p, f, NeedsParse(given, status'[f]))
    BY <1>1 DEF Upload
  <2> QED
    BY <2>1, ProcessFileIs DEF NeedsParse
<1>2. CASE Ask(p)
  <2>1. PICK f \in File : ProcessFile(p, f, NeedsParse(doc[f], status'[f]))
    BY <1>2 DEF Ask
  <2> QED
    BY <2>1, ProcessFileIs DEF NeedsParse
<1>3. CASE Rerun(p)
  BY <1>3, ProcessFileIs DEF Rerun
<1>4. CASE CallbackReceive(p)
  <2>1. PICK f \in File, r \in Answers :
           Begin(p, "release", [file |-> f, parse |-> r = "colour", cache |-> r = "ok",
                                same |-> SameFiles(f)], {})
    BY <1>4 DEF CallbackReceive
  <2> DEFINE j == [file |-> f, parse |-> r = "colour", cache |-> r = "ok",
                   same |-> SameFiles(f)]
  <2>2. j \in Job
    BY DEF Job, SameFiles
  <2>3. j # None
    BY <2>2, FileParseAssumption
  <2> HIDE DEF j
  <2> QED
    BY <2>1, <2>2, <2>3, BeginIs DEF Label, Handled, j
<1>5. CASE PredictStart(p)
  <2>1. CASE UNCHANGED <<pc, job, todo>>
    BY <2>1 DEF JobsOK, OthersStay
  <2>2. CASE \E f \in File : Begin(p, "cache", Read(f, FALSE), {})
    <3>1. PICK f \in File : Begin(p, "cache", Read(f, FALSE), {})
      BY <2>2
    <3> DEFINE j == Read(f, FALSE)
    <3>2. j \in Job /\ j # None
      BY ReadIs, FileParseAssumption
    <3>3. Begin(p, "cache", j, {})
      BY <3>1
    <3> HIDE DEF j
    <3> QED
      BY <3>2, <3>3, BeginIs DEF Label
  <2> QED
    BY <1>5, <2>1, <2>2 DEF PredictStart
<1>6. CASE Crash(p)
  BY <1>6, EndIs DEF Crash
<1>7. CASE Work(p)
  <2> USE <1>7
  <2>0. pc[p] # "idle" /\ job[p] \in Job
    <3>1. pc[p] # "idle"
      BY DEF Work, ProcessParse, ProcessSkip, ProcessPredict, Mark, CallbackRelease,
             CallbackFail, CallbackStore, CallbackStatus, CallbackSame, CallbackPipe, CacheEnd
    <3> QED
      BY <3>1, BusyIs
  <2>1. CASE ProcessParse(p)
    <3>1. PICK f \in File : Begin(p, "mark", [job[p] EXCEPT !.file = f], todo[p] \ {f})
      BY <2>1 DEF ProcessParse, JobsOK
    <3>2. [job[p] EXCEPT !.file = f] \in Job
      BY <2>0, JobIs
    <3>3. [job[p] EXCEPT !.file = f] # None
      BY <3>2, FileParseAssumption
    <3>4. todo[p] \ {f} \in SUBSET File
      BY DEF JobsOK
    <3> QED
      BY <3>1, <3>2, <3>3, <3>4, BeginIs, LabelIs
  <2>2. CASE ProcessSkip(p)
    BY <2>0, <2>2, OnwardIs DEF ProcessSkip, JobsOK
  <2>3. CASE ProcessPredict(p)
    BY <2>0, <2>3, OnwardIs DEF ProcessPredict, JobsOK
  <2>4. CASE Mark(p)
    BY <2>0, <2>4, OnwardIs DEF Mark, JobsOK
  <2>5. CASE CallbackRelease(p)
    BY <2>0, <2>5 DEF CallbackRelease, Goto, JobsOK, OthersStay, Label, Handled
  <2>6. CASE CallbackFail(p)
    <3>1. job[p].file \in File
      BY <2>0, JobIs
    <3>2. End(p) \/ ProcessFile(p, job[p].file, TRUE)
      BY <2>6 DEF CallbackFail
    <3> QED
      BY <3>1, <3>2, EndIs, ProcessFileIs
  <2>7. CASE CallbackStore(p)
    BY <2>0, <2>7 DEF CallbackStore, Goto, JobsOK, OthersStay, Label, Handled
  <2>8. CASE CallbackStatus(p)
    <3>1. PICK b \in BOOLEAN : Begin(p, "same", [job[p] EXCEPT !.parse = b], job[p].same)
      BY <2>8 DEF CallbackStatus
    <3> DEFINE j == [job[p] EXCEPT !.parse = b]
    <3>2. j \in Job /\ j # None /\ job[p].same \in SUBSET File
      BY <2>0, JobIs, FileParseAssumption
    <3>3. Begin(p, "same", j, job[p].same)
      BY <3>1
    <3> HIDE DEF j
    <3> QED
      BY <3>2, <3>3, BeginIs, LabelIs
  <2>9. CASE CallbackSame(p)
    BY <2>0, <2>9 DEF CallbackSame, JobsOK, OthersStay
  <2>10. CASE CallbackPipe(p)
    <3>1. [job[p] EXCEPT !.same = {}] \in Job /\ {job[p].file} \cup job[p].same \in SUBSET File
      BY <2>0, JobIs
    <3>2. [job[p] EXCEPT !.same = {}] # None
      BY <3>1, FileParseAssumption
    <3> QED
      BY <2>10, <3>1, <3>2, BeginIs, LabelIs DEF CallbackPipe
  <2>11. CASE CacheEnd(p)
    BY <2>11, EndIs DEF CacheEnd
  <2> QED
    BY <2>1, <2>2, <2>3, <2>4, <2>5, <2>6, <2>7, <2>8, <2>9, <2>10, <2>11 DEF Work
<1> QED
  BY <1>1, <1>2, <1>3, <1>4, <1>5, <1>6, <1>7 DEF Receive

\* Steps of messages, of the parser and of Redis leave the processes alone.
LEMMA ProcessesStay ==
    ASSUME TypeOK,
           (\E f \in File : Task(f) \/ Lose(f) \/ LosePredict(f)) \/ LockExpire
    PROVE  UNCHANGED <<pc, job, todo>> /\ JobsOK'
<1>1. UNCHANGED <<pc, job, todo>>
  BY DEF Task, Convert, ConvertFails, StartParse, PushFails, PushRefused, InsightEnd,
         Lose, LosePredict, LockExpire
<1> QED
  BY <1>1 DEF TypeOK, JobsOK

\* What can go wrong is a fault.
LEMMA FailsIs ==
    ASSUME trouble \subseteq Fault \cup {"early"}, NEW fault, Fails(fault)
    PROVE  trouble' \subseteq Fault \cup {"early"} /\ trouble' = trouble \cup {fault}
BY FileParseAssumption DEF Fails

\* The steps of processes keep the types of the data.
LEMMA DataProcess ==
    ASSUME TypeOK, NEW p \in Process,
           Upload(p) \/ Ask(p) \/ Rerun(p) \/ Receive(p) \/ Work(p) \/ Crash(p)
    PROVE  DataOK'
<1>0. DataOK /\ JobsOK
  BY TypeParts
<1> USE <1>0 DEF DataOK
<1>1. CASE Upload(p)
  BY <1>1 DEF Upload, Status
<1>2. CASE Ask(p)
  BY <1>2 DEF Ask, Status
<1>3. CASE Rerun(p)
  <2>1. Fails("rerun") /\ UNCHANGED <<status, doc, flights, predicts>>
           /\ lock' = FALSE /\ requests' = requests + 1
    BY <1>3 DEF Rerun
  <2>2. trouble' \subseteq Fault \cup {"early"}
    BY <2>1, FailsIs
  <2>3. requests' \in Nat
    <3>1. requests \in Nat
      OBVIOUS
    <3> HIDE <1>0
    <3> QED
      BY <2>1, <3>1
  <2> QED
    BY <2>1, <2>2, <2>3
<1>4. CASE CallbackReceive(p)
  <2>1. PICK f \in File, r \in Answers : Drop(Fly(f, r))
    BY <1>4 DEF CallbackReceive
  <2>2. flights' \in [Flight -> Nat]
    BY <2>1, DropIs, FlightIs, StageIs
  <2> QED
    BY <1>4, <2>2 DEF CallbackReceive
<1>5. CASE PredictStart(p)
  <2>1. PICK f \in File, cache \in BOOLEAN :
           /\ predicts[f][cache] > 0
           /\ predicts' = [predicts EXCEPT ![f][cache] = predicts[f][cache] - 1]
           /\ status' = [status EXCEPT ![f] = "CACHING"] \/ UNCHANGED status
    BY <1>5 DEF PredictStart
  <2>2. predicts[f][cache] - 1 \in Nat
    <3>1. predicts[f][cache] \in Nat
      OBVIOUS
    <3> QED
      BY <2>1, <3>1
  <2>3. predicts' \in [File -> [BOOLEAN -> Nat]]
    BY <2>1, <2>2, PredictsAre
  <2>4. status' \in [File -> Status]
    BY <2>1 DEF Status
  <2> QED
    BY <1>5, <2>3, <2>4 DEF PredictStart
<1>6. CASE Crash(p)
  BY <1>6, FailsIs DEF Crash
<1>7. CASE ProcessParse(p)
  <2>1. PICK f \in todo[p] :
           flights' = [flights EXCEPT ![Fly(f, FirstStage(f))] = @ + 1]
    BY <1>7 DEF ProcessParse
  <2>2. Fly(f, FirstStage(f)) \in Flight
    BY FlightIs, StageIs DEF JobsOK
  <2>3. flights' \in [Flight -> Nat]
    BY <2>1, <2>2
  <2> QED
    BY <1>7, <2>3 DEF ProcessParse
<1>8. CASE ProcessSkip(p)
  BY <1>8 DEF ProcessSkip
<1>9. CASE ProcessPredict(p)
  <2>0. job[p] \in Job
    BY <1>9, BusyIs DEF ProcessPredict
  <2>1. job[p].cache \in BOOLEAN
    BY <2>0, JobIs
  <2>2. PICK f \in todo[p] :
           predicts' = [predicts EXCEPT ![f][job[p].cache] = predicts[f][job[p].cache] + 1]
    BY <1>9 DEF ProcessPredict
  <2>3. f \in File /\ predicts[f][job[p].cache] + 1 \in Nat
    BY <2>1 DEF JobsOK
  <2>4. predicts' \in [File -> [BOOLEAN -> Nat]]
    BY <2>1, <2>2, <2>3, PredictsAre
  <2> QED
    BY <1>9, <2>4 DEF ProcessPredict
<1>10. CASE Mark(p)
  BY <1>10 DEF Mark, Status
<1>11. CASE CallbackRelease(p)
  BY <1>11 DEF CallbackRelease
<1>12. CASE CallbackFail(p)
  BY <1>12 DEF CallbackFail, Status
<1>13. CASE CallbackStore(p)
  BY <1>13 DEF CallbackStore
<1>14. CASE CallbackStatus(p)
  <2>1. trouble' \subseteq Fault \cup {"early"}
    BY <1>14, FailsIs DEF CallbackStatus
  <2> QED
    BY <1>14, <2>1, ZenonT(30) DEF CallbackStatus, Status
<1>15. CASE CallbackSame(p)
  BY <1>15 DEF CallbackSame, Status, JobsOK
<1>16. CASE CallbackPipe(p)
  BY <1>16 DEF CallbackPipe
<1>17. CASE CacheEnd(p)
  BY <1>17 DEF CacheEnd, Status
<1> QED
  BY <1>1, <1>2, <1>3, <1>4, <1>5, <1>6, <1>7, <1>8, <1>9, <1>10, <1>11, <1>12, <1>13,
     <1>14, <1>15, <1>16, <1>17 DEF Work, Receive

\* So do the steps of messages, of the parser and of Redis.
LEMMA DataMessages ==
    ASSUME TypeOK,
           (\E f \in File : Task(f) \/ Lose(f) \/ LosePredict(f)) \/ LockExpire
    PROVE  DataOK'
<1>0. DataOK
  BY TypeParts
<1> USE <1>0 DEF DataOK
<1>1. ASSUME NEW f \in File, NEW s \in Stage, NEW t \in Stage, s # t,
             Move(Fly(f, s), Fly(f, t))
      PROVE  flights' \in [Flight -> Nat]
  BY <1>1, MoveIs, FlightIs
<1>2. ASSUME NEW f \in File, NEW s \in Stage, Drop(Fly(f, s))
      PROVE  flights' \in [Flight -> Nat]
  BY <1>2, DropIs, FlightIs
<1>3. ASSUME NEW f \in File, Convert(f) PROVE DataOK'
  BY <1>1, <1>3, StageIs DEF Convert
<1>4. ASSUME NEW f \in File, ConvertFails(f) PROVE DataOK'
  <2>1. trouble' \subseteq Fault \cup {"early"}
    BY <1>4, FailsIs DEF ConvertFails
  <2> QED
    BY <1>2, <1>4, <2>1, StageIs DEF ConvertFails
<1>5. ASSUME NEW f \in File, StartParse(f) PROVE DataOK'
  BY <1>1, <1>5, StageIs DEF StartParse
<1>6. ASSUME NEW f \in File, PushFails(f) PROVE DataOK'
  <2>1. trouble' \subseteq Fault \cup {"early"}
    BY <1>6, FailsIs DEF PushFails
  <2> QED
    BY <1>2, <1>6, <2>1, StageIs DEF PushFails
<1>7. ASSUME NEW f \in File, PushRefused(f) PROVE DataOK'
  <2>1. trouble' \subseteq Fault \cup {"early"}
    BY <1>7, FailsIs DEF PushRefused
  <2> QED
    BY <1>2, <1>7, <2>1, StageIs DEF PushRefused
<1>8. ASSUME NEW f \in File, InsightEnd(f) PROVE DataOK'
  <2>1. PICK r \in Answers : Move(Fly(f, "insight"), Fly(f, r))
    BY <1>8 DEF InsightEnd
  <2>2. r # "insight" /\ r \in Stage
    BY StageIs DEF Answers
  <2> QED
    BY <1>1, <1>8, <2>1, <2>2, StageIs DEF InsightEnd
<1>9. ASSUME NEW f \in File, Lose(f) PROVE DataOK'
  <2>1. trouble' \subseteq Fault \cup {"early"}
    BY <1>9, FailsIs DEF Lose
  <2>2. flights' \in [Flight -> Nat]
    BY <1>2, <1>9, StageIs DEF Lose
  <2> QED
    BY <1>9, <2>1, <2>2 DEF Lose
<1>10. ASSUME NEW f \in File, LosePredict(f) PROVE DataOK'
  <2>1. trouble' \subseteq Fault \cup {"early"}
    BY <1>10, FailsIs DEF LosePredict
  <2>2. PICK cache \in BOOLEAN :
           /\ predicts[f][cache] > 0
           /\ predicts' = [predicts EXCEPT ![f][cache] = predicts[f][cache] - 1]
    BY <1>10 DEF LosePredict
  <2>3. predicts[f][cache] \in Nat
    OBVIOUS
  <2>4. predicts[f][cache] - 1 \in Nat
    BY <2>2, <2>3
  <2>5. predicts' \in [File -> [BOOLEAN -> Nat]]
    BY <2>2, <2>4, PredictsAre
  <2> QED
    BY <1>10, <2>1, <2>5 DEF LosePredict
<1>11. CASE LockExpire
  <2>1. trouble' \subseteq Fault \cup {"early"}
    BY <1>11, FailsIs DEF LockExpire
  <2> QED
    BY <1>11, <2>1 DEF LockExpire
<1> QED
  BY <1>3, <1>4, <1>5, <1>6, <1>7, <1>8, <1>9, <1>10, <1>11 DEF Task

\* A step of the specification keeps every type.
LEMMA TypeNext == TypeOK /\ [Next]_vars => TypeOK'
<1> SUFFICES ASSUME TypeOK, [Next]_vars PROVE TypeOK'
  OBVIOUS
<1>1. CASE UNCHANGED vars
  BY <1>1 DEF vars, TypeOK, JobsOK
<1>2. CASE \E p \in Process : Upload(p) \/ Ask(p) \/ Rerun(p) \/ Receive(p) \/ Work(p) \/ Crash(p)
  BY <1>2, JobsProcess, DataProcess, TypeParts DEF TypeOK, DataOK
<1>3. CASE (\E f \in File : Task(f) \/ Lose(f) \/ LosePredict(f)) \/ LockExpire
  BY <1>3, ProcessesStay, DataMessages, TypeParts DEF TypeOK, DataOK
<1> QED
  BY <1>1, <1>2, <1>3 DEF Next

\* Every variable of FileParse keeps its type, whatever goes wrong and in
\* whatever order processes, messages and the parser move.
THEOREM TypeCorrect == Spec => []TypeOK
BY TypeInit, TypeNext, PTL DEF Spec

-----------------------------------------------------------------------------
(* One parse at a time *)

\* The lock is there from the task to the moment the callback deletes it, and
\* a callback that is about to delete it is the only sign of a parse.
LockHeld ==
    /\ \A x \in Flight : flights[x] <= 1
    /\ \A x, y \in Flight : flights[x] > 0 /\ flights[y] > 0 => x = y
    /\ \A x \in Flight : flights[x] > 0 => lock
    /\ \A p \in Process : pc[p] = "release" => lock /\ \A x \in Flight : flights[x] = 0
    /\ \A p, q \in Process : pc[p] = "release" /\ pc[q] = "release" => p = q

\* What takes the lock from a parse that is under way.
Robbed == trouble \cap {"slow", "rerun"} # {}

\* The inductive invariant behind OneParse.
OneInv == ~Robbed => LockHeld

\* Trouble is never forgotten.
LEMMA TroubleStays == [Next]_vars => trouble \subseteq trouble'
BY DEF Next, vars, Upload, Ask, Rerun, Receive, CallbackReceive, PredictStart, Work,
       ProcessParse, ProcessSkip, ProcessPredict, Mark, CallbackRelease, CallbackFail,
       CallbackStore, CallbackStatus, CallbackSame, CallbackPipe, CacheEnd, Crash, Task,
       Convert, ConvertFails, StartParse, PushFails, PushRefused, InsightEnd, Lose,
       LosePredict, LockExpire, Fails

\* Steps that leave parses and the lock alone, and receive no callback.
LEMMA LockHeldStays ==
    ASSUME LockHeld, UNCHANGED <<flights, lock>>,
           \A q \in Process : pc'[q] = "release" => pc[q] = "release"
    PROVE  LockHeld'
BY DEF LockHeld

\* A parse moves on.
LEMMA LockHeldMoves ==
    ASSUME TypeOK, LockHeld, NEW x \in Flight, NEW y \in Flight, x # y, Move(x, y),
           UNCHANGED <<lock, pc>>
    PROVE  LockHeld'
<1>1. flights \in [Flight -> Nat]
  BY DEF TypeOK
<1>2. /\ flights'[x] = flights[x] - 1 /\ flights'[y] = flights[y] + 1 /\ flights[x] > 0
      /\ \A z \in Flight \ {x, y} : flights'[z] = flights[z]
  BY <1>1, MoveIs
<1>3. flights[x] = 1 /\ \A z \in Flight \ {x} : flights[z] = 0
  BY <1>1, <1>2 DEF LockHeld
<1>4. flights'[y] = 1 /\ \A z \in Flight \ {y} : flights'[z] = 0
  BY <1>2, <1>3
<1> QED
  BY <1>2, <1>3, <1>4 DEF LockHeld

\* A parse ends: there is no other, and no callback about to delete the lock.
LEMMA LockHeldDrops ==
    ASSUME TypeOK, LockHeld, NEW x \in Flight, Drop(x)
    PROVE  /\ \A z \in Flight : flights'[z] = 0
           /\ \A p \in Process : pc[p] # "release"
           /\ lock
<1>1. flights \in [Flight -> Nat]
  BY DEF TypeOK
<1>2. /\ flights'[x] = flights[x] - 1 /\ flights[x] > 0
      /\ \A z \in Flight \ {x} : flights'[z] = flights[z]
  BY <1>1, DropIs
<1> QED
  BY <1>1, <1>2 DEF LockHeld

\* Steps of processes.
LEMMA OneProcess ==
    ASSUME TypeOK, LockHeld, ~Robbed', NEW p \in Process,
           Upload(p) \/ Ask(p) \/ Rerun(p) \/ Receive(p) \/ Work(p) \/ Crash(p)
    PROVE  LockHeld'
<1>0. JobsOK /\ OthersStay(p)
  BY JobsProcess DEF TypeOK
<1>1. ASSUME UNCHANGED <<flights, lock>>, pc'[p] # "release"
      PROVE  LockHeld'
  BY <1>0, <1>1, LockHeldStays DEF OthersStay
<1>2. CASE Upload(p)
  <2>1. PICK f \in File, parse \in BOOLEAN : ProcessFile(p, f, parse)
    BY <1>2 DEF Upload, NeedsParse
  <2>2. pc'[p] = "process"
    BY <1>0, <2>1, ProcessFileIs
  <2> QED
    BY <1>1, <1>2, <2>2 DEF Upload
<1>3. CASE Ask(p)
  <2>1. PICK f \in File, parse \in BOOLEAN : ProcessFile(p, f, parse)
    BY <1>3 DEF Ask, NeedsParse
  <2>2. pc'[p] = "process"
    BY <1>0, <2>1, ProcessFileIs
  <2> QED
    BY <1>1, <1>3, <2>2 DEF Ask
<1>4. CASE Rerun(p)
  BY <1>4 DEF Rerun, Fails, Robbed
<1>5. CASE CallbackReceive(p)
  <2>1. PICK f \in File, r \in Answers : Drop(Fly(f, r))
    BY <1>5 DEF CallbackReceive
  <2>2. Fly(f, r) \in Flight
    BY FlightIs, StageIs
  <2>3. \A z \in Flight : flights'[z] = 0
    BY <2>1, <2>2, LockHeldDrops
  <2>4. (\A q \in Process : pc[q] # "release") /\ lock'
    BY <1>5, <2>1, <2>2, LockHeldDrops DEF CallbackReceive
  <2> QED
    BY <1>0, <2>3, <2>4 DEF LockHeld, OthersStay
<1>6. CASE PredictStart(p)
  <2>1. pc'[p] \in {"idle", "cache"}
    BY <1>0, <1>6 DEF PredictStart, Begin, Goto, JobsOK
  <2> QED
    BY <1>1, <1>6, <2>1 DEF PredictStart
<1>7. CASE ProcessParse(p)
  <2>1. PICK f \in File : flights' = [flights EXCEPT ![Fly(f, FirstStage(f))] = @ + 1]
    BY <1>0, <1>7 DEF ProcessParse, JobsOK
  <2> DEFINE x == Fly(f, FirstStage(f))
  <2>2. x \in Flight
    BY FlightIs, StageIs
  <2>3. \A z \in Flight : flights[z] = 0
    BY <1>7 DEF ProcessParse, LockHeld, TypeOK
  <2> HIDE DEF x
  <2>4. flights'[x] = 1 /\ \A z \in Flight \ {x} : flights'[z] = 0
    BY <2>1, <2>2, <2>3 DEF TypeOK, x
  <2>5. lock' /\ pc'[p] = "mark" /\ \A q \in Process : pc[q] # "release"
    BY <1>0, <1>7 DEF ProcessParse, LockHeld, Begin, Goto, JobsOK
  <2> QED
    BY <1>0, <2>4, <2>5 DEF LockHeld, OthersStay
<1>8. CASE CallbackRelease(p)
  <2>1. pc'[p] # "release"
    BY <1>0, <1>8 DEF CallbackRelease, Goto, JobsOK
  <2>2. (\A z \in Flight : flights'[z] = 0) /\ \A q \in Process \ {p} : pc[q] # "release"
    BY <1>8 DEF CallbackRelease, LockHeld
  <2> QED
    BY <1>0, <2>1, <2>2 DEF LockHeld, OthersStay
<1>9. CASE ProcessSkip(p) \/ ProcessPredict(p) \/ Mark(p)
  <2>1. pc[p] # "idle" /\ \E rest \in SUBSET File : Onward(p, rest)
    BY <1>0, <1>9 DEF ProcessSkip, ProcessPredict, Mark, JobsOK
  <2>2. pc'[p] # "release"
    BY <1>0, <2>1, OnwardIs
  <2> QED
    BY <1>1, <1>9, <2>2 DEF ProcessSkip, ProcessPredict, Mark
<1>10. CASE CallbackFail(p)
  <2>1. pc[p] # "idle" /\ (End(p) \/ ProcessFile(p, job[p].file, TRUE))
    BY <1>10 DEF CallbackFail
  <2>2. job[p].file \in File
    BY <1>0, <2>1, BusyIs, JobIs
  <2>3. pc'[p] # "release"
    BY <1>0, <2>1, <2>2, EndIs, ProcessFileIs
  <2> QED
    BY <1>1, <1>10, <2>3 DEF CallbackFail
<1>11. CASE CallbackStore(p) \/ CallbackStatus(p) \/ CallbackSame(p) \/ CallbackPipe(p)
  <2>1. pc'[p] # "release"
    BY <1>0, <1>11 DEF CallbackStore, CallbackStatus, CallbackSame, CallbackPipe, Begin,
                       Goto, JobsOK
  <2> QED
    BY <1>1, <1>11, <2>1 DEF CallbackStore, CallbackStatus, CallbackSame, CallbackPipe
<1>12. CASE CacheEnd(p) \/ Crash(p)
  <2>1. pc'[p] # "release"
    BY <1>0, <1>12, EndIs DEF CacheEnd, Crash
  <2> QED
    BY <1>1, <1>12, <2>1 DEF CacheEnd, Crash
<1> QED
  BY <1>2, <1>3, <1>4, <1>5, <1>6, <1>7, <1>8, <1>9, <1>10, <1>11, <1>12 DEF Receive, Work

\* Steps of messages, of the parser and of Redis.
LEMMA OneMessages ==
    ASSUME TypeOK, LockHeld, ~Robbed',
           (\E f \in File : Task(f) \/ Lose(f) \/ LosePredict(f)) \/ LockExpire
    PROVE  LockHeld'
<1>0. UNCHANGED pc
  BY ProcessesStay
<1>1. ASSUME NEW f \in File, NEW s \in Stage, NEW t \in Stage, s # t,
             Move(Fly(f, s), Fly(f, t)), UNCHANGED lock
      PROVE  LockHeld'
  BY <1>0, <1>1, FlightIs, LockHeldMoves
<1>2. ASSUME NEW f \in File, NEW s \in Stage, Drop(Fly(f, s))
      PROVE  LockHeld'
  <2>1. Fly(f, s) \in Flight
    BY FlightIs
  <2>2. (\A z \in Flight : flights'[z] = 0) /\ \A p \in Process : pc[p] # "release"
    BY <1>2, <2>1, LockHeldDrops
  <2> QED
    BY <1>0, <2>2 DEF LockHeld
<1>3. ASSUME NEW f \in File, Convert(f) \/ StartParse(f) PROVE LockHeld'
  BY <1>1, <1>3, StageIs DEF Convert, StartParse
<1>4. ASSUME NEW f \in File, InsightEnd(f) PROVE LockHeld'
  <2>1. PICK r \in Answers : Move(Fly(f, "insight"), Fly(f, r))
    BY <1>4 DEF InsightEnd
  <2>2. r # "insight" /\ r \in Stage
    BY StageIs DEF Answers
  <2> QED
    BY <1>1, <1>4, <2>1, <2>2, StageIs DEF InsightEnd
<1>5. ASSUME NEW f \in File, ConvertFails(f) \/ PushFails(f) \/ PushRefused(f) \/ Lose(f)
      PROVE  LockHeld'
  <2>1. \E s \in Stage : Drop(Fly(f, s))
    BY <1>5, StageIs DEF ConvertFails, PushFails, PushRefused, Lose
  <2> QED
    BY <1>2, <2>1
<1>6. ASSUME NEW f \in File, LosePredict(f) PROVE LockHeld'
  BY <1>0, <1>6, LockHeldStays DEF LosePredict
<1>7. CASE LockExpire
  <2>1. ~InFlight
    BY <1>7 DEF LockExpire, Fails, Robbed
  <2>2. (\A z \in Flight : flights[z] = 0) /\ \A p \in Process : pc[p] # "release"
    BY <2>1 DEF InFlight, TypeOK
  <2> QED
    BY <1>0, <1>7, <2>2 DEF LockExpire, LockHeld
<1> QED
  BY <1>3, <1>4, <1>5, <1>6, <1>7 DEF Task

\* A step keeps the invariant.
LEMMA OneNext == TypeOK /\ OneInv /\ [Next]_vars => OneInv'
<1> SUFFICES ASSUME TypeOK, OneInv, [Next]_vars, ~Robbed' PROVE LockHeld'
  BY DEF OneInv
<1>1. LockHeld
  BY TroubleStays DEF OneInv, Robbed
<1>2. CASE UNCHANGED vars
  BY <1>1, <1>2 DEF vars, LockHeld
<1>3. CASE \E p \in Process : Upload(p) \/ Ask(p) \/ Rerun(p) \/ Receive(p) \/ Work(p) \/ Crash(p)
  BY <1>1, <1>3, OneProcess
<1>4. CASE (\E f \in File : Task(f) \/ Lose(f) \/ LosePredict(f)) \/ LockExpire
  BY <1>1, <1>4, OneMessages
<1> QED
  BY <1>2, <1>3, <1>4 DEF Next

\* One content is parsed once at a time, unless the lock has expired under a
\* parse or a user has deleted it: every end of a parse gives the lock back,
\* and no other step does.
THEOREM OneParseAtATime == Spec => []OneParse
<1>1. Init => OneInv
  BY DEF Init, OneInv, LockHeld
<1>2. OneInv => OneParse
  BY DEF OneInv, Robbed, LockHeld, OneParse
<1> QED
  BY <1>1, <1>2, OneNext, TypeCorrect, PTL DEF Spec

-----------------------------------------------------------------------------
(* PARSING means that a parse is under way *)

\* A parse is under way while no message has been taken and no callback ended.
LEMMA UnderwayStays ==
    ASSUME NEW f \in File, Underway(f),
           \A s \in Stage : flights[Fly(f, s)] > 0 => flights'[Fly(f, s)] > 0,
           \A q \in Process : pc[q] \in Handled /\ job[q].file = f =>
                                pc'[q] \in Handled /\ job'[q].file = f
    PROVE  Underway(f)'
BY DEF Underway

\* Steps of processes.
LEMMA ParsingProcess ==
    ASSUME TypeOK, ParsingIsParsed, trouble' = {}, NEW p \in Process,
           Upload(p) \/ Ask(p) \/ Rerun(p) \/ Receive(p) \/ Work(p) \/ Crash(p),
           NEW f \in File, status'[f] = "PARSING"
    PROVE  Underway(f)'
<1>0. JobsOK /\ JobsOK' /\ OthersStay(p) /\ trouble = {}
  BY JobsProcess, TroubleStays DEF TypeOK, Next
<1>1. ASSUME status[f] = "PARSING", UNCHANGED flights,
             pc[p] \in Handled => pc'[p] \in Handled /\ job'[p].file = job[p].file
      PROVE  Underway(f)'
  <2>1. Underway(f)
    BY <1>0, <1>1 DEF ParsingIsParsed
  <2> QED
    BY <1>0, <1>1, <2>1, UnderwayStays DEF OthersStay
<1>2. CASE Upload(p) \/ Ask(p)
  BY <1>1, <1>2 DEF Upload, Ask, TypeOK, Handled
<1>3. CASE Rerun(p)
  BY <1>3 DEF Rerun, Fails
<1>4. CASE CallbackReceive(p)
  <2>1. PICK g \in File, r \in Answers :
           /\ Drop(Fly(g, r))
           /\ Begin(p, "release", [file |-> g, parse |-> r = "colour", cache |-> r = "ok",
                                   same |-> SameFiles(g)], {})
    BY <1>4 DEF CallbackReceive
  <2>2. pc'[p] = "release" /\ job'[p].file = g /\ pc[p] = "idle"
    BY <1>0, <1>4, <2>1 DEF CallbackReceive, Begin, Goto, JobsOK
  <2>3. CASE f = g
    BY <2>2, <2>3 DEF Underway, Handled
  <2>4. CASE f # g
    <3>1. \A s \in Stage : Fly(f, s) \in Flight \ {Fly(g, r)}
      BY <2>4, FlightIs, StageIs
    <3>2. Underway(f)
      BY <1>0, <1>4 DEF CallbackReceive, ParsingIsParsed
    <3>3. \A s \in Stage : flights'[Fly(f, s)] = flights[Fly(f, s)]
      BY <2>1, <3>1, DropIs, FlightIs, StageIs DEF TypeOK
    <3> QED
      BY <1>0, <2>2, <3>2, <3>3, UnderwayStays DEF OthersStay, Handled
  <2> QED
    BY <2>3, <2>4
<1>5. CASE PredictStart(p)
  <2>1. status[f] = "PARSING"
    BY <1>5 DEF PredictStart, TypeOK
  <2> QED
    BY <1>1, <1>5, <2>1 DEF PredictStart, Handled
<1>6. CASE Crash(p)
  BY <1>6 DEF Crash, Fails
<1>7. CASE ProcessParse(p)
  <2>1. PICK g \in File : flights' = [flights EXCEPT ![Fly(g, FirstStage(g))] = @ + 1]
    BY <1>0, <1>7 DEF ProcessParse, JobsOK
  <2>2. \A s \in Stage : flights[Fly(f, s)] > 0 => flights'[Fly(f, s)] > 0
    <3>1. \A z \in Flight : flights[z] > 0 => flights'[z] > 0
      BY <2>1 DEF TypeOK
    <3> QED
      BY <3>1, FlightIs
  <2>3. Underway(f) /\ pc[p] \notin Handled
    BY <1>0, <1>7 DEF ProcessParse, ParsingIsParsed, Handled
  <2> QED
    BY <1>0, <2>2, <2>3, UnderwayStays DEF OthersStay
<1>8. CASE ProcessSkip(p) \/ ProcessPredict(p)
  BY <1>1, <1>8 DEF ProcessSkip, ProcessPredict, Handled
<1>9. CASE Mark(p)
  <2>1. Underway(job[p].file) /\ pc[p] \notin Handled
    BY <1>9 DEF Mark, Handled
  <2>2. Underway(f)
    BY <1>0, <1>9, <2>1 DEF Mark, ParsingIsParsed, TypeOK
  <2> QED
    BY <1>0, <1>9, <2>1, <2>2, UnderwayStays DEF Mark, OthersStay
<1>10. CASE CallbackRelease(p) \/ CallbackStore(p)
  BY <1>0, <1>1, <1>10 DEF CallbackRelease, CallbackStore, Goto, Handled, JobsOK
<1>11. CASE CallbackFail(p) \/ CallbackStatus(p)
  <2>1. f # job[p].file /\ status[f] = "PARSING" /\ UNCHANGED flights
    BY <1>11 DEF CallbackFail, CallbackStatus, TypeOK
  <2>2. Underway(f)
    BY <1>0, <2>1 DEF ParsingIsParsed
  <2> QED
    BY <1>0, <2>1, <2>2, UnderwayStays DEF OthersStay
<1>12. CASE CallbackSame(p)
  BY <1>1, <1>12 DEF CallbackSame, Handled, TypeOK
<1>13. CASE CallbackPipe(p)
  BY <1>1, <1>13 DEF CallbackPipe, Handled
<1>14. CASE CacheEnd(p)
  BY <1>1, <1>14 DEF CacheEnd, Handled
<1> QED
  BY <1>2, <1>3, <1>4, <1>5, <1>6, <1>7, <1>8, <1>9, <1>10, <1>11, <1>12, <1>13, <1>14
     DEF Receive, Work

\* Steps of messages, of the parser and of Redis.
LEMMA ParsingMessages ==
    ASSUME TypeOK, ParsingIsParsed, trouble' = {},
           (\E f \in File : Task(f) \/ Lose(f) \/ LosePredict(f)) \/ LockExpire,
           NEW f \in File, status'[f] = "PARSING"
    PROVE  Underway(f)'
<1>0. UNCHANGED <<pc, job>> /\ trouble = {}
  BY ProcessesStay, TroubleStays DEF Next
<1>1. ASSUME NEW g \in File, NEW s \in Stage, NEW t \in Stage, s # t,
             Move(Fly(g, s), Fly(g, t)), UNCHANGED status
      PROVE  Underway(f)'
  <2>1. Underway(f)
    BY <1>0, <1>1 DEF ParsingIsParsed
  <2>2. /\ flights'[Fly(g, t)] > 0
        /\ \A z \in Flight \ {Fly(g, s), Fly(g, t)} : flights'[z] = flights[z]
    BY <1>1, MoveIs, FlightIs DEF TypeOK
  <2>3. CASE f = g
    BY <2>2, <2>3 DEF Underway
  <2>4. CASE f # g
    <3>1. \A u \in Stage : Fly(f, u) \in Flight \ {Fly(g, s), Fly(g, t)}
      BY <2>4, FlightIs
    <3> QED
      BY <1>0, <2>1, <2>2, <3>1, UnderwayStays
  <2> QED
    BY <2>3, <2>4
<1>2. ASSUME NEW g \in File, Convert(g) \/ StartParse(g) PROVE Underway(f)'
  BY <1>1, <1>2, StageIs DEF Convert, StartParse
<1>3. ASSUME NEW g \in File, InsightEnd(g) PROVE Underway(f)'
  <2>1. PICK r \in Answers : Move(Fly(g, "insight"), Fly(g, r))
    BY <1>3 DEF InsightEnd
  <2>2. r # "insight" /\ r \in Stage
    BY StageIs DEF Answers
  <2> QED
    BY <1>1, <1>3, <2>1, <2>2, StageIs DEF InsightEnd
<1>4. ASSUME NEW g \in File,
             ConvertFails(g) \/ PushFails(g) \/ PushRefused(g) \/ Lose(g) \/ LosePredict(g)
      PROVE  Underway(f)'
  BY <1>4 DEF ConvertFails, PushFails, PushRefused, Lose, LosePredict, Fails
<1>5. CASE LockExpire
  <2>1. UNCHANGED <<status, flights>>
    BY <1>5 DEF LockExpire
  <2> QED
    BY <1>0, <2>1, UnderwayStays DEF ParsingIsParsed
<1> QED
  BY <1>2, <1>3, <1>4, <1>5 DEF Task

\* While nothing has gone wrong, a file that shows PARSING is being parsed, or
\* its answer is being written into it.
THEOREM ParsingFilesAreParsed == Spec => []ParsingIsParsed
<1>1. Init => ParsingIsParsed
  BY DEF Init, ParsingIsParsed
<1>2. TypeOK /\ ParsingIsParsed /\ [Next]_vars => ParsingIsParsed'
  <2> SUFFICES ASSUME TypeOK, ParsingIsParsed, [Next]_vars, trouble' = {},
                      NEW f \in File, status'[f] = "PARSING"
               PROVE  Underway(f)'
    BY DEF ParsingIsParsed
  <2>1. CASE UNCHANGED vars
    BY <2>1 DEF vars, ParsingIsParsed, Underway
  <2>2. CASE \E p \in Process : Upload(p) \/ Ask(p) \/ Rerun(p) \/ Receive(p) \/ Work(p) \/ Crash(p)
    BY <2>2, ParsingProcess
  <2>3. CASE (\E g \in File : Task(g) \/ Lose(g) \/ LosePredict(g)) \/ LockExpire
    BY <2>3, ParsingMessages
  <2> QED
    BY <2>1, <2>2, <2>3 DEF Next
<1> QED
  BY <1>1, <1>2, TypeCorrect, PTL DEF Spec

-----------------------------------------------------------------------------
(* Only parsed files are predicted *)

\* A process works on uploaded files.
Knows(p) ==
    pc[p] # "idle" =>
        Uploaded(job[p].file) /\ \A g \in job[p].same \cup todo[p] : Uploaded(g)

\* Whatever is under way for a file is under way for an uploaded one.
Known ==
    /\ \A f \in File : doc[f] => Uploaded(f)
    /\ \A f \in File, s \in Stage : flights[Fly(f, s)] > 0 => Uploaded(f)
    /\ \A p \in Process : Knows(p)

\* What a process has read or written of documents is still true.
Trusted(p) ==
    /\ pc[p] = "process" /\ ~job[p].parse => \A f \in todo[p] : doc[f]
    /\ pc[p] = "mark" => job[p].parse
    /\ pc[p] = "status" => doc[job[p].file]
    /\ pc[p] = "same" => doc[job[p].file] /\ \A g \in job[p].same \ todo[p] : doc[g]

\* The inductive invariant behind PredictedIsParsed.
PredictInv ==
    /\ Known
    /\ PredictedIsParsed
    /\ \A p \in Process : Trusted(p)

\* Files are never taken away, nor are their documents.
Grows == \A f \in File : (Uploaded(f) => Uploaded(f)') /\ (doc[f] => doc'[f])

\* A step only adds files and documents.
LEMMA GrowsNext ==
    ASSUME TypeOK, PredictInv, Next
    PROVE  Grows
<1> USE DEF Grows, Uploaded
<1>0. \A p \in Process : pc[p] # "idle" => job[p].file \in File
  BY BusyIs, JobIs DEF TypeOK
<1>1. ASSUME NEW p \in Process, Upload(p) PROVE Grows
  BY <1>1 DEF Upload, PredictInv, Known, TypeOK
<1>2. ASSUME NEW p \in Process, Ask(p) \/ Rerun(p) PROVE Grows
  BY <1>2 DEF Ask, Rerun, TypeOK
<1>3. ASSUME NEW p \in Process, CallbackReceive(p) \/ PredictStart(p) PROVE Grows
  BY <1>3 DEF CallbackReceive, PredictStart, TypeOK
<1>4. ASSUME NEW p \in Process,
             ProcessParse(p) \/ ProcessSkip(p) \/ ProcessPredict(p) \/ Mark(p)
             \/ CallbackRelease(p) \/ CallbackStore(p) \/ CallbackStatus(p)
             \/ CallbackSame(p) \/ CallbackPipe(p)
      PROVE  Grows
  BY <1>4 DEF ProcessParse, ProcessSkip, ProcessPredict, Mark, CallbackRelease, CallbackStore,
              CallbackStatus, CallbackSame, CallbackPipe, TypeOK
<1>5. ASSUME NEW p \in Process, CallbackFail(p) PROVE Grows
  BY <1>5 DEF CallbackFail, TypeOK
<1>6. ASSUME NEW p \in Process, CacheEnd(p) \/ Crash(p) PROVE Grows
  BY <1>6 DEF CacheEnd, Crash, TypeOK
<1>7. ASSUME (\E f \in File : Task(f) \/ Lose(f) \/ LosePredict(f)) \/ LockExpire PROVE Grows
  BY <1>7 DEF Task, Convert, ConvertFails, StartParse, PushFails, PushRefused, InsightEnd,
              Lose, LosePredict, LockExpire
<1> QED
  BY <1>1, <1>2, <1>3, <1>4, <1>5, <1>6, <1>7 DEF Next, Receive, Work

\* The messages that are under way stay those of uploaded files.
LEMMA FlightsKnown ==
    ASSUME TypeOK, Known, Grows,
           NEW x \in Flight, NEW f \in File, NEW s \in Stage, x = Fly(f, s), Uploaded(f),
           \A z \in Flight \ {x} : flights'[z] > 0 => flights[z] > 0
    PROVE  \A g \in File, t \in Stage : flights'[Fly(g, t)] > 0 => Uploaded(g)'
BY FlightIs DEF Known, Grows

\* The other processes keep what they know.
LEMMA OthersTrusted ==
    ASSUME JobsOK, PredictInv, Grows, NEW p \in Process, OthersStay(p), NEW q \in Process \ {p}
    PROVE  Trusted(q)' /\ Knows(q)'
<1>1. pc'[q] = pc[q] /\ job'[q] = job[q] /\ todo'[q] = todo[q] /\ todo[q] \in SUBSET File
  BY DEF OthersStay, JobsOK
<1>2. CASE pc[q] = "idle"
  BY <1>1, <1>2 DEF Trusted, Knows
<1>3. CASE pc[q] # "idle"
  <2>1. job[q].file \in File /\ job[q].same \in SUBSET File
    BY <1>3, BusyIs, JobIs
  <2>2. Trusted(q)'
    BY <1>1, <2>1 DEF Trusted, PredictInv, Grows
  <2>3. Knows(q)'
    BY <1>1, <1>3, <2>1 DEF PredictInv, Known, Knows, Grows
  <2> QED
    BY <2>2, <2>3
<1> QED
  BY <1>2, <1>3

\* A step of a process that keeps what it knows itself keeps it for all, if it
\* adds no message of another file and no prediction without a document.
LEMMA PredictBy ==
    ASSUME JobsOK, PredictInv, Grows, NEW p \in Process, OthersStay(p),
           Trusted(p)', Knows(p)',
           \A f \in File : doc'[f] => Uploaded(f)',
           \A f \in File, s \in Stage : flights'[Fly(f, s)] > 0 => Uploaded(f)',
           PredictedIsParsed'
    PROVE  PredictInv'
BY OthersTrusted DEF PredictInv, Known

\* A process that has become idle, or is given a file that it may not trust.
LEMMA IdleTrusted ==
    ASSUME NEW p \in Process, pc'[p] \in {"idle", "cache", "release", "fail", "store"}
    PROVE  Trusted(p)'
BY DEF Trusted

\* Predictions that are there already stay justified.
LEMMA PredictsStay ==
    ASSUME PredictInv, Grows, UNCHANGED predicts
    PROVE  PredictedIsParsed'
BY DEF PredictInv, PredictedIsParsed, Grows

\* So do the messages under way, and the documents.
LEMMA KnownStay ==
    ASSUME PredictInv, Grows
    PROVE  /\ UNCHANGED flights =>
                \A f \in File, s \in Stage : flights'[Fly(f, s)] > 0 => Uploaded(f)'
           /\ UNCHANGED doc => \A f \in File : doc'[f] => Uploaded(f)'
BY DEF PredictInv, Known, Grows

\* Requests: what is read of a file without a document says that it has to be parsed.
LEMMA PredictRequests ==
    ASSUME TypeOK, PredictInv, Grows, NEW p \in Process, Upload(p) \/ Ask(p) \/ Rerun(p)
    PROVE  PredictInv'
<1>0. JobsOK /\ OthersStay(p) /\ UNCHANGED <<flights, predicts>>
  BY JobsProcess DEF TypeOK, Upload, Ask, Rerun
<1>1. PICK f \in File, parse \in BOOLEAN :
         /\ ProcessFile(p, f, parse)
         /\ ~parse => doc'[f]
         /\ Uploaded(f)'
         /\ \A g \in File : doc'[g] => doc[g] \/ g = f
  <2>1. CASE Upload(p)
    BY <2>1 DEF Upload, NeedsParse, Uploaded, TypeOK
  <2>2. CASE Ask(p)
    BY <2>2 DEF Ask, NeedsParse, Uploaded, TypeOK
  <2>3. CASE Rerun(p)
    BY <2>3 DEF Rerun, Uploaded
  <2> QED
    BY <2>1, <2>2, <2>3
<1>2. pc'[p] = "process" /\ job'[p] = Read(f, parse) /\ todo'[p] = {f}
  BY <1>0, <1>1, ProcessFileIs
<1>3. Trusted(p)' /\ Knows(p)'
  BY <1>1, <1>2 DEF Trusted, Knows, Read
<1>4. \A g \in File : doc'[g] => Uploaded(g)'
  BY <1>1 DEF PredictInv, Known, Grows
<1> QED
  BY <1>0, <1>3, <1>4, KnownStay, PredictsStay, PredictBy

\* process_file: a task for an uploaded file, or a prediction for a parsed one.
LEMMA PredictProcessing ==
    ASSUME TypeOK, PredictInv, Grows, NEW p \in Process,
           ProcessParse(p) \/ ProcessSkip(p) \/ ProcessPredict(p) \/ Mark(p)
    PROVE  PredictInv'
<1>0. JobsOK /\ OthersStay(p) /\ pc[p] # "idle" /\ job[p] \in Job /\ UNCHANGED doc
  <2>1. pc[p] # "idle" /\ UNCHANGED doc
    BY DEF ProcessParse, ProcessSkip, ProcessPredict, Mark
  <2> QED
    BY <2>1, JobsProcess, BusyIs DEF TypeOK, Work
<1>1. Knows(p) /\ Trusted(p) /\ todo[p] \in SUBSET File /\ job[p].file \in File
      /\ job[p].same \in SUBSET File
  BY <1>0, JobIs DEF PredictInv, Known, JobsOK
<1>2. ASSUME NEW rest \in SUBSET todo[p], Onward(p, rest)
      PROVE  Trusted(p)' /\ Knows(p)'
  <2>1. pc'[p] \in {"idle", "process"}
        /\ (pc'[p] = "process" => job'[p] = job[p] /\ todo'[p] = rest)
    BY <1>0, <1>1, <1>2, OnwardIs
  <2>2. pc[p] \in {"process", "mark"}
    BY DEF ProcessParse, ProcessSkip, ProcessPredict, Mark
  <2>3. Trusted(p)'
    BY <1>0, <1>1, <2>1, <2>2 DEF Trusted
  <2>4. Knows(p)'
    BY <1>0, <1>1, <2>1, <2>2 DEF Knows, Grows
  <2> QED
    BY <2>3, <2>4
<1>3. CASE ProcessParse(p)
  <2>1. PICK f \in todo[p] :
           /\ flights' = [flights EXCEPT ![Fly(f, FirstStage(f))] = @ + 1]
           /\ Begin(p, "mark", [job[p] EXCEPT !.file = f], todo[p] \ {f})
    BY <1>3 DEF ProcessParse
  <2> DEFINE j == [job[p] EXCEPT !.file = f]
  <2>2. pc'[p] = "mark" /\ job'[p] = j /\ todo'[p] = todo[p] \ {f} /\ job[p].parse
    BY <1>0, <1>3, <2>1 DEF ProcessParse, Begin, Goto, JobsOK
  <2>3. j.file = f /\ j.parse = job[p].parse /\ j.same = job[p].same
    BY <1>0 DEF Job
  <2>4. Uploaded(f) /\ f \in File
    BY <1>0, <1>1, <2>1 DEF Knows
  <2> HIDE DEF j
  <2>5. Trusted(p)' /\ Knows(p)'
    BY <1>0, <1>1, <2>2, <2>3, <2>4 DEF Trusted, Knows, Grows
  <2>6. Fly(f, FirstStage(f)) \in Flight /\ FirstStage(f) \in Stage
    BY <2>4, FlightIs, StageIs
  <2>7. \A g \in File, s \in Stage : flights'[Fly(g, s)] > 0 => Uploaded(g)'
    <3>1. \A z \in Flight \ {Fly(f, FirstStage(f))} : flights'[z] = flights[z]
      BY <2>1, <2>6 DEF TypeOK
    <3> QED
      BY <2>4, <2>6, <3>1, FlightsKnown DEF PredictInv
  <2> QED
    BY <1>0, <1>3, <2>5, <2>7, KnownStay, PredictsStay, PredictBy DEF ProcessParse
<1>4. CASE ProcessSkip(p)
  BY <1>0, <1>2, <1>4, KnownStay, PredictsStay, PredictBy DEF ProcessSkip
<1>5. CASE ProcessPredict(p)
  <2>1. PICK f \in todo[p] :
           /\ predicts' = [predicts EXCEPT ![f][job[p].cache] = predicts[f][job[p].cache] + 1]
           /\ Onward(p, todo[p] \ {f})
    BY <1>5 DEF ProcessPredict
  <2>2. doc[f] /\ f \in File
    BY <1>1, <1>5 DEF Trusted, ProcessPredict
  <2>3. job[p].cache \in BOOLEAN
    BY <1>0, JobIs
  <2>4. predicts[f][job[p].cache] + 1 \in Nat
    BY <2>2, <2>3 DEF TypeOK
  <2>5. \A g \in File, c \in BOOLEAN : predicts'[g][c] > 0 => predicts[g][c] > 0 \/ g = f
    BY <2>1, <2>2, <2>3, <2>4, PredictsAre DEF TypeOK
  <2>6. PredictedIsParsed'
    BY <1>0, <2>2, <2>5 DEF PredictInv, PredictedIsParsed
  <2>7. Trusted(p)' /\ Knows(p)'
    BY <1>2, <2>1
  <2> QED
    BY <1>0, <1>5, <2>6, <2>7, KnownStay, PredictBy DEF ProcessPredict
<1>6. CASE Mark(p)
  BY <1>0, <1>2, <1>6, KnownStay, PredictsStay, PredictBy DEF Mark
<1> QED
  BY <1>3, <1>4, <1>5, <1>6

\* The callback: what it stores, it may trust.
LEMMA PredictCallback ==
    ASSUME TypeOK, PredictInv, Grows, NEW p \in Process,
           CallbackRelease(p) \/ CallbackFail(p) \/ CallbackStore(p) \/ CallbackStatus(p)
           \/ CallbackSame(p) \/ CallbackPipe(p)
    PROVE  PredictInv'
<1>0. JobsOK /\ OthersStay(p) /\ pc[p] # "idle" /\ job[p] \in Job
      /\ UNCHANGED <<flights, predicts>>
  <2>1. pc[p] # "idle" /\ UNCHANGED <<flights, predicts>>
    BY DEF CallbackRelease, CallbackFail, CallbackStore, CallbackStatus, CallbackSame,
           CallbackPipe
  <2> QED
    BY <2>1, JobsProcess, BusyIs DEF TypeOK, Work
<1>1. Knows(p) /\ Trusted(p) /\ todo[p] \in SUBSET File /\ job[p].file \in File
      /\ job[p].same \in SUBSET File
  BY <1>0, JobIs DEF PredictInv, Known, JobsOK
<1>2. ASSUME Trusted(p)', Knows(p)', \A f \in File : doc'[f] => Uploaded(f)'
      PROVE  PredictInv'
  BY <1>0, <1>2, KnownStay, PredictsStay, PredictBy
<1>3. CASE CallbackRelease(p)
  <2>1. pc'[p] \in {"store", "fail"} /\ job'[p] = job[p] /\ todo'[p] = todo[p]
    BY <1>0, <1>3 DEF CallbackRelease, Goto, JobsOK
  <2>2. Trusted(p)' /\ Knows(p)'
    BY <1>0, <1>1, <2>1, IdleTrusted DEF Knows, Grows
  <2> QED
    BY <1>2, <1>3, <2>2, KnownStay DEF CallbackRelease
<1>4. CASE CallbackFail(p)
  <2>1. CASE End(p)
    BY <1>0, <1>2, <1>4, <2>1, EndIs, KnownStay, IdleTrusted DEF CallbackFail, Knows
  <2>2. CASE ProcessFile(p, job[p].file, TRUE)
    <3>1. pc'[p] = "process" /\ job'[p] = Read(job[p].file, TRUE) /\ todo'[p] = {job[p].file}
      BY <1>0, <1>1, <2>2, ProcessFileIs
    <3>2. Trusted(p)' /\ Knows(p)'
      BY <1>0, <1>1, <3>1 DEF Trusted, Knows, Read, Grows
    <3> QED
      BY <1>2, <1>4, <3>2, KnownStay DEF CallbackFail
  <2> QED
    BY <1>4, <2>1, <2>2 DEF CallbackFail
<1>5. CASE CallbackStore(p)
  <2>1. pc'[p] = "status" /\ job'[p] = job[p] /\ todo'[p] = todo[p]
        /\ doc' = [doc EXCEPT ![job[p].file] = TRUE]
    BY <1>0, <1>5 DEF CallbackStore, Goto, JobsOK
  <2>2. Trusted(p)' /\ Knows(p)'
    BY <1>0, <1>1, <2>1 DEF Trusted, Knows, Grows, TypeOK
  <2>3. \A f \in File : doc'[f] => Uploaded(f)'
    BY <1>0, <1>1, <2>1 DEF PredictInv, Known, Knows, Grows, TypeOK
  <2> QED
    BY <1>2, <2>2, <2>3
<1>6. CASE CallbackStatus(p)
  <2>1. PICK b \in BOOLEAN : Begin(p, "same", [job[p] EXCEPT !.parse = b], job[p].same)
    BY <1>6 DEF CallbackStatus
  <2> DEFINE j == [job[p] EXCEPT !.parse = b]
  <2>3. j.file = job[p].file /\ j.same = job[p].same
    BY <1>0 DEF Job
  <2>4. pc'[p] = "same" /\ job'[p] = j /\ todo'[p] = job[p].same /\ doc[job[p].file]
    BY <1>0, <1>1, <1>6, <2>1 DEF CallbackStatus, Begin, Goto, JobsOK, Trusted
  <2> HIDE DEF j
  <2>2. Trusted(p)' /\ Knows(p)'
    BY <1>0, <1>1, <1>6, <2>3, <2>4 DEF Trusted, Knows, Grows, CallbackStatus
  <2> QED
    BY <1>2, <1>6, <2>2, KnownStay DEF CallbackStatus
<1>7. CASE CallbackSame(p)
  <2>1. PICK g \in todo[p] : doc' = [doc EXCEPT ![g] = TRUE] /\ todo'[p] = todo[p] \ {g}
    BY <1>7 DEF CallbackSame, TypeOK, JobsOK
  <2>2. pc'[p] = "same" /\ pc[p] = "same" /\ job'[p] = job[p] /\ g \in File /\ doc'[g]
    BY <1>1, <1>7, <2>1 DEF CallbackSame, TypeOK
  <2>3. Trusted(p)' /\ Knows(p)'
    BY <1>1, <2>1, <2>2 DEF Trusted, Knows, Grows
  <2>4. \A f \in File : doc'[f] => Uploaded(f)'
    BY <1>0, <1>1, <2>1 DEF PredictInv, Known, Knows, Grows, TypeOK
  <2> QED
    BY <1>2, <2>3, <2>4
<1>8. CASE CallbackPipe(p)
  <2> DEFINE j == [job[p] EXCEPT !.same = {}]
  <2>1. pc'[p] = "process" /\ job'[p] = j /\ todo'[p] = {job[p].file} \cup job[p].same
    BY <1>0, <1>8 DEF CallbackPipe, Begin, Goto, JobsOK
  <2>2. j.file = job[p].file /\ j.same = {}
    BY <1>0 DEF Job
  <2>3. doc[job[p].file] /\ \A g \in job[p].same : doc[g]
    BY <1>1, <1>8 DEF Trusted, CallbackPipe
  <2> HIDE DEF j
  <2>4. Trusted(p)' /\ Knows(p)'
    BY <1>0, <1>1, <2>1, <2>2, <2>3 DEF Trusted, Knows, Grows
  <2> QED
    BY <1>2, <1>8, <2>4, KnownStay DEF CallbackPipe
<1> QED
  BY <1>3, <1>4, <1>5, <1>6, <1>7, <1>8

\* Messages are taken, jobs end: nothing is added.
LEMMA PredictTaking ==
    ASSUME TypeOK, PredictInv, Grows, NEW p \in Process,
           Receive(p) \/ CacheEnd(p) \/ Crash(p)
    PROVE  PredictInv'
<1>0. JobsOK /\ OthersStay(p) /\ UNCHANGED doc
  <2>1. UNCHANGED doc
    BY DEF Receive, CallbackReceive, PredictStart, CacheEnd, Crash
  <2> QED
    BY <2>1, JobsProcess DEF TypeOK, Work
<1>1. CASE CallbackReceive(p)
  <2>1. PICK f \in File, r \in Answers :
           /\ Drop(Fly(f, r))
           /\ Begin(p, "release", [file |-> f, parse |-> r = "colour", cache |-> r = "ok",
                                   same |-> SameFiles(f)], {})
    BY <1>1 DEF CallbackReceive
  <2>2. Fly(f, r) \in Flight /\ r \in Stage
    BY FlightIs, StageIs
  <2>3. flights[Fly(f, r)] > 0 /\ \A z \in Flight \ {Fly(f, r)} : flights'[z] = flights[z]
    BY <2>1, <2>2, DropIs DEF TypeOK
  <2>4. Uploaded(f)
    BY <2>2, <2>3 DEF PredictInv, Known
  <2>5. \A g \in File, s \in Stage : flights'[Fly(g, s)] > 0 => Uploaded(g)'
    BY <2>2, <2>3, <2>4, FlightsKnown DEF PredictInv
  <2>6. pc'[p] = "release" /\ job'[p].file = f /\ job'[p].same = SameFiles(f) /\ todo'[p] = {}
    BY <1>0, <2>1 DEF Begin, Goto, JobsOK
  <2>7. Trusted(p)' /\ Knows(p)'
    BY <2>4, <2>6, IdleTrusted DEF Knows, SameFiles, Grows
  <2> QED
    BY <1>0, <1>1, <2>5, <2>7, KnownStay, PredictsStay, PredictBy DEF CallbackReceive
<1>2. CASE PredictStart(p)
  <2>1. PICK f \in File, cache \in BOOLEAN :
           /\ predicts[f][cache] > 0
           /\ predicts' = [predicts EXCEPT ![f][cache] = predicts[f][cache] - 1]
           /\ Begin(p, "cache", Read(f, FALSE), {}) \/ UNCHANGED <<pc, job, todo>>
    BY <1>2 DEF PredictStart
  <2>2. predicts[f][cache] \in Nat
    BY DEF TypeOK
  <2>3. predicts[f][cache] - 1 \in Nat
    BY <2>1, <2>2
  <2>4. \A g \in File, c \in BOOLEAN : predicts'[g][c] > 0 => predicts[g][c] > 0
    BY <2>1, <2>3, PredictsAre DEF TypeOK
  <2>5. PredictedIsParsed'
    BY <1>0, <2>4 DEF PredictInv, PredictedIsParsed
  <2>6. Uploaded(f)
    BY <2>1 DEF PredictInv, PredictedIsParsed, Known
  <2>7. pc'[p] = "idle" \/ (pc'[p] = "cache" /\ job'[p] = Read(f, FALSE) /\ todo'[p] = {})
    BY <1>0, <1>2, <2>1 DEF PredictStart, Begin, Goto, JobsOK
  <2>8. Trusted(p)' /\ Knows(p)'
    BY <2>6, <2>7, IdleTrusted DEF Knows, Read, Grows
  <2> QED
    BY <1>0, <1>2, <2>5, <2>8, KnownStay, PredictBy DEF PredictStart
<1>3. CASE CacheEnd(p) \/ Crash(p)
  <2>1. pc'[p] = "idle"
    BY <1>0, <1>3, EndIs DEF CacheEnd, Crash
  <2> QED
    BY <1>0, <1>3, <2>1, KnownStay, PredictsStay, IdleTrusted, PredictBy
       DEF CacheEnd, Crash, Knows
<1> QED
  BY <1>1, <1>2, <1>3 DEF Receive

\* Messages, the parser and Redis: files and stages of a parse only move.
LEMMA PredictMessages ==
    ASSUME TypeOK, PredictInv, Grows,
           (\E f \in File : Task(f) \/ Lose(f) \/ LosePredict(f)) \/ LockExpire
    PROVE  PredictInv'
<1>0. UNCHANGED <<pc, job, todo, doc>>
  <2>1. UNCHANGED doc
    BY DEF Task, Convert, ConvertFails, StartParse, PushFails, PushRefused, InsightEnd,
           Lose, LosePredict, LockExpire
  <2> QED
    BY <2>1, ProcessesStay
<1>1. \A p \in Process : Trusted(p)' /\ Knows(p)'
  <2> SUFFICES ASSUME NEW p \in Process PROVE Trusted(p)' /\ Knows(p)'
    OBVIOUS
  <2>1. CASE pc[p] = "idle"
    BY <1>0, <2>1 DEF Trusted, Knows
  <2>2. CASE pc[p] # "idle"
    <3>1. /\ job[p].file \in File /\ job[p].same \in SUBSET File /\ todo[p] \in SUBSET File
          /\ Trusted(p) /\ Knows(p)
      BY <2>2, BusyIs, JobIs DEF TypeOK, JobsOK, PredictInv, Known
    <3> QED
      BY <1>0, <2>2, <3>1 DEF Trusted, Knows, Grows
  <2> QED
    BY <2>1, <2>2
<1>2. ASSUME UNCHANGED predicts,
             \A f \in File, s \in Stage : flights'[Fly(f, s)] > 0 => Uploaded(f)'
      PROVE  PredictInv'
  BY <1>0, <1>1, <1>2, KnownStay, PredictsStay DEF PredictInv, Known
<1>3. ASSUME NEW f \in File, NEW s \in Stage, NEW t \in Stage, s # t, UNCHANGED predicts,
             Move(Fly(f, s), Fly(f, t))
      PROVE  PredictInv'
  <2>1. /\ flights[Fly(f, s)] > 0
        /\ \A z \in Flight \ {Fly(f, s), Fly(f, t)} : flights'[z] = flights[z]
    BY <1>3, MoveIs, FlightIs DEF TypeOK
  <2>2. Uploaded(f)
    BY <2>1 DEF PredictInv, Known
  <2>3. ASSUME NEW g \in File, NEW u \in Stage, flights'[Fly(g, u)] > 0 PROVE Uploaded(g)'
    <3>1. CASE g = f
      BY <2>2, <3>1 DEF Grows
    <3>2. CASE g # f
      <4>1. Fly(g, u) \in Flight \ {Fly(f, s), Fly(f, t)}
        BY <3>2, FlightIs
      <4> QED
        BY <2>1, <2>3, <4>1 DEF PredictInv, Known, Grows
    <3> QED
      BY <3>1, <3>2
  <2> QED
    BY <1>2, <1>3, <2>3
<1>4. ASSUME NEW f \in File, NEW s \in Stage, UNCHANGED predicts, Drop(Fly(f, s))
      PROVE  PredictInv'
  <2>1. /\ flights[Fly(f, s)] > 0
        /\ \A z \in Flight \ {Fly(f, s)} : flights'[z] = flights[z]
    BY <1>4, DropIs, FlightIs DEF TypeOK
  <2>2. Uploaded(f) /\ Fly(f, s) \in Flight
    BY <2>1, FlightIs DEF PredictInv, Known
  <2>3. \A g \in File, u \in Stage : flights'[Fly(g, u)] > 0 => Uploaded(g)'
    BY <2>1, <2>2, FlightsKnown DEF PredictInv
  <2> QED
    BY <1>2, <1>4, <2>3
<1>5. ASSUME NEW f \in File, Convert(f) \/ StartParse(f) PROVE PredictInv'
  BY <1>3, <1>5, StageIs DEF Convert, StartParse
<1>6. ASSUME NEW f \in File, InsightEnd(f) PROVE PredictInv'
  <2>1. PICK r \in Answers : Move(Fly(f, "insight"), Fly(f, r))
    BY <1>6 DEF InsightEnd
  <2>2. r # "insight" /\ r \in Stage
    BY StageIs DEF Answers
  <2> QED
    BY <1>3, <1>6, <2>1, <2>2, StageIs DEF InsightEnd
<1>7. ASSUME NEW f \in File, ConvertFails(f) \/ PushFails(f) \/ PushRefused(f) \/ Lose(f)
      PROVE  PredictInv'
  <2>1. UNCHANGED predicts /\ \E s \in Stage : Drop(Fly(f, s))
    BY <1>7, StageIs DEF ConvertFails, PushFails, PushRefused, Lose
  <2> QED
    BY <1>4, <2>1
<1>8. ASSUME NEW f \in File, LosePredict(f) PROVE PredictInv'
  <2>1. PICK cache \in BOOLEAN :
           /\ predicts[f][cache] > 0
           /\ predicts' = [predicts EXCEPT ![f][cache] = predicts[f][cache] - 1]
    BY <1>8 DEF LosePredict
  <2>2. predicts[f][cache] \in Nat
    BY DEF TypeOK
  <2>3. predicts[f][cache] - 1 \in Nat
    BY <2>1, <2>2
  <2>4. \A g \in File, c \in BOOLEAN : predicts'[g][c] > 0 => predicts[g][c] > 0
    BY <2>1, <2>3, PredictsAre DEF TypeOK
  <2> QED
    BY <1>0, <1>1, <1>8, <2>4, KnownStay DEF LosePredict, PredictInv, PredictedIsParsed, Known
<1>9. CASE LockExpire
  BY <1>2, <1>9, KnownStay DEF LockExpire
<1> QED
  BY <1>5, <1>6, <1>7, <1>8, <1>9 DEF Task

\* Nothing is predicted for a file without a document, whatever goes wrong and
\* whatever create_pdf_cache writes into its status.
THEOREM PredictedFilesAreParsed == Spec => []PredictedIsParsed
<1>1. Init => PredictInv
  BY FlightIs DEF Init, PredictInv, Known, Knows, Trusted, PredictedIsParsed
<1>2. TypeOK /\ PredictInv /\ [Next]_vars => PredictInv'
  <2> SUFFICES ASSUME TypeOK, PredictInv, [Next]_vars PROVE PredictInv'
    OBVIOUS
  <2>1. CASE UNCHANGED vars
    BY <2>1 DEF vars, PredictInv, Known, Knows, Trusted, PredictedIsParsed, Uploaded
  <2>2. CASE Next
    <3>1. Grows
      BY <2>2, GrowsNext
    <3> QED
      BY <2>2, <3>1, PredictRequests, PredictProcessing, PredictCallback, PredictTaking,
         PredictMessages DEF Next, Receive, Work
  <2> QED
    BY <2>1, <2>2
<1>3. PredictInv => PredictedIsParsed
  BY DEF PredictInv
<1> QED
  BY <1>1, <1>2, <1>3, TypeCorrect, PTL DEF Spec
=============================================================================
