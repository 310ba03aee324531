--------------------------- MODULE LawJudge_proofs ---------------------------
(***************************************************************************)
(* Proofs about LawJudge, for any number of check points, rules, judgings, *)
(* users and changes.                                                      *)
(***************************************************************************)
EXTENDS LawJudge, TLAPS

TasksOK ==
    /\ task \in [Judging -> [Group -> Task]]
    /\ \A j \in Judging, g \in Rule : task[j][g].other = {}

\* What a step may do to the tasks, and to the results.
OneTask(j, g, t) ==
    /\ task'[j][g] = t
    /\ \A i \in Judging, h \in Group : <<i, h>> # <<j, g>> => task'[i][h] = task[i][h]

\* No step but the insertion brings results.
NoneNew == \A r \in Result : status'[r] # "none" => status[r] # "none"

-----------------------------------------------------------------------------
\* A result names a judging, a task and a check point.
LEMMA ResultIs ==
    ASSUME NEW r \in Result
    PROVE  r[1] \in Judging /\ r[2] \in Group /\ r[3] \in CheckPoint /\ r = <<r[1], r[2], r[3]>>
           /\ r # None
BY LawJudgeAssumption DEF Result

\* A task that is over is a task.
LEMMA Task0Is ==
    /\ Task0 \in Task
    /\ Task0.state = "ended" /\ Task0.left = {} /\ Task0.other = {} /\ Task0.at = None
BY DEF Task0, Task

\* A task goes on, or is over.
LEMMA RunningIs ==
    \A left \in SUBSET CheckPoint, other \in SUBSET CheckPoint, at \in Result \cup {None} :
           /\ Running(left, other, at) \in Task
           /\ Running(left, other, at).left = left
           /\ Running(left, other, at).at = at
           /\ Running(left, other, at).other \in {other, {}}
           /\ Running(left, other, at).state = "running" \/ Running(left, other, at) = Task0
           /\ left = {} /\ at = None <=> Running(left, other, at) = Task0
BY Task0Is DEF Running, Task, Task0

\* What a task has left, and what it judges.
LEMMA RunningHas ==
    ASSUME NEW left \in SUBSET CheckPoint, NEW other \in SUBSET CheckPoint,
           NEW at \in Result \cup {None}
    PROVE  Running(left, other, at).left = left /\ Running(left, other, at).at = at
BY DEF Running, Task0

\* Only the task for the templates finds a check point out of place.
LEMMA RunningOf ==
    ASSUME NEW g, NEW left \in SUBSET CheckPoint, NEW other \in SUBSET CheckPoint,
           NEW at \in Result \cup {None}, g \in Rule => other = {}
    PROVE  /\ Running(left, other, at) \in Task
           /\ g \in Rule => Running(left, other, at).other = {}
<1>1. Running(left, other, at) \in Task /\ Running(left, other, at).other \in {other, {}}
  BY RunningIs
<1> QED
  BY <1>1

\* The fields of a task.
LEMMA TaskIs ==
    ASSUME TasksOK, NEW j \in Judging, NEW g \in Group
    PROVE  /\ task[j][g] \in Task
           /\ task[j][g].left \in SUBSET CheckPoint /\ task[j][g].other \in SUBSET CheckPoint
           /\ task[j][g].at \in Result \cup {None}
           /\ task[j][g].state \in {"queued", "running", "ended"}
BY DEF TasksOK, Task

\* A step of one task leaves the others.
LEMMA TaskSet ==
    ASSUME TasksOK, NEW j \in Judging, NEW g \in Group, NEW t \in Task,
           g \in Rule => t.other = {}, task' = [task EXCEPT ![j][g] = t]
    PROVE  TasksOK' /\ OneTask(j, g, t)
<1>1. task' \in [Judging -> [Group -> Task]]
  BY DEF TasksOK
<1>2. task'[j][g] = t
  BY DEF TasksOK
<1>3. ASSUME NEW i \in Judging, NEW h \in Group, <<i, h>> # <<j, g>> PROVE task'[i][h] = task[i][h]
  BY <1>3 DEF TasksOK
<1>4. ASSUME NEW i \in Judging, NEW h \in Rule PROVE task'[i][h].other = {}
  <2>1. h \in Group
    BY DEF Group
  <2> QED
    BY <1>2, <1>3, <2>1 DEF TasksOK
<1> QED
  BY <1>1, <1>2, <1>3, <1>4 DEF TasksOK, OneTask

\* The tasks of a judging are none of the templates or of a rule.
LEMMA PointsAre ==
    ASSUME TypeOK, NEW j \in Judging, NEW g \in Group
    PROVE  PointsOf(j, g) \in SUBSET CheckPoint
BY DEF TypeOK, PointsOf

\* What the tasks of a judging are when it is committed.
LEMMA CommitTasks ==
    ASSUME TypeOK, TasksOK, NEW j \in Judging, JudgeCommit(j)
    PROVE  /\ TasksOK'
           /\ \A i \in Judging \ {j} : task'[i] = task[i]
           /\ \A g \in Group : task'[j][g].left = PointsOf(j, g) /\ task'[j][g].at = None
           /\ \A g \in Group : task'[j][g] = Task0 \/
                    (task'[j][g].state = "queued" /\ task'[j][g].left # {})
<1> DEFINE New(g) == IF PointsOf(j, g) = {} THEN Task0
                     ELSE [Task0 EXCEPT !.state = "queued", !.left = PointsOf(j, g)]
<1>1. \A g \in Group : New(g) \in Task /\ New(g).other = {} /\ New(g).left = PointsOf(j, g)
                       /\ New(g).at = None
                       /\ (New(g) = Task0 \/ (New(g).state = "queued" /\ New(g).left # {}))
  BY PointsAre, Task0Is DEF Task, Task0
<1>2. task' = [task EXCEPT ![j] = [g \in Group |-> New(g)]]
  BY DEF JudgeCommit
<1> HIDE DEF New
<1>3. \A g \in Group : task'[j][g] = New(g)
  BY <1>2 DEF TasksOK
<1>4. \A i \in Judging \ {j} : task'[i] = task[i]
  BY <1>2 DEF TasksOK
<1>5. task' \in [Judging -> [Group -> Task]]
  BY <1>1, <1>2 DEF TasksOK
<1>6. \A i \in Judging, g \in Rule : task'[i][g].other = {}
  BY <1>1, <1>3, <1>4 DEF TasksOK, Group
<1> QED
  BY <1>1, <1>3, <1>4, <1>5, <1>6 DEF TasksOK

\* The results, one of which is written.
LEMMA StatusSet ==
    ASSUME TypeOK, NEW r \in Result, status[r] # "none", NEW s \in JudgeStatusEnum,
           status' = [status EXCEPT ![r] = s]
    PROVE  /\ status' \in [Result -> JudgeStatusEnum \cup {"none"}]
           /\ NoneNew
           /\ status'[r] = s
           /\ \A q \in Result : q # r => status'[q] = status[q]
BY DEF TypeOK, NoneNew

\* A verdict is written, unless the result is gone.
LEMMA VerdictSet ==
    ASSUME TypeOK, NEW r \in Result, NEW s \in Outcomes[r[3]], status' = VerdictOf(r, s)
    PROVE  /\ status' \in [Result -> JudgeStatusEnum \cup {"none"}]
           /\ NoneNew
           /\ status'[r] \in Verdict \cup {"none"}
           /\ \A q \in Result : q # r => status'[q] = status[q]
<1>1. s \in Verdict /\ s \in JudgeStatusEnum
  BY ResultIs, LawJudgeAssumption DEF Verdict, JudgeStatusEnum
<1>2. CASE status[r] # "none"
  BY <1>1, <1>2, StatusSet DEF VerdictOf
<1>3. CASE status[r] = "none"
  BY <1>3 DEF VerdictOf, TypeOK, NoneNew
<1> QED
  BY <1>2, <1>3

-----------------------------------------------------------------------------
(* Types. *)

OthersOK ==
    /\ judging \in [Judging -> {"idle", "open", "done"}]
    /\ seen \in [Judging -> SUBSET Judging]
    /\ read \in [Judging -> SUBSET CheckPoint]
    /\ beside \in [Judging -> SUBSET Judging]
    /\ request \in [User -> Result \cup {None}]
    /\ active \subseteq CheckPoint /\ method \subseteq CheckPoint /\ gone \subseteq Rule
    /\ changes \in 0 .. MaxChanges
    /\ trouble \subseteq Trouble

StatusOK == status \in [Result -> JudgeStatusEnum \cup {"none"}]

\* The type is the types of the tasks, of the results and of the others.
LEMMA TypeParts == TypeOK <=> OthersOK /\ StatusOK /\ TasksOK
BY DEF TypeOK, OthersOK, StatusOK, TasksOK

\* So it is after a step.
LEMMA TypePartsNext == TypeOK' <=> OthersOK' /\ StatusOK' /\ TasksOK'
BY DEF TypeOK, OthersOK, StatusOK, TasksOK

\* A counted step stays within its bound.
LEMMA CountedIs ==
    ASSUME TypeOK, Counted
    PROVE  changes' \in 0 .. MaxChanges
BY LawJudgeAssumption DEF TypeOK, Counted

\* What may go wrong.
LEMMA TroubleIs ==
    /\ "judge" \in Trouble /\ "task" \in Trouble /\ "user" \in Trouble
    /\ "deleted" \in Trouble /\ "changed" \in Trouble /\ "twice" \in Trouble
    /\ "overlap" \in Trouble /\ "mixed" \in Trouble
BY DEF Trouble, Fault

\* What goes wrong is kept.
LEMMA MeetsIs ==
    ASSUME TypeOK, NEW kinds \in SUBSET Trouble, Meets(kinds)
    PROVE  trouble' \subseteq Trouble /\ trouble \subseteq trouble' /\ kinds \subseteq trouble'
BY DEF TypeOK, Meets

\* A failure is counted.
LEMMA FailsIs ==
    ASSUME TypeOK, NEW f \in {"judge", "task"}, Fails(f)
    PROVE  trouble' \subseteq Trouble /\ trouble \subseteq trouble' /\ f \in trouble'
           /\ changes' \in 0 .. MaxChanges
BY CountedIs, MeetsIs, TroubleIs DEF Fails

\* The end of the transaction.
LEMMA EndTypes ==
    ASSUME TypeOK, NEW j \in Judging, JudgeEnd(j), trouble' \subseteq Trouble,
           changes' \in 0 .. MaxChanges
    PROVE  OthersOK'
BY DEF TypeOK, OthersOK, JudgeEnd, points

\* The insertion of results.
LEMMA InsertTypes ==
    ASSUME TypeOK, NEW j \in Judging, NEW failed \in SUBSET Trouble, JudgeInsert(j, failed),
           changes' \in 0 .. MaxChanges
    PROVE  /\ OthersOK' /\ StatusOK'
           /\ trouble \subseteq trouble' /\ failed \subseteq trouble'
           /\ Live \subseteq seen[j] \/ "overlap" \in trouble'
           /\ read[j] \cap (active \ method) = {} \/ "twice" \in trouble'
<1> DEFINE kinds == failed \cup When(Live \ seen[j] # {}, "overlap")
                           \cup When(read[j] \cap (active \ method) # {}, "twice")
<1>1. kinds \in SUBSET Trouble
  BY TroubleIs DEF When
<1>2. trouble' \subseteq Trouble /\ trouble \subseteq trouble' /\ kinds \subseteq trouble'
  <2>1. Meets(kinds)
    BY DEF JudgeInsert
  <2> QED
    BY <1>1, <2>1, MeetsIs
<1>3. StatusOK'
  BY DEF TypeOK, StatusOK, JudgeInsert, Replaced, JudgeStatusEnum
<1>4. OthersOK'
  BY <1>2, EndTypes DEF JudgeInsert
<1> QED
  BY <1>2, <1>3, <1>4 DEF When

\* What a task does to the results: one it has found fails or is being judged, or
\* what it found is left or fails as a whole.
LEMMA NextIs ==
    ASSUME TypeOK, NEW j \in Judging, NEW g \in Group, TaskNext(j, g)
    PROVE  /\ UNCHANGED <<calls, request, points, changes>>
           /\ task[j][g].state = "running" /\ task[j][g].at = None
           /\ \E c \in task[j][g].left :
               \/ /\ Found(c) = {}
                  /\ task' = [task EXCEPT ![j][g] =
                                Running(task[j][g].left \ {c}, task[j][g].other, None)]
                  /\ UNCHANGED <<status, trouble>>
               \/ \E r \in Found(c) :
                    /\ status' = [status EXCEPT ![r] = "FAILED"]
                    /\ task' = [task EXCEPT ![j][g] = Task0]
                    /\ Meets({"changed"})
               \/ \E r \in Found(c) :
                    /\ status' = [status EXCEPT ![r] = "DOING"]
                    /\ task' = [task EXCEPT ![j][g] =
                                  Running(task[j][g].left \ {c}, task[j][g].other, r)]
                    /\ Meets(When(r[1] # j, "mixed"))
BY DEF TaskNext

\* A task keeps the types.
LEMMA PerformTypes ==
    ASSUME TypeOK, NEW j \in Judging, NEW g \in Group, Perform(j, g) \/ TaskFails(j, g)
    PROVE  TypeOK'
<1>1. TasksOK /\ OthersOK /\ StatusOK
  BY TypeParts
<1>2. task[j][g].left \in SUBSET CheckPoint /\ task[j][g].other \in SUBSET CheckPoint
      /\ task[j][g].at \in Result \cup {None}
      /\ (g \in Rule => task[j][g].other = {})
  BY <1>1, TaskIs DEF TasksOK
<1>3. Task0 \in Task /\ Task0.other = {}
  BY Task0Is
<1>4. CASE TaskBegin(j, g)
  <2> DEFINE other == IF g = Templates THEN task[j][g].left \cap method ELSE {}
  <2>1. other \in SUBSET CheckPoint /\ (g \in Rule => other = {})
    BY <1>2, LawJudgeAssumption
  <2>2. Running(task[j][g].left, other, None) \in Task
        /\ (g \in Rule => Running(task[j][g].left, other, None).other = {})
    BY <1>2, <2>1, RunningOf
  <2>3. TasksOK'
    BY <1>1, <1>4, <2>2, TaskSet DEF TaskBegin
  <2> QED
    BY <1>1, <1>4, <2>3, TypePartsNext DEF TaskBegin, calls, points, OthersOK, StatusOK
<1>5. CASE TaskExtractFails(j, g)
  <2>1. TasksOK'
    BY <1>1, <1>3, <1>5, TaskSet DEF TaskExtractFails
  <2>2. StatusOK'
    BY <1>1, <1>5 DEF TaskExtractFails, FailedOf, StatusOK, JudgeStatusEnum
  <2>3. trouble' \subseteq Trouble
    BY <1>5, MeetsIs, TroubleIs DEF TaskExtractFails, When
  <2> QED
    BY <1>1, <1>5, <2>1, <2>2, <2>3, TypePartsNext DEF TaskExtractFails, calls, points, OthersOK
<1>6. CASE TaskRaises(j, g)
  <2>1. TasksOK'
    BY <1>1, <1>3, <1>6, TaskSet DEF TaskRaises
  <2>2. trouble' \subseteq Trouble
    BY <1>6, MeetsIs, TroubleIs DEF TaskRaises
  <2> QED
    BY <1>1, <1>6, <2>1, <2>2, TypePartsNext DEF TaskRaises, calls, points, OthersOK, StatusOK
<1>7. CASE TaskNext(j, g)
  <2>1. PICK c \in task[j][g].left :
               \/ /\ Found(c) = {}
                  /\ task' = [task EXCEPT ![j][g] =
                                Running(task[j][g].left \ {c}, task[j][g].other, None)]
                  /\ UNCHANGED <<status, trouble>>
               \/ \E r \in Found(c) :
                    /\ status' = [status EXCEPT ![r] = "FAILED"]
                    /\ task' = [task EXCEPT ![j][g] = Task0]
                    /\ Meets({"changed"})
               \/ \E r \in Found(c) :
                    /\ status' = [status EXCEPT ![r] = "DOING"]
                    /\ task' = [task EXCEPT ![j][g] =
                                  Running(task[j][g].left \ {c}, task[j][g].other, r)]
                    /\ Meets(When(r[1] # j, "mixed"))
    BY <1>7, NextIs
  <2>2. \A r \in Result \cup {None} :
            /\ Running(task[j][g].left \ {c}, task[j][g].other, r) \in Task
            /\ g \in Rule => Running(task[j][g].left \ {c}, task[j][g].other, r).other = {}
    BY <1>2, RunningOf
  <2>3. TasksOK'
    <3>1. \E t \in Task : task' = [task EXCEPT ![j][g] = t] /\ (g \in Rule => t.other = {})
      BY <1>3, <2>1, <2>2 DEF Found
    <3> QED
      BY <1>1, <3>1, TaskSet
  <2>4. StatusOK'
    BY <1>1, <2>1 DEF StatusOK, JudgeStatusEnum
  <2>5. trouble' \subseteq Trouble
    BY <1>1, <2>1, MeetsIs, TroubleIs DEF When, OthersOK
  <2> QED
    BY <1>1, <1>7, <2>3, <2>4, <2>5, NextIs, TypePartsNext DEF calls, points, OthersOK
<1>8. CASE TaskVerdict(j, g)
  <2>1. task[j][g].at \in Result
    BY <1>2, <1>8 DEF TaskVerdict
  <2>2. Running(task[j][g].left, task[j][g].other, None) \in Task
        /\ (g \in Rule => Running(task[j][g].left, task[j][g].other, None).other = {})
    BY <1>2, RunningOf
  <2>3. TasksOK'
    BY <1>1, <1>8, <2>2, TaskSet DEF TaskVerdict
  <2>4. StatusOK'
    BY <1>8, <2>1, VerdictSet DEF TaskVerdict, StatusOK
  <2> QED
    BY <1>1, <1>8, <2>3, <2>4, TypePartsNext DEF TaskVerdict, calls, points, OthersOK
<1>9. CASE TaskFails(j, g)
  <2>1. TasksOK'
    BY <1>1, <1>3, <1>9, TaskSet DEF TaskFails
  <2>2. trouble' \subseteq Trouble /\ changes' \in 0 .. MaxChanges
    BY <1>9, FailsIs DEF TaskFails
  <2> QED
    BY <1>1, <1>9, <2>1, <2>2, TypePartsNext DEF TaskFails, calls, points, OthersOK, StatusOK
<1> QED
  BY <1>4, <1>5, <1>6, <1>7, <1>8, <1>9 DEF Perform

\* Every step keeps the types.
LEMMA NextTypes ==
    ASSUME TypeOK, [Next]_vars
    PROVE  TypeOK'
<1>1. TasksOK /\ OthersOK /\ StatusOK
  BY TypeParts
<1>2. ASSUME NEW j \in Judging, JudgeBegin(j) PROVE TypeOK'
  <2>1. Live \in SUBSET Judging /\ active \cap method \in SUBSET CheckPoint
    BY DEF Live, TypeOK
  <2> QED
    BY <1>1, <1>2, <2>1, TypePartsNext DEF JudgeBegin, points, OthersOK, StatusOK, TasksOK
<1>3. ASSUME NEW j \in Judging, JudgeCommit(j) PROVE TypeOK'
  <2>1. changes' \in 0 .. MaxChanges
    BY <1>3 DEF JudgeCommit, TypeOK
  <2>2. OthersOK' /\ StatusOK'
    BY <1>3, <2>1, InsertTypes DEF JudgeCommit
  <2> QED
    BY <1>1, <1>3, <2>2, CommitTasks, TypePartsNext
<1>4. ASSUME NEW j \in Judging, JudgeUnsent(j) PROVE TypeOK'
  <2>1. OthersOK' /\ StatusOK'
    BY <1>4, InsertTypes, CountedIs, TroubleIs DEF JudgeUnsent
  <2> QED
    BY <1>1, <1>4, <2>1, TypePartsNext DEF JudgeUnsent, TasksOK
<1>5. ASSUME NEW j \in Judging, JudgeRollback(j) PROVE TypeOK'
  <2>1. OthersOK'
    BY <1>5, EndTypes, FailsIs DEF JudgeRollback
  <2> QED
    BY <1>1, <1>5, <2>1, TypePartsNext DEF JudgeRollback, TasksOK, StatusOK
<1>6. ASSUME NEW u \in User, NEW r \in Result, Rejudge(u, r) PROVE TypeOK'
  <2>1. StatusOK'
    BY <1>6 DEF Rejudge, TypeOK, StatusOK, JudgeStatusEnum
  <2>2. trouble' \subseteq Trouble /\ changes' \in 0 .. MaxChanges
    BY <1>6, MeetsIs, TroubleIs, CountedIs DEF Rejudge, When
  <2> QED
    BY <1>1, <1>6, <2>1, <2>2, TypePartsNext DEF Rejudge, calls, points, OthersOK, TasksOK
<1>7. ASSUME NEW u \in User, RejudgeVerdict(u) PROVE TypeOK'
  <2>1. request[u] \in Result
    BY <1>7 DEF RejudgeVerdict, TypeOK
  <2>2. StatusOK'
    BY <1>7, <2>1, VerdictSet DEF RejudgeVerdict, StatusOK
  <2> QED
    BY <1>1, <1>7, <2>2, TypePartsNext DEF RejudgeVerdict, calls, points, OthersOK, TasksOK
<1>8. ASSUME NEW u \in User, RejudgeFails(u) PROVE TypeOK'
  <2>1. trouble' \subseteq Trouble
    BY <1>8, MeetsIs, TroubleIs DEF RejudgeFails
  <2> QED
    BY <1>1, <1>8, <2>1, TypePartsNext DEF RejudgeFails, calls, points, OthersOK, TasksOK, StatusOK
<1>9. CASE Reset
  BY <1>1, <1>9, CountedIs, TypePartsNext DEF Reset, calls, points, OthersOK, TasksOK, StatusOK
<1>10. ASSUME NEW c \in CheckPoint, Switch(c) \/ Edit(c) PROVE TypeOK'
  BY <1>1, <1>10, CountedIs, TypePartsNext
  DEF Switch, Edit, calls, points, OthersOK, TasksOK, StatusOK
<1>11. ASSUME NEW g \in Rule, DeleteRule(g) PROVE TypeOK'
  BY <1>1, <1>11, CountedIs, TypePartsNext DEF DeleteRule, calls, points, OthersOK, TasksOK, StatusOK
<1>12. CASE UNCHANGED vars
  BY <1>1, <1>12, TypePartsNext DEF vars, calls, points, OthersOK, TasksOK, StatusOK
<1> QED
  BY <1>2, <1>3, <1>4, <1>5, <1>6, <1>7, <1>8, <1>9, <1>10, <1>11, <1>12, PerformTypes
  DEF Next, Judge, Answer, Change

\* At first there is nothing.
LEMMA InitTypes == Init => TypeOK
<1> SUFFICES ASSUME Init PROVE TypeOK
  OBVIOUS
<1>1. TasksOK
  BY Task0Is DEF Init, TasksOK, Group
<1>2. OthersOK /\ StatusOK
  BY LawJudgeAssumption DEF Init, OthersOK, StatusOK
<1> QED
  BY <1>1, <1>2, TypeParts

\* Every variable has its type.
THEOREM TypeCorrect == Spec => []TypeOK
BY InitTypes, NextTypes, PTL DEF Spec

-----------------------------------------------------------------------------
(* One judging. *)

\* A task changes itself, and writes results that are there.
LEMMA PerformIs ==
    ASSUME TypeOK, NEW j \in Judging, NEW g \in Group, Perform(j, g) \/ TaskFails(j, g)
    PROVE  /\ task[j][g] # Task0
           /\ \E t \in Task : OneTask(j, g, t)
           /\ NoneNew
           /\ UNCHANGED <<calls, request, points>>
           /\ trouble \subseteq trouble'
<1>1. TasksOK /\ StatusOK
  BY TypeParts
<1>2. task[j][g].left \in SUBSET CheckPoint /\ task[j][g].other \in SUBSET CheckPoint
      /\ task[j][g].at \in Result \cup {None}
      /\ (g \in Rule => task[j][g].other = {})
  BY <1>1, TaskIs DEF TasksOK
<1>3. Task0 \in Task /\ Task0.other = {} /\ Task0.state = "ended" /\ Task0.at = None
  BY Task0Is
<1>4. CASE TaskBegin(j, g)
  <2> DEFINE other == IF g = Templates THEN task[j][g].left \cap method ELSE {}
  <2>1. other \in SUBSET CheckPoint /\ (g \in Rule => other = {})
    BY <1>2, LawJudgeAssumption
  <2>2. Running(task[j][g].left, other, None) \in Task
        /\ (g \in Rule => Running(task[j][g].left, other, None).other = {})
    BY <1>2, <2>1, RunningOf
  <2>3. \E t \in Task : OneTask(j, g, t)
    BY <1>1, <1>4, <2>2, TaskSet DEF TaskBegin
  <2> QED
    BY <1>3, <1>4, <2>3 DEF TaskBegin, NoneNew, calls, points
<1>5. CASE TaskExtractFails(j, g)
  <2>1. \E t \in Task : OneTask(j, g, t)
    BY <1>1, <1>3, <1>5, TaskSet DEF TaskExtractFails
  <2>2. NoneNew
    BY <1>1, <1>5 DEF TaskExtractFails, FailedOf, Found, StatusOK, NoneNew
  <2>3. trouble \subseteq trouble'
    BY <1>5, MeetsIs, TroubleIs DEF TaskExtractFails, When
  <2> QED
    BY <1>3, <1>5, <2>1, <2>2, <2>3 DEF TaskExtractFails, calls, points
<1>6. CASE TaskRaises(j, g)
  <2>1. \E t \in Task : OneTask(j, g, t)
    BY <1>1, <1>3, <1>6, TaskSet DEF TaskRaises
  <2>2. trouble \subseteq trouble'
    BY <1>6, MeetsIs, TroubleIs DEF TaskRaises
  <2> QED
    BY <1>3, <1>6, <2>1, <2>2 DEF TaskRaises, NoneNew, calls, points
<1>7. CASE TaskNext(j, g)
  <2>1. PICK c \in task[j][g].left :
               \/ /\ Found(c) = {}
                  /\ task' = [task EXCEPT ![j][g] =
                                Running(task[j][g].left \ {c}, task[j][g].other, None)]
                  /\ UNCHANGED <<status, trouble>>
               \/ \E r \in Found(c) :
                    /\ status' = [status EXCEPT ![r] = "FAILED"]
                    /\ task' = [task EXCEPT ![j][g] = Task0]
                    /\ Meets({"changed"})
               \/ \E r \in Found(c) :
                    /\ status' = [status EXCEPT ![r] = "DOING"]
                    /\ task' = [task EXCEPT ![j][g] =
                                  Running(task[j][g].left \ {c}, task[j][g].other, r)]
                    /\ Meets(When(r[1] # j, "mixed"))
    BY <1>7, NextIs
  <2>2. \A r \in Result \cup {None} :
            /\ Running(task[j][g].left \ {c}, task[j][g].other, r) \in Task
            /\ g \in Rule => Running(task[j][g].left \ {c}, task[j][g].other, r).other = {}
    BY <1>2, RunningOf
  <2>3. \E t \in Task : OneTask(j, g, t)
    <3>1. \E t \in Task : task' = [task EXCEPT ![j][g] = t] /\ (g \in Rule => t.other = {})
      BY <1>3, <2>1, <2>2 DEF Found
    <3> QED
      BY <1>1, <3>1, TaskSet
  <2>4. NoneNew
    BY <1>1, <2>1 DEF Found, StatusOK, NoneNew
  <2>5. trouble \subseteq trouble'
    BY <2>1, MeetsIs, TroubleIs DEF When
  <2> QED
    BY <1>3, <1>7, <2>3, <2>4, <2>5, NextIs
<1>8. CASE TaskVerdict(j, g)
  <2>1. task[j][g].at \in Result
    BY <1>2, <1>8 DEF TaskVerdict
  <2>2. Running(task[j][g].left, task[j][g].other, None) \in Task
        /\ (g \in Rule => Running(task[j][g].left, task[j][g].other, None).other = {})
    BY <1>2, RunningOf
  <2>3. \E t \in Task : OneTask(j, g, t)
    BY <1>1, <1>8, <2>2, TaskSet DEF TaskVerdict
  <2>4. NoneNew
    BY <1>8, <2>1, VerdictSet DEF TaskVerdict
  <2> QED
    BY <1>3, <1>8, <2>3, <2>4 DEF TaskVerdict, calls, points
<1>9. CASE TaskFails(j, g)
  <2>1. \E t \in Task : OneTask(j, g, t)
    BY <1>1, <1>3, <1>9, TaskSet DEF TaskFails
  <2>2. trouble \subseteq trouble'
    BY <1>9, FailsIs DEF TaskFails
  <2> QED
    BY <1>3, <1>9, <2>1, <2>2 DEF TaskFails, NoneNew, calls, points
<1> QED
  BY <1>4, <1>5, <1>6, <1>7, <1>8, <1>9 DEF Perform

\* A step inserts results, or brings none.
LEMMA StepIs ==
    ASSUME TypeOK, [Next]_vars
    PROVE  /\ trouble \subseteq trouble'
           /\ NoneNew \/ \E j \in Judging, failed \in SUBSET Trouble : JudgeInsert(j, failed)
<1>1. ASSUME NEW j \in Judging, NEW g \in Group, Perform(j, g) \/ TaskFails(j, g)
      PROVE  trouble \subseteq trouble' /\ NoneNew
  BY <1>1, PerformIs
<1>2. ASSUME NEW j \in Judging, JudgeBegin(j) PROVE trouble \subseteq trouble' /\ NoneNew
  BY <1>2 DEF JudgeBegin, NoneNew
<1>3. ASSUME NEW j \in Judging, JudgeCommit(j)
      PROVE  trouble \subseteq trouble' /\ JudgeInsert(j, {})
  <2>1. changes' \in 0 .. MaxChanges
    BY <1>3 DEF JudgeCommit, TypeOK
  <2> QED
    BY <1>3, <2>1, InsertTypes DEF JudgeCommit
<1>4. ASSUME NEW j \in Judging, JudgeUnsent(j)
      PROVE  trouble \subseteq trouble' /\ JudgeInsert(j, {"judge"})
  BY <1>4, InsertTypes, CountedIs, TroubleIs DEF JudgeUnsent
<1>5. ASSUME NEW j \in Judging, JudgeRollback(j) PROVE trouble \subseteq trouble' /\ NoneNew
  BY <1>5, FailsIs DEF JudgeRollback, NoneNew
<1>6. ASSUME NEW u \in User, NEW r \in Result, Rejudge(u, r)
      PROVE  trouble \subseteq trouble' /\ NoneNew
  BY <1>6, MeetsIs, TroubleIs DEF Rejudge, When, Found, TypeOK, NoneNew
<1>7. ASSUME NEW u \in User, RejudgeVerdict(u) PROVE trouble \subseteq trouble' /\ NoneNew
  <2>1. request[u] \in Result
    BY <1>7 DEF RejudgeVerdict, TypeOK
  <2> QED
    BY <1>7, <2>1, VerdictSet DEF RejudgeVerdict
<1>8. ASSUME NEW u \in User, RejudgeFails(u) PROVE trouble \subseteq trouble' /\ NoneNew
  BY <1>8, MeetsIs, TroubleIs DEF RejudgeFails, NoneNew
<1>9. CASE Reset
  BY <1>9 DEF Reset, NoneNew
<1>10. ASSUME NEW c \in CheckPoint, Switch(c) \/ Edit(c) PROVE trouble \subseteq trouble' /\ NoneNew
  BY <1>10 DEF Switch, Edit, NoneNew
<1>11. ASSUME NEW g \in Rule, DeleteRule(g) PROVE trouble \subseteq trouble' /\ NoneNew
  BY <1>11 DEF DeleteRule, NoneNew
<1>12. CASE UNCHANGED vars
  BY <1>12 DEF vars, NoneNew
<1> QED
  BY <1>1, <1>2, <1>3, <1>4, <1>5, <1>6, <1>7, <1>8, <1>9, <1>10, <1>11, <1>12, TroubleIs
  DEF Next, Judge, Answer, Change

\* A judging that has not ended its transaction has no results, no tasks, and
\* nobody asks for its results.
Fresh ==
    \A j \in Judging : judging[j] # "done" =>
        /\ \A r \in Result : r[1] = j => status[r] = "none"
        /\ \A g \in Group : task[j][g] = Task0
        /\ \A u \in User : request[u] # None => request[u][1] # j

\* Every step keeps them fresh.
LEMMA FreshStays ==
    ASSUME TypeOK, Fresh, [Next]_vars
    PROVE  Fresh'
<1>1. TasksOK /\ StatusOK
  BY TypeParts
<1>2. ASSUME NoneNew, UNCHANGED <<judging, task, request>> PROVE Fresh'
  BY <1>1, <1>2 DEF NoneNew, Fresh
<1>3. ASSUME NEW j \in Judging, NEW g \in Group, Perform(j, g) \/ TaskFails(j, g) PROVE Fresh'
  <2>1. judging[j] = "done"
    BY <1>3, PerformIs DEF Fresh
  <2>2. UNCHANGED <<judging, request>> /\ NoneNew
    BY <1>3, PerformIs DEF calls
  <2>3. \A i \in Judging : i # j => \A h \in Group : task'[i][h] = task[i][h]
    BY <1>3, PerformIs DEF OneTask
  <2> QED
    BY <1>1, <2>1, <2>2, <2>3 DEF Fresh, NoneNew
<1>4. ASSUME NEW j \in Judging, JudgeBegin(j) PROVE Fresh'
  <2>1. judging[j] # "done" /\ \A i \in Judging : i # j => judging'[i] = judging[i]
    BY <1>4 DEF JudgeBegin, TypeOK
  <2>2. UNCHANGED <<status, task, request>>
    BY <1>4 DEF JudgeBegin
  <2> QED
    BY <2>1, <2>2 DEF Fresh
<1>5. ASSUME NEW j \in Judging, NEW failed, JudgeInsert(j, failed),
             \A i \in Judging \ {j} : task'[i] = task[i]
      PROVE  Fresh'
  <2>1. judging'[j] = "done" /\ \A i \in Judging : i # j => judging'[i] = judging[i]
    BY <1>5 DEF JudgeInsert, JudgeEnd, TypeOK
  <2>2. UNCHANGED request
    BY <1>5 DEF JudgeInsert, JudgeEnd
  <2>3. \A r \in Result : r[1] # j => status'[r] \in {status[r], "none"}
    BY <1>5 DEF JudgeInsert, Replaced
  <2> QED
    BY <1>5, <2>1, <2>2, <2>3 DEF Fresh
<1>6. ASSUME NEW j \in Judging, JudgeCommit(j) PROVE Fresh'
  BY <1>1, <1>5, <1>6, CommitTasks DEF JudgeCommit
<1>7. ASSUME NEW j \in Judging, JudgeUnsent(j) PROVE Fresh'
  BY <1>5, <1>7 DEF JudgeUnsent
<1>8. ASSUME NEW j \in Judging, JudgeRollback(j) PROVE Fresh'
  <2>1. judging'[j] = "done" /\ \A i \in Judging : i # j => judging'[i] = judging[i]
    BY <1>8 DEF JudgeRollback, JudgeEnd, TypeOK
  <2>2. UNCHANGED <<status, task, request>>
    BY <1>8 DEF JudgeRollback, JudgeEnd
  <2> QED
    BY <2>1, <2>2 DEF Fresh
<1>9. ASSUME NEW u \in User, NEW r \in Result, Rejudge(u, r) PROVE Fresh'
  <2>1. status[r] # "none" /\ UNCHANGED <<judging, task>>
    BY <1>9 DEF Rejudge, Found, calls
  <2>2. judging[r[1]] = "done"
    BY <2>1, ResultIs DEF Fresh
  <2>3. NoneNew
    BY <1>9, <2>1 DEF Rejudge, NoneNew, TypeOK
  <2>4. request'[u] = r /\ \A v \in User : v # u => request'[v] = request[v]
    BY <1>9 DEF Rejudge, TypeOK
  <2> QED
    BY <2>1, <2>2, <2>3, <2>4 DEF Fresh, NoneNew
<1>10. ASSUME NEW u \in User, RejudgeVerdict(u) \/ RejudgeFails(u) PROVE Fresh'
  <2>1. request'[u] = None /\ \A v \in User : v # u => request'[v] = request[v]
    BY <1>10 DEF RejudgeVerdict, RejudgeFails, TypeOK
  <2>2. NoneNew /\ UNCHANGED <<judging, task>>
    <3>1. request[u] \in Result
      BY <1>10 DEF RejudgeVerdict, RejudgeFails, TypeOK
    <3> QED
      BY <1>10, <3>1, VerdictSet DEF RejudgeVerdict, RejudgeFails, NoneNew, calls
  <2> QED
    BY <2>1, <2>2 DEF Fresh, NoneNew
<1>11. CASE Reset
  BY <1>2, <1>11 DEF Reset, NoneNew, calls
<1>12. ASSUME NEW c \in CheckPoint, Switch(c) \/ Edit(c) PROVE Fresh'
  BY <1>2, <1>12 DEF Switch, Edit, NoneNew, calls
<1>13. ASSUME NEW g \in Rule, DeleteRule(g) PROVE Fresh'
  BY <1>2, <1>13 DEF DeleteRule, NoneNew, calls
<1>14. CASE UNCHANGED vars
  BY <1>2, <1>14 DEF vars, NoneNew, calls
<1> QED
  BY <1>3, <1>4, <1>6, <1>7, <1>8, <1>9, <1>10, <1>11, <1>12, <1>13, <1>14
  DEF Next, Judge, Answer, Change

\* What is there after an insertion that no other judging overlapped is its own.
LEMMA InsertIs ==
    ASSUME TypeOK, Fresh, NEW j \in Judging, NEW failed \in SUBSET Trouble, JudgeInsert(j, failed),
           changes' \in 0 .. MaxChanges, "overlap" \notin trouble', "twice" \notin trouble'
    PROVE  /\ \A r \in Result : status'[r] # "none" =>
                    r[1] = j /\ r[3] \in PointsOf(j, r[2]) /\ status'[r] = "TODO"
           /\ \A r, s \in Result :
                    status'[r] # "none" /\ status'[s] # "none" /\ r[3] = s[3] => r = s
<1>1. Live \subseteq seen[j] /\ read[j] \cap (active \ method) = {}
  BY InsertTypes
<1>2. \A r \in Result : r[1] = j => status[r] = "none"
  BY DEF Fresh, JudgeInsert, JudgeEnd
<1>3. \A r \in Result :
         status'[r] = IF r[1] = j /\ r[3] \in PointsOf(j, r[2]) THEN "TODO"
                      ELSE IF r[1] \in seen[j] THEN "none" ELSE status[r]
  BY DEF JudgeInsert, Replaced
<1>4. ASSUME NEW r \in Result, status'[r] # "none"
      PROVE  r[1] = j /\ r[3] \in PointsOf(j, r[2]) /\ status'[r] = "TODO"
  <2>1. status[r] # "none" => r[1] \in seen[j]
    BY <1>1, ResultIs DEF Live
  <2> QED
    BY <1>2, <1>3, <1>4, <2>1
<1>5. ASSUME NEW r \in Result, NEW s \in Result, status'[r] # "none", status'[s] # "none",
             r[3] = s[3]
      PROVE  r = s
  <2>1. r[1] = s[1]
    BY <1>4, <1>5
  <2>2. r[3] \in PointsOf(j, r[2]) /\ r[3] \in PointsOf(j, s[2])
    BY <1>4, <1>5
  <2>3. r[2] = s[2]
    BY <1>1, <2>2 DEF PointsOf
  <2> QED
    BY <1>5, <2>1, <2>3, ResultIs
<1> QED
  BY <1>4, <1>5

\* While no judgings overlap and no edit comes between two reads of check points, a
\* check point has one result.
OneResult ==
    trouble \cap {"overlap", "twice"} = {} =>
        \A c \in CheckPoint : \A r, s \in Found(c) : r = s

\* Every step keeps it so.
LEMMA OneStays ==
    ASSUME TypeOK, Fresh, OneResult, [Next]_vars
    PROVE  OneResult'
<1> SUFFICES ASSUME trouble' \cap {"overlap", "twice"} = {},
                    NEW r \in Result, NEW s \in Result,
                    status'[r] # "none", status'[s] # "none", r[3] = s[3]
             PROVE  r = s
  BY DEF OneResult, Found
<1>1. CASE NoneNew
  <2>1. trouble \cap {"overlap", "twice"} = {}
    BY StepIs
  <2>2. r \in Found(r[3]) /\ s \in Found(r[3]) /\ r[3] \in CheckPoint
    BY <1>1, ResultIs DEF NoneNew, Found
  <2> QED
    BY <2>1, <2>2 DEF OneResult
<1>2. ASSUME NEW j \in Judging, NEW failed \in SUBSET Trouble, JudgeInsert(j, failed) PROVE r = s
  <2>1. changes' \in 0 .. MaxChanges
    BY NextTypes DEF TypeOK
  <2> QED
    BY <1>2, <2>1, InsertIs
<1> QED
  BY <1>1, <1>2, StepIs

\* Of two judgings, the second began while the first was open.
Beside(i, k) == (i < k => i \in beside[k]) /\ (k < i => k \in beside[i])

\* Judgings begin in their order; those that are open are beside each other, and an
\* open one sees the results of every judging it is not beside.
InOrder ==
    /\ \A i, k \in Judging : i < k /\ judging[i] = "idle" => judging[k] = "idle"
    /\ \A i, k \in Judging : judging[i] = "open" /\ judging[k] = "open" => Beside(i, k)
    /\ \A i \in Live, k \in Judging : judging[k] = "open" => i \in seen[k] \/ Beside(i, k)

\* A step begins a judging, ends one, or leaves all of them.
LEMMA CallsIs ==
    ASSUME TypeOK, [Next]_vars
    PROVE  \/ \E j \in Judging : JudgeBegin(j)
           \/ \E j \in Judging : JudgeEnd(j) /\ NoneNew
           \/ \E j \in Judging, failed \in SUBSET Trouble : JudgeInsert(j, failed)
           \/ UNCHANGED calls /\ NoneNew
<1>1. NoneNew \/ \E j \in Judging, failed \in SUBSET Trouble : JudgeInsert(j, failed)
  BY StepIs
<1>2. \/ \E j \in Judging : JudgeBegin(j) \/ JudgeEnd(j)
      \/ UNCHANGED calls
  <2>1. ASSUME NEW j \in Judging, Judge(j) PROVE JudgeBegin(j) \/ JudgeEnd(j)
    BY <2>1 DEF Judge, JudgeCommit, JudgeUnsent, JudgeInsert, JudgeRollback
  <2>2. ASSUME NEW j \in Judging, NEW g \in Group, Perform(j, g) \/ TaskFails(j, g)
        PROVE  UNCHANGED calls
    BY <2>2, PerformIs
  <2>3. ASSUME NEW u \in User, NEW r \in Result, Rejudge(u, r) PROVE UNCHANGED calls
    BY <2>3 DEF Rejudge
  <2>4. ASSUME NEW u \in User, Answer(u) PROVE UNCHANGED calls
    BY <2>4 DEF Answer, RejudgeVerdict, RejudgeFails
  <2>5. CASE Change
    BY <2>5 DEF Change, Reset, Switch, Edit, DeleteRule
  <2>6. CASE UNCHANGED vars
    BY <2>6 DEF vars
  <2> QED
    BY <2>1, <2>2, <2>3, <2>4, <2>5, <2>6 DEF Next
<1> QED
  BY <1>1, <1>2 DEF JudgeInsert

\* Every step keeps the judgings in order.
LEMMA OrderStays ==
    ASSUME TypeOK, Fresh, InOrder, [Next]_vars
    PROVE  InOrder'
<1>0. /\ judging \in [Judging -> {"idle", "open", "done"}]
      /\ seen \in [Judging -> SUBSET Judging] /\ beside \in [Judging -> SUBSET Judging]
      /\ Judging \subseteq Nat
  BY LawJudgeAssumption DEF TypeOK, Judging
<1>n. NoneNew => Live' \subseteq Live
  BY DEF NoneNew, Live
<1>1. ASSUME NEW j \in Judging, JudgeBegin(j) PROVE InOrder'
  <2>1. /\ judging[j] = "idle" /\ \A i \in Judging : i < j => judging[i] # "idle"
        /\ judging'[j] = "open" /\ seen'[j] = Live
        /\ beside'[j] = {i \in Judging : judging[i] = "open"}
        /\ \A i \in Judging : i # j =>
             judging'[i] = judging[i] /\ seen'[i] = seen[i] /\ beside'[i] = beside[i]
    BY <1>0, <1>1 DEF JudgeBegin
  <2>2. Live' = Live
    BY <1>1 DEF JudgeBegin, Live
  <2>3. \A i \in Judging : j < i => judging[i] = "idle"
    BY <2>1 DEF InOrder
  <2>4. ASSUME NEW i \in Judging, NEW k \in Judging, i < k, judging'[i] = "idle"
        PROVE  judging'[k] = "idle"
    BY <1>0, <2>1, <2>4 DEF InOrder
  <2>5. ASSUME NEW i \in Judging, NEW k \in Judging, judging'[i] = "open", judging'[k] = "open"
        PROVE  Beside(i, k)'
    BY <1>0, <2>1, <2>3, <2>5 DEF InOrder, Beside
  <2>6. ASSUME NEW i \in Live, NEW k \in Judging, judging'[k] = "open"
        PROVE  i \in seen'[k] \/ Beside(i, k)'
    <3>1. CASE k = j
      BY <2>1, <3>1
    <3>2. CASE k # j
      <4>1. i \in Judging /\ i # j
        BY <2>1 DEF Live, Fresh
      <4> QED
        BY <2>1, <2>6, <3>2, <4>1 DEF InOrder, Beside
    <3> QED
      BY <3>1, <3>2
  <2> QED
    BY <2>2, <2>4, <2>5, <2>6 DEF InOrder
<1>2. ASSUME NEW j \in Judging, JudgeEnd(j),
             \A i \in Live' : i \in Live \/ i = j
      PROVE  InOrder'
  <2>1. /\ judging[j] = "open" /\ judging'[j] = "done" /\ beside' = beside
        /\ \A i \in Judging : i # j => judging'[i] = judging[i] /\ seen'[i] = seen[i]
    BY <1>0, <1>2 DEF JudgeEnd
  <2>2. ASSUME NEW i \in Live', NEW k \in Judging, judging'[k] = "open"
        PROVE  i \in seen'[k] \/ Beside(i, k)'
    BY <1>2, <2>1, <2>2 DEF InOrder, Beside
  <2> QED
    BY <2>1, <2>2 DEF InOrder, Beside
<1>3. ASSUME NEW j \in Judging, NEW failed \in SUBSET Trouble, JudgeInsert(j, failed)
      PROVE  InOrder'
  <2>1. \A i \in Live' : i \in Live \/ i = j
    BY <1>3 DEF JudgeInsert, Replaced, Live
  <2> QED
    BY <1>2, <1>3, <2>1 DEF JudgeInsert
<1>4. CASE UNCHANGED calls /\ NoneNew
  BY <1>n, <1>4 DEF calls, InOrder, Beside
<1> QED
  BY <1>1, <1>2, <1>3, <1>4, <1>n, CallsIs

\* Two judgings that both left results are beside each other, and the results of
\* one hold each check point once.
Siblings ==
    /\ \A i, k \in Live : Beside(i, k)
    /\ "twice" \notin trouble =>
            \A r, s \in Result :
                status[r] # "none" /\ status[s] # "none" /\ r[1] = s[1] /\ r[3] = s[3] => r = s

\* Every step keeps it so.
LEMMA SiblingsStay ==
    ASSUME TypeOK, Fresh, InOrder, Siblings, [Next]_vars
    PROVE  Siblings'
<1>0. /\ judging \in [Judging -> {"idle", "open", "done"}]
      /\ beside \in [Judging -> SUBSET Judging] /\ Judging \subseteq Nat
      /\ trouble \subseteq trouble'
  BY StepIs, LawJudgeAssumption DEF TypeOK, Judging
<1>1. ASSUME NoneNew, \A i \in Live : beside'[i] = beside[i] PROVE Siblings'
  <2>1. Live' \subseteq Live
    BY <1>1 DEF NoneNew, Live
  <2> QED
    BY <1>0, <1>1, <2>1 DEF NoneNew, Siblings, Beside
<1>2. ASSUME NEW j \in Judging, NEW failed \in SUBSET Trouble, JudgeInsert(j, failed)
      PROVE  Siblings'
  <2>1. /\ judging[j] = "open" /\ beside' = beside
        /\ \A r \in Result :
             status'[r] = IF r[1] = j /\ r[3] \in PointsOf(j, r[2]) THEN "TODO"
                          ELSE IF r[1] \in seen[j] THEN "none" ELSE status[r]
    BY <1>2 DEF JudgeInsert, JudgeEnd, Replaced
  <2>2. \A r \in Result : r[1] = j => status[r] = "none"
    BY <2>1 DEF Fresh
  <2>3. \A i \in Live' : i = j \/ (i \in Live /\ i \notin seen[j])
    BY <2>1, <2>2 DEF Live
  <2>4. ASSUME NEW i \in Live', NEW k \in Live' PROVE Beside(i, k)'
    <3>1. CASE i # j /\ k # j
      BY <2>1, <2>3, <3>1 DEF Siblings, Beside
    <3>2. CASE i = j /\ k = j
      BY <1>0, <3>2 DEF Beside
    <3>3. CASE i # j /\ k = j
      BY <2>1, <2>3, <3>3 DEF InOrder, Beside
    <3>4. CASE i = j /\ k # j
      BY <2>1, <2>3, <3>4 DEF InOrder, Beside
    <3> QED
      BY <3>1, <3>2, <3>3, <3>4
  <2>5. ASSUME "twice" \notin trouble', NEW r \in Result, NEW s \in Result,
               status'[r] # "none", status'[s] # "none", r[1] = s[1], r[3] = s[3]
        PROVE  r = s
    <3>1. CASE r[1] = j
      <4>1. read[j] \cap (active \ method) = {}
        BY <1>2, <2>5, InsertTypes, NextTypes DEF TypeOK
      <4>2. r[3] \in PointsOf(j, r[2]) /\ r[3] \in PointsOf(j, s[2])
        BY <2>1, <2>2, <2>5, <3>1
      <4>3. r[2] = s[2]
        BY <4>1, <4>2 DEF PointsOf
      <4> QED
        BY <2>5, <4>3, ResultIs
    <3>2. CASE r[1] # j
      BY <1>0, <2>1, <2>5, <3>2 DEF Siblings
    <3> QED
      BY <3>1, <3>2
  <2> QED
    BY <2>4, <2>5 DEF Siblings
<1>3. ASSUME NEW j \in Judging, JudgeBegin(j) PROVE Siblings'
  <2>1. NoneNew /\ j \notin Live
    BY <1>3 DEF JudgeBegin, NoneNew, Live, Fresh
  <2>2. \A i \in Live : beside'[i] = beside[i]
    BY <1>0, <1>3, <2>1 DEF JudgeBegin, Live
  <2> QED
    BY <1>1, <2>1, <2>2
<1>4. ASSUME NEW j \in Judging, JudgeEnd(j), NoneNew PROVE Siblings'
  BY <1>1, <1>4 DEF JudgeEnd
<1>5. CASE UNCHANGED calls /\ NoneNew
  BY <1>1, <1>5 DEF calls
<1> QED
  BY <1>2, <1>3, <1>4, <1>5, CallsIs

\* The results of a file are those of one judging, of two that both left results one
\* began while the other was open, and each holds a check point once.
THEOREM OneJudgingShows == Spec => []OneJudging
<1>1. Init => Fresh /\ InOrder /\ Siblings
  <2> SUFFICES ASSUME Init PROVE Fresh /\ InOrder /\ Siblings
    OBVIOUS
  <2>1. Live = {} /\ \A r \in Result : status[r] = "none"
    BY DEF Init, Live
  <2>2. \A j \in Judging : judging[j] = "idle"
    BY DEF Init
  <2> QED
    BY <2>1, <2>2, LawJudgeAssumption DEF Init, Fresh, InOrder, Siblings
<1>2. TypeOK /\ Fresh /\ InOrder /\ Siblings /\ [Next]_vars => Fresh' /\ InOrder' /\ Siblings'
  BY FreshStays, OrderStays, SiblingsStay
<1>3. Siblings => OneJudging
  BY DEF Siblings, OneJudging, Beside, Found
<1> QED
  BY <1>1, <1>2, <1>3, TypeCorrect, PTL DEF Spec

-----------------------------------------------------------------------------
(* No result is forgotten. *)

\* A task that is queued has judged nothing yet, and one that runs has something
\* to judge.
Shape(t) ==
    /\ t.state = "queued" => t.at = None /\ t.left # {}
    /\ t.state = "running" => t.at # None \/ t.left # {}
    /\ t.state = "ended" => t = Task0

Shapes == \A j \in Judging, g \in Group : Shape(task[j][g])

\* What runs on has its shape.
LEMMA RunningShape ==
    ASSUME NEW left \in SUBSET CheckPoint, NEW other \in SUBSET CheckPoint,
           NEW at \in Result \cup {None}
    PROVE  Shape(Running(left, other, at))
<1>1. CASE left = {} /\ at = None
  BY <1>1, Task0Is DEF Running, Shape
<1>2. CASE ~(left = {} /\ at = None)
  BY <1>2 DEF Running, Shape
<1> QED
  BY <1>1, <1>2

\* A task that is set keeps the shapes.
LEMMA ShapeSet ==
    ASSUME TasksOK, Shapes, NEW j \in Judging, NEW g \in Group, NEW t, Shape(t),
           task' = [task EXCEPT ![j][g] = t]
    PROVE  Shapes'
<1> SUFFICES ASSUME NEW i \in Judging, NEW h \in Group PROVE Shape(task'[i][h])
  BY DEF Shapes, Shape
<1>1. task'[i][h] = t \/ task'[i][h] = task[i][h]
  BY DEF TasksOK
<1> QED
  BY <1>1 DEF Shapes

\* Every step keeps the shapes.
LEMMA ShapesStay ==
    ASSUME TypeOK, Shapes, [Next]_vars
    PROVE  Shapes'
<1>1. TasksOK
  BY TypeParts
<1>2. Shape(Task0)
  BY Task0Is DEF Shape
<1>3. CASE UNCHANGED task
  BY <1>3 DEF Shapes, Shape
<1>4. ASSUME NEW j \in Judging, NEW g \in Group, Perform(j, g) \/ TaskFails(j, g) PROVE Shapes'
  <2>1. task[j][g].left \in SUBSET CheckPoint /\ task[j][g].other \in SUBSET CheckPoint
    BY <1>1, TaskIs
  <2>2. CASE TaskBegin(j, g)
    <3> DEFINE other == IF g = Templates THEN task[j][g].left \cap method ELSE {}
    <3>1. Shape(Running(task[j][g].left, other, None))
      BY <2>1, RunningShape
    <3> QED
      BY <1>1, <2>2, <3>1, ShapeSet DEF TaskBegin
  <2>3. CASE TaskNext(j, g)
    <3>1. PICK c \in task[j][g].left :
               \/ /\ Found(c) = {}
                  /\ task' = [task EXCEPT ![j][g] =
                                Running(task[j][g].left \ {c}, task[j][g].other, None)]
                  /\ UNCHANGED <<status, trouble>>
               \/ \E r \in Found(c) :
                    /\ status' = [status EXCEPT ![r] = "FAILED"]
                    /\ task' = [task EXCEPT ![j][g] = Task0]
                    /\ Meets({"changed"})
               \/ \E r \in Found(c) :
                    /\ status' = [status EXCEPT ![r] = "DOING"]
                    /\ task' = [task EXCEPT ![j][g] =
                                  Running(task[j][g].left \ {c}, task[j][g].other, r)]
                    /\ Meets(When(r[1] # j, "mixed"))
      BY <2>3, NextIs
    <3>2. \A r \in Result \cup {None} :
             Shape(Running(task[j][g].left \ {c}, task[j][g].other, r))
      BY <2>1, RunningShape
    <3>3. \E t : task' = [task EXCEPT ![j][g] = t] /\ Shape(t)
      BY <1>2, <3>1, <3>2 DEF Found
    <3> QED
      BY <1>1, <3>3, ShapeSet
  <2>4. CASE TaskVerdict(j, g)
    <3>1. Shape(Running(task[j][g].left, task[j][g].other, None))
      BY <2>1, RunningShape
    <3> QED
      BY <1>1, <2>4, <3>1, ShapeSet DEF TaskVerdict
  <2>5. CASE TaskExtractFails(j, g) \/ TaskRaises(j, g) \/ TaskFails(j, g)
    BY <1>1, <1>2, <2>5, ShapeSet DEF TaskExtractFails, TaskRaises, TaskFails
  <2> QED
    BY <1>4, <2>2, <2>3, <2>4, <2>5 DEF Perform
<1>5. ASSUME NEW j \in Judging, JudgeCommit(j) PROVE Shapes'
  <2>1. \A g \in Group : Shape(task'[j][g])
    BY <1>1, <1>2, <1>5, CommitTasks DEF Shape
  <2> QED
    BY <1>1, <1>5, <2>1, CommitTasks DEF Shapes, Shape
<1>6. ASSUME NEW j \in Judging, Judge(j) PROVE Shapes'
  BY <1>3, <1>5, <1>6 DEF Judge, JudgeBegin, JudgeUnsent, JudgeRollback
<1> QED
  BY <1>3, <1>4, <1>6
  DEF Next, Answer, Change, Rejudge, RejudgeVerdict, RejudgeFails, Reset, Switch, Edit, DeleteRule, vars

\* A result to do is with a task, one being judged with a task or a user.
Held(r) ==
    /\ status[r] = "TODO" => \E j \in Judging, g \in Group : r[3] \in task[j][g].left
    /\ status[r] = "DOING" =>
        \/ \E j \in Judging, g \in Group : task[j][g].at = r
        \/ \E u \in User : request[u] = r

\* None is forgotten if all are held.
LEMMA ForgottenIs == NoneForgotten <=> (trouble \cap Lost = {} => \A r \in Result : Held(r))
BY ResultIs DEF NoneForgotten, Held, Found

\* What is unchanged is held on.
LEMMA HeldOn ==
    ASSUME NEW r \in Result, Held(r), status'[r] = status[r],
           \A j \in Judging, g \in Group :
               /\ status[r] = "TODO" /\ r[3] \in task[j][g].left => r[3] \in task'[j][g].left
               /\ status[r] = "DOING" /\ task[j][g].at = r => task'[j][g].at = r,
           \A u \in User : status[r] = "DOING" /\ request[u] = r => request'[u] = r
    PROVE  Held(r)'
BY DEF Held

\* A verdict is held.
LEMMA VerdictHeld ==
    ASSUME NEW r \in Result, status'[r] \in Verdict \cup {"none"}
    PROVE  Held(r)'
BY DEF Held, Verdict

\* A task that goes on holds the others of its results.
LEMMA PerformHeld ==
    ASSUME TypeOK, Fresh, OneResult, Shapes, NEW j \in Judging, NEW g \in Group, Perform(j, g),
           trouble' \cap Lost = {}, \A q \in Result : Held(q), NEW r \in Result
    PROVE  Held(r)'
<1>1. TasksOK
  BY TypeParts
<1>2. task[j][g].left \in SUBSET CheckPoint /\ task[j][g].other \in SUBSET CheckPoint
      /\ task[j][g].at \in Result \cup {None} /\ Shape(task[j][g])
  BY <1>1, TaskIs DEF Shapes
<1>3. UNCHANGED request /\ Held(r) /\ trouble \cap Lost = {}
  BY PerformIs
<1>4. ASSUME NEW left \in SUBSET task[j][g].left, NEW at \in Result \cup {None},
             NEW other \in SUBSET CheckPoint,
             task' = [task EXCEPT ![j][g] = Running(left, other, at)]
      PROVE  /\ task'[j][g].left = left /\ task'[j][g].at = at
             /\ \A i \in Judging, h \in Group : <<i, h>> # <<j, g>> => task'[i][h] = task[i][h]
  <2>1. left \in SUBSET CheckPoint
    BY <1>2
  <2>2. Running(left, other, at).left = left /\ Running(left, other, at).at = at
    BY <2>1, RunningHas
  <2>3. task'[j][g] = Running(left, other, at)
    BY <1>1, <1>4 DEF TasksOK
  <2>4. \A i \in Judging, h \in Group : <<i, h>> # <<j, g>> => task'[i][h] = task[i][h]
    BY <1>1, <1>4 DEF TasksOK
  <2> QED
    BY <2>2, <2>3, <2>4
<1>5. CASE TaskBegin(j, g)
  <2> DEFINE other == IF g = Templates THEN task[j][g].left \cap method ELSE {}
  <2>1. other \in SUBSET CheckPoint /\ task[j][g].at = None
    BY <1>2, <1>5 DEF TaskBegin, Shape
  <2>2. task'[j][g].left = task[j][g].left /\ task'[j][g].at = task[j][g].at
        /\ \A i \in Judging, h \in Group : <<i, h>> # <<j, g>> => task'[i][h] = task[i][h]
    BY <1>4, <1>5, <2>1 DEF TaskBegin
  <2> QED
    BY <1>3, <1>5, <2>2, HeldOn DEF TaskBegin
<1>6. CASE TaskExtractFails(j, g)
  <2>1. task'[j][g] = Task0 /\ \A i \in Judging, h \in Group :
            <<i, h>> # <<j, g>> => task'[i][h] = task[i][h]
    BY <1>1, <1>6 DEF TaskExtractFails, TasksOK
  <2>2. task[j][g].at = None
    BY <1>2, <1>6 DEF TaskExtractFails, Shape
  <2>3. status'[r] = IF r[3] \in task[j][g].left /\ status[r] # "none" THEN "FAILED" ELSE status[r]
    BY <1>6, ResultIs DEF TaskExtractFails, FailedOf, Found
  <2>4. CASE r[3] \in task[j][g].left
    BY <2>3, <2>4, VerdictHeld DEF Verdict
  <2>5. CASE r[3] \notin task[j][g].left
    BY <1>3, <2>1, <2>2, <2>3, <2>5, ResultIs, HeldOn
  <2> QED
    BY <2>4, <2>5
<1>7. CASE TaskRaises(j, g)
  BY <1>7, MeetsIs, TroubleIs DEF TaskRaises, Lost
<1>8. CASE TaskNext(j, g)
  <2>1. PICK c \in task[j][g].left :
               \/ /\ Found(c) = {}
                  /\ task' = [task EXCEPT ![j][g] =
                                Running(task[j][g].left \ {c}, task[j][g].other, None)]
                  /\ UNCHANGED <<status, trouble>>
               \/ \E q \in Found(c) :
                    /\ status' = [status EXCEPT ![q] = "FAILED"]
                    /\ task' = [task EXCEPT ![j][g] = Task0]
                    /\ Meets({"changed"})
               \/ \E q \in Found(c) :
                    /\ status' = [status EXCEPT ![q] = "DOING"]
                    /\ task' = [task EXCEPT ![j][g] =
                                  Running(task[j][g].left \ {c}, task[j][g].other, q)]
                    /\ Meets(When(q[1] # j, "mixed"))
    BY <1>8, NextIs
  <2>2. task[j][g].at = None
    BY <1>8, NextIs
  <2>3. ASSUME Found(c) = {}, UNCHANGED status,
               task' = [task EXCEPT ![j][g] =
                                Running(task[j][g].left \ {c}, task[j][g].other, None)]
        PROVE  Held(r)'
    <3>1. task'[j][g].left = task[j][g].left \ {c}
          /\ \A i \in Judging, h \in Group : <<i, h>> # <<j, g>> => task'[i][h] = task[i][h]
      BY <1>2, <1>4, <2>3
    <3>2. status[r] = "TODO" => r[3] # c
      BY <2>3 DEF Found
    <3>3. \A i \in Judging, h \in Group :
               /\ status[r] = "TODO" /\ r[3] \in task[i][h].left => r[3] \in task'[i][h].left
               /\ status[r] = "DOING" /\ task[i][h].at = r => task'[i][h].at = r
      BY <2>2, <3>1, <3>2, ResultIs
    <3> QED
      BY <1>3, <2>3, <3>3, HeldOn
  <2>4. ASSUME Meets({"changed"}) PROVE FALSE
    BY <2>4, MeetsIs, TroubleIs DEF Lost
  <2>5. ASSUME NEW q \in Found(c), status' = [status EXCEPT ![q] = "DOING"],
               task' = [task EXCEPT ![j][g] =
                                Running(task[j][g].left \ {c}, task[j][g].other, q)]
        PROVE  Held(r)'
    <3>1. q \in Result /\ status[q] # "none"
      BY <2>5 DEF Found
    <3>2. task'[j][g].left = task[j][g].left \ {c} /\ task'[j][g].at = q
          /\ \A i \in Judging, h \in Group : <<i, h>> # <<j, g>> => task'[i][h] = task[i][h]
      BY <1>2, <1>4, <2>5, <3>1
    <3>3. CASE r = q
      <4>1. status'[r] = "DOING"
        BY <2>5, <3>1, <3>3 DEF TypeOK
      <4> QED
        BY <3>2, <3>3, <4>1 DEF Held
    <3>4. CASE r # q
      <4>1. status'[r] = status[r]
        BY <2>5, <3>4 DEF TypeOK
      <4>2. status[r] = "TODO" => r[3] # c
        <5>1. c \in CheckPoint /\ trouble \cap {"overlap", "twice"} = {}
          BY <1>2, <1>3 DEF Lost
        <5> QED
          BY <2>5, <3>4, <5>1 DEF OneResult, Found
      <4> QED
        BY <1>3, <2>2, <3>2, <4>1, <4>2, ResultIs, HeldOn
    <3> QED
      BY <3>3, <3>4
  <2> QED
    BY <2>1, <2>3, <2>4, <2>5
<1>9. CASE TaskVerdict(j, g)
  <2>1. task[j][g].at \in Result
    BY <1>2, <1>9 DEF TaskVerdict
  <2>2. task'[j][g].left = task[j][g].left
        /\ \A i \in Judging, h \in Group : <<i, h>> # <<j, g>> => task'[i][h] = task[i][h]
    <3>1. task' = [task EXCEPT ![j][g] = Running(task[j][g].left, task[j][g].other, None)]
      BY <1>9 DEF TaskVerdict
    <3> QED
      BY <1>2, <1>4, <3>1
  <2>3. status'[task[j][g].at] \in Verdict \cup {"none"}
        /\ \A q \in Result : q # task[j][g].at => status'[q] = status[q]
    BY <1>9, <2>1, VerdictSet DEF TaskVerdict
  <2>4. CASE r = task[j][g].at
    BY <2>3, <2>4, VerdictHeld
  <2>5. CASE r # task[j][g].at
    BY <1>3, <2>2, <2>3, <2>5, HeldOn
  <2> QED
    BY <2>4, <2>5
<1> QED
  BY <1>5, <1>6, <1>7, <1>8, <1>9 DEF Perform

\* No step forgets a result.
LEMMA ForgottenStays ==
    ASSUME TypeOK, Fresh, OneResult, Shapes, NoneForgotten, [Next]_vars
    PROVE  NoneForgotten'
<1> SUFFICES ASSUME trouble' \cap Lost = {}, NEW r \in Result PROVE Held(r)'
  BY ResultIs DEF NoneForgotten, Held, Found
<1>1. trouble \cap Lost = {} /\ \A q \in Result : Held(q)
  BY StepIs, ForgottenIs
<1>2. ASSUME UNCHANGED <<status, task, request>> PROVE Held(r)'
  BY <1>1, <1>2, HeldOn
<1>3. ASSUME NEW j \in Judging, NEW g \in Group, Perform(j, g) PROVE Held(r)'
  BY <1>1, <1>3, PerformHeld
<1>4. ASSUME NEW j \in Judging, NEW g \in Group, TaskFails(j, g) PROVE Held(r)'
  BY <1>4, FailsIs DEF TaskFails, Lost, Fault
<1>5. ASSUME NEW j \in Judging, JudgeCommit(j) PROVE Held(r)'
  <2>1. changes' \in 0 .. MaxChanges /\ {} \in SUBSET Trouble /\ JudgeInsert(j, {})
    BY <1>5 DEF JudgeCommit, TypeOK
  <2>2. status'[r] # "none" =>
            r[1] = j /\ r[3] \in PointsOf(j, r[2]) /\ status'[r] = "TODO"
    BY <2>1, InsertIs DEF Lost
  <2>3. r[2] \in Group /\ task'[j][r[2]].left = PointsOf(j, r[2])
    BY <1>5, ResultIs, CommitTasks, TypeParts
  <2> QED
    BY <2>2, <2>3 DEF Held
<1>6. ASSUME NEW j \in Judging, JudgeUnsent(j) PROVE Held(r)'
  <2>1. "judge" \in trouble'
    BY <1>6, InsertTypes, CountedIs, TroubleIs DEF JudgeUnsent
  <2> QED
    BY <2>1 DEF Lost, Fault
<1>7. ASSUME NEW j \in Judging, JudgeRollback(j) PROVE Held(r)'
  BY <1>7, FailsIs DEF JudgeRollback, Lost, Fault
<1>8. ASSUME NEW u \in User, NEW q \in Result, Rejudge(u, q) PROVE Held(r)'
  <2>1. request[u] = None /\ request'[u] = q /\ \A v \in User : v # u => request'[v] = request[v]
    BY <1>8 DEF Rejudge, TypeOK
  <2>2. CASE r = q
    <3>1. status'[r] = "DOING"
      BY <1>8, <2>2 DEF Rejudge, TypeOK
    <3> QED
      BY <2>1, <2>2, <3>1 DEF Held
  <2>3. CASE r # q
    <3>1. status'[r] = status[r] /\ UNCHANGED task
      BY <1>8, <2>3 DEF Rejudge, TypeOK
    <3> QED
      BY <1>1, <2>1, <3>1, ResultIs, HeldOn
  <2> QED
    BY <2>2, <2>3
<1>9. ASSUME NEW u \in User, RejudgeVerdict(u) PROVE Held(r)'
  <2>1. request[u] \in Result
    BY <1>9 DEF RejudgeVerdict, TypeOK
  <2>2. status'[request[u]] \in Verdict \cup {"none"}
        /\ \A q \in Result : q # request[u] => status'[q] = status[q]
    BY <1>9, <2>1, VerdictSet DEF RejudgeVerdict
  <2>3. CASE r = request[u]
    BY <2>2, <2>3, VerdictHeld
  <2>4. CASE r # request[u]
    <3>1. UNCHANGED task /\ \A v \in User : v # u => request'[v] = request[v]
      BY <1>9 DEF RejudgeVerdict, TypeOK
    <3> QED
      BY <1>1, <2>2, <2>4, <3>1, HeldOn
  <2> QED
    BY <2>3, <2>4
<1>10. ASSUME NEW u \in User, RejudgeFails(u) PROVE Held(r)'
  BY <1>10, MeetsIs, TroubleIs DEF RejudgeFails, Lost, Fault
<1>11. CASE Reset
  BY <1>11, VerdictHeld DEF Reset
<1>12. ASSUME NEW j \in Judging, JudgeBegin(j) PROVE Held(r)'
  BY <1>2, <1>12 DEF JudgeBegin
<1>13. ASSUME NEW c \in CheckPoint, Switch(c) \/ Edit(c) PROVE Held(r)'
  BY <1>2, <1>13 DEF Switch, Edit
<1>14. ASSUME NEW g \in Rule, DeleteRule(g) PROVE Held(r)'
  BY <1>2, <1>14 DEF DeleteRule
<1>15. CASE UNCHANGED vars
  BY <1>2, <1>15 DEF vars
<1> QED
  BY <1>3, <1>4, <1>5, <1>6, <1>7, <1>8, <1>9, <1>10, <1>11, <1>12, <1>13, <1>14, <1>15
  DEF Next, Judge, Answer, Change

\* A result that is to be judged is with a task or a user, unless something failed,
\* its rule was deleted, a template became a method or two judgings overlapped.
THEOREM NoneIsForgotten == Spec => []NoneForgotten
<1>1. Init => Fresh /\ OneResult /\ Shapes /\ NoneForgotten
  BY LawJudgeAssumption, Task0Is
  DEF Init, Fresh, OneResult, Found, Shapes, Shape, NoneForgotten
<1>2. TypeOK /\ Fresh /\ OneResult /\ Shapes /\ NoneForgotten /\ [Next]_vars
        => Fresh' /\ OneResult' /\ Shapes' /\ NoneForgotten'
  BY FreshStays, OneStays, ShapesStay, ForgottenStays
<1> QED
  BY <1>1, <1>2, TypeCorrect, PTL DEF Spec

-----------------------------------------------------------------------------
(* A file that shows a verdict has been judged. *)

Clear == trouble \cap {"mixed", "changed", "twice"} = {}

\* What a task has left is to do, as long as the results of its judging are there.
LeftTodo ==
    \A j \in Live, g \in Group : \A c \in task[j][g].left : status[<<j, g, c>>] = "TODO"

\* A task judges a result of its own.
AtDoing ==
    \A j \in Judging, g \in Group : task[j][g].at # None =>
        /\ task[j][g].at[1] = j /\ task[j][g].at[2] = g
        /\ j \in Live => status[task[j][g].at] = "DOING"

\* What is judged for a user is judged for nobody else and by no task.
AskedDoing ==
    \A u \in User : request[u] # None /\ request[u][1] \in Live =>
        /\ status[request[u]] = "DOING"
        /\ \A v \in User : v # u => request[v] # request[u]
        /\ \A j \in Judging, g \in Group : task[j][g].at # request[u]

\* A judging has a check point once.
Once ==
    \A r, s \in Result :
        status[r] # "none" /\ status[s] # "none" /\ r[1] = s[1] /\ r[3] = s[3] => r = s

Working == LeftTodo /\ AtDoing /\ AskedDoing /\ Once

\* The step brings and deletes no results.
Kept == \A r \in Result : status'[r] = "none" <=> status[r] = "none"

\* The same judgings have results then, and have check points once.
LEMMA KeptIs ==
    ASSUME Kept
    PROVE  Live' = Live /\ (Once => Once')
BY DEF Kept, Live, Once

\* Judgings with results are judgings, and a result is live if it is there.
LEMMA LiveIs == Live \subseteq Judging /\ \A r \in Result : status[r] # "none" => r[1] \in Live
BY ResultIs DEF Live

\* What a task has left is a result.
LEMMA LeftIs ==
    ASSUME TasksOK, NEW j \in Judging, NEW g \in Group, NEW c \in task[j][g].left
    PROVE  <<j, g, c>> \in Result
<1>1. c \in CheckPoint
  BY TaskIs
<1> QED
  BY <1>1 DEF Result

\* Nothing changes that matters.
LEMMA WorkingSame ==
    ASSUME Working, UNCHANGED <<status, task, request>>
    PROVE  Working'
BY DEF Working, LeftTodo, AtDoing, AskedDoing, Once, Live

\* A task that judges nothing and has no more left than before, all else unchanged.
LEMMA WorkingLess ==
    ASSUME TypeOK, Working, NEW j \in Judging, NEW g \in Group, NEW t, OneTask(j, g, t),
           t.left \subseteq task[j][g].left, t.at = None, UNCHANGED <<status, request>>
    PROVE  Working'
<1>1. Live' = Live /\ Once' /\ Live \subseteq Judging
  BY KeptIs, LiveIs DEF Kept, Working
<1>2. LeftTodo'
  <2> SUFFICES ASSUME NEW i \in Live, NEW h \in Group, NEW c \in task'[i][h].left
               PROVE  status[<<i, h, c>>] = "TODO"
    BY <1>1 DEF LeftTodo
  <2>1. c \in task[i][h].left
    BY <1>1 DEF OneTask
  <2> QED
    BY <2>1 DEF Working, LeftTodo
<1>3. ASSUME NEW i \in Judging, NEW h \in Group, task'[i][h].at # None
      PROVE  task'[i][h].at = task[i][h].at
  BY <1>3 DEF OneTask
<1>4. AtDoing'
  BY <1>1, <1>3 DEF Working, AtDoing
<1>5. AskedDoing'
  BY <1>1, <1>3 DEF Working, AskedDoing
<1> QED
  BY <1>1, <1>2, <1>4, <1>5 DEF Working

\* A result is taken up by its own task.
LEMMA WorkingTaken ==
    ASSUME TypeOK, Working, NEW j \in Judging, NEW g \in Group, NEW c \in task[j][g].left,
           NEW r \in Found(c), r[1] = j, NEW t, OneTask(j, g, t),
           t.left = task[j][g].left \ {c}, t.at = r, UNCHANGED request,
           status' = [status EXCEPT ![r] = "DOING"]
    PROVE  Working'
<1>1. TasksOK /\ r \in Result /\ status[r] # "none" /\ r[3] = c
  BY TypeParts DEF Found
<1>2. j \in Live
  BY <1>1, LiveIs
<1>3. status[<<j, g, c>>] = "TODO" /\ <<j, g, c>> \in Result
  BY <1>1, <1>2, LeftIs DEF Working, LeftTodo
<1>4. r = <<j, g, c>>
  BY <1>1, <1>3 DEF Working, Once
<1>5. status'[r] = "DOING" /\ \A q \in Result : q # r => status'[q] = status[q]
  BY <1>1 DEF TypeOK
<1>6. Live' = Live /\ Once' /\ Live \subseteq Judging
  BY <1>1, <1>5, KeptIs, LiveIs DEF Kept, Working
<1>7. LeftTodo'
  <2> SUFFICES ASSUME NEW i \in Live, NEW h \in Group, NEW d \in task'[i][h].left
               PROVE  status'[<<i, h, d>>] = "TODO"
    BY <1>6 DEF LeftTodo
  <2>1. d \in task[i][h].left /\ <<i, h, d>> # r
    BY <1>4, <1>6 DEF OneTask
  <2>2. <<i, h, d>> \in Result /\ status[<<i, h, d>>] = "TODO"
    BY <1>1, <1>6, <2>1, LeftIs DEF Working, LeftTodo
  <2> QED
    BY <1>5, <2>1, <2>2
<1>8. AtDoing'
  <2> SUFFICES ASSUME NEW i \in Judging, NEW h \in Group, task'[i][h].at # None
               PROVE  /\ task'[i][h].at[1] = i /\ task'[i][h].at[2] = h
                      /\ i \in Live => status'[task'[i][h].at] = "DOING"
    BY <1>6 DEF AtDoing
  <2>1. CASE <<i, h>> = <<j, g>>
    BY <1>4, <1>5, <2>1 DEF OneTask
  <2>2. CASE <<i, h>> # <<j, g>>
    <3>1. task'[i][h] = task[i][h] /\ task[i][h].at \in Result
      BY <1>1, <2>2, TaskIs DEF OneTask
    <3>2. task[i][h].at # r
      BY <1>4, <2>2, <3>1 DEF Working, AtDoing
    <3> QED
      BY <1>5, <3>1, <3>2 DEF Working, AtDoing
  <2> QED
    BY <2>1, <2>2
<1>9. AskedDoing'
  <2> SUFFICES ASSUME NEW u \in User, request[u] # None, request[u][1] \in Live
               PROVE  /\ status'[request[u]] = "DOING"
                      /\ \A v \in User : v # u => request[v] # request[u]
                      /\ \A i \in Judging, h \in Group : task'[i][h].at # request[u]
    BY <1>6 DEF AskedDoing
  <2>1. request[u] \in Result /\ request[u] # r
    BY <1>3, <1>4 DEF Working, AskedDoing, TypeOK
  <2> QED
    BY <1>5, <2>1 DEF Working, AskedDoing, OneTask
<1> QED
  BY <1>6, <1>7, <1>8, <1>9 DEF Working

\* A result that a task or a user has judged is given back.
LEMMA WorkingBack ==
    ASSUME TypeOK, Working, NEW r \in Result, r[1] \in Live => status[r] = "DOING",
           Kept, \A q \in Result : q # r => status'[q] = status[q],
           \A j \in Judging, g \in Group :
               task'[j][g].left = task[j][g].left /\ task'[j][g].at \in {task[j][g].at, None},
           \A j \in Judging, g \in Group : r[1] \in Live => task'[j][g].at # r,
           \A u \in User : request'[u] \in {request[u], None},
           \A u \in User : r[1] \in Live => request'[u] # r
    PROVE  Working'
<1>1. TasksOK /\ Live' = Live /\ Once' /\ Live \subseteq Judging
  BY KeptIs, LiveIs, TypeParts DEF Working
<1>2. LeftTodo'
  <2> SUFFICES ASSUME NEW i \in Live, NEW h \in Group, NEW d \in task[i][h].left
               PROVE  status'[<<i, h, d>>] = "TODO"
    BY <1>1 DEF LeftTodo
  <2>1. <<i, h, d>> \in Result /\ status[<<i, h, d>>] = "TODO"
    BY <1>1, LeftIs DEF Working, LeftTodo
  <2>2. <<i, h, d>> # r
    BY <2>1
  <2> QED
    BY <2>1, <2>2
<1>3. AtDoing'
  <2> SUFFICES ASSUME NEW i \in Judging, NEW h \in Group, task'[i][h].at # None
               PROVE  /\ task'[i][h].at[1] = i /\ task'[i][h].at[2] = h
                      /\ i \in Live => status'[task'[i][h].at] = "DOING"
    BY <1>1 DEF AtDoing
  <2>1. task'[i][h].at = task[i][h].at /\ task[i][h].at \in Result
    BY <1>1, TaskIs
  <2>2. task[i][h].at[1] = i /\ task[i][h].at[2] = h
        /\ (i \in Live => status[task[i][h].at] = "DOING")
    BY <2>1 DEF Working, AtDoing
  <2> QED
    BY <2>1, <2>2
<1>4. AskedDoing'
  <2> SUFFICES ASSUME NEW u \in User, request'[u] # None, request'[u][1] \in Live
               PROVE  /\ status'[request'[u]] = "DOING"
                      /\ \A v \in User : v # u => request'[v] # request'[u]
                      /\ \A i \in Judging, h \in Group : task'[i][h].at # request'[u]
    BY <1>1 DEF AskedDoing
  <2>1. request'[u] = request[u] /\ request[u] \in Result
    BY DEF TypeOK
  <2>2. status[request[u]] = "DOING"
        /\ (\A v \in User : v # u => request[v] # request[u])
        /\ (\A i \in Judging, h \in Group : task[i][h].at # request[u])
    BY <2>1 DEF Working, AskedDoing
  <2> QED
    BY <2>1, <2>2
<1> QED
  BY <1>1, <1>2, <1>3, <1>4 DEF Working

\* The results of a task fail, and nobody else's.
LEMMA WorkingFailed ==
    ASSUME TypeOK, Working, NEW j \in Judging, NEW g \in Group, TaskExtractFails(j, g), Clear'
    PROVE  Working'
<1> DEFINE left == task[j][g].left
<1>1. TasksOK /\ left \in SUBSET CheckPoint
  BY TaskIs, TypeParts
<1>2. OneTask(j, g, Task0) /\ UNCHANGED request
  BY <1>1, Task0Is, TaskSet DEF TaskExtractFails
<1>3. \A r \in Result : status'[r] =
         IF r[3] \in left /\ status[r] # "none" THEN "FAILED" ELSE status[r]
  BY ResultIs DEF TaskExtractFails, FailedOf, Found
<1>4. \A r \in Result : r[3] \in left /\ status[r] # "none" => r[1] = j
  <2> SUFFICES ASSUME NEW r \in Result, r[3] \in left, status[r] # "none", r[1] # j PROVE FALSE
    OBVIOUS
  <2>1. \E c \in left : \E q \in Found(c) : q[1] # j
    BY DEF Found
  <2>2. "mixed" \in trouble'
    BY <2>1 DEF TaskExtractFails, Meets, When
  <2> QED
    BY <2>2 DEF Clear
<1>5. \A r \in Result : r[3] \in left /\ status[r] # "none" =>
            r[2] = g /\ r[1] = j /\ status[r] = "TODO"
  <2> SUFFICES ASSUME NEW r \in Result, r[3] \in left, status[r] # "none"
               PROVE  r[2] = g /\ r[1] = j /\ status[r] = "TODO"
    OBVIOUS
  <2>1. r[1] = j /\ j \in Live
    BY <1>4, LiveIs
  <2>2. <<j, g, r[3]>> \in Result /\ status[<<j, g, r[3]>>] = "TODO"
    BY <1>1, <2>1, LeftIs DEF Working, LeftTodo
  <2>3. r = <<j, g, r[3]>>
    BY <2>1, <2>2 DEF Working, Once
  <2> QED
    BY <2>1, <2>2, <2>3
<1>6. Live' = Live /\ Once' /\ Live \subseteq Judging
  BY <1>3, KeptIs, LiveIs DEF Kept, Working
<1>7. \A r \in Result : status[r] = "DOING" => status'[r] = "DOING"
  BY <1>3, <1>5
<1>8. LeftTodo'
  <2> SUFFICES ASSUME NEW i \in Live, NEW h \in Group, NEW d \in task'[i][h].left
               PROVE  status'[<<i, h, d>>] = "TODO"
    BY <1>6 DEF LeftTodo
  <2>1. <<i, h>> # <<j, g>> /\ d \in task[i][h].left
    BY <1>2, <1>6, Task0Is DEF OneTask
  <2>2. <<i, h, d>> \in Result /\ status[<<i, h, d>>] = "TODO"
    BY <1>1, <1>6, <2>1, LeftIs DEF Working, LeftTodo
  <2>3. status'[<<i, h, d>>] = status[<<i, h, d>>]
    BY <1>3, <1>5, <2>1, <2>2
  <2> QED
    BY <2>2, <2>3
<1>9. \A i \in Judging, h \in Group : task'[i][h].at # None =>
         task'[i][h].at = task[i][h].at /\ task[i][h].at \in Result
  BY <1>1, <1>2, Task0Is, TaskIs DEF OneTask
<1>10. AtDoing'
  BY <1>6, <1>7, <1>9 DEF Working, AtDoing
<1>11. AskedDoing'
  <2> SUFFICES ASSUME NEW u \in User, request[u] # None, request[u][1] \in Live
               PROVE  /\ status'[request[u]] = "DOING"
                      /\ \A v \in User : v # u => request[v] # request[u]
                      /\ \A i \in Judging, h \in Group : task'[i][h].at # request[u]
    BY <1>2, <1>6 DEF AskedDoing
  <2>1. request[u] \in Result
    BY DEF TypeOK
  <2> QED
    BY <1>7, <1>9, <2>1 DEF Working, AskedDoing
<1> QED
  BY <1>6, <1>8, <1>10, <1>11 DEF Working

\* Results are inserted.
LEMMA WorkingInserted ==
    ASSUME TypeOK, Fresh, Working, NEW j \in Judging, NEW failed \in SUBSET Trouble,
           JudgeInsert(j, failed), changes' \in 0 .. MaxChanges, Clear', TasksOK',
           \A i \in Judging \ {j} : task'[i] = task[i],
           \A g \in Group : task'[j][g].left \subseteq PointsOf(j, g) /\ task'[j][g].at = None
    PROVE  Working'
<1>1. TasksOK /\ UNCHANGED request
  BY TypeParts DEF JudgeInsert, JudgeEnd
<1>2. read[j] \cap (active \ method) = {}
  BY InsertTypes DEF Clear
<1>3. \A r \in Result : r[1] = j => status[r] = "none"
  BY DEF Fresh, JudgeInsert, JudgeEnd
<1>4. \A r \in Result :
         status'[r] = IF r[1] = j /\ r[3] \in PointsOf(j, r[2]) THEN "TODO"
                      ELSE IF r[1] \in seen[j] THEN "none" ELSE status[r]
  BY DEF JudgeInsert, Replaced
<1>5. \A i \in Live' : i \in Judging /\ (i # j => i \in Live /\ i \notin seen[j])
  <2> SUFFICES ASSUME NEW i \in Live', i # j
               PROVE  i \in Live /\ i \notin seen[j]
    BY DEF Live
  <2>1. PICK r \in Result : r[1] = i /\ status'[r] # "none"
    BY DEF Live
  <2> QED
    BY <1>4, <2>1, LiveIs
<1>6. Once'
  <2> SUFFICES ASSUME NEW r \in Result, NEW s \in Result, status'[r] # "none",
                      status'[s] # "none", r[1] = s[1], r[3] = s[3]
               PROVE  r = s
    BY DEF Once
  <2>1. CASE r[1] = j
    <3>1. r[3] \in PointsOf(j, r[2]) /\ r[3] \in PointsOf(j, s[2])
      BY <1>3, <1>4, <2>1
    <3>2. r[2] = s[2]
      BY <1>2, <3>1 DEF PointsOf
    <3> QED
      BY <3>2, ResultIs
  <2>2. CASE r[1] # j
    <3>1. status[r] # "none" /\ status[s] # "none"
      BY <1>4, <2>2
    <3> QED
      BY <3>1 DEF Working, Once
  <2> QED
    BY <2>1, <2>2
<1>7. LeftTodo'
  <2> SUFFICES ASSUME NEW i \in Live', NEW h \in Group, NEW d \in task'[i][h].left
               PROVE  status'[<<i, h, d>>] = "TODO"
    BY DEF LeftTodo
  <2>1. i \in Judging /\ <<i, h, d>> \in Result
    <3>1. i \in Judging /\ task'[i][h].left \in SUBSET CheckPoint
      BY <1>5, TaskIs DEF TasksOK, Task
    <3> QED
      BY <3>1 DEF Result
  <2>2. CASE i = j
    BY <1>4, <2>1, <2>2
  <2>3. CASE i # j
    BY <1>4, <1>5, <2>1, <2>3 DEF Working, LeftTodo
  <2> QED
    BY <2>2, <2>3
<1>8. AtDoing'
  <2> SUFFICES ASSUME NEW i \in Judging, NEW h \in Group, task'[i][h].at # None
               PROVE  /\ task'[i][h].at[1] = i /\ task'[i][h].at[2] = h
                      /\ i \in Live' => status'[task'[i][h].at] = "DOING"
    BY DEF AtDoing
  <2>1. i # j /\ task'[i][h] = task[i][h] /\ task[i][h].at \in Result
    BY <1>1, TaskIs
  <2>2. task[i][h].at[1] = i /\ task[i][h].at[2] = h
        /\ (i \in Live => status[task[i][h].at] = "DOING")
    BY <2>1 DEF Working, AtDoing
  <2> QED
    BY <1>4, <1>5, <2>1, <2>2
<1>9. AskedDoing'
  <2> SUFFICES ASSUME NEW u \in User, request[u] # None, request[u][1] \in Live'
               PROVE  /\ status'[request[u]] = "DOING"
                      /\ \A v \in User : v # u => request[v] # request[u]
                      /\ \A i \in Judging, h \in Group : task'[i][h].at # request[u]
    BY <1>1 DEF AskedDoing
  <2>1. request[u] \in Result /\ request[u][1] # j
    BY DEF TypeOK, Fresh, JudgeInsert, JudgeEnd
  <2>2. request[u][1] \in Live /\ request[u][1] \notin seen[j]
    BY <1>5, <2>1
  <2>3. status'[request[u]] = "DOING" /\ (\A v \in User : v # u => request[v] # request[u])
    BY <1>4, <2>1, <2>2 DEF Working, AskedDoing
  <2>4. ASSUME NEW i \in Judging, NEW h \in Group PROVE task'[i][h].at # request[u]
    <3>1. CASE i = j
      BY <2>1, <3>1
    <3>2. CASE i # j
      BY <2>2, <3>2 DEF Working, AskedDoing
    <3> QED
      BY <3>1, <3>2
  <2> QED
    BY <2>3, <2>4
<1> QED
  BY <1>6, <1>7, <1>8, <1>9 DEF Working

\* A judged result is asked for again.
LEMMA WorkingAsked ==
    ASSUME TypeOK, Working, NEW u \in User, NEW r \in Result, Rejudge(u, r), Clear'
    PROVE  Working'
<1>1. status[r] \in Verdict
  BY DEF Rejudge, Clear, Meets, When
<1>2. status'[r] = "DOING" /\ \A q \in Result : q # r => status'[q] = status[q]
  BY DEF Rejudge, TypeOK
<1>3. request[u] = None /\ request'[u] = r /\ \A v \in User : v # u => request'[v] = request[v]
  BY DEF Rejudge, TypeOK
<1>4. status[r] # "none" /\ status[r] # "TODO" /\ status[r] # "DOING" /\ UNCHANGED task
  BY <1>1 DEF Verdict, Rejudge
<1>5. TasksOK /\ Live' = Live /\ Once' /\ Live \subseteq Judging /\ r[1] \in Live
  BY <1>2, <1>4, KeptIs, LiveIs, TypeParts DEF Kept, Working
<1>6. LeftTodo'
  <2> SUFFICES ASSUME NEW i \in Live, NEW h \in Group, NEW d \in task[i][h].left
               PROVE  status'[<<i, h, d>>] = "TODO"
    BY <1>4, <1>5 DEF LeftTodo
  <2>1. <<i, h, d>> \in Result /\ status[<<i, h, d>>] = "TODO"
    BY <1>5, LeftIs DEF Working, LeftTodo
  <2> QED
    BY <1>2, <1>4, <2>1
<1>7. \A i \in Judging, h \in Group : task[i][h].at # r
  BY <1>4, <1>5, ResultIs DEF Working, AtDoing
<1>8. AtDoing'
  <2> SUFFICES ASSUME NEW i \in Judging, NEW h \in Group, task[i][h].at # None
               PROVE  /\ task[i][h].at[1] = i /\ task[i][h].at[2] = h
                      /\ i \in Live => status'[task[i][h].at] = "DOING"
    BY <1>4, <1>5 DEF AtDoing
  <2>1. task[i][h].at \in Result
    BY <1>5, TaskIs
  <2> QED
    BY <1>2, <1>7, <2>1 DEF Working, AtDoing
<1>9. \A v \in User : v # u => request[v] # r
  BY <1>4, <1>5, ResultIs DEF Working, AskedDoing
<1>10. AskedDoing'
  <2> SUFFICES ASSUME NEW v \in User, request'[v] # None, request'[v][1] \in Live
               PROVE  /\ status'[request'[v]] = "DOING"
                      /\ \A w \in User : w # v => request'[w] # request'[v]
                      /\ \A i \in Judging, h \in Group : task[i][h].at # request'[v]
    BY <1>4, <1>5 DEF AskedDoing
  <2>1. CASE v = u
    BY <1>2, <1>3, <1>7, <1>9, <2>1
  <2>2. CASE v # u
    <3>1. request'[v] = request[v] /\ request[v] \in Result /\ request[v] # r
      BY <1>3, <1>9, <2>2 DEF TypeOK
    <3>2. status[request[v]] = "DOING"
          /\ (\A w \in User : w # v => request[w] # request[v])
          /\ (\A i \in Judging, h \in Group : task[i][h].at # request[v])
      BY <3>1 DEF Working, AskedDoing
    <3> QED
      BY <1>2, <1>3, <3>1, <3>2
  <2> QED
    BY <2>1, <2>2
<1> QED
  BY <1>5, <1>6, <1>8, <1>10 DEF Working

\* A verdict brings and deletes no results.
LEMMA VerdictKept ==
    ASSUME TypeOK, NEW r \in Result, NEW s \in Outcomes[r[3]], status' = VerdictOf(r, s)
    PROVE  Kept
<1>1. s \in Verdict
  BY ResultIs, LawJudgeAssumption
<1>2. s # "none"
  BY <1>1 DEF Verdict
<1> QED
  BY <1>2 DEF VerdictOf, TypeOK, Kept

\* A request that is over gives its result back.
LEMMA WorkingAnswered ==
    ASSUME TypeOK, Working, NEW u \in User, request[u] \in Result,
           request' = [request EXCEPT ![u] = None], UNCHANGED task, Kept,
           \A q \in Result : q # request[u] => status'[q] = status[q]
    PROVE  Working'
<1> DEFINE r == request[u]
<1>1. r # None /\ r \in Result
  BY ResultIs
<1>2. r[1] \in Live => /\ status[r] = "DOING"
                       /\ \A v \in User : v # u => request[v] # r
                       /\ \A i \in Judging, h \in Group : task[i][h].at # r
  BY <1>1 DEF Working, AskedDoing
<1>3. request'[u] = None /\ \A v \in User : v # u => request'[v] = request[v]
  BY DEF TypeOK
<1>4. \A v \in User : request'[v] \in {request[v], None}
  BY <1>3
<1>5. \A v \in User : r[1] \in Live => request'[v] # r
  BY <1>1, <1>2, <1>3
<1>6. \A i \in Judging, h \in Group :
          task'[i][h].left = task[i][h].left /\ task'[i][h].at \in {task[i][h].at, None}
  OBVIOUS
<1>7. \A i \in Judging, h \in Group : r[1] \in Live => task'[i][h].at # r
  BY <1>2
<1> HIDE DEF r
<1> QED
  BY <1>1, <1>2, <1>4, <1>5, <1>6, <1>7, WorkingBack DEF r

\* A task gives its result back.
LEMMA WorkingJudged ==
    ASSUME TypeOK, Working, NEW j \in Judging, NEW g \in Group, TaskVerdict(j, g)
    PROVE  Working'
<1> DEFINE t == task[j][g]  r == t.at
<1>1. TasksOK /\ t.left \in SUBSET CheckPoint /\ t.other \in SUBSET CheckPoint
      /\ r \in Result /\ (g \in Rule => t.other = {})
  BY TypeParts, TaskIs DEF TaskVerdict, TasksOK
<1>2. OneTask(j, g, Running(t.left, t.other, None))
  <2>1. Running(t.left, t.other, None) \in Task
        /\ (g \in Rule => Running(t.left, t.other, None).other = {})
    BY <1>1, RunningOf
  <2> QED
    BY <1>1, <2>1, TaskSet DEF TaskVerdict
<1>3. Running(t.left, t.other, None).left = t.left /\ Running(t.left, t.other, None).at = None
  BY <1>1, RunningHas
<1>4. PICK s \in Outcomes[r[3]] : status' = VerdictOf(r, s)
  BY DEF TaskVerdict
<1>5. Kept /\ \A q \in Result : q # r => status'[q] = status[q]
  BY <1>1, <1>4, VerdictKept, VerdictSet
<1>6. r # None /\ r[1] = j /\ r[2] = g /\ (r[1] \in Live => status[r] = "DOING")
  BY <1>1, ResultIs DEF Working, AtDoing
<1>7. task'[j][g].left = t.left /\ task'[j][g].at = None
      /\ \A i \in Judging, h \in Group : <<i, h>> # <<j, g>> => task'[i][h] = task[i][h]
  BY <1>2, <1>3 DEF OneTask
<1>8. \A i \in Judging, h \in Group :
          task'[i][h].left = task[i][h].left /\ task'[i][h].at \in {task[i][h].at, None}
  BY <1>7
<1>9. ASSUME NEW i \in Judging, NEW h \in Group PROVE task'[i][h].at # r
  <2>1. CASE <<i, h>> = <<j, g>>
    BY <1>6, <1>7, <2>1
  <2>2. CASE <<i, h>> # <<j, g>>
    BY <1>6, <1>7, <2>2 DEF Working, AtDoing
  <2> QED
    BY <2>1, <2>2
<1>10. \A u \in User : request'[u] = request[u] /\ (r[1] \in Live => request[u] # r)
  <2>1. UNCHANGED request
    BY DEF TaskVerdict
  <2> QED
    BY <1>6, <2>1 DEF Working, AskedDoing
<1> HIDE DEF r, t
<1> QED
  BY <1>1, <1>5, <1>6, <1>8, <1>9, <1>10, WorkingBack

\* A task goes on.
LEMMA WorkingPerformed ==
    ASSUME TypeOK, Shapes, Working, NEW j \in Judging, NEW g \in Group,
           Perform(j, g) \/ TaskFails(j, g), Clear'
    PROVE  Working'
<1> DEFINE left == task[j][g].left  other == task[j][g].other
<1>1. TasksOK /\ left \in SUBSET CheckPoint /\ other \in SUBSET CheckPoint
      /\ (g \in Rule => other = {})
  BY TypeParts, TaskIs DEF TasksOK
<1>2. Task0 \in Task /\ Task0.left = {} /\ Task0.other = {} /\ Task0.at = None
  BY Task0Is
<1>3. CASE TaskBegin(j, g)
  <2> DEFINE out == IF g = Templates THEN left \cap method ELSE {}
  <2>1. out \in SUBSET CheckPoint /\ (g \in Rule => out = {})
    BY <1>1, LawJudgeAssumption
  <2>2. Running(left, out, None) \in Task /\ (g \in Rule => Running(left, out, None).other = {})
    BY <1>1, <2>1, RunningOf
  <2>3. Running(left, out, None).left = left /\ Running(left, out, None).at = None
    BY <1>1, <2>1, RunningHas
  <2>4. OneTask(j, g, Running(left, out, None))
    BY <1>1, <1>3, <2>2, TaskSet DEF TaskBegin
  <2> QED
    BY <1>3, <2>3, <2>4, WorkingLess DEF TaskBegin
<1>4. CASE TaskExtractFails(j, g)
  BY <1>4, WorkingFailed
<1>5. CASE TaskRaises(j, g) \/ TaskFails(j, g)
  <2>1. OneTask(j, g, Task0) /\ UNCHANGED <<status, request>>
    BY <1>1, <1>2, <1>5, TaskSet DEF TaskRaises, TaskFails
  <2> QED
    BY <1>2, <2>1, WorkingLess
<1>6. CASE TaskNext(j, g)
  <2>1. PICK c \in left :
               \/ /\ Found(c) = {}
                  /\ task' = [task EXCEPT ![j][g] = Running(left \ {c}, other, None)]
                  /\ UNCHANGED <<status, trouble>>
               \/ \E r \in Found(c) :
                    /\ status' = [status EXCEPT ![r] = "FAILED"]
                    /\ task' = [task EXCEPT ![j][g] = Task0]
                    /\ Meets({"changed"})
               \/ \E r \in Found(c) :
                    /\ status' = [status EXCEPT ![r] = "DOING"]
                    /\ task' = [task EXCEPT ![j][g] = Running(left \ {c}, other, r)]
                    /\ Meets(When(r[1] # j, "mixed"))
    BY <1>6, NextIs
  <2>2. UNCHANGED request
    BY <1>6, NextIs
  <2>3. left \ {c} \in SUBSET CheckPoint
    BY <1>1
  <2>4. ASSUME NEW at \in Result \cup {None},
               task' = [task EXCEPT ![j][g] = Running(left \ {c}, other, at)]
        PROVE  /\ OneTask(j, g, Running(left \ {c}, other, at))
               /\ Running(left \ {c}, other, at).left = left \ {c}
               /\ Running(left \ {c}, other, at).at = at
    <3>1. Running(left \ {c}, other, at) \in Task
          /\ (g \in Rule => Running(left \ {c}, other, at).other = {})
      BY <1>1, <2>3, RunningOf
    <3>2. OneTask(j, g, Running(left \ {c}, other, at))
      BY <1>1, <2>4, <3>1, TaskSet
    <3> QED
      BY <1>1, <2>3, <3>2, RunningHas
  <2>5. CASE /\ task' = [task EXCEPT ![j][g] = Running(left \ {c}, other, None)]
             /\ UNCHANGED <<status, trouble>>
    <3>1. /\ OneTask(j, g, Running(left \ {c}, other, None))
          /\ Running(left \ {c}, other, None).left = left \ {c}
          /\ Running(left \ {c}, other, None).at = None
      BY <2>4, <2>5
    <3> QED
      BY <2>2, <2>5, <3>1, WorkingLess
  <2>6. ASSUME Meets({"changed"}) PROVE FALSE
    BY <2>6 DEF Meets, Clear
  <2>7. ASSUME NEW r \in Found(c), status' = [status EXCEPT ![r] = "DOING"],
               task' = [task EXCEPT ![j][g] = Running(left \ {c}, other, r)],
               Meets(When(r[1] # j, "mixed"))
        PROVE  Working'
    <3>1. r \in Result /\ r[1] = j
      BY <2>7 DEF Found, Meets, When, Clear
    <3>2. /\ OneTask(j, g, Running(left \ {c}, other, r))
          /\ Running(left \ {c}, other, r).left = left \ {c}
          /\ Running(left \ {c}, other, r).at = r
      BY <2>4, <2>7, <3>1
    <3> QED
      BY <2>2, <2>7, <3>1, <3>2, WorkingTaken
  <2> QED
    BY <2>1, <2>5, <2>6, <2>7
<1>7. CASE TaskVerdict(j, g)
  BY <1>7, WorkingJudged
<1> QED
  BY <1>3, <1>4, <1>5, <1>6, <1>7 DEF Perform

\* A transaction ends, and its results are to do.
LEMMA WorkingBegun ==
    ASSUME TypeOK, Fresh, Working, NEW j \in Judging, Judge(j), Clear'
    PROVE  Working'
<1>1. TasksOK
  BY TypeParts
<1>2. CASE JudgeCommit(j)
  <2>1. changes' \in 0 .. MaxChanges /\ {} \in SUBSET Trouble /\ JudgeInsert(j, {})
    BY <1>2 DEF JudgeCommit, TypeOK
  <2>2. /\ TasksOK'
        /\ \A i \in Judging \ {j} : task'[i] = task[i]
        /\ \A g \in Group : task'[j][g].left = PointsOf(j, g) /\ task'[j][g].at = None
    BY <1>1, <1>2, CommitTasks
  <2> QED
    BY <2>1, <2>2, WorkingInserted
<1>3. CASE JudgeUnsent(j)
  <2>1. changes' \in 0 .. MaxChanges /\ {"judge"} \in SUBSET Trouble /\ JudgeInsert(j, {"judge"})
    BY <1>3, CountedIs, TroubleIs DEF JudgeUnsent
  <2>2. UNCHANGED task /\ judging[j] # "done"
    BY <1>3 DEF JudgeUnsent, JudgeInsert, JudgeEnd
  <2>3. \A g \in Group : task'[j][g].left \subseteq PointsOf(j, g) /\ task'[j][g].at = None
    BY <2>2, Task0Is DEF Fresh
  <2>4. TasksOK' /\ \A i \in Judging \ {j} : task'[i] = task[i]
    BY <1>1, <2>2 DEF TasksOK
  <2> QED
    BY <2>1, <2>3, <2>4, WorkingInserted
<1>4. CASE JudgeBegin(j) \/ JudgeRollback(j)
  <2>1. UNCHANGED <<status, task, request>>
    BY <1>4 DEF JudgeBegin, JudgeRollback, JudgeEnd
  <2> QED
    BY <2>1, WorkingSame
<1> QED
  BY <1>2, <1>3, <1>4 DEF Judge

\* The tasks and the users at work stay so.
LEMMA WorkingStays ==
    ASSUME TypeOK, Fresh, Shapes, Clear => Working, [Next]_vars
    PROVE  Clear' => Working'
<1> SUFFICES ASSUME Clear' PROVE Working'
  OBVIOUS
<1>1. Working
  BY StepIs DEF Clear
<1>2. ASSUME NEW j \in Judging, NEW g \in Group, Perform(j, g) \/ TaskFails(j, g) PROVE Working'
  BY <1>1, <1>2, WorkingPerformed
<1>3. ASSUME NEW j \in Judging, Judge(j) PROVE Working'
  BY <1>1, <1>3, WorkingBegun
<1>4. ASSUME NEW u \in User, NEW r \in Result, Rejudge(u, r) PROVE Working'
  BY <1>1, <1>4, WorkingAsked
<1>5. ASSUME NEW u \in User, Answer(u) PROVE Working'
  <2>1. request[u] \in Result /\ request' = [request EXCEPT ![u] = None] /\ UNCHANGED task
    BY <1>5 DEF Answer, RejudgeVerdict, RejudgeFails, TypeOK
  <2>2. Kept /\ \A q \in Result : q # request[u] => status'[q] = status[q]
    <3>1. CASE RejudgeVerdict(u)
      BY <2>1, <3>1, VerdictKept, VerdictSet DEF RejudgeVerdict
    <3>2. CASE RejudgeFails(u)
      BY <3>2 DEF RejudgeFails, Kept
    <3> QED
      BY <1>5, <3>1, <3>2 DEF Answer
  <2> QED
    BY <1>1, <2>1, <2>2, WorkingAnswered
<1>6. CASE Reset
  <2>1. UNCHANGED <<task, request>> /\ \A r \in Result : status'[r] = "none"
    BY <1>6 DEF Reset
  <2>2. Live' = {}
    BY <2>1 DEF Live
  <2> QED
    BY <1>1, <2>1, <2>2 DEF Working, LeftTodo, AtDoing, AskedDoing, Once
<1>7. CASE UNCHANGED <<status, task, request>>
  BY <1>1, <1>7, WorkingSame
<1>8. ASSUME Change PROVE Working'
  BY <1>6, <1>7, <1>8 DEF Change, Switch, Edit, DeleteRule
<1> QED
  BY <1>2, <1>3, <1>4, <1>5, <1>7, <1>8 DEF Next, vars

\* A verdict is shown when no result is to do or being judged.
LEMMA DisplayIs ==
    ASSUME TypeOK, Display \in Verdict \cup {"PARTIAL"}
    PROVE  \A r \in Result : status[r] \notin {"TODO", "DOING"}
<1> SUFFICES ASSUME NEW r \in Result, status[r] \in {"TODO", "DOING"} PROVE FALSE
  OBVIOUS
<1>1. status[r] \in Counter
  BY ResultIs DEF Counter, Found
<1>2. CASE "DOING" \in Counter \/ ("TODO" \in Counter /\ Counter # {"TODO"})
  <2>1. Counter # {"TODO"} /\ Counter # Verdict /\ Counter # {}
    BY <1>2 DEF Verdict
  <2>2. Display = "DOING"
    BY <1>2, <2>1 DEF Display
  <2> QED
    BY <2>2 DEF Verdict
<1>3. CASE Counter = {"TODO"}
  <2>1. "DOING" \notin Counter /\ Counter # Verdict /\ Counter # {}
    BY <1>3 DEF Verdict
  <2>2. Display = "TODO"
    BY <1>3, <2>1 DEF Display
  <2> QED
    BY <2>2 DEF Verdict
<1> QED
  BY <1>1, <1>2, <1>3

\* No task and no user is at work on results that show a verdict.
LEMMA ShownFollows ==
    ASSUME TypeOK, Shapes, Clear => Working
    PROVE  ShownIsJudged
<1> SUFFICES ASSUME Working, Display \in Verdict \cup {"PARTIAL"}, NEW j \in Live
             PROVE  /\ \A g \in Group : task[j][g] = Task0
                    /\ \A u \in User : request[u] # None => request[u][1] # j
  BY DEF ShownIsJudged, Clear
<1>1. TasksOK /\ j \in Judging
  BY TypeParts, LiveIs
<1>2. \A r \in Result : status[r] \notin {"TODO", "DOING"}
  BY DisplayIs
<1>3. ASSUME NEW g \in Group PROVE task[j][g] = Task0
  <2>1. task[j][g].state \in {"queued", "running", "ended"} /\ task[j][g].at \in Result \cup {None}
    BY <1>1, TaskIs
  <2>2. task[j][g].at = None
    BY <1>1, <1>2, <2>1 DEF Working, AtDoing
  <2>3. task[j][g].left = {}
    <3> SUFFICES ASSUME NEW c \in task[j][g].left PROVE FALSE
      OBVIOUS
    <3>1. <<j, g, c>> \in Result /\ status[<<j, g, c>>] = "TODO"
      BY <1>1, LeftIs DEF Working, LeftTodo
    <3> QED
      BY <1>2, <3>1
  <2> QED
    BY <1>1, <2>1, <2>2, <2>3 DEF Shapes, Shape
<1>4. ASSUME NEW u \in User, request[u] # None PROVE request[u][1] # j
  <2>1. request[u] \in Result
    BY <1>4 DEF TypeOK
  <2> QED
    BY <1>2, <1>4, <2>1 DEF Working, AskedDoing
<1> QED
  BY <1>3, <1>4

\* The tasks and users at work are so in every reachable state without mix-ups.
LEMMA WorkInvariant == Spec => [](TypeOK /\ Fresh /\ Shapes /\ (Clear => Working))
<1>1. ASSUME Init PROVE Fresh /\ Shapes /\ (Clear => Working)
  <2>1. Fresh /\ Shapes
    BY <1>1, Task0Is DEF Init, Fresh, Shapes, Shape
  <2>2. Live = {} /\ \A j \in Judging, g \in Group : task[j][g].at = None
    BY <1>1, Task0Is DEF Init, Live
  <2>3. Working
    BY <1>1, <2>2 DEF Init, Working, LeftTodo, AtDoing, AskedDoing, Once
  <2> QED
    BY <2>1, <2>3
<1>2. TypeOK /\ Fresh /\ Shapes /\ (Clear => Working) /\ [Next]_vars
        => Fresh' /\ Shapes' /\ (Clear => Working)'
  BY FreshStays, ShapesStay, WorkingStays
<1> QED
  BY <1>1, <1>2, TypeCorrect, PTL DEF Spec

\* A file that shows a verdict has been judged, unless tasks of several judgings got
\* mixed or a check point got another kind of test while it was judged.
THEOREM ShownAreJudged == Spec => []ShownIsJudged
BY WorkInvariant, ShownFollows, PTL

-----------------------------------------------------------------------------
(* A verdict stands. *)

\* What may become of the verdict of r in a step.
Stands(r) ==
    status[r] \in Verdict /\ status'[r] # status[r] =>
        \/ status'[r] = "none"
        \/ status'[r] = "DOING" /\ \E u \in User : request[u] = None /\ request'[u] = r

\* A task writes to results that have no verdict yet.
LEMMA PerformStands ==
    ASSUME TypeOK, Working, NEW j \in Judging, NEW g \in Group,
           Perform(j, g) \/ TaskFails(j, g), Clear', NEW r \in Result
    PROVE  Stands(r)
<1> DEFINE t == task[j][g]
<1>1. TasksOK /\ t.left \in SUBSET CheckPoint
  BY TypeParts, TaskIs
<1>2. ASSUME NEW c \in t.left, r \in Found(c), r[1] = j PROVE status[r] = "TODO"
  <2>1. r[3] = c /\ status[r] # "none" /\ j \in Live
    BY <1>2, LiveIs DEF Found
  <2>2. <<j, g, c>> \in Result /\ status[<<j, g, c>>] = "TODO"
    BY <1>1, <2>1, LeftIs DEF Working, LeftTodo
  <2>3. r = <<j, g, c>>
    BY <1>2, <2>1, <2>2 DEF Working, Once
  <2> QED
    BY <2>2, <2>3
<1>3. CASE UNCHANGED status
  BY <1>3 DEF Stands
<1>4. CASE TaskExtractFails(j, g)
  <2>1. CASE \E c \in t.left : r \in Found(c)
    <3>1. PICK c \in t.left : r \in Found(c)
      BY <2>1
    <3>2. r[1] = j
      BY <1>4, <3>1 DEF TaskExtractFails, Meets, When, Clear
    <3>3. status[r] = "TODO"
      BY <1>2, <3>1, <3>2
    <3> QED
      BY <3>3 DEF Stands, Verdict
  <2>2. CASE ~ \E c \in t.left : r \in Found(c)
    <3>1. status'[r] = status[r]
      BY <1>4, <2>2 DEF TaskExtractFails, FailedOf
    <3> QED
      BY <3>1 DEF Stands
  <2> QED
    BY <2>1, <2>2
<1>5. CASE TaskNext(j, g)
  <2>1. PICK c \in t.left :
               \/ /\ Found(c) = {}
                  /\ task' = [task EXCEPT ![j][g] = Running(t.left \ {c}, t.other, None)]
                  /\ UNCHANGED <<status, trouble>>
               \/ \E q \in Found(c) :
                    /\ status' = [status EXCEPT ![q] = "FAILED"]
                    /\ task' = [task EXCEPT ![j][g] = Task0]
                    /\ Meets({"changed"})
               \/ \E q \in Found(c) :
                    /\ status' = [status EXCEPT ![q] = "DOING"]
                    /\ task' = [task EXCEPT ![j][g] = Running(t.left \ {c}, t.other, q)]
                    /\ Meets(When(q[1] # j, "mixed"))
    BY <1>5, NextIs
  <2>2. CASE UNCHANGED <<status, trouble>>
    BY <1>3, <2>2
  <2>3. ~Meets({"changed"})
    BY DEF Meets, Clear
  <2>4. ASSUME NEW q \in Found(c), status' = [status EXCEPT ![q] = "DOING"],
               Meets(When(q[1] # j, "mixed"))
        PROVE  Stands(r)
    <3>1. q \in Result /\ q[1] = j
      BY <2>4 DEF Found, Meets, When, Clear
    <3>2. CASE r = q
      <4>1. status[r] = "TODO"
        BY <1>2, <2>4, <3>1, <3>2
      <4> QED
        BY <4>1 DEF Stands, Verdict
    <3>3. CASE r # q
      <4>1. status'[r] = status[r]
        BY <2>4, <3>3 DEF TypeOK
      <4> QED
        BY <4>1 DEF Stands
    <3> QED
      BY <3>2, <3>3
  <2> QED
    BY <2>1, <2>2, <2>3, <2>4
<1>6. CASE TaskVerdict(j, g)
  <2> DEFINE q == t.at
  <2>1. q \in Result /\ q # None
    BY <1>1, <1>6, TaskIs DEF TaskVerdict
  <2>2. PICK s \in Outcomes[q[3]] : status' = VerdictOf(q, s)
    BY <1>6 DEF TaskVerdict
  <2>3. \A p \in Result : p # q => status'[p] = status[p]
    BY <2>1, <2>2, VerdictSet
  <2>4. status[q] # "none" => status[q] = "DOING"
    BY <2>1, LiveIs DEF Working, AtDoing
  <2>5. status[q] = "none" => status'[q] = status[q]
    BY <2>2 DEF VerdictOf
  <2> HIDE DEF q
  <2> QED
    BY <2>3, <2>4, <2>5 DEF Stands, Verdict
<1> QED
  BY <1>3, <1>4, <1>5, <1>6 DEF Perform, TaskBegin, TaskRaises, TaskFails

\* A judging writes to its own results, of which there are none, and deletes others.
LEMMA InsertStands ==
    ASSUME TypeOK, Fresh, NEW j \in Judging, NEW failed, JudgeInsert(j, failed), NEW r \in Result
    PROVE  Stands(r)
<1>1. r[1] = j => status[r] = "none"
  BY DEF JudgeInsert, JudgeEnd, Fresh
<1>2. status'[r] \in {"TODO", "none", status[r]} /\ (status'[r] = "TODO" /\ status[r] # "TODO" => r[1] = j)
  BY DEF JudgeInsert, Replaced
<1> QED
  BY <1>1, <1>2 DEF Stands, Verdict

\* A verdict stands until its result is deleted or a user asks for it again.
THEOREM VerdictsAlwaysStand == Spec => VerdictsStand
<1>1. ASSUME TypeOK, Fresh, Clear => Working, [Next]_vars, Clear', NEW r \in Result
      PROVE  Stands(r)
  <2>1. Working
    BY <1>1, StepIs DEF Clear
  <2>2. CASE UNCHANGED status
    BY <2>2 DEF Stands
  <2>3. ASSUME NEW j \in Judging, NEW g \in Group, Perform(j, g) \/ TaskFails(j, g) PROVE Stands(r)
    BY <1>1, <2>1, <2>3, PerformStands
  <2>4. ASSUME NEW j \in Judging, Judge(j) PROVE Stands(r)
    BY <1>1, <2>2, <2>4, InsertStands
       DEF Judge, JudgeBegin, JudgeRollback, JudgeCommit, JudgeUnsent
  <2>5. ASSUME NEW u \in User, NEW q \in Result, Rejudge(u, q) PROVE Stands(r)
    <3>1. /\ request[u] = None /\ request'[u] = q /\ status'[q] = "DOING"
          /\ r # q => status'[r] = status[r]
      BY <1>1, <2>5 DEF Rejudge, TypeOK
    <3> QED
      BY <3>1 DEF Stands
  <2>6. ASSUME NEW u \in User, Answer(u) PROVE Stands(r)
    <3>1. CASE RejudgeFails(u)
      BY <2>2, <3>1 DEF RejudgeFails
    <3>2. CASE RejudgeVerdict(u)
      <4> DEFINE q == request[u]
      <4>1. q \in Result /\ q # None
        BY <1>1, <3>2 DEF RejudgeVerdict, TypeOK
      <4>2. PICK s \in Outcomes[q[3]] : status' = VerdictOf(q, s)
        BY <3>2 DEF RejudgeVerdict
      <4>3. \A p \in Result : p # q => status'[p] = status[p]
        BY <1>1, <4>1, <4>2, VerdictSet
      <4>4. status[q] # "none" => status[q] = "DOING"
        BY <2>1, <4>1, LiveIs DEF Working, AskedDoing
      <4>5. status[q] = "none" => status'[q] = status[q]
        BY <4>2 DEF VerdictOf
      <4> HIDE DEF q
      <4> QED
        BY <4>3, <4>4, <4>5 DEF Stands, Verdict
    <3> QED
      BY <2>6, <3>1, <3>2 DEF Answer
  <2>7. CASE Reset
    BY <2>7 DEF Reset, Stands
  <2>8. ASSUME Change PROVE Stands(r)
    BY <2>2, <2>7, <2>8 DEF Change, Switch, Edit, DeleteRule
  <2> QED
    BY <1>1, <2>2, <2>3, <2>4, <2>5, <2>6, <2>8 DEF Next, vars
<1>2. TypeOK /\ Fresh /\ Shapes /\ (Clear => Working) /\ [Next]_vars
        => [trouble' \cap {"mixed", "changed", "twice"} = {} => \A r \in Result : Stands(r)]_vars
  BY <1>1 DEF Clear
<1> QED
  BY <1>2, WorkInvariant, PTL DEF Spec, VerdictsStand, Clear, Stands
=============================================================================
