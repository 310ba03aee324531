------------------------------- MODULE LawJudge -------------------------------
(***************************************************************************)
(* Judging a contract by check points.  In one transaction judge_file      *)
(* deletes the results of the file, reads the check points in force that   *)
(* have a method, then those that compare with a template, and inserts a   *)
(* result to do for each; it then sends a task for the templates and one   *)
(* for each rule.  A task asks for the result of a check point by file and *)
(* check point, not by id: it may find one of another judging.  A user may *)
(* ask for one result again.  Meanwhile check points are switched, edited  *)
(* and deleted.                                                            *)
(*                                                                         *)
(* Files do not meet: one stands for all.  The results a judging inserts   *)
(* are deleted together, so a result is a judging, the task it was         *)
(* inserted for and a check point.  What comes before the transaction (the *)
(* upload to chatdoc, asking again a minute later for a file that is not   *)
(* parsed yet, or failing) changes none of this: a call begins with it.    *)
(***************************************************************************)
EXTENDS Naturals

CONSTANTS
    CheckPoint,   \* the check points of the file's scenario
    Rule,         \* the rules of laws they belong to
    RuleOf,       \* RuleOf[c]: the rule of c
    ByTemplate,   \* the check points that compare with a template at first
    Outcomes,     \* Outcomes[c]: how a judgement of c may end
    Templates,    \* the task for all of these, beside one for each rule
    User,         \* the ones who ask for a result again
    None,         \* no result
    Faults,       \* which of Fault may happen
    MaxJudgings,  \* bound on calls of judge_file
    MaxChanges    \* bound on changes of check points, resets, requests of users
                  \* and failures of anything but these requests

\* Where a worker dies or a call that is not guarded raises.
Fault == {"judge", "task", "user"}

\* What the properties except, beside these.
Trouble == Fault \cup
         {"deleted",  \* a task begins whose rule has been deleted
          "changed",  \* a template was replaced by a method after its judging began
          "twice",    \* so was one for the other while check points were read
          "overlap",  \* two judgings do not see each other's results
          "mixed"}    \* a result is judged by a task of another judging, or for a
                      \* user before its task

Judging == 1 .. MaxJudgings
Group == Rule \cup {Templates}
JudgeStatusEnum == {"TODO", "DOING", "SUCCESS", "FAILED"}
Verdict == {"SUCCESS", "FAILED"}
Result == Judging \X Group \X CheckPoint

\* left: check points still to be judged; other: those among them that have a
\* method and were to compare with a template; at: the result being judged.
Task == [state : {"queued", "running", "ended"},
         left : SUBSET CheckPoint, other : SUBSET CheckPoint, at : Result \cup {None}]

ASSUME LawJudgeAssumption ==
    /\ RuleOf \in [CheckPoint -> Rule]
    /\ ByTemplate \subseteq CheckPoint
    /\ Outcomes \in [CheckPoint -> (SUBSET Verdict) \ {{}}]
    /\ Templates \notin Rule
    /\ None \notin Result
    /\ Faults \subseteq Fault
    /\ MaxJudgings \in Nat /\ MaxChanges \in Nat

VARIABLES
    judging,  \* judging[j]: how far the call of judge_file is
    seen,     \* seen[j]: the judgings whose results it deletes
    read,     \* read[j]: the check points with a method it has read
    beside,   \* beside[j]: the judgings it did not wait for (history)
    status,   \* status[r]: judge_status of a result, "none" where there is none
    task,     \* task[j][g]
    request,  \* request[u]: the result that is judged again for u
    active,   \* the check points in force
    method,   \* the check points with a check_method
    gone,     \* the rules that were deleted
    changes,  \* the ones of MaxChanges so far
    trouble   \* what has gone wrong so far: read by properties only

calls == <<judging, seen, read, beside>>
points == <<active, method, gone>>
vars == <<calls, status, task, request, points, changes, trouble>>

-----------------------------------------------------------------------------
Meets(kinds) == trouble' = trouble \cup kinds
When(condition, kind) == IF condition THEN {kind} ELSE {}

Counted ==
    /\ changes < MaxChanges
    /\ changes' = changes + 1

Fails(fault) ==
    /\ fault \in Faults
    /\ Counted
    /\ Meets({fault})

\* The results of c, one of which get_by_cond finds.
Found(c) == {r \in Result : r[3] = c /\ status[r] # "none"}

\* The judgings whose results are there.
Live == {j \in Judging : \E r \in Result : r[1] = j /\ status[r] # "none"}

Task0 == [state |-> "ended", left |-> {}, other |-> {}, at |-> None]

\* A task that has judged all of its check points ends.
Running(left, other, at) ==
    IF left = {} /\ at = None THEN Task0
    ELSE [state |-> "running", left |-> left, other |-> other, at |-> at]

-----------------------------------------------------------------------------
(* judge_file *)

\* The transaction deletes what is there and reads the check points with a method.
JudgeBegin(j) ==
    /\ judging[j] = "idle"
    /\ \A i \in Judging : i < j => judging[i] # "idle"
    /\ judging' = [judging EXCEPT ![j] = "open"]
    /\ seen' = [seen EXCEPT ![j] = Live]
    /\ read' = [read EXCEPT ![j] = active \cap method]
    /\ beside' = [beside EXCEPT ![j] = {i \in Judging : judging[i] = "open"}]
    /\ UNCHANGED <<status, task, request, points, changes, trouble>>

\* The check points a task is sent.
PointsOf(j, g) ==
    IF g = Templates THEN active \ method
    ELSE {c \in read[j] : RuleOf[c] = g}

\* Mutant: the results of the last judging stay.
ReplacedNone(j) ==
    [r \in Result |->
        IF r[1] = j /\ r[3] \in PointsOf(j, r[2]) THEN "TODO" ELSE status[r]]

\* The results it has seen are deleted, and its own are there to do.
Replaced(j) ==
    [r \in Result |->
        IF r[1] = j /\ r[3] \in PointsOf(j, r[2]) THEN "TODO"
        ELSE IF r[1] \in seen[j] THEN "none" ELSE status[r]]

\* The transaction ends.
JudgeEnd(j) ==
    /\ judging[j] = "open"
    /\ judging' = [judging EXCEPT ![j] = "done"]
    /\ seen' = [seen EXCEPT ![j] = {}]
    /\ read' = [read EXCEPT ![j] = {}]
    /\ UNCHANGED <<beside, request, points>>

\* It reads the other check points and inserts the results; the one that says
\* MISSING where there are none is left out.
JudgeInsert(j, failed) ==
    /\ JudgeEnd(j)
    /\ status' = Replaced(j)
    /\ Meets(failed \cup When(Live \ seen[j] # {}, "overlap")
                    \cup When(read[j] \cap (active \ method) # {}, "twice"))

JudgeCommit(j) ==
    /\ JudgeInsert(j, {})
    /\ task' = [task EXCEPT ![j] = [g \in Group |->
                    IF PointsOf(j, g) = {} THEN Task0
                    ELSE [Task0 EXCEPT !.state = "queued", !.left = PointsOf(j, g)]]]
    /\ UNCHANGED changes

\* The transaction commits, and the tasks are not sent.
JudgeUnsent(j) ==
    /\ JudgeInsert(j, {"judge"})
    /\ "judge" \in Faults
    /\ Counted
    /\ UNCHANGED task

JudgeRollback(j) ==
    /\ JudgeEnd(j)
    /\ Fails("judge")
    /\ UNCHANGED <<status, task>>

-----------------------------------------------------------------------------
(* The tasks judge_file_law_templates_task and judge_file_law_rule_task. *)

\* Mutant: a method is out of place in the task of a rule, too.
TaskBeginMethod(j, g) ==
    /\ task[j][g].state = "queued"
    /\ g \notin gone
    /\ task' = [task EXCEPT ![j][g] =
                    Running(task[j][g].left, task[j][g].left \cap method, None)]
    /\ UNCHANGED <<calls, status, request, points, changes, trouble>>

\* The task reads its check points.
TaskBegin(j, g) ==
    /\ task[j][g].state = "queued"
    /\ g \notin gone
    /\ task' = [task EXCEPT ![j][g] =
                    Running(task[j][g].left,
                            IF g = Templates THEN task[j][g].left \cap method ELSE {}, None)]
    /\ UNCHANGED <<calls, status, request, points, changes, trouble>>

\* Mutant: the results are left as they are.
FailedNone(C) == status

\* Mutant: the results of the file are written, whatever their check points.
FailedAll(C) == [r \in Result |-> IF status[r] # "none" THEN "FAILED" ELSE status[r]]

\* What is written when the contract's contents are not to be had, by file and
\* check points.
FailedOf(C) ==
    [r \in Result |-> IF r \in UNION {Found(c) : c \in C} THEN "FAILED" ELSE status[r]]

\* The contract's contents for the rule are not to be had.
TaskExtractFails(j, g) ==
    /\ task[j][g].state = "queued"
    /\ g \in Rule \ gone
    /\ status' = FailedOf(task[j][g].left)
    /\ task' = [task EXCEPT ![j][g] = Task0]
    /\ Meets(When(\E c \in task[j][g].left : \E r \in Found(c) : r[1] # j, "mixed"))
    /\ UNCHANGED <<calls, request, points, changes>>

\* The handler of the exception that a deleted rule causes raises another.
TaskRaises(j, g) ==
    /\ task[j][g].state = "queued"
    /\ g \in gone
    /\ Meets({"deleted"})
    /\ task' = [task EXCEPT ![j][g] = Task0]
    /\ UNCHANGED <<calls, status, request, points, changes>>

\* The result of the next check point is sought.
TaskNext(j, g) ==
    LET t == task[j][g]
    IN  /\ t.state = "running" /\ t.at = None
        /\ \E c \in t.left :
            \/ /\ Found(c) = {}
               /\ task' = [task EXCEPT ![j][g] = Running(t.left \ {c}, t.other, None)]
               /\ UNCHANGED <<status, trouble>>
            \/ /\ c \in t.other
               /\ \E r \in Found(c) : status' = [status EXCEPT ![r] = "FAILED"]
               /\ task' = [task EXCEPT ![j][g] = Task0]
               /\ Meets({"changed"})
            \/ /\ c \notin t.other
               /\ \E r \in Found(c) :
                    /\ status' = [status EXCEPT ![r] = "DOING"]
                    /\ task' = [task EXCEPT ![j][g] = Running(t.left \ {c}, t.other, r)]
                    /\ Meets(When(r[1] # j, "mixed"))
        /\ UNCHANGED <<calls, request, points, changes>>

\* Mutant: only a judgement that succeeds is written.
VerdictSuccess(r, s) ==
    IF status[r] # "none" /\ s = "SUCCESS" THEN [status EXCEPT ![r] = s] ELSE status

\* What a judgement writes, by id: nothing where the result was deleted.  Whatever
\* goes wrong in it is caught.
VerdictOf(r, s) == IF status[r] # "none" THEN [status EXCEPT ![r] = s] ELSE status

TaskVerdict(j, g) ==
    LET t == task[j][g]
    IN  /\ t.at # None
        /\ \E s \in Outcomes[t.at[3]] : status' = VerdictOf(t.at, s)
        /\ task' = [task EXCEPT ![j][g] = Running(t.left, t.other, None)]
        /\ UNCHANGED <<calls, request, points, changes, trouble>>

TaskFails(j, g) ==
    /\ task[j][g].state \in {"queued", "running"}
    /\ Fails("task")
    /\ task' = [task EXCEPT ![j][g] = Task0]
    /\ UNCHANGED <<calls, status, request, points>>

-----------------------------------------------------------------------------
(* update_judge_results *)

Rejudge(u, r) ==
    /\ Counted
    /\ request[u] = None
    /\ r \in Found(r[3])
    /\ request' = [request EXCEPT ![u] = r]
    /\ status' = [status EXCEPT ![r] = "DOING"]
    /\ Meets(When(status[r] \notin Verdict, "mixed"))
    /\ UNCHANGED <<calls, task, points>>

RejudgeVerdict(u) ==
    /\ request[u] # None
    /\ \E s \in Outcomes[request[u][3]] : status' = VerdictOf(request[u], s)
    /\ request' = [request EXCEPT ![u] = None]
    /\ UNCHANGED <<calls, task, points, changes, trouble>>

\* The contents, the reader or the rule are not to be had.
RejudgeFails(u) ==
    /\ request[u] # None
    /\ "user" \in Faults
    /\ Meets({"user"})
    /\ request' = [request EXCEPT ![u] = None]
    /\ UNCHANGED <<calls, status, task, points, changes>>

-----------------------------------------------------------------------------
(* What others do: LawJudgeResult.reset_judge_results before a file is parsed *)
(* or predicted again, and changes of check points.                         *)

Reset ==
    /\ Counted
    /\ status' = [r \in Result |-> "none"]
    /\ UNCHANGED <<calls, task, request, points, trouble>>

Switch(c) ==
    /\ Counted
    /\ RuleOf[c] \notin gone
    /\ active' = IF c \in active THEN active \ {c} ELSE active \cup {c}
    /\ UNCHANGED <<calls, status, task, request, method, gone, trouble>>

\* An edit that was approved gives a method for a template, or a template for a
\* method, and enables the check point.
Edit(c) ==
    /\ Counted
    /\ RuleOf[c] \notin gone
    /\ method' = IF c \in method THEN method \ {c} ELSE method \cup {c}
    /\ active' = active \cup {c}
    /\ UNCHANGED <<calls, status, task, request, gone, trouble>>

\* Its check points are no longer in force, or have lost their law and still are.
DeleteRule(g) ==
    /\ Counted
    /\ gone' = gone \cup {g}
    /\ active' \in {active, {c \in active : RuleOf[c] # g}}
    /\ UNCHANGED <<calls, status, task, request, method, trouble>>

-----------------------------------------------------------------------------
Init ==
    /\ judging = [j \in Judging |-> "idle"]
    /\ seen = [j \in Judging |-> {}]
    /\ read = [j \in Judging |-> {}]
    /\ beside = [j \in Judging |-> {}]
    /\ status = [r \in Result |-> "none"]
    /\ task = [j \in Judging |-> [g \in Group |-> Task0]]
    /\ request = [u \in User |-> None]
    /\ active = CheckPoint
    /\ method = CheckPoint \ ByTemplate
    /\ gone = {}
    /\ changes = 0
    /\ trouble = {}

Judge(j) ==
    JudgeBegin(j) \/ JudgeCommit(j) \/ JudgeUnsent(j) \/ JudgeRollback(j)

Perform(j, g) ==
    \/ TaskBegin(j, g) \/ TaskExtractFails(j, g) \/ TaskRaises(j, g)
    \/ TaskNext(j, g) \/ TaskVerdict(j, g)

Answer(u) == RejudgeVerdict(u) \/ RejudgeFails(u)

Change ==
    \/ Reset
    \/ \E c \in CheckPoint : Switch(c) \/ Edit(c)
    \/ \E g \in Rule : DeleteRule(g)

Next ==
    \/ \E j \in Judging :
        \/ Judge(j)
        \/ \E g \in Group : Perform(j, g) \/ TaskFails(j, g)
    \/ \E u \in User :
        \/ \E r \in Result : Rejudge(u, r)
        \/ Answer(u)
    \/ Change

Spec == Init /\ [][Next]_vars

Work ==
    \/ \E j \in Judging : JudgeCommit(j) \/ \E g \in Group : Perform(j, g)
    \/ \E u \in User : Answer(u)

\* As long as there is a transaction, a task or a request, one of them goes on:
\* some worker is up.  None is promised its turn.
FairSpec == Spec /\ WF_vars(Work)

-----------------------------------------------------------------------------
(* Properties. *)

\* Every variable has its type; only the task for the templates finds a check point
\* out of place.
TypeOK ==
    /\ judging \in [Judging -> {"idle", "open", "done"}]
    /\ seen \in [Judging -> SUBSET Judging]
    /\ read \in [Judging -> SUBSET CheckPoint]
    /\ beside \in [Judging -> SUBSET Judging]
    /\ status \in [Result -> JudgeStatusEnum \cup {"none"}]
    /\ task \in [Judging -> [Group -> Task]]
    /\ \A j \in Judging, g \in Rule : task[j][g].other = {}
    /\ request \in [User -> Result \cup {None}]
    /\ active \subseteq CheckPoint /\ method \subseteq CheckPoint /\ gone \subseteq Rule
    /\ changes \in 0 .. MaxChanges
    /\ trouble \subseteq Trouble

\* The results of a file are those of one judging: of two that both left results
\* one began while the other's transaction was open.  Those of a judging hold each
\* check point once, unless an edit comes between its two reads of them.
OneJudging ==
    /\ \A i, j \in Live : i < j => i \in beside[j]
    /\ "twice" \notin trouble =>
            \A c \in CheckPoint : \A r, s \in Found(c) : r[1] = s[1] => r = s

Lost == Fault \cup {"deleted", "changed", "twice", "overlap"}

\* No result is forgotten: one to do is among what some task has left, one being
\* judged is so by a task or for a user, unless something failed, the rule was
\* deleted, a template became a method or two judgings overlapped.
NoneForgotten ==
    trouble \cap Lost = {} =>
        \A c \in CheckPoint : \A r \in Found(c) :
            /\ status[r] = "TODO" =>
                \E j \in Judging, g \in Group : c \in task[j][g].left
            /\ status[r] = "DOING" =>
                \/ \E j \in Judging, g \in Group : task[j][g].at = r
                \/ \E u \in User : request[u] = r

\* The statuses of the results that are there.
Counter == {status[r] : r \in UNION {Found(c) : c \in CheckPoint}}

\* Mutant: results to do beside others do not count.
DisplayDone ==
    CASE "DOING" \in Counter -> "DOING"
      [] Counter = {"TODO"} -> "TODO"
      [] Verdict \subseteq Counter -> "PARTIAL"
      [] Counter = {} -> "MISSING"
      [] OTHER -> CHOOSE s \in Verdict : s \in Counter

\* display_status_by_counter
Display ==
    CASE "DOING" \in Counter \/ ("TODO" \in Counter /\ Counter # {"TODO"}) -> "DOING"
      [] Counter = {"TODO"} -> "TODO"
      [] Counter = Verdict -> "PARTIAL"
      [] Counter = {} -> "MISSING"
      [] OTHER -> CHOOSE s \in Verdict : Counter = {s}

\* A file that shows a verdict has been judged: none of its results is still
\* with a task or a user, unless tasks of several judgings got mixed or a check
\* point got another kind of test while it was judged.
ShownIsJudged ==
    trouble \cap {"mixed", "changed", "twice"} = {} /\ Display \in Verdict \cup {"PARTIAL"} =>
        \A j \in Live :
            /\ \A g \in Group : task[j][g] = Task0
            /\ \A u \in User : request[u] # None => request[u][1] # j

\* A verdict stands until its result is deleted or a user asks for it again: no
\* task judges it a second time or fails it with its own check points, with the
\* exceptions of ShownIsJudged.
VerdictsStand ==
    [][trouble' \cap {"mixed", "changed", "twice"} = {} =>
        \A r \in Result :
            status[r] \in Verdict /\ status'[r] # status[r] =>
                \/ status'[r] = "none"
                \/ status'[r] = "DOING" /\ \E u \in User : request[u] = None /\ request'[u] = r]_vars

\* Unless something goes wrong, what is to be judged is judged.
AllJudged ==
    <>[](trouble \cap Lost # {} \/ Counter \subseteq Verdict)

=============================================================================
