--------------------------- MODULE CheckPointReview ---------------------------
(***************************************************************************)
(* From a rule of a law to the check points that contracts are judged by.  *)
(* A task converts a rule into check points.  One user edits a check point *)
(* or asks for its deletion, in a draft beside it or in place, another one *)
(* reviews that; the rule, the check point or the whole law may meanwhile  *)
(* be switched, edited, converted again, replaced or deleted.              *)
(*                                                                         *)
(* A draft is a row of its own that takes the id of its parent when it is  *)
(* approved.  Every request takes any id, that of a draft too: a draft may  *)
(* have a draft, be approved without its parent, and outlive its parent.   *)
(*                                                                         *)
(* Requests that lock the row of their id (SELECT ... FOR UPDATE) are one  *)
(* step each: bulk updates of others wait for it.  The draft of that row is *)
(* not locked, so that one approved by its own id meanwhile is written to  *)
(* as it has become.  The requests that read first and write later are two *)
(* steps.  So is the transaction of a conversion, for what others insert   *)
(* while it waits for their locks: its update began before and misses it.  *)
(* Rules meet only where a refreshed law is applied, so one rule and its   *)
(* counterpart in the next law stand for all.                              *)
(***************************************************************************)
EXTENDS Naturals, FiniteSets

CONSTANTS
    Left,        \* a rule of the current law
    Right,       \* its counterpart in the law that is to replace it
    CheckPoint,  \* bound on check points and drafts: their ids
    User,        \* the ones who edit, review and administrate
    None,        \* no check point, no user, no request
    Faults,      \* which things may go wrong
    MaxFaults,   \* bound on how many kinds of them do in one behaviour
    MaxRequests, \* bound on all requests but reviews
    MaxEdits,    \* bound on the edits of a rule's text
    MaxTasks     \* bound on the conversions of a rule queued or running

Fault == {"llm",       \* a conversion fails
          "early",     \* a conversion raises before its handler
          "crash",     \* a worker dies
          "late",      \* a rule is deleted before what was begun for it is written
          "stale",     \* a rule's status has changed since a request read it
          "overtaken", \* a conversion ends after one of a newer text
          "unseen",    \* a conversion does not see what another one inserts meanwhile
          "carried",   \* a law is applied while its rule is being converted
          "crossed"}   \* a draft is approved by its id during a request on its parent

Rule == {Left, Right}
Switch == {"on", "off"}
Version == 0 .. MaxEdits
LawRuleStatus == {"DISABLED", "INIT", "WAITING", "CONVERTING", "CONVERTED", "CONVERT_FAILED"}
Converting == {"WAITING", "CONVERTING"}
\* DEL_NOT_PASS is left out: nothing tells it from NOT_PASS.
RuleReviewStatus == {"NOT_REVIEWED", "NOT_PASS", "PASS", "DEL_NOT_REVIEWED"}

\* law: whether the rule's law is the draft or the current one, or the rule is
\* deleted.  History: the newest text whose conversion was asked for, and the
\* newest that was converted.
RuleRow == [law : {"draft", "current", "deleted"}, enable : Switch, status : LawRuleStatus,
            version : Version, asked : Version, converted : Version]

\* by is updated_by_id.  law says whether law_id is set.  unseen: the texts whose
\* conversions had begun their update when the row was inserted.  The rest is
\* history: who wrote this content (None: a conversion), who has approved it,
\* the text of the rule it was converted from, and whether another conversion
\* has since replaced that one.
Row == [rule : Rule, law : {"set", "null"}, parent : CheckPoint \cup {None},
        review : RuleReviewStatus, enable : Switch, abandoned : {"yes", "no"},
        by : User \cup {None}, unseen : SUBSET Version,
        writer : User \cup {None}, approver : User \cup {None},
        version : Version, superseded : {"yes", "no"}]

Rows == [CheckPoint -> Row \cup {None}]

\* What a request has read.
Op == {"switch_check_point", "switch_rule", "convert_rule", "apply_law"}
Request == [op : Op, cp : CheckPoint \cup {None}, rule : Rule, enable : Switch,
            was : LawRuleStatus, rows : Rows]

ASSUME CheckPointReviewAssumption ==
    /\ Left # Right
    /\ None \notin User /\ None \notin CheckPoint /\ None \notin Row /\ None \notin Request
    /\ Faults \subseteq Fault
    /\ MaxFaults \in Nat /\ MaxRequests \in Nat /\ MaxEdits \in Nat /\ MaxTasks \in Nat

VARIABLES
    rules,    \* rules[r]: the row of rule r
    rows,     \* rows[c]: the check point or draft with id c
    queued,   \* queued[r]: messages convert_rule_task for r
    running,  \* running[r][v]: conversions of r's text v that run
    open,     \* open[r]: the texts of r whose conversion has begun its update
    request,  \* request[u]: what user u has asked for and not yet written
    requests, \* requests so far
    trouble   \* what has gone wrong so far: read by bounds and properties only

tasks == <<queued, running, open>>
users == <<request, requests>>
vars == <<rules, rows, tasks, users, trouble>>

-----------------------------------------------------------------------------
Trouble(kinds) ==
    /\ kinds \subseteq Faults
    /\ trouble' = trouble \cup kinds
    /\ Cardinality(trouble') <= MaxFaults

Fails(fault) == Trouble({fault})
When(condition, fault) == IF condition THEN {fault} ELSE {}

Counted ==
    /\ requests < MaxRequests
    /\ requests' = requests + 1

\* Ids are not used again: not while a row or a request still refers to them.
Free == {c \in CheckPoint :
            /\ rows[c] = None
            /\ \A d \in CheckPoint : rows[d] # None => rows[d].parent # c
            /\ \A u \in User : request[u] # None => request[u].cp # c}
Existing == {c \in CheckPoint : rows[c] # None}
Parents == {c \in CheckPoint : rows[c] # None /\ rows[c].parent = None}
Of(r) == {c \in CheckPoint : rows[c] # None /\ rows[c].rule = r}
Drafts(c) == {d \in CheckPoint : rows[d] # None /\ rows[d].parent = c}

\* active_cond: what contracts are judged by.
Active(c) == c \in Parents /\ rows[c].enable = "on" /\ rows[c].abandoned = "no"

\* Mutant: the draft of a check point is overlooked.
PendingParent(c, i) == i = c

\* check_point.draft or check_point: what an edit, a deletion or a review is of.
Pending(c, i) == IF Drafts(c) = {} THEN i = c ELSE i \in Drafts(c)

\* Mutant: what is not in use need not be abandoned.
AbandonInUse(S) ==
    [c \in CheckPoint |-> IF c \in S /\ rows[c].enable = "on"
                          THEN [rows[c] EXCEPT !.abandoned = "yes"] ELSE rows[c]]

Abandon(S) ==
    [c \in CheckPoint |-> IF c \in S THEN [rows[c] EXCEPT !.abandoned = "yes"] ELSE rows[c]]

-----------------------------------------------------------------------------
(* Edits, deletions and reviews of check points. *)

\* create_draft sets no law_id.
Draft(c, u, status) ==
    [rows[c] EXCEPT !.law = "null", !.parent = c, !.review = status, !.enable = "off", !.by = u,
                    !.unseen = open[rows[c].rule]]

\* A draft with a new text of u.
Edited(row, u) ==
    [row EXCEPT !.review = "NOT_REVIEWED", !.by = u, !.writer = u, !.approver = None]

\* Mutant: one may review what one has written.
ReviewableByAll(u, c, i) ==
    /\ Pending(c, i)
    /\ rows[i].review \in {"NOT_REVIEWED", "DEL_NOT_REVIEWED"}
    /\ rows[c].abandoned = "no"

\* What review_check_point lets u review of c.
Reviewable(u, c, i) ==
    /\ Pending(c, i)
    /\ rows[i].review \in {"NOT_REVIEWED", "DEL_NOT_REVIEWED"}
    /\ rows[i].by # u
    /\ rows[c].abandoned = "no"

\* An approved text is in force, an approved deletion abandons: row is what has
\* become of i.  A draft that was enabled by its own id leaves its parent's switch
\* as it is, one that was approved by its own id keeps who has approved it.
Approved(u, c, i, row) ==
    IF rows[i].review = "NOT_REVIEWED"
    THEN [row EXCEPT !.parent = IF i = c THEN @ ELSE None, !.review = "PASS",
                     !.enable = IF i # c /\ rows[i].enable = "on" THEN rows[c].enable ELSE "on",
                     !.approver = IF row = rows[i] THEN u ELSE @]
    ELSE [row EXCEPT !.parent = IF i = c THEN @ ELSE None, !.review = "PASS",
                     !.enable = rows[c].enable, !.abandoned = "yes"]

\* The draft's row takes the place of its parent's.
Approval(u, c, i, table) ==
    [x \in CheckPoint |-> IF x = c THEN Approved(u, c, i, table[i])
                          ELSE IF x = i THEN None ELSE table[x]]

\* The rows as a request on c finds them when it writes to i.
Met(c, i) ==
    {rows} \cup
    {Approval(w[1], i, w[2], rows) :
        w \in {x \in User \X CheckPoint : i # c /\ Reviewable(x[1], i, x[2])}}

Crossed(table) == Trouble(When(table # rows, "crossed"))

\* What update_check_point and update_check_points refuse to edit.
Editable(c, u) ==
    /\ rows[c].abandoned = "no"
    /\ \A i \in CheckPoint : Pending(c, i) => rows[i].review # "DEL_NOT_REVIEWED"
    /\ \A d \in Drafts(c) : rows[d].review = "NOT_REVIEWED" => rows[d].by = u

UpdateCheckPoint(u, c) ==
    /\ Counted
    /\ c \in Existing
    /\ Editable(c, u)
    /\ \/ \E d \in Drafts(c) : \E table \in Met(c, d) :
            /\ rows' = [table EXCEPT ![d] = Edited(@, u)]
            /\ Crossed(table)
       \/ /\ Drafts(c) = {}
          /\ \E d \in Free :
                rows' = [rows EXCEPT ![d] = Edited(Draft(c, u, "NOT_REVIEWED"), u)]
          /\ UNCHANGED trouble
    /\ UNCHANGED <<rules, tasks, request>>

StartCheckPointDel(u, c) ==
    /\ Counted
    /\ c \in Existing
    /\ rows[c].abandoned = "no"
    /\ \E i \in CheckPoint :
        /\ Pending(c, i)
        /\ rows[i].review # "DEL_NOT_REVIEWED"
        /\ IF i = c /\ rows[c].enable = "on" /\ rows[c].review = "PASS"
           THEN /\ \E d \in Free : rows' = [rows EXCEPT ![d] = Draft(c, u, "DEL_NOT_REVIEWED")]
                /\ UNCHANGED trouble
           ELSE \E table \in Met(c, i) :
                /\ rows' = [table EXCEPT ![i].review = "DEL_NOT_REVIEWED", ![i].by = u]
                /\ Crossed(table)
    /\ UNCHANGED <<rules, tasks, request>>

Reject(u, c) ==
    /\ c \in Existing
    /\ \E i \in CheckPoint :
        /\ Reviewable(u, c, i)
        /\ \E table \in Met(c, i) :
            /\ rows' = [table EXCEPT ![i].review = "NOT_PASS"]
            /\ Crossed(table)
    /\ UNCHANGED <<rules, tasks, users>>

Approve(u, c) ==
    /\ c \in Existing
    /\ \E i \in CheckPoint :
        /\ Reviewable(u, c, i)
        /\ \E table \in Met(c, i) :
            /\ rows' = Approval(u, c, i, table)
            /\ Crossed(table)
    /\ UNCHANGED <<rules, tasks, users>>

-----------------------------------------------------------------------------
(* Requests that read without a lock and write later. *)

Ask(u, op, c, r, enable, was, seen) ==
    /\ Counted
    /\ request[u] = None
    /\ request' = [request EXCEPT ![u] = [op |-> op, cp |-> c, rule |-> r, enable |-> enable,
                                          was |-> was, rows |-> seen]]
    /\ UNCHANGED <<rules, rows, tasks, trouble>>

Asked(u, op) == request[u] # None /\ request[u].op = op
Answered(u) ==
    /\ request' = [request EXCEPT ![u] = None]
    /\ UNCHANGED requests
NoRows == [c \in CheckPoint |-> None]

Switchable(c, enable) ==
    enable = "on" => rows[c].review = "PASS" /\ rows[c].abandoned = "no"

SwitchCheckPointRead(u, c) ==
    \E enable \in Switch :
        /\ c \in Existing
        /\ Switchable(c, enable)
        /\ Ask(u, "switch_check_point", c, Left, enable, "INIT", NoRows)

SwitchCheckPoint(u) ==
    /\ Asked(u, "switch_check_point")
    /\ rows' = [c \in CheckPoint |->
                    IF c = request[u].cp /\ rows[c] # None
                    THEN [rows[c] EXCEPT !.enable = request[u].enable] ELSE rows[c]]
    /\ Answered(u)
    /\ UNCHANGED <<rules, tasks, trouble>>

SwitchRuleRead(u, r) ==
    \E enable \in Switch :
        /\ rules[r].law = "current"
        /\ Ask(u, "switch_rule", None, r, enable, rules[r].status, NoRows)

\* Mutant: the switch is written for the status.
SwitchedSwapped(enable, status) ==
    IF enable = "on" /\ status = "DISABLED" THEN "INIT"
    ELSE IF enable = "off" /\ status = "INIT" THEN "DISABLED"
    ELSE enable

Switched(enable, status) ==
    IF enable = "on" /\ status = "DISABLED" THEN "INIT"
    ELSE IF enable = "off" /\ status = "INIT" THEN "DISABLED"
    ELSE status

SwitchRule(u) ==
    LET r == request[u].rule
        enable == request[u].enable
        switched == {c \in Parents \cap Of(r) :
                        enable = "on" => rows[c].review = "PASS" /\ rows[c].abandoned = "no"}
    IN  /\ Asked(u, "switch_rule")
        /\ Trouble(When(rules[r].status # request[u].was, "stale"))
        /\ rules' = [rules EXCEPT ![r].enable = enable,
                                  ![r].status = Switched(enable, request[u].was)]
        /\ rows' = [c \in CheckPoint |->
                        IF c \in switched THEN [rows[c] EXCEPT !.enable = enable] ELSE rows[c]]
        /\ Answered(u)
        /\ UNCHANGED tasks

-----------------------------------------------------------------------------
(* Conversions. *)

\* The task is sent when the status has been committed.
Queue(r) ==
    /\ queued[r] < MaxTasks
    /\ queued' = [queued EXCEPT ![r] = @ + 1]
    /\ UNCHANGED <<running, open>>

ConvertRuleRead(u, r) ==
    /\ rules[r].law # "deleted"
    /\ rules[r].status \notin {"DISABLED", "CONVERTING"}
    /\ Ask(u, "convert_rule", None, r, "on", rules[r].status, NoRows)

Wait(r) == rules' = [rules EXCEPT ![r].status = "WAITING", ![r].asked = rules[r].version]

ConvertRule(u) ==
    /\ Asked(u, "convert_rule")
    /\ Wait(request[u].rule)
    /\ Queue(request[u].rule)
    /\ Answered(u)
    /\ UNCHANGED <<rows, trouble>>

ConvertRules(r) ==
    /\ Counted
    /\ rules[r].law = "current"
    /\ rules[r].status \in {"INIT", "CONVERTED", "CONVERT_FAILED"}
    /\ rules[r].enable = "on"
    /\ Wait(r)
    /\ Queue(r)
    /\ UNCHANGED <<rows, request, trouble>>

\* edit_rule, with and without update_check_points.
EditRule(r) ==
    /\ Counted
    /\ rules[r].law = "current"
    /\ rules[r].version < MaxEdits
    /\ \/ /\ rules' = [rules EXCEPT ![r].version = @ + 1]
          /\ UNCHANGED tasks
       \/ /\ rules' = [rules EXCEPT ![r].version = @ + 1, ![r].status = "WAITING",
                                    ![r].asked = rules[r].version + 1]
          /\ Queue(r)
    /\ UNCHANGED <<rows, request, trouble>>

\* Mutant: a task that does not find its rule WAITING skips it, as it logs.
ConvertStartSkips(r) ==
    /\ queued[r] > 0
    /\ queued' = [queued EXCEPT ![r] = @ - 1]
    /\ IF rules[r].law # "deleted" /\ rules[r].status = "WAITING"
       THEN /\ running' = [running EXCEPT ![r][rules[r].version] = @ + 1]
            /\ rules' = [rules EXCEPT ![r].status = "CONVERTING"]
       ELSE UNCHANGED <<running, rules>>
    /\ UNCHANGED <<rows, open, users, trouble>>

\* Whoever claims the rule or not, the text is read and converted.
ConvertStart(r) ==
    /\ queued[r] > 0
    /\ queued' = [queued EXCEPT ![r] = @ - 1]
    /\ IF rules[r].law = "deleted"
       THEN UNCHANGED <<running, rules>>
       ELSE /\ running' = [running EXCEPT ![r][rules[r].version] = @ + 1]
            /\ rules' = [rules EXCEPT ![r].status = IF @ = "WAITING" THEN "CONVERTING" ELSE @]
    /\ UNCHANGED <<rows, open, users, trouble>>

Ends(r, v) ==
    /\ running[r][v] > 0
    /\ running' = [running EXCEPT ![r][v] = @ - 1]
    /\ UNCHANGED queued

Converted(r, v, begun) ==
    [rule |-> r, law |-> "set", parent |-> None, review |-> "NOT_REVIEWED", enable |-> "off",
     abandoned |-> "no", by |-> None, unseen |-> begun, writer |-> None, approver |-> None,
     version |-> v, superseded |-> "no"]

\* The rows of r when new check points come in their place.
Supersede(table, r, begun) ==
    [c \in CheckPoint |->
        IF c \in Of(r) THEN [table[c] EXCEPT !.superseded = "yes", !.unseen = @ \cap begun]
        ELSE table[c]]

\* All check points and drafts of the rule that are seen are abandoned, new ones
\* inserted: one of them stands for all.
Convert(r, v, missed, begun) ==
    /\ \E n \in Free :
        rows' = [Supersede(Abandon(Of(r) \ missed), r, begun) EXCEPT ![n] = Converted(r, v, begun)]
    /\ rules' = [rules EXCEPT ![r].status = "CONVERTED",
                              ![r].converted = IF @ < v THEN v ELSE @]
    /\ Trouble(When(rules[r].law = "deleted", "late")
                \cup When(v < rules[r].converted, "overtaken")
                \cup When(missed # {}, "unseen"))
    /\ UNCHANGED users

\* A conversion whose update has nothing to wait for.
ConvertCommit(r, v) ==
    /\ Ends(r, v)
    /\ UNCHANGED open
    /\ Convert(r, v, {}, open[r])

\* One that waits and commits afterwards, one of each text at a time.  One that
\* fails or dies then has changed nothing and is taken not to have begun.
ConvertUpdate(r, v) ==
    /\ Ends(r, v)
    /\ v \notin open[r]
    /\ open' = [open EXCEPT ![r] = @ \cup {v}]
    /\ UNCHANGED <<rules, rows, users, trouble>>

ConvertInsert(r, v) ==
    /\ v \in open[r]
    /\ open' = [open EXCEPT ![r] = @ \ {v}]
    /\ UNCHANGED <<queued, running>>
    /\ Convert(r, v, {c \in Of(r) : v \in rows[c].unseen}, open[r] \ {v})

\* Mutant: a conversion that fails leaves the rule as it is.
ConvertFailsSilently(r, v) ==
    /\ Ends(r, v)
    /\ Fails("llm")
    /\ UNCHANGED <<rules, rows, open, users>>

ConvertFails(r, v) ==
    /\ Ends(r, v)
    /\ Fails("llm")
    /\ rules' = [rules EXCEPT ![r].status = "CONVERT_FAILED"]
    /\ UNCHANGED <<rows, open, users>>

\* determine_rule_scenarios runs outside the handler: the rule stays as it is.
ConvertRaises(r, v) ==
    /\ Ends(r, v)
    /\ Fails("early")
    /\ UNCHANGED <<rules, rows, open, users>>

Crash(r) ==
    /\ Fails("crash")
    /\ \/ queued[r] > 0 /\ queued' = [queued EXCEPT ![r] = @ - 1] /\ UNCHANGED running
       \/ \E v \in Version : Ends(r, v)
    /\ UNCHANGED <<rules, rows, open, users>>

-----------------------------------------------------------------------------
(* The end of rules and laws. *)

\* LawRule.soft_delete
DeleteRule(r) ==
    /\ Counted
    /\ rules[r].law = "current"
    /\ rules' = [rules EXCEPT ![r].law = "deleted"]
    /\ rows' = Abandon(Of(r))
    /\ UNCHANGED <<tasks, request, trouble>>

\* LawOrder.soft_delete
DeleteOrder ==
    /\ Counted
    /\ rules' = [r \in Rule |-> [rules[r] EXCEPT !.law = "deleted"]]
    /\ rows' = Abandon(Of(Left) \cup Of(Right))
    /\ UNCHANGED <<tasks, request, trouble>>

\* apply_law reads the check points in use and their drafts before its
\* transaction.
Kept == {c \in Parents \cap Of(Left) : rows[c].abandoned = "no"}
InUse == Kept \cup UNION {Drafts(c) : c \in Kept}

ApplyRead(u) ==
    /\ rules[Left].law = "current" /\ rules[Right].law = "draft"
    /\ Ask(u, "apply_law", None, Left, rules[Left].enable, rules[Left].status,
           [c \in CheckPoint |-> IF c \in InUse THEN rows[c] ELSE None])

\* cp_dict: the copy of a row, whose parent is copied too.
Copy(row, copy) ==
    [row EXCEPT !.rule = Right, !.law = "set",
                !.parent = IF row.parent = None THEN None ELSE copy[row.parent],
                !.unseen = open[Right]]

\* Law.soft_delete finds the check points by law_id.
OfLaw == {c \in Of(Left) : rows[c].law = "set"}

Apply(u) ==
    LET seen == request[u].rows
        read == {c \in CheckPoint : seen[c] # None}
    IN  /\ Asked(u, "apply_law")
        /\ \E copy \in [read -> Free] :
            /\ \A c, d \in read : copy[c] = copy[d] => c = d
            /\ rows' = [x \in CheckPoint |->
                IF \E c \in read : copy[c] = x
                THEN Copy(seen[CHOOSE c \in read : copy[c] = x], copy)
                ELSE Supersede(Abandon(OfLaw), Right, open[Right])[x]]
        /\ rules' = [rules EXCEPT
                ![Left].law = "deleted",
                ![Right].law = IF @ = "deleted" THEN @ ELSE "current",
                ![Right].enable = request[u].enable, ![Right].status = request[u].was]
        /\ Trouble(When("deleted" \in {rules[Left].law, rules[Right].law}, "late")
                    \cup When(request[u].was \in Converting, "carried"))
        /\ Answered(u)
        /\ UNCHANGED tasks

-----------------------------------------------------------------------------
\* The law has been split and its rule switched on, and perhaps converted once;
\* the next law has been split.
Begun(status) ==
    [r \in Rule |->
        [law |-> IF r = Left THEN "current" ELSE "draft",
         enable |-> IF r = Left THEN "on" ELSE "off",
         status |-> IF r = Left THEN status ELSE "DISABLED", version |-> 0, asked |-> 0,
         converted |-> 0]]

Init ==
    /\ \/ rules = Begun("INIT") /\ rows = NoRows
       \/ /\ rules = Begun("CONVERTED")
          /\ \E n \in CheckPoint : rows = [NoRows EXCEPT ![n] = Converted(Left, 0, {})]
    /\ queued = [r \in Rule |-> 0]
    /\ running = [r \in Rule |-> [v \in Version |-> 0]]
    /\ open = [r \in Rule |-> {}]
    /\ request = [u \in User |-> None]
    /\ requests = 0
    /\ trouble = {}

OnCheckPoint(u, c) ==
    \/ UpdateCheckPoint(u, c) \/ StartCheckPointDel(u, c)
    \/ Reject(u, c) \/ Approve(u, c) \/ SwitchCheckPointRead(u, c)

OnRule(r) ==
    \/ ConvertRules(r) \/ EditRule(r) \/ DeleteRule(r) \/ Crash(r) \/ ConvertStart(r)
    \/ \E v \in Version :
        \/ ConvertCommit(r, v) \/ ConvertUpdate(r, v) \/ ConvertInsert(r, v)
        \/ ConvertFails(r, v) \/ ConvertRaises(r, v)

Next ==
    \/ \E u \in User :
        \/ \E c \in CheckPoint : OnCheckPoint(u, c)
        \/ \E r \in Rule : SwitchRuleRead(u, r) \/ ConvertRuleRead(u, r)
        \/ SwitchCheckPoint(u) \/ SwitchRule(u) \/ ConvertRule(u) \/ ApplyRead(u) \/ Apply(u)
    \/ \E r \in Rule : OnRule(r)
    \/ DeleteOrder

Spec == Init /\ [][Next]_vars

-----------------------------------------------------------------------------
(* Properties. *)

TypeOK ==
    /\ rules \in [Rule -> RuleRow]
    /\ rows \in Rows
    /\ queued \in [Rule -> Nat]
    /\ running \in [Rule -> [Version -> Nat]]
    /\ open \in [Rule -> SUBSET Version]
    /\ request \in [User -> Request \cup {None}]
    /\ requests \in Nat
    /\ trouble \in SUBSET Fault

\* Four eyes: contracts are judged only by texts that somebody else than their
\* last writer has approved, whatever edits, deletions, rejections, late
\* switches, conversions and replacements of the law came in between, by the ids
\* of check points and of drafts, unless a draft was approved by its own id while
\* a request on its parent was about to write to it.
InForceApproved ==
    "crossed" \notin trouble =>
        \A c \in CheckPoint :
            Active(c) => rows[c].approver \notin {None, rows[c].writer}

\* Edits and deletion requests of several users, by the ids of check points or
\* of drafts, meet in one row: nothing has two drafts, and a draft is of the rule
\* its parent is of.
OneDraft ==
    \A c \in CheckPoint : \A d \in Drafts(c) :
        /\ Drafts(c) = {d}
        /\ c \in Existing => rows[c].rule = rows[d].rule

\* A rule that shows as waiting or being converted is waiting or being
\* converted, unless a worker died, a conversion raised before its handler, a
\* switch wrote the status it had read, or the status was carried over to the
\* next law's rule.
ConversionUnderWay ==
    trouble \cap {"crash", "early", "stale", "carried"} = {} =>
        \A r \in Rule :
            rules[r].law # "deleted" /\ rules[r].status \in Converting =>
                queued[r] > 0 \/ open[r] # {} \/ \E v \in Version : running[r][v] > 0

\* When the conversions of a rule have come to rest, the check points in use
\* were converted from the newest text whose conversion was asked for, unless a
\* conversion failed, died, was overtaken by a newer one, did not see its check
\* points or came after the rule was gone, or CONVERTED was written by a request
\* that had read it before or copied to the rule of the next law.
NewestConverted ==
    trouble \cap {"llm", "early", "crash", "stale", "carried", "overtaken", "unseen", "late"} = {} =>
        \A r \in Rule :
            (/\ rules[r].law # "deleted" /\ rules[r].status = "CONVERTED"
             /\ queued[r] = 0 /\ open[r] = {} /\ \A v \in Version : running[r][v] = 0) =>
                \A c \in Parents \cap Of(r) :
                    rows[c].abandoned = "no" => rows[c].version >= rules[r].asked

\* Contracts are judged by what one conversion has made of a rule: once another
\* one, or a law that is applied, has put its check points in their place, those
\* of the former do not stay and do not come back, whatever was converted again,
\* edited, reviewed or applied at the same time, unless a conversion did not see
\* another one's check points or a new draft, or the law was applied to a rule
\* that had been replaced.
OneGeneration ==
    trouble \cap {"late", "unseen"} = {} =>
        \A c \in Parents : rows[c].abandoned = "no" => rows[c].superseded = "no"

\* A check point in force has a rule, unless the rule was deleted while it was
\* being converted or its law applied, or the check point has lost its law.
InForceHasRule ==
    \A c \in CheckPoint :
        Active(c) /\ rows[c].law = "set" /\ "late" \notin trouble =>
            rules[rows[c].rule].law # "deleted"

=============================================================================
