----------------------------- MODULE LawPipeline -----------------------------
(***************************************************************************)
(* The way of a law from its file to its rules.  A law order holds the     *)
(* current laws and, while it is refreshed, the drafts that are to replace *)
(* them.  Every law is fetched or parsed, then split into rules; when the  *)
(* last draft is split, a task compares the drafts with the current laws   *)
(* and the refresh has succeeded or failed.  Meanwhile administrators may  *)
(* trigger, refresh, revert, apply and delete, each with what they read    *)
(* when their request began.                                               *)
(*                                                                         *)
(* Celery's messages and tasks are flights: a flight says how far one task *)
(* for one law is, and several equal ones may be under way.                *)
(***************************************************************************)
EXTENDS Naturals, FiniteSets

CONSTANTS
    Law,         \* the laws (rows) an order may have
    Interdoc,    \* the ones chatdoc delivers parsed
    Page,        \* the ones chatdoc delivers as text or HTML, parsed here
    User,        \* administrators at work at the same time
    None,        \* no request
    Faults,      \* which things may go wrong
    MaxFaults,     \* bound on how many kinds of them do in one behaviour
    MaxRequests,   \* bound on the requests about an order in one behaviour
    MaxTriggered   \* bound on the laws of an order that is triggered again

Fault == {"fetch",     \* chatdoc does not deliver the document
          "push",      \* the parser cannot be reached or refuses
          "timeout",   \* the parser accepts, its response comes too late
          "early",     \* the parser calls back before PARSING is written
          "callback",  \* the parser calls back without a document
          "changed",   \* a page fetched again is another one
          "split",     \* the document cannot be split
          "compare",   \* a comparison raises outside of its handler
          "crash"}     \* a worker or a web process dies

\* LawStatus; FETCHING is never written.
InProgress == {"INIT", "PENDING", "PARSING", "PARSED", "SPLITTING"}
Failed == {"PARSE_FAIL", "FETCH_FAIL", "SPLIT_FAIL"}
LawStatus == InProgress \cup Failed \cup {"SPLIT"}
AtLeastParsed == {"PARSED", "SPLITTING", "SPLIT"}

LawRefreshStatus == {"INIT", "REFRESHING", "SUCCESS", "FAILED"}

\* parse and split are messages, insight is a request at the parser, outdated
\* one whose hash is not the law's any more.  refetching: a page that had been
\* parsed already is fetched.  posted and answered: the parser has accepted,
\* PARSING is still to be written.  failed: the law's status is written, the
\* order's is to be written.
Waiting == {"parse", "insight", "outdated", "split"}
Running == {"fetching", "refetching", "posting", "posted", "answered", "splitting"}

\* read is what the task has read of the law's is_current.
Read == {"current", "draft"}
Flight ==
    [law : Law, stage : Waiting, read : {"unread"}]
        \cup [law : Law, stage : Running, read : Read]
        \cup [law : Law, stage : {"failed"}, read : {"draft"}]
Fly(l, s, d) == [law |-> l, stage |-> s, read |-> d]

DiffStage == {"queued", "comparing", "success", "failed"}

\* A request that has read the order: the laws it is about, in one or two
\* groups, and the refresh status it has read.
Op == {"dispatch", "trigger", "refresh", "revert", "apply", "delete"}
Request == [op : Op, laws : SUBSET Law, others : SUBSET Law, was : LawRefreshStatus]

ASSUME LawPipelineAssumption ==
    /\ Interdoc \subseteq Law /\ Page \subseteq Law /\ Interdoc \cap Page = {}
    /\ None \notin Request
    /\ Faults \subseteq Fault
    /\ MaxFaults \in Nat
    /\ MaxRequests \in Nat
    /\ MaxTriggered \in Nat

VARIABLES
    order,     \* "absent", "live" or "deleted"
    refresh,   \* the order's refresh_status
    alive,     \* alive[l]: the same of law l, drafts that were replaced included
    current,   \* current[l]: is_current
    status,    \* status[l]
    doc,       \* doc[l]: pdfinsight is set
    rules,     \* rules[l]: how many times the law's text is in its live rules
    flights,   \* flights[x]: how many tasks, messages and parses are at x
    diffs,     \* diffs[s]: how many comparisons of the order are at stage s
    request,   \* request[u]: what user u is at
    requests,  \* requests so far
    trouble    \* what has gone wrong so far: read by bounds and properties only

laws == <<alive, current, status, doc, rules>>
tasks == <<flights, diffs>>
users == <<request, requests>>
vars == <<order, refresh, laws, tasks, users, trouble>>

-----------------------------------------------------------------------------
Live(l) == alive[l] = "live"
Currents == {l \in Law : Live(l) /\ current[l]}
Drafts == {l \in Law : Live(l) /\ ~current[l]}

\* Flight x ends, and the flights Y come from it.
Become(x, Y) ==
    /\ flights[x] > 0
    /\ flights' = [y \in Flight |-> (flights[y] + IF y \in Y THEN 1 ELSE 0)
                                     - IF y = x THEN 1 ELSE 0]

Fails(fault) ==
    /\ fault \in Faults
    /\ trouble' = trouble \cup {fault}
    /\ Cardinality(trouble') <= MaxFaults

Send(l, s) == flights' = [flights EXCEPT ![Fly(l, s, "unread")] = @ + 1]

IsCurrent(l) == IF current[l] THEN "current" ELSE "draft"

SetStatus(l, s) == status' = [status EXCEPT ![l] = s]

\* Mutant: the failure of a draft is not reported to its order.
Unreported(l, d) == {}

\* refresh_err comes next where the law was read as a draft.
Reported(l, d) == IF d = "draft" THEN {Fly(l, "failed", d)} ELSE {}

\* Mutant: a law that has a document already is not split again.
FirstSplit(l) == IF doc[l] THEN {} ELSE {Fly(l, "split", "unread")}

\* A law that is PARSED goes on to its split.
Onward(l) == {Fly(l, "split", "unread")}

\* A law is deleted with its rules.
DeleteLaws(S) ==
    /\ alive' = [l \in Law |-> IF l \in S THEN "deleted" ELSE alive[l]]
    /\ rules' = [l \in Law |-> IF l \in S THEN 0 ELSE rules[l]]

-----------------------------------------------------------------------------
(* parse_law_file, parse_law_by_insight and fetch_law_from_chatdoc. *)

\* What has been parsed is not parsed again, but a page is fetched before.
FirstStage(l) ==
    IF l \in Interdoc THEN "fetching"
    ELSE IF l \in Page THEN IF status[l] \in AtLeastParsed THEN "refetching" ELSE "fetching"
    ELSE "posting"

ParseStart(l) ==
    LET x == Fly(l, "parse", "unread") IN
    /\ IF ~Live(l) \/ (l \notin Interdoc \cup Page /\ status[l] \in AtLeastParsed)
       THEN Become(x, {})
       ELSE Become(x, {Fly(l, FirstStage(l), IsCurrent(l))})
    /\ UNCHANGED <<order, refresh, laws, diffs, users, trouble>>

ParsePost(l, d) ==
    /\ Become(Fly(l, "posting", d), {Fly(l, "posted", d)})
    /\ UNCHANGED <<order, refresh, laws, diffs, users, trouble>>

\* Chatdoc's pages are parsed under the handler of fetch_law_from_chatdoc.
ParseFails(l, d) ==
    /\ SetStatus(l, IF l \in Page THEN "FETCH_FAIL" ELSE "PARSE_FAIL")
    /\ \/ /\ Fails("push")
          /\ Become(Fly(l, "posting", d), Reported(l, d))
       \/ /\ Fails("timeout")
          /\ Become(Fly(l, "posting", d), Reported(l, d) \cup {Fly(l, "insight", "unread")})
    /\ UNCHANGED <<order, refresh, alive, current, doc, rules, diffs, users>>

ParseRecord(l, d) ==
    /\ \/ Become(Fly(l, "posted", d), {Fly(l, "insight", "unread")})
       \/ Become(Fly(l, "answered", d), {})
    /\ SetStatus(l, "PARSING")
    /\ UNCHANGED <<order, refresh, alive, current, doc, rules, diffs, users, trouble>>

Fetch(l, d) ==
    /\ l \in Interdoc
    /\ Become(Fly(l, "fetching", d), Onward(l))
    /\ doc' = [doc EXCEPT ![l] = TRUE]
    /\ SetStatus(l, "PARSED")
    /\ UNCHANGED <<order, refresh, alive, current, rules, diffs, users, trouble>>

\* The requests of l that are at the parser are outdated, too.
BecomeOutdating(l, x, Y) ==
    LET at == Fly(l, "insight", "unread")
        out == Fly(l, "outdated", "unread")
    IN  /\ flights[x] > 0
        /\ flights' = [y \in Flight |->
                         IF y = at THEN 0
                         ELSE IF y = out THEN flights[out] + flights[at]
                         ELSE (flights[y] + IF y \in Y THEN 1 ELSE 0) - IF y = x THEN 1 ELSE 0]

\* The hash of what was fetched is written, which may be another one now; not
\* while another task is about to post the old one, which is out of bounds here.
FetchPage(l, d) ==
    /\ l \in Page
    /\ \E x \in {Fly(l, "fetching", d), Fly(l, "refetching", d)} :
        LET Y == IF x.stage = "fetching" THEN {Fly(l, "posting", d)} ELSE {}
        IN  \/ Become(x, Y) /\ UNCHANGED trouble
            \/ /\ Fails("changed")
               /\ \A s \in {"posting", "posted"}, e \in Read : flights[Fly(l, s, e)] = 0
               /\ BecomeOutdating(l, x, Y)
    /\ UNCHANGED <<order, refresh, laws, diffs, users>>

FetchFails(l, d) ==
    /\ Fails("fetch")
    /\ \E s \in {"fetching", "refetching"} : Become(Fly(l, s, d), Reported(l, d))
    /\ SetStatus(l, "FETCH_FAIL")
    /\ UNCHANGED <<order, refresh, alive, current, doc, rules, diffs, users>>

\* LawOrder.refresh_err.
Report(l) ==
    /\ Become(Fly(l, "failed", "draft"), {})
    /\ refresh' = "FAILED"
    /\ UNCHANGED <<order, laws, diffs, users, trouble>>

-----------------------------------------------------------------------------
(* handler_pdfinsight_callback: the answer to the request that is at x, which *)
(* goes on to Y.                                                             *)

Answer(l, x, Y) ==
    /\ \/ /\ ~Live(l)
          /\ Become(x, Y)
          /\ UNCHANGED <<status, doc>>
       \/ /\ Live(l)
          /\ Become(x, Y \cup Onward(l))
          /\ doc' = [doc EXCEPT ![l] = TRUE]
          /\ SetStatus(l, "PARSED")
    /\ UNCHANGED <<order, refresh, alive, current, rules, diffs, users>>

Callback(l) ==
    /\ Answer(l, Fly(l, "insight", "unread"), {})
    /\ UNCHANGED trouble

EarlyCallback(l, d) ==
    /\ Fails("early")
    /\ Answer(l, Fly(l, "posted", d), {Fly(l, "answered", d)})

\* An answer without a document is not reported to the order.
CallbackFails(l) ==
    /\ Fails("callback")
    /\ Live(l)
    /\ Become(Fly(l, "insight", "unread"), {})
    /\ SetStatus(l, "PARSE_FAIL")
    /\ UNCHANGED <<order, refresh, alive, current, doc, rules, diffs, users>>

\* An answer with a hash that is not the law's is refused.
CallbackRefused(l) ==
    /\ Become(Fly(l, "outdated", "unread"), {})
    /\ UNCHANGED <<order, refresh, laws, diffs, users, trouble>>

-----------------------------------------------------------------------------
(* split_law_rules *)

SplitStart(l) ==
    LET x == Fly(l, "split", "unread") IN
    /\ IF Live(l) /\ doc[l]
       THEN Become(x, {Fly(l, "splitting", IsCurrent(l))}) /\ SetStatus(l, "SPLITTING")
       ELSE Become(x, {}) /\ UNCHANGED status
    /\ UNCHANGED <<order, refresh, alive, current, doc, rules, diffs, users, trouble>>

\* Mutant: the rules of an earlier split stay.
AddRules(l) == rules[l] + 1

\* The live rules of the law are deleted under its lock, the new ones inserted.
ReplaceRules(l) == 1

\* Mutant: the split of a draft starts no comparison.
NoComparison(d) == 0

\* The split of a law that was read as a draft starts one.
Comparisons(d) == IF d = "draft" THEN 1 ELSE 0

SplitCommit(l, d) ==
    /\ Become(Fly(l, "splitting", d), {})
    /\ rules' = [rules EXCEPT ![l] = ReplaceRules(l)]
    /\ SetStatus(l, "SPLIT")
    /\ diffs' = [diffs EXCEPT !["queued"] = @ + Comparisons(d)]
    /\ UNCHANGED <<order, refresh, alive, current, doc, users, trouble>>

SplitFails(l, d) ==
    /\ Fails("split")
    /\ Become(Fly(l, "splitting", d), Reported(l, d))
    /\ SetStatus(l, "SPLIT_FAIL")
    /\ UNCHANGED <<order, refresh, alive, current, doc, rules, diffs, users>>

-----------------------------------------------------------------------------
(* diff_law_rules_process *)

DiffMove(s, t) ==
    /\ diffs[s] > 0
    /\ diffs' = [diffs EXCEPT ![s] = @ - 1, ![t] = @ + 1]

\* Mutant: a comparison ends twice.
DiffEndAgain(s) == diffs' = [diffs EXCEPT ![s] = @ - 1]

DiffEnd(s) ==
    /\ diffs[s] > 0
    /\ diffs' = [diffs EXCEPT ![s] = @ - 1]

\* Mutant: a comparison waits for the drafts that were replaced, too.
AwaitedReplaced == {l \in Law : ~current[l] /\ alive[l] # "absent" /\ status[l] \in InProgress}

\* The drafts a comparison waits for: their own splits start another one.
Awaited == {l \in Drafts : status[l] \in InProgress}

DiffCheck ==
    /\ IF Awaited # {}
       THEN DiffEnd("queued")
       ELSE DiffMove("queued", "comparing")
    /\ UNCHANGED <<order, refresh, laws, flights, users, trouble>>

\* The laws are read again, without the lock; without laws on both sides the
\* unpacking raises outside of the handler.  So may what comes before and after
\* the handler: the paragraphs, the ratio, the result.
DiffCompare ==
    /\ IF order = "live" /\ Currents # {} /\ Drafts # {}
       THEN \/ /\ \E verdict \in {"success", "failed"} : DiffMove("comparing", verdict)
               /\ UNCHANGED trouble
            \/ DiffEnd("comparing") /\ Fails("compare")
       ELSE DiffEnd("comparing") /\ UNCHANGED trouble
    /\ UNCHANGED <<order, refresh, laws, flights, users>>

DiffWrite ==
    /\ \/ DiffEnd("success") /\ refresh' = "SUCCESS"
       \/ DiffEnd("failed") /\ refresh' = "FAILED"
    /\ UNCHANGED <<order, laws, flights, users, trouble>>

-----------------------------------------------------------------------------
(* The requests of administrators.  Each reads the order and its laws without *)
(* a lock, then commits.                                                      *)

\* Only a refresh looks at the status again that it has read.
Begin(u, op, S, T) ==
    request' = [request EXCEPT
        ![u] = [op |-> op, laws |-> S, others |-> T,
                was |-> IF op = "refresh" THEN refresh ELSE "INIT"]]

End(u) == request' = [request EXCEPT ![u] = None]

\* The task of law l is sent; with the last one the request ends.
Sent(u, l) ==
    LET q == request[u] IN
    request' = [request EXCEPT
        ![u] = IF q.laws \cup q.others = {l} THEN None
               ELSE [q EXCEPT !.laws = @ \ {l}, !.others = @ \ {l}]]

\* One uploaded file, or what was chosen in chatdoc.
Batch(S) == S # {} /\ (Cardinality(S) = 1 \/ S \subseteq Interdoc \cup Page)

AddLaws(S, isCurrent) ==
    /\ current' = [l \in Law |-> IF l \in S THEN isCurrent ELSE current[l]]
    /\ status' = [l \in Law |-> IF l \in S THEN "INIT" ELSE status[l]]

\* create_laws: the commit; the tasks are sent after it.
Create(u) ==
    /\ order = "absent" /\ order' = "live"
    /\ \E S \in SUBSET Law :
        /\ Batch(S)
        /\ alive' = [l \in Law |-> IF l \in S THEN "live" ELSE alive[l]]
        /\ AddLaws(S, TRUE)
        /\ Begin(u, "dispatch", S, {})
    /\ UNCHANGED <<refresh, doc, rules, tasks, requests, trouble>>

Asked(u, op) == request[u] # None /\ request[u].op = op

Dispatch(u) ==
    /\ Asked(u, "dispatch")
    /\ \E l \in request[u].laws : Send(l, "parse") /\ Sent(u, l)
    /\ UNCHANGED <<order, refresh, laws, diffs, requests, trouble>>

\* trigger_law splits again what has been parsed and failed or is not finished,
\* and parses everything else again.
Resplit == {"PARSED", "SPLITTING", "SPLIT_FAIL"}

\* refresh_law refuses while a refresh is under way.
RefreshAllowed ==
    /\ \E l \in Currents : status[l] = "SPLIT"
    /\ ~(refresh \in {"REFRESHING", "SUCCESS"} /\ Drafts # {})

Ask(u) ==
    /\ request[u] = None
    /\ order = "live"
    /\ requests < MaxRequests
    /\ requests' = requests + 1
    /\ \/ LET again == {l \in Currents \cup Drafts : status[l] \in Resplit} IN
          /\ Cardinality(Currents \cup Drafts) <= MaxTriggered
          /\ Begin(u, "trigger", (Currents \cup Drafts) \ again, again)
       \/ RefreshAllowed /\ Begin(u, "refresh", Drafts, {})
       \/ Begin(u, "revert", Drafts, {})
       \/ Begin(u, "apply", Currents, Drafts)
       \/ Begin(u, "delete", {}, {})
    /\ UNCHANGED <<order, refresh, laws, tasks, trouble>>

Trigger(u) ==
    /\ Asked(u, "trigger")
    /\ \/ \E l \in request[u].laws :
            /\ SetStatus(l, "PENDING")
            /\ Send(l, "parse")
            /\ Sent(u, l)
       \/ \E l \in request[u].others :
            /\ Send(l, "split")
            /\ Sent(u, l)
            /\ UNCHANGED status
       \/ /\ request[u].laws \cup request[u].others = {}
          /\ End(u)
          /\ UNCHANGED <<status, flights>>
    /\ UNCHANGED <<order, refresh, alive, current, doc, rules, diffs, requests, trouble>>

\* refresh_law: the new laws are created, LawOrder.refresh deletes the drafts.
Refresh(u) ==
    /\ Asked(u, "refresh")
    /\ \E S \in SUBSET Law :
        /\ Batch(S) /\ \A l \in S : alive[l] = "absent"
        /\ alive' = [l \in Law |-> IF l \in S THEN "live"
                                   ELSE IF l \in request[u].laws THEN "deleted" ELSE alive[l]]
        /\ rules' = [l \in Law |-> IF l \in request[u].laws THEN 0 ELSE rules[l]]
        /\ AddLaws(S, FALSE)
        /\ Begin(u, "dispatch", S, {})
    /\ refresh' = "REFRESHING"
    /\ UNCHANGED <<order, doc, tasks, requests, trouble>>

\* refresh_law with a file it refuses: the refresh before it is taken back.
RefreshRefused(u) ==
    /\ Asked(u, "refresh")
    /\ IF request[u].was # "INIT"
       THEN DeleteLaws(request[u].laws) /\ refresh' = "INIT"
       ELSE UNCHANGED <<alive, rules, refresh>>
    /\ End(u)
    /\ UNCHANGED <<order, current, status, doc, tasks, requests, trouble>>

Revert(u) ==
    /\ Asked(u, "revert")
    /\ DeleteLaws(request[u].laws)
    /\ refresh' = "INIT"
    /\ End(u)
    /\ UNCHANGED <<order, current, status, doc, tasks, requests, trouble>>

\* apply_law: the drafts take the place of the current laws.  It asks neither
\* for the refresh status nor for drafts; a missing rule makes it end unchanged.
Apply(u) ==
    /\ Asked(u, "apply")
    /\ \/ /\ DeleteLaws(request[u].laws)
          /\ current' = [l \in Law |-> current[l] \/ l \in request[u].others]
          /\ refresh' = "INIT"
       \/ UNCHANGED <<alive, rules, current, refresh>>
    /\ End(u)
    /\ UNCHANGED <<order, status, doc, tasks, requests, trouble>>

\* delete_law: LawOrder.soft_delete, by the order's id.
Delete(u) ==
    /\ Asked(u, "delete")
    /\ order' = "deleted"
    /\ DeleteLaws({l \in Law : Live(l)})
    /\ End(u)
    /\ UNCHANGED <<refresh, current, status, doc, tasks, requests, trouble>>

-----------------------------------------------------------------------------
(* Messages are acknowledged before their tasks run. *)

Crash ==
    /\ Fails("crash")
    /\ \/ /\ \E x \in Flight : x.stage \notin {"insight", "outdated"} /\ Become(x, {})
          /\ UNCHANGED <<diffs, request>>
       \/ /\ \E s \in DiffStage : DiffEnd(s)
          /\ UNCHANGED <<flights, request>>
       \/ /\ \E u \in User : request[u] # None /\ End(u)
          /\ UNCHANGED tasks
    /\ UNCHANGED <<order, refresh, laws, requests>>

-----------------------------------------------------------------------------
Init ==
    /\ order = "absent"
    /\ refresh = "INIT"
    /\ alive = [l \in Law |-> "absent"]
    /\ current = [l \in Law |-> FALSE]
    /\ status = [l \in Law |-> "INIT"]
    /\ doc = [l \in Law |-> FALSE]
    /\ rules = [l \in Law |-> 0]
    /\ flights = [x \in Flight |-> 0]
    /\ diffs = [s \in DiffStage |-> 0]
    /\ request = [u \in User |-> None]
    /\ requests = 0
    /\ trouble = {}

Task(l) ==
    \/ ParseStart(l) \/ Callback(l) \/ CallbackFails(l) \/ CallbackRefused(l) \/ SplitStart(l) \/ Report(l)
    \/ \E d \in Read :
        \/ ParsePost(l, d) \/ ParseFails(l, d) \/ ParseRecord(l, d)
        \/ EarlyCallback(l, d)
        \/ Fetch(l, d) \/ FetchPage(l, d) \/ FetchFails(l, d)
        \/ SplitCommit(l, d) \/ SplitFails(l, d)

Diff == DiffCheck \/ DiffCompare \/ DiffWrite

Serve(u) ==
    \/ Dispatch(u) \/ Trigger(u) \/ Refresh(u) \/ RefreshRefused(u)
    \/ Revert(u) \/ Apply(u) \/ Delete(u)

Next ==
    \/ \E l \in Law : Task(l)
    \/ Diff
    \/ \E u \in User : Create(u) \/ Ask(u) \/ Serve(u)
    \/ Crash

Spec == Init /\ [][Next]_vars

Work == (\E l \in Law : Task(l)) \/ Diff \/ \E u \in User : Serve(u)

\* As long as there is a task, a parse or a request, one of them goes on: some
\* worker is up, the parser answers.  None is promised its turn.
FairSpec == Spec /\ WF_vars(Work)

-----------------------------------------------------------------------------
(* Properties. *)

\* Types, and the laws that are not there yet have not begun.
TypeOK ==
    /\ order \in {"absent", "live", "deleted"}
    /\ refresh \in LawRefreshStatus
    /\ alive \in [Law -> {"absent", "live", "deleted"}]
    /\ current \in [Law -> BOOLEAN]
    /\ status \in [Law -> LawStatus]
    /\ doc \in [Law -> BOOLEAN]
    /\ rules \in [Law -> Nat]
    /\ flights \in [Flight -> Nat]
    /\ diffs \in [DiffStage -> Nat]
    /\ request \in [User -> Request \cup {None}]
    /\ requests \in Nat
    /\ trouble \in SUBSET Fault

\* A law that shows as split has the rules of its text, and has them once,
\* whichever splits of it ran together (split_law_rules).
SplitHasRules == \A l \in Law : Live(l) /\ status[l] = "SPLIT" => rules[l] = 1

\* Something is under way that will write the status of l.
Pending(l) ==
    \/ \E x \in Flight :
        x.law = l /\ x.stage \notin {"refetching", "answered", "outdated", "failed"} /\ flights[x] > 0
    \/ \E u \in User : Asked(u, "dispatch") /\ l \in request[u].laws

\* No law is left in the middle of its way: while its status is one of work in
\* progress, a task, a parse or a message is there to go on, whatever fails but
\* a process that dies, a parser that answers before PARSING is written, and a
\* page that has changed since its request.
NotStranded ==
    trouble \cap {"crash", "early", "changed"} = {} =>
        \A l \in Law : Live(l) /\ status[l] \in InProgress => Pending(l)

\* The same for the order: as long as it shows a refresh under way, a draft, a
\* report or a comparison is there to end it, unless the parser's callback
\* fails or the comparison raises outside of its handler, which nobody reports.
RefreshHasWork ==
    trouble \cap {"crash", "early", "callback", "changed", "compare"} = {} =>
        (order = "live" /\ Currents # {} /\ refresh = "REFRESHING" =>
            \/ \E l \in Drafts : Pending(l)
            \/ \E l \in Law : flights[Fly(l, "failed", "draft")] > 0
            \/ \E s \in DiffStage : diffs[s] > 0)

\* Every refresh comes to its end, with a result, a failure or a revert, however
\* many drafts it has and whichever were replaced, with the same exceptions.
RefreshEnds ==
    order = "live" /\ refresh = "REFRESHING" ~>
        \/ order # "live" \/ refresh # "REFRESHING" \/ Currents = {}
        \/ trouble \cap {"crash", "early", "callback", "changed", "compare"} # {}

=============================================================================
