----------------------- MODULE CheckPointReview_proofs -----------------------
(***************************************************************************)
(* Proofs about CheckPointReview, for any number of users, check points,   *)
(* requests, edits, conversions and faults.                                *)
(*                                                                         *)
(* What a step does to the table of check points is said once: every edit, *)
(* review, switch and deletion leaves rows that descend from rows that     *)
(* were there, a conversion and a law that is applied add theirs.  The     *)
(* invariants of rows follow from that.                                    *)
(***************************************************************************)
EXTENDS CheckPointReview, TLAPS

\* No two rows of f are drafts of the same id, none is its own draft, and a draft
\* is of the rule its parent is of, if that is still there.
Alone(f) ==
    \A d, e \in CheckPoint :
        f[d] # None /\ f[e] # None /\ f[d].parent # None =>
            /\ f[d].parent # d
            /\ f[e].parent = f[d].parent => e = d
            /\ f[d].parent = e => f[e].rule = f[d].rule

\* What apply_law has read holds the parents of its drafts.
Whole(f) ==
    \A c \in CheckPoint :
        f[c] # None /\ f[c].parent # None => f[f[c].parent] # None

\* The types of what is not a row or a request.
OthersTyped ==
    /\ rules \in [Rule -> RuleRow]
    /\ queued \in [Rule -> Nat]
    /\ running \in [Rule -> [Version -> Nat]]
    /\ open \in [Rule -> SUBSET Version]
    /\ requests \in Nat
    /\ trouble \in SUBSET Fault

\* A request and what it has read.
Read(q) == q \in Request /\ Whole(q.rows) /\ Alone(q.rows)

Typed ==
    /\ OthersTyped
    /\ rows \in Rows /\ Alone(rows)
    /\ request \in [User -> Request \cup {None}]
    /\ \A u \in User : request[u] # None => Read(request[u])

\* A row that another one has become, or was made of.
Descends(new, old) ==
    /\ new \in Row
    /\ new.rule = old.rule /\ new.version = old.version /\ new.superseded = old.superseded
    /\ new.law = old.law \/ new.law = "null"
    /\ old.abandoned = "yes" => new.abandoned = "yes"

Come(f, g) ==
    \A c \in CheckPoint : g[c] # None => \E x \in CheckPoint : f[x] # None /\ Descends(g[c], f[x])

\* What edits, reviews, switches and deletions make of f.
Becomes(f, g) == g \in Rows /\ Alone(g) /\ Come(f, g)

-----------------------------------------------------------------------------
\* A row is not none.
LEMMA NoneIs == None \notin Row /\ None \notin User /\ None \notin CheckPoint /\ None \notin Request
BY CheckPointReviewAssumption

\* A check point or draft is a row.
LEMMA RowIs ==
    ASSUME NEW f \in Rows, NEW c \in CheckPoint, f[c] # None
    PROVE  f[c] \in Row
BY DEF Rows

\* A row descends from itself.
LEMMA Itself ==
    ASSUME NEW row \in Row
    PROVE  Descends(row, row)
BY DEF Descends

\* Steps follow one another.
LEMMA Further ==
    ASSUME NEW f, NEW g, NEW h, Becomes(f, g), Becomes(g, h)
    PROVE  Becomes(f, h)
<1>1. ASSUME NEW c \in CheckPoint, h[c] # None
      PROVE  \E x \in CheckPoint : f[x] # None /\ Descends(h[c], f[x])
  <2>1. PICK y \in CheckPoint : g[y] # None /\ Descends(h[c], g[y])
    BY <1>1 DEF Becomes, Come
  <2>2. PICK x \in CheckPoint : f[x] # None /\ Descends(g[y], f[x])
    BY <2>1 DEF Becomes, Come
  <2>3. Descends(h[c], f[x])
    BY <2>1, <2>2 DEF Descends
  <2> QED
    BY <2>2, <2>3
<1> QED
  BY <1>1 DEF Becomes, Come

\* Rows that stay.
LEMMA Stay ==
    ASSUME NEW f \in Rows, Alone(f)
    PROVE  Becomes(f, f)
BY RowIs, Itself DEF Becomes, Come

\* Each row is kept, perhaps changed in place.
LEMMA InPlace ==
    ASSUME NEW f \in Rows, Alone(f), NEW g, g = [c \in CheckPoint |-> g[c]],
           \A c \in CheckPoint :
              /\ f[c] = None => g[c] = None
              /\ f[c] # None => Descends(g[c], f[c]) /\ g[c].parent = f[c].parent
    PROVE  Becomes(f, g)
<1>1. g \in Rows
  BY DEF Rows, Descends
<1>2. \A c \in CheckPoint : g[c] # None =>
         f[c] # None /\ g[c].parent = f[c].parent /\ g[c].rule = f[c].rule
  BY DEF Descends
<1>3. Alone(g)
  BY <1>2 DEF Alone
<1>4. Come(f, g)
  BY <1>2 DEF Come
<1> QED
  BY <1>1, <1>3, <1>4 DEF Becomes

\* A row takes the place of row i, or, without a parent, of i's parent.
Move(f, c, i, row) ==
    [x \in CheckPoint |-> IF x = c THEN row ELSE IF x = i THEN None ELSE f[x]]

\* A row that descends from row i, moved like this, leaves nothing with two drafts.
LEMMA MoveIs ==
    ASSUME NEW f \in Rows, Alone(f), NEW c \in CheckPoint, NEW i \in CheckPoint, f[i] # None,
           NEW row, Descends(row, f[i]),
           i = c => row.parent = f[i].parent,
           i # c => /\ row.parent = None
                    /\ \A x \in CheckPoint : f[x] # None /\ f[x].parent = c => x = i
    PROVE  Becomes(f, Move(f, c, i, row))
<1> DEFINE g == Move(f, c, i, row)
<1>1. \A x \in CheckPoint : g[x] = IF x = c THEN row ELSE IF x = i THEN None ELSE f[x]
  BY DEF Move
<1>2. g \in Rows
  BY DEF Move, Rows, Descends
<1>3. Come(f, g)
  <2> SUFFICES ASSUME NEW x \in CheckPoint, g[x] # None
               PROVE  \E y \in CheckPoint : f[y] # None /\ Descends(g[x], f[y])
    BY DEF Come
  <2>1. CASE x = c
    BY <1>1, <2>1
  <2>2. CASE x # c
    BY <1>1, <2>2, RowIs, Itself
  <2> QED
    BY <2>1, <2>2
<1>4. Alone(g)
  <2> SUFFICES ASSUME NEW d \in CheckPoint, NEW e \in CheckPoint,
                      g[d] # None, g[e] # None, g[d].parent # None
               PROVE  /\ g[d].parent # d
                      /\ g[e].parent = g[d].parent => e = d
                      /\ g[d].parent = e => g[e].rule = g[d].rule
    BY DEF Alone
  <2>1. CASE i = c
    <3>1. \A x \in CheckPoint : g[x] # None => f[x] # None /\ g[x].parent = f[x].parent
                                               /\ g[x].rule = f[x].rule
      BY <1>1, <2>1 DEF Descends
    <3> QED
      BY <3>1 DEF Alone
  <2>2. CASE i # c
    <3>1. \A x \in CheckPoint : x # c /\ g[x] # None => x # i /\ g[x] = f[x] /\ f[x].parent # c
      BY <1>1, <2>2
    <3>2. d # c
      BY <1>1, <2>2
    <3> HIDE DEF g
    <3> QED
      BY <1>1, <2>2, <3>1, <3>2 DEF Alone
  <2> QED
    BY <2>1, <2>2
<1> QED
  BY <1>2, <1>3, <1>4 DEF Becomes

\* A new draft of a row that has none.
LEMMA NewDraft ==
    ASSUME Typed, NEW c \in Existing, Drafts(c) = {}, NEW n \in Free,
           NEW row, Descends(row, rows[c]), row.parent = c, NEW g, g = [rows EXCEPT ![n] = row]
    PROVE  Becomes(rows, g)
<1>1. \A x \in CheckPoint : g[x] = IF x = n THEN row ELSE rows[x]
  BY DEF Typed, Rows
<1>2. /\ c \in CheckPoint /\ rows[c] # None /\ n \in CheckPoint /\ rows[n] = None
      /\ \A x \in CheckPoint : rows[x] # None => rows[x].parent # n /\ rows[x].parent # c
  BY DEF Existing, Free, Drafts
<1>3. g \in Rows
  BY <1>2 DEF Typed, Rows, Descends
<1>4. Come(rows, g)
  <2> SUFFICES ASSUME NEW x \in CheckPoint, g[x] # None
               PROVE  \E y \in CheckPoint : rows[y] # None /\ Descends(g[x], rows[y])
    BY DEF Come
  <2>1. CASE x = n
    BY <1>1, <1>2, <2>1
  <2>2. CASE x # n
    BY <1>1, <2>2, RowIs, Itself DEF Typed
  <2> QED
    BY <2>1, <2>2
<1>5. Alone(g)
  <2>1. row.rule = rows[c].rule
    BY DEF Descends
  <2> QED
    BY <1>1, <1>2, <2>1 DEF Typed, Alone
<1> QED
  BY <1>3, <1>4, <1>5 DEF Becomes

-----------------------------------------------------------------------------
\* Edits and reviews, row by row.
LEMMA EditedIs ==
    ASSUME NEW row \in Row, NEW u \in User
    PROVE  /\ Descends(Edited(row, u), row) /\ Edited(row, u).parent = row.parent
           /\ Edited(row, u).review = "NOT_REVIEWED"
           /\ Edited(row, u).by = u /\ Edited(row, u).writer = u
           /\ Edited(row, u).enable = row.enable
BY DEF Edited, Row, Descends, RuleReviewStatus

\* A draft is a row beside its parent, with its parent's content.
LEMMA DraftIs ==
    ASSUME Typed, NEW c \in Existing, NEW u \in User,
           NEW s \in {"NOT_REVIEWED", "DEL_NOT_REVIEWED"}
    PROVE  /\ Draft(c, u, s) \in Row /\ Descends(Draft(c, u, s), rows[c])
           /\ Draft(c, u, s).parent = c /\ Draft(c, u, s).enable = "off"
           /\ Draft(c, u, s).review = s
<1>1. rows[c] \in Row /\ c \in CheckPoint /\ rows[c].rule \in Rule
  BY RowIs DEF Existing, Typed, Row
<1>2. open[rows[c].rule] \in SUBSET Version
  BY <1>1 DEF Typed, OthersTyped
<1> DEFINE seen == open[rows[c].rule]
<1> DEFINE row == rows[c]
<1>3. Draft(c, u, s) = [row EXCEPT !.law = "null", !.parent = c, !.review = s, !.enable = "off",
                                   !.by = u, !.unseen = seen]
  BY DEF Draft
<1>4. seen \in SUBSET Version /\ row \in Row /\ c \in CheckPoint
  BY <1>1, <1>2
<1> HIDE DEF seen, row
<1>5. /\ Draft(c, u, s) \in Row
      /\ Draft(c, u, s).parent = c /\ Draft(c, u, s).enable = "off"
      /\ Draft(c, u, s).review = s
  BY <1>3, <1>4, ZenonT(60) DEF Row, RuleReviewStatus, Switch
<1>6. /\ Draft(c, u, s).rule = row.rule /\ Draft(c, u, s).version = row.version
      /\ Draft(c, u, s).superseded = row.superseded /\ Draft(c, u, s).law = "null"
      /\ Draft(c, u, s).abandoned = row.abandoned
  BY <1>3, <1>4 DEF Row
<1>7. Descends(Draft(c, u, s), row)
  BY <1>5, <1>6 DEF Descends
<1> QED
  BY <1>5, <1>7 DEF row

\* A row that is reviewed, or asked to be deleted.
LEMMA MarkedIs ==
    ASSUME NEW row \in Row, NEW s \in RuleReviewStatus, NEW u \in User \cup {None}
    PROVE  /\ Descends([row EXCEPT !.review = s, !.by = u], row)
           /\ Descends([row EXCEPT !.review = s], row)
BY DEF Row, Descends

\* A row that is approved.
LEMMA ApprovedIs ==
    ASSUME Typed, NEW u \in User, NEW c \in CheckPoint, NEW i \in CheckPoint, NEW row \in Row,
           rows[c] # None
    PROVE  /\ Descends(Approved(u, c, i, row), row)
           /\ Approved(u, c, i, row).parent = IF i = c THEN row.parent ELSE None
           /\ Approved(u, c, i, row).review = "PASS"
<1>1. rows[c] \in Row /\ rows[c].enable \in Switch
  BY RowIs DEF Typed, Row
<1>2. CASE rows[i].review = "NOT_REVIEWED"
  <2> DEFINE parent == IF i = c THEN row.parent ELSE None
             enable == IF i # c /\ rows[i].enable = "on" THEN rows[c].enable ELSE "on"
             approver == IF row = rows[i] THEN u ELSE row.approver
  <2>1. Approved(u, c, i, row) = [row EXCEPT !.parent = parent, !.review = "PASS",
                                             !.enable = enable, !.approver = approver]
    BY <1>2 DEF Approved
  <2>2. parent \in CheckPoint \cup {None} /\ enable \in Switch /\ approver \in User \cup {None}
    BY <1>1 DEF Row, Switch
  <2>3. parent = IF i = c THEN row.parent ELSE None
    OBVIOUS
  <2> HIDE DEF parent, enable, approver
  <2> QED
    BY <2>1, <2>2, <2>3, ZenonT(60) DEF Row, Descends, RuleReviewStatus
<1>3. CASE rows[i].review # "NOT_REVIEWED"
  <2> DEFINE parent == IF i = c THEN row.parent ELSE None
             enable == rows[c].enable
  <2>1. Approved(u, c, i, row) = [row EXCEPT !.parent = parent, !.review = "PASS",
                                             !.enable = enable, !.abandoned = "yes"]
    BY <1>3 DEF Approved
  <2>2. parent \in CheckPoint \cup {None} /\ enable \in Switch
    BY <1>1 DEF Row
  <2>3. parent = IF i = c THEN row.parent ELSE None
    OBVIOUS
  <2> HIDE DEF parent, enable
  <2> QED
    BY <2>1, <2>2, <2>3, ZenonT(60) DEF Row, Descends, RuleReviewStatus
<1> QED
  BY <1>2, <1>3

\* The row a request on c is of: c, or its only draft.
LEMMA PendingIs ==
    ASSUME Typed, NEW c \in Existing, NEW i \in CheckPoint, Pending(c, i)
    PROVE  /\ c \in CheckPoint /\ rows[c] # None
           /\ rows[i] # None /\ rows[i] \in Row
           /\ i # c => rows[i].parent = c
           /\ i # c => \A x \in CheckPoint : rows[x] # None /\ rows[x].parent = c => x = i
<1>1. c \in CheckPoint /\ rows[c] # None /\ c # None
  BY NoneIs DEF Existing
<1>2. rows[i] # None /\ (i # c => rows[i].parent = c)
  BY <1>1 DEF Pending, Drafts
<1> QED
  BY <1>1, <1>2, RowIs DEF Typed, Alone

\* An approval.
LEMMA ApprovalIs ==
    ASSUME Typed, NEW u \in User, NEW c \in CheckPoint, rows[c] # None, NEW i \in CheckPoint,
           NEW f \in Rows, Alone(f), f[i] # None,
           i # c => \A x \in CheckPoint : f[x] # None /\ f[x].parent = c => x = i
    PROVE  Becomes(f, Approval(u, c, i, f))
<1>1. Approval(u, c, i, f) = Move(f, c, i, Approved(u, c, i, f[i]))
  BY DEF Approval, Move
<1>2. f[i] \in Row
  BY RowIs
<1>3. /\ Descends(Approved(u, c, i, f[i]), f[i])
      /\ Approved(u, c, i, f[i]).parent = IF i = c THEN f[i].parent ELSE None
  BY <1>2, ApprovedIs
<1> HIDE DEF Approved
<1> QED
  BY <1>1, <1>3, MoveIs

\* The rows that a request on c finds have become of those it has read.
LEMMA MetIs ==
    ASSUME Typed, NEW c \in Existing, NEW i \in CheckPoint, Pending(c, i), NEW f \in Met(c, i)
    PROVE  /\ f \in Rows /\ Alone(f) /\ Becomes(rows, f) /\ f[i] # None
           /\ i # c => \A x \in CheckPoint : f[x] # None /\ f[x].parent = c => x = i
           /\ i = c => f = rows
<1>1. /\ c \in CheckPoint /\ rows[c] # None /\ rows[i] # None
      /\ i # c => \A x \in CheckPoint : rows[x] # None /\ rows[x].parent = c => x = i
  BY PendingIs
<1>2. CASE f = rows
  BY <1>1, <1>2, Stay DEF Typed
<1>3. CASE f # rows
  <2>1. PICK w \in User, e \in CheckPoint :
           i # c /\ Reviewable(w, i, e) /\ f = Approval(w, i, e, rows)
    BY <1>3 DEF Met
  <2>2. i \in Existing /\ Pending(i, e)
    BY <1>1, <2>1 DEF Existing, Reviewable
  <2>3. /\ rows[e] # None /\ rows[e] \in Row
        /\ e # i => \A x \in CheckPoint : rows[x] # None /\ rows[x].parent = i => x = e
    BY <2>2, PendingIs
  <2>4. Becomes(rows, f)
    BY <1>1, <2>1, <2>3, ApprovalIs DEF Typed
  <2>5. \A x \in CheckPoint : x # i => f[x] = None \/ f[x] = rows[x]
    BY <2>1 DEF Approval
  <2>6. f[i] = Approved(w, i, e, rows[e])
    BY <2>1 DEF Approval
  <2>7. Approved(w, i, e, rows[e]) \in Row
    BY <1>1, <2>3, ApprovedIs DEF Descends
  <2> QED
    BY <1>1, <2>1, <2>4, <2>5, <2>6, <2>7, NoneIs DEF Becomes
<1> QED
  BY <1>2, <1>3

\* Writing to one row of a table.
LEMMA WriteIs ==
    ASSUME NEW f \in Rows, Alone(f), NEW i \in CheckPoint, f[i] # None,
           NEW row, Descends(row, f[i]), row.parent = f[i].parent
    PROVE  Becomes(f, [f EXCEPT ![i] = row])
<1>1. [f EXCEPT ![i] = row] = Move(f, i, i, row)
  BY DEF Move, Rows
<1>2. Becomes(f, Move(f, i, i, row))
  BY MoveIs
<1> HIDE DEF Move
<1> QED
  BY <1>1, <1>2, Zenon

\* An edit.
LEMMA UpdateBecomes ==
    ASSUME Typed, NEW u \in User, NEW c \in CheckPoint, UpdateCheckPoint(u, c)
    PROVE  Becomes(rows, rows')
<1>1. c \in Existing
  BY DEF UpdateCheckPoint
<1>2. CASE \E d \in Drafts(c) : \E table \in Met(c, d) : rows' = [table EXCEPT ![d] = Edited(@, u)]
  <2>0. PICK d \in Drafts(c) : \E f \in Met(c, d) : rows' = [f EXCEPT ![d] = Edited(f[d], u)]
    BY <1>2
  <2>1. PICK f \in Met(c, d) : rows' = [f EXCEPT ![d] = Edited(f[d], u)]
    BY <2>0
  <2>2. d \in CheckPoint /\ Pending(c, d)
    BY DEF Pending, Drafts
  <2>3. f \in Rows /\ Alone(f) /\ Becomes(rows, f) /\ f[d] # None
    BY <1>1, <2>2, MetIs
  <2>4. Descends(Edited(f[d], u), f[d]) /\ Edited(f[d], u).parent = f[d].parent
    BY <2>2, <2>3, RowIs, EditedIs
  <2>5. Becomes(f, rows')
    BY <2>1, <2>2, <2>3, <2>4, WriteIs
  <2> QED
    BY <2>3, <2>5, Further
<1>3. CASE /\ Drafts(c) = {}
           /\ \E d \in Free : rows' = [rows EXCEPT ![d] = Edited(Draft(c, u, "NOT_REVIEWED"), u)]
  <2>1. PICK d \in Free : rows' = [rows EXCEPT ![d] = Edited(Draft(c, u, "NOT_REVIEWED"), u)]
    BY <1>3
  <2> DEFINE draft == Draft(c, u, "NOT_REVIEWED")
  <2>2. draft \in Row /\ Descends(draft, rows[c]) /\ draft.parent = c
    BY <1>1, DraftIs
  <2>3. Descends(Edited(draft, u), draft) /\ Edited(draft, u).parent = c
    BY <2>2, EditedIs
  <2>4. Descends(Edited(draft, u), rows[c])
    BY <2>2, <2>3 DEF Descends
  <2> HIDE DEF draft
  <2> QED
    BY <1>1, <1>3, <2>1, <2>3, <2>4, NewDraft DEF draft
<1> QED
  BY <1>2, <1>3 DEF UpdateCheckPoint

\* A deletion request.
LEMMA StartDelBecomes ==
    ASSUME Typed, NEW u \in User, NEW c \in CheckPoint, StartCheckPointDel(u, c)
    PROVE  Becomes(rows, rows')
<1>1. c \in Existing
  BY DEF StartCheckPointDel
<1>2. PICK i \in CheckPoint :
         /\ Pending(c, i)
         /\ \/ /\ i = c
               /\ \E d \in Free : rows' = [rows EXCEPT ![d] = Draft(c, u, "DEL_NOT_REVIEWED")]
            \/ \E table \in Met(c, i) :
                  rows' = [table EXCEPT ![i].review = "DEL_NOT_REVIEWED", ![i].by = u]
  BY DEF StartCheckPointDel
<1>3. CASE i = c /\ \E d \in Free : rows' = [rows EXCEPT ![d] = Draft(c, u, "DEL_NOT_REVIEWED")]
  <2>1. PICK d \in Free : rows' = [rows EXCEPT ![d] = Draft(c, u, "DEL_NOT_REVIEWED")]
    BY <1>3
  <2>2. /\ Descends(Draft(c, u, "DEL_NOT_REVIEWED"), rows[c])
        /\ Draft(c, u, "DEL_NOT_REVIEWED").parent = c
    BY <1>1, DraftIs
  <2>3. Drafts(c) = {}
    <3>1. ASSUME Drafts(c) # {} PROVE FALSE
      <4>1. c \in Drafts(c)
        BY <1>2, <1>3, <3>1 DEF Pending
      <4>2. rows[c].parent = c /\ rows[c] # None
        BY <4>1 DEF Drafts
      <4> QED
        BY <1>2, <4>2, NoneIs DEF Typed, Alone
    <3> QED
      BY <3>1
  <2> QED
    BY <1>1, <2>1, <2>2, <2>3, NewDraft
<1>4. ASSUME NEW f \in Met(c, i), rows' = [f EXCEPT ![i].review = "DEL_NOT_REVIEWED", ![i].by = u]
      PROVE  Becomes(rows, rows')
  <2> DEFINE row == [f[i] EXCEPT !.review = "DEL_NOT_REVIEWED", !.by = u]
  <2>1. f \in Rows /\ Alone(f) /\ Becomes(rows, f) /\ f[i] # None
    BY <1>1, <1>2, MetIs
  <2>2. f[i] \in Row
    BY <2>1, RowIs
  <2>3. Descends(row, f[i]) /\ row.parent = f[i].parent
    BY <2>2, MarkedIs DEF RuleReviewStatus, Row
  <2>4. rows' = [f EXCEPT ![i] = row]
    BY <1>4, <2>1, <2>2 DEF Rows
  <2> HIDE DEF row
  <2> QED
    BY <2>1, <2>3, <2>4, WriteIs, Further
<1> QED
  BY <1>2, <1>3, <1>4

\* A rejection.
LEMMA RejectBecomes ==
    ASSUME Typed, NEW u \in User, NEW c \in CheckPoint, Reject(u, c)
    PROVE  Becomes(rows, rows')
<1>1. c \in Existing
  BY DEF Reject
<1>0. PICK i \in CheckPoint :
         Pending(c, i) /\ \E f \in Met(c, i) : rows' = [f EXCEPT ![i].review = "NOT_PASS"]
  BY DEF Reject, Reviewable
<1>2. PICK f \in Met(c, i) : Pending(c, i) /\ rows' = [f EXCEPT ![i].review = "NOT_PASS"]
  BY <1>0
<1> DEFINE row == [f[i] EXCEPT !.review = "NOT_PASS"]
<1>3. f \in Rows /\ Alone(f) /\ Becomes(rows, f) /\ f[i] # None
  BY <1>1, <1>2, MetIs
<1>4. f[i] \in Row
  BY <1>3, RowIs
<1>5. Descends(row, f[i]) /\ row.parent = f[i].parent
  BY <1>4, MarkedIs DEF RuleReviewStatus, Row
<1>6. rows' = [f EXCEPT ![i] = row]
  BY <1>2, <1>3 DEF Rows
<1> HIDE DEF row
<1> QED
  BY <1>3, <1>5, <1>6, WriteIs, Further

\* An approval, by the id of the check point or of the draft.
LEMMA ApproveBecomes ==
    ASSUME Typed, NEW u \in User, NEW c \in CheckPoint, Approve(u, c)
    PROVE  Becomes(rows, rows')
<1>1. c \in Existing /\ rows[c] # None
  BY DEF Approve, Existing
<1>0. PICK i \in CheckPoint : Pending(c, i) /\ \E f \in Met(c, i) : rows' = Approval(u, c, i, f)
  BY DEF Approve, Reviewable
<1>2. PICK f \in Met(c, i) : Pending(c, i) /\ rows' = Approval(u, c, i, f)
  BY <1>0
<1>3. /\ f \in Rows /\ Alone(f) /\ Becomes(rows, f) /\ f[i] # None
      /\ i # c => \A x \in CheckPoint : f[x] # None /\ f[x].parent = c => x = i
  BY <1>1, <1>2, MetIs
<1>4. Becomes(f, Approval(u, c, i, f))
  BY <1>1, <1>3, ApprovalIs
<1> QED
  BY <1>2, <1>3, <1>4, Further

-----------------------------------------------------------------------------
\* A switched row.
LEMMA SwitchedIs ==
    ASSUME NEW row \in Row, NEW enable \in Switch
    PROVE  /\ Descends([row EXCEPT !.enable = enable], row)
           /\ [row EXCEPT !.enable = enable].parent = row.parent
BY DEF Row, Descends

\* The switch of a check point or draft that may be gone.
LEMMA SwitchBecomes ==
    ASSUME Typed, NEW u \in User, SwitchCheckPoint(u) \/ SwitchRule(u)
    PROVE  Becomes(rows, rows')
<1>1. request[u] \in Request /\ request[u].enable \in Switch
  BY DEF Typed, SwitchCheckPoint, SwitchRule, Asked, Request
<1>2. \A c \in CheckPoint :
         \/ rows'[c] = rows[c]
         \/ rows[c] # None /\ rows'[c] = [rows[c] EXCEPT !.enable = request[u].enable]
  <2>1. CASE SwitchCheckPoint(u)
    BY <2>1 DEF SwitchCheckPoint
  <2>2. CASE SwitchRule(u)
    BY <2>2 DEF SwitchRule, Parents
  <2> QED
    BY <2>1, <2>2
<1>3. rows' = [c \in CheckPoint |-> rows'[c]]
  BY DEF SwitchCheckPoint, SwitchRule
<1>4. ASSUME NEW c \in CheckPoint, rows[c] # None
      PROVE  Descends(rows'[c], rows[c]) /\ rows'[c].parent = rows[c].parent
  <2>1. rows[c] \in Row
    BY <1>4, RowIs DEF Typed
  <2>2. CASE rows'[c] = rows[c]
    BY <2>1, <2>2, Itself
  <2>3. CASE rows'[c] = [rows[c] EXCEPT !.enable = request[u].enable]
    BY <1>1, <2>1, <2>3, SwitchedIs
  <2> QED
    BY <1>2, <2>2, <2>3
<1> QED
  BY <1>2, <1>3, <1>4, InPlace DEF Typed

\* A row that a conversion or a law that is applied leaves, but for its history.
Keeps(new, old) ==
    /\ new \in Row
    /\ new.rule = old.rule /\ new.law = old.law /\ new.parent = old.parent
    /\ new.review = old.review /\ new.enable = old.enable /\ new.by = old.by
    /\ new.writer = old.writer /\ new.approver = old.approver /\ new.version = old.version

\* What is abandoned is otherwise as it was.
LEMMA AbandonIs ==
    ASSUME Typed, NEW S \in SUBSET Existing, NEW c \in CheckPoint
    PROVE  /\ rows[c] = None => Abandon(S)[c] = None
           /\ rows[c] # None =>
                /\ Keeps(Abandon(S)[c], rows[c])
                /\ Abandon(S)[c].superseded = rows[c].superseded
                /\ Abandon(S)[c].abandoned = IF c \in S THEN "yes" ELSE rows[c].abandoned
<1>1. c \in S => rows[c] # None
  BY DEF Existing
<1>2. rows[c] # None => rows[c] \in Row
  BY RowIs DEF Typed
<1> QED
  BY <1>1, <1>2 DEF Abandon, Row, Keeps

\* The deletion of rules.
LEMMA AbandonBecomes ==
    ASSUME Typed, NEW S \in SUBSET Existing, rows' = Abandon(S)
    PROVE  Becomes(rows, rows')
<1>1. rows' = [c \in CheckPoint |-> rows'[c]]
  BY DEF Abandon
<1>2. \A c \in CheckPoint :
         /\ rows[c] = None => rows'[c] = None
         /\ rows[c] # None => Descends(rows'[c], rows[c]) /\ rows'[c].parent = rows[c].parent
  BY AbandonIs DEF Keeps, Descends
<1> QED
  BY <1>1, <1>2, InPlace DEF Typed

\* What another generation takes the place of.
LEMMA SupersedeIs ==
    ASSUME Typed, NEW S \in SUBSET Existing, NEW r \in Rule, NEW begun, NEW c \in CheckPoint
    PROVE  /\ rows[c] = None => Supersede(Abandon(S), r, begun)[c] = None
           /\ rows[c] # None =>
                /\ Keeps(Supersede(Abandon(S), r, begun)[c], rows[c])
                /\ Supersede(Abandon(S), r, begun)[c].superseded =
                     IF rows[c].rule = r THEN "yes" ELSE rows[c].superseded
                /\ Supersede(Abandon(S), r, begun)[c].abandoned =
                     IF c \in S THEN "yes" ELSE rows[c].abandoned
<1> DEFINE f == Abandon(S)
<1>1. /\ rows[c] = None => f[c] = None
      /\ rows[c] # None => /\ Keeps(f[c], rows[c])
                           /\ f[c].superseded = rows[c].superseded
                           /\ f[c].abandoned = IF c \in S THEN "yes" ELSE rows[c].abandoned
  BY AbandonIs
<1>2. c \in Of(r) <=> rows[c] # None /\ rows[c].rule = r
  BY DEF Of
<1>3. Supersede(f, r, begun)[c] =
         IF c \in Of(r) THEN [f[c] EXCEPT !.superseded = "yes", !.unseen = f[c].unseen \cap begun]
         ELSE f[c]
  BY DEF Supersede
<1>4. f[c] \in Row => f[c].unseen \cap begun \in SUBSET Version
  BY DEF Row
<1> HIDE DEF f
<1>5. ASSUME c \in Of(r)
      PROVE  /\ Keeps(Supersede(f, r, begun)[c], rows[c])
             /\ Supersede(f, r, begun)[c].superseded = "yes"
             /\ Supersede(f, r, begun)[c].abandoned = f[c].abandoned
  <2> DEFINE seen == f[c].unseen \cap begun
  <2>1. Keeps(f[c], rows[c]) /\ seen \in SUBSET Version
    BY <1>1, <1>2, <1>4, <1>5 DEF Keeps
  <2>2. Supersede(f, r, begun)[c] = [f[c] EXCEPT !.superseded = "yes", !.unseen = seen]
    BY <1>3, <1>5
  <2> HIDE DEF seen
  <2> QED
    BY <2>1, <2>2 DEF Keeps, Row
<1> QED
  BY <1>1, <1>2, <1>3, <1>5 DEF f

\* Rows that are kept where they are are alone.
LEMMA KeptAlone ==
    ASSUME Typed, NEW f,
           \A c \in CheckPoint : f[c] # None => rows[c] # None /\ Keeps(f[c], rows[c])
    PROVE  Alone(f)
BY DEF Typed, Alone, Keeps

\* What a conversion inserts.
LEMMA ConvertedIs ==
    ASSUME NEW r \in Rule, NEW v \in Version, NEW begun \in SUBSET Version
    PROVE  Converted(r, v, begun) \in Row
BY DEF Converted, Row, RuleReviewStatus, Switch

\* The rows when a conversion has ended.
ConvertedTo(r, v, n, missed) ==
    /\ rows'[n] \in Row /\ \E begun \in SUBSET Version : rows'[n] = Converted(r, v, begun)
    /\ \A c \in CheckPoint : c # n =>
         /\ rows[c] = None => rows'[c] = None
         /\ rows[c] # None =>
              /\ Keeps(rows'[c], rows[c])
              /\ rows'[c].superseded = IF rows[c].rule = r THEN "yes" ELSE rows[c].superseded
              /\ rows'[c].abandoned = IF c \in Of(r) \ missed THEN "yes" ELSE rows[c].abandoned

\* A conversion leaves one new row and what was there, as it has become.
LEMMA ConvertIs ==
    ASSUME Typed, NEW r \in Rule, NEW v \in Version, NEW missed, NEW begun \in SUBSET Version,
           Convert(r, v, missed, begun)
    PROVE  /\ \E n \in Free : ConvertedTo(r, v, n, missed)
           /\ rows' \in Rows /\ Alone(rows')
<1> DEFINE f == Supersede(Abandon(Of(r) \ missed), r, begun)
<1>1. PICK n \in Free : rows' = [f EXCEPT ![n] = Converted(r, v, begun)]
  BY DEF Convert
<1>2. Of(r) \ missed \in SUBSET Existing
  BY DEF Of, Existing
<1>3. /\ n \in CheckPoint /\ rows[n] = None
      /\ \A x \in CheckPoint : rows[x] # None => rows[x].parent # n
  BY DEF Free
<1>4. f = [c \in CheckPoint |-> f[c]]
  BY DEF Supersede
<1>5. \A c \in CheckPoint :
         /\ rows[c] = None => f[c] = None
         /\ rows[c] # None =>
              /\ Keeps(f[c], rows[c])
              /\ f[c].superseded = IF rows[c].rule = r THEN "yes" ELSE rows[c].superseded
              /\ f[c].abandoned = IF c \in Of(r) \ missed THEN "yes" ELSE rows[c].abandoned
  BY <1>2, SupersedeIs
<1> HIDE DEF f
<1>6. rows' = [c \in CheckPoint |-> IF c = n THEN Converted(r, v, begun) ELSE f[c]]
  BY <1>1, <1>4
<1>7. Converted(r, v, begun) \in Row /\ Converted(r, v, begun).parent = None
  BY ConvertedIs DEF Converted
<1>8. ConvertedTo(r, v, n, missed)
  <2>1. rows'[n] = Converted(r, v, begun)
    BY <1>3, <1>6
  <2>2. \A c \in CheckPoint : c # n => rows'[c] = f[c]
    BY <1>6
  <2> QED
    BY <1>5, <1>7, <2>1, <2>2 DEF ConvertedTo
<1>9. rows' \in Rows
  BY <1>5, <1>6, <1>7 DEF Rows, Keeps
<1>10. Alone(rows')
  <2>1. Alone(f)
    BY <1>5, KeptAlone
  <2>2. \A c \in CheckPoint : rows'[c] = IF c = n THEN Converted(r, v, begun) ELSE f[c]
    BY <1>6
  <2>3. \A c \in CheckPoint : f[c] # None => c # n /\ f[c].parent # n
    BY <1>3, <1>5 DEF Keeps
  <2> HIDE DEF Converted
  <2> QED
    BY <1>7, <2>1, <2>2, <2>3 DEF Alone
<1> QED
  BY <1>8, <1>9, <1>10

\* The copy of a row.
LEMMA CopyIs ==
    ASSUME Typed, NEW row \in Row, NEW S, NEW copy \in [S -> CheckPoint],
           row.parent # None => row.parent \in S
    PROVE  /\ Copy(row, copy) \in Row
           /\ Copy(row, copy).rule = Right /\ Copy(row, copy).law = "set"
           /\ Copy(row, copy).parent = IF row.parent = None THEN None ELSE copy[row.parent]
           /\ Copy(row, copy).review = row.review /\ Copy(row, copy).enable = row.enable
           /\ Copy(row, copy).by = row.by /\ Copy(row, copy).writer = row.writer
           /\ Copy(row, copy).approver = row.approver /\ Copy(row, copy).version = row.version
           /\ Copy(row, copy).abandoned = row.abandoned
           /\ Copy(row, copy).superseded = row.superseded
<1> DEFINE parent == IF row.parent = None THEN None ELSE copy[row.parent]
           seen == open[Right]
<1>1. parent \in CheckPoint \cup {None}
  OBVIOUS
<1>2. Right \in Rule /\ seen \in SUBSET Version
  BY DEF Typed, OthersTyped, Rule
<1>3. Copy(row, copy) = [row EXCEPT !.rule = Right, !.law = "set", !.parent = parent, !.unseen = seen]
  BY DEF Copy
<1>4. parent = IF row.parent = None THEN None ELSE copy[row.parent]
  OBVIOUS
<1> HIDE DEF parent, seen
<1> QED
  BY <1>1, <1>2, <1>3, <1>4 DEF Row

\* What a request has read, and under which ids it is copied.
Taken(q) == {c \in CheckPoint : q.rows[c] # None}

\* The rows when a law has been applied.
AppliedTo(q, copy) ==
    /\ copy \in [Taken(q) -> CheckPoint]
    /\ \A c \in Taken(q) : copy[c] \in Free /\ rows'[copy[c]] = Copy(q.rows[c], copy)
    /\ \A c, d \in Taken(q) : copy[c] = copy[d] => c = d
    /\ \A x \in CheckPoint : (\A c \in Taken(q) : copy[c] # x) =>
         /\ rows[x] = None => rows'[x] = None
         /\ rows[x] # None =>
              /\ Keeps(rows'[x], rows[x])
              /\ rows'[x].superseded = IF rows[x].rule = Right THEN "yes" ELSE rows[x].superseded
              /\ rows'[x].abandoned = IF x \in OfLaw THEN "yes" ELSE rows[x].abandoned

\* So does apply_law, with a copy for each row it has read.
LEMMA ApplyIs ==
    ASSUME Typed, NEW u \in User, Apply(u)
    PROVE  \E copy : AppliedTo(request[u], copy)
<1> DEFINE q == request[u]
           f == Supersede(Abandon(OfLaw), Right, open[Right])
<1>1. PICK copy \in [Taken(q) -> Free] :
         /\ \A c, d \in Taken(q) : copy[c] = copy[d] => c = d
         /\ rows' = [x \in CheckPoint |->
                      IF \E c \in Taken(q) : copy[c] = x
                      THEN Copy(q.rows[CHOOSE c \in Taken(q) : copy[c] = x], copy)
                      ELSE f[x]]
  BY DEF Apply, Taken
<1>2. OfLaw \in SUBSET Existing /\ Right \in Rule
  BY DEF OfLaw, Of, Existing, Rule
<1>3. \A c \in CheckPoint :
         /\ rows[c] = None => f[c] = None
         /\ rows[c] # None =>
              /\ Keeps(f[c], rows[c])
              /\ f[c].superseded = IF rows[c].rule = Right THEN "yes" ELSE rows[c].superseded
              /\ f[c].abandoned = IF c \in OfLaw THEN "yes" ELSE rows[c].abandoned
  BY <1>2, SupersedeIs
<1>4. copy \in [Taken(q) -> CheckPoint] /\ \A c \in Taken(q) : copy[c] \in Free /\ copy[c] \in CheckPoint
  BY DEF Free
<1> HIDE DEF f, q
<1>5. ASSUME NEW c \in Taken(q) PROVE rows'[copy[c]] = Copy(q.rows[c], copy)
  <2>1. (CHOOSE d \in Taken(q) : copy[d] = copy[c]) = c
    BY <1>1
  <2> QED
    BY <1>1, <1>4, <2>1
<1>6. \A x \in CheckPoint : (\A c \in Taken(q) : copy[c] # x) => rows'[x] = f[x]
  BY <1>1
<1>7. AppliedTo(q, copy)
  BY <1>1, <1>3, <1>4, <1>5, <1>6 DEF AppliedTo
<1> QED
  BY <1>7 DEF q

\* Copies are rows; they and the rows that were there are alone.
LEMMA AppliedIs ==
    ASSUME Typed, NEW u \in User, Apply(u), NEW copy, AppliedTo(request[u], copy)
    PROVE  /\ \A c \in Taken(request[u]) :
                /\ request[u].rows[c] \in Row
                /\ request[u].rows[c].parent # None => request[u].rows[c].parent \in Taken(request[u])
                /\ copy[c] \in CheckPoint /\ rows'[copy[c]] \in Row
           /\ rows' \in Rows /\ Alone(rows')
<1> DEFINE q == request[u]
           g == rows'
<1>1. Read(q) /\ q \in Request
  BY DEF Typed, Apply, Asked, Read
<1>2. q.rows \in Rows /\ Whole(q.rows) /\ Alone(q.rows)
  BY <1>1 DEF Read, Request
<1>3. \A c \in Taken(q) : /\ c \in CheckPoint /\ q.rows[c] # None /\ q.rows[c] \in Row
                          /\ q.rows[c].parent # None => q.rows[c].parent \in Taken(q)
  BY <1>2, RowIs DEF Taken, Whole, Row
<1>4. /\ copy \in [Taken(q) -> CheckPoint]
      /\ \A c, d \in Taken(q) : copy[c] = copy[d] => c = d
      /\ \A c \in Taken(q) : /\ copy[c] \in CheckPoint /\ rows[copy[c]] = None
                             /\ \A x \in CheckPoint : rows[x] # None => rows[x].parent # copy[c]
                             /\ g[copy[c]] = Copy(q.rows[c], copy)
  BY DEF AppliedTo, Free
<1>5. \A c \in Taken(q) :
         /\ g[copy[c]] \in Row /\ g[copy[c]] # None /\ g[copy[c]].rule = Right
         /\ g[copy[c]].parent = IF q.rows[c].parent = None THEN None ELSE copy[q.rows[c].parent]
  BY <1>3, <1>4, CopyIs, NoneIs
<1>6. \A x \in CheckPoint : (\A c \in Taken(q) : copy[c] # x) =>
         /\ rows[x] = None => g[x] = None
         /\ rows[x] # None => Keeps(g[x], rows[x])
  BY DEF AppliedTo
<1>7. g = [x \in CheckPoint |-> g[x]]
  BY DEF Apply
<1> HIDE DEF g, q
<1>8. g \in Rows
  <2>1. ASSUME NEW x \in CheckPoint PROVE g[x] \in Row \cup {None}
    <3>1. CASE \A c \in Taken(q) : copy[c] # x
      BY <1>6, <3>1 DEF Keeps
    <3>2. CASE ~\A c \in Taken(q) : copy[c] # x
      BY <1>5, <3>2
    <3> QED
      BY <3>1, <3>2
  <2> QED
    BY <1>7, <2>1 DEF Rows
<1>9. ASSUME NEW d \in CheckPoint, NEW e \in CheckPoint,
             g[d] # None, g[e] # None, g[d].parent # None
      PROVE  /\ g[d].parent # d
             /\ g[e].parent = g[d].parent => e = d
             /\ g[d].parent = e => g[e].rule = g[d].rule
  <2>1. CASE \E c \in Taken(q) : copy[c] = d
    <3>1. PICK c \in Taken(q) : copy[c] = d
      BY <2>1
    <3>2. /\ q.rows[c].parent # None /\ q.rows[c].parent \in Taken(q)
          /\ g[d].parent = copy[q.rows[c].parent] /\ g[d].rule = Right
      BY <1>3, <1>5, <1>9, <3>1
    <3>3. g[d].parent # d
      BY <1>2, <1>3, <1>4, <3>1, <3>2 DEF Alone
    <3>4. CASE \E b \in Taken(q) : copy[b] = e
      <4>1. PICK b \in Taken(q) : copy[b] = e
        BY <3>4
      <4>2. g[e].rule = Right
        BY <1>5, <4>1
      <4>3. ASSUME g[e].parent = g[d].parent PROVE e = d
        <5>1. q.rows[b].parent # None /\ copy[q.rows[b].parent] = copy[q.rows[c].parent]
          BY <1>5, <1>9, <3>2, <4>1, <4>3
        <5>2. q.rows[b].parent = q.rows[c].parent
          BY <1>3, <1>4, <3>2, <4>1, <5>1
        <5> QED
          BY <1>2, <1>3, <3>1, <3>2, <4>1, <5>2 DEF Alone
      <4> QED
        BY <3>2, <3>3, <4>2, <4>3
    <3>5. CASE \A b \in Taken(q) : copy[b] # e
      <4>1. rows[e] # None /\ g[e].parent = rows[e].parent
        BY <1>6, <1>9, <3>5 DEF Keeps
      <4> QED
        BY <1>4, <3>2, <3>3, <3>5, <4>1
    <3> QED
      BY <3>4, <3>5
  <2>2. CASE \A c \in Taken(q) : copy[c] # d
    <3>1. rows[d] # None /\ g[d].parent = rows[d].parent /\ g[d].rule = rows[d].rule
      BY <1>6, <1>9, <2>2 DEF Keeps
    <3>2. \A c \in Taken(q) : copy[c] # g[d].parent
      BY <1>4, <3>1
    <3>3. CASE \E b \in Taken(q) : copy[b] = e
      <4>1. PICK b \in Taken(q) : copy[b] = e
        BY <3>3
      <4>2. g[e].parent = None \/ \E c \in Taken(q) : g[e].parent = copy[c]
        BY <1>3, <1>5, <4>1
      <4> QED
        BY <1>9, <3>1, <3>2, <4>1, <4>2 DEF Typed, Alone
    <3>4. CASE \A b \in Taken(q) : copy[b] # e
      <4>1. rows[e] # None /\ g[e].parent = rows[e].parent /\ g[e].rule = rows[e].rule
        BY <1>6, <1>9, <3>4 DEF Keeps
      <4> QED
        BY <1>9, <3>1, <4>1 DEF Typed, Alone
    <3> QED
      BY <3>3, <3>4
  <2> QED
    BY <2>1, <2>2
<1>10. Alone(g)
  BY <1>9 DEF Alone
<1> QED
  BY <1>3, <1>4, <1>5, <1>8, <1>10 DEF g, q

-----------------------------------------------------------------------------
\* The steps that write check points.
LEMMA RowSteps ==
    ASSUME Next
    PROVE
        \/ UNCHANGED rows
        \/ \E u \in User, c \in CheckPoint :
              UpdateCheckPoint(u, c) \/ StartCheckPointDel(u, c) \/ Reject(u, c) \/ Approve(u, c)
        \/ \E u \in User : SwitchCheckPoint(u) \/ SwitchRule(u) \/ Apply(u)
        \/ \E r \in Rule, v \in Version : ConvertCommit(r, v) \/ ConvertInsert(r, v)
        \/ \E r \in Rule : DeleteRule(r)
        \/ DeleteOrder
<1>1. ASSUME NEW u \in User, NEW c \in CheckPoint, SwitchCheckPointRead(u, c)
      PROVE  UNCHANGED rows
  BY <1>1 DEF SwitchCheckPointRead, Ask
<1>2. ASSUME NEW u \in User, NEW r \in Rule, SwitchRuleRead(u, r) \/ ConvertRuleRead(u, r)
      PROVE  UNCHANGED rows
  BY <1>2 DEF SwitchRuleRead, ConvertRuleRead, Ask
<1>3. ASSUME NEW u \in User, ConvertRule(u) \/ ApplyRead(u)
      PROVE  UNCHANGED rows
  BY <1>3 DEF ConvertRule, ApplyRead, Ask
<1>4. ASSUME NEW r \in Rule, ConvertRules(r) \/ EditRule(r) \/ Crash(r) \/ ConvertStart(r)
      PROVE  UNCHANGED rows
  BY <1>4 DEF ConvertRules, EditRule, Crash, ConvertStart
<1>5. ASSUME NEW r \in Rule, NEW v \in Version,
             ConvertUpdate(r, v) \/ ConvertFails(r, v) \/ ConvertRaises(r, v)
      PROVE  UNCHANGED rows
  BY <1>5 DEF ConvertUpdate, ConvertFails, ConvertRaises
<1> QED
  BY <1>1, <1>2, <1>3, <1>4, <1>5 DEF Next, OnCheckPoint, OnRule

\* A conversion that commits.
LEMMA Commits ==
    ASSUME Typed, NEW r \in Rule, NEW v \in Version, ConvertCommit(r, v) \/ ConvertInsert(r, v)
    PROVE  \E begun \in SUBSET Version : \E missed : Convert(r, v, missed, begun)
<1>1. open[r] \in SUBSET Version /\ open[r] \ {v} \in SUBSET Version
  BY DEF Typed, OthersTyped
<1>2. ConvertCommit(r, v) => Convert(r, v, {}, open[r])
  BY DEF ConvertCommit
<1>3. ConvertInsert(r, v) => \E missed : Convert(r, v, missed, open[r] \ {v})
  BY DEF ConvertInsert
<1> QED
  BY <1>1, <1>2, <1>3

\* Whatever is not a conversion or the replacement of a law makes rows of rows.
LEMMA RowsStep ==
    ASSUME Typed, [Next]_vars
    PROVE  \/ Becomes(rows, rows')
           \/ \E r \in Rule, v \in Version : ConvertCommit(r, v) \/ ConvertInsert(r, v)
           \/ \E u \in User : Apply(u)
<1>1. CASE UNCHANGED rows
  BY <1>1, Stay DEF Typed
<1>2. ASSUME NEW u \in User, NEW c \in CheckPoint,
             UpdateCheckPoint(u, c) \/ StartCheckPointDel(u, c) \/ Reject(u, c) \/ Approve(u, c)
      PROVE  Becomes(rows, rows')
  BY <1>2, UpdateBecomes, StartDelBecomes, RejectBecomes, ApproveBecomes
<1>3. ASSUME NEW u \in User, SwitchCheckPoint(u) \/ SwitchRule(u)
      PROVE  Becomes(rows, rows')
  BY <1>3, SwitchBecomes
<1>4. ASSUME NEW r \in Rule, DeleteRule(r)
      PROVE  Becomes(rows, rows')
  <2>1. Of(r) \in SUBSET Existing /\ rows' = Abandon(Of(r))
    BY <1>4 DEF DeleteRule, Of, Existing
  <2> QED
    BY <2>1, AbandonBecomes
<1>5. ASSUME DeleteOrder
      PROVE  Becomes(rows, rows')
  <2>1. Of(Left) \cup Of(Right) \in SUBSET Existing /\ rows' = Abandon(Of(Left) \cup Of(Right))
    BY <1>5 DEF DeleteOrder, Of, Existing
  <2> QED
    BY <2>1, AbandonBecomes
<1>6. UNCHANGED vars => UNCHANGED rows
  BY DEF vars
<1> QED
  BY <1>1, <1>2, <1>3, <1>4, <1>5, <1>6, RowSteps

\* Check points and drafts are rows that are alone.
LEMMA RowsTyped ==
    ASSUME Typed, [Next]_vars
    PROVE  rows' \in Rows /\ Alone(rows')
<1>1. ASSUME NEW r \in Rule, NEW v \in Version, ConvertCommit(r, v) \/ ConvertInsert(r, v)
      PROVE  rows' \in Rows /\ Alone(rows')
  <2>0. PICK begun \in SUBSET Version : \E missed : Convert(r, v, missed, begun)
    BY <1>1, Commits
  <2>1. PICK missed : Convert(r, v, missed, begun)
    BY <2>0
  <2> QED
    BY <2>1, ConvertIs
<1>2. ASSUME NEW u \in User, Apply(u)
      PROVE  rows' \in Rows /\ Alone(rows')
  BY <1>2, ApplyIs, AppliedIs
<1> QED
  BY <1>1, <1>2, RowsStep DEF Becomes

-----------------------------------------------------------------------------
\* What goes wrong is a fault.
LEMMA TroubleIs ==
    ASSUME trouble \in SUBSET Fault, NEW kinds, Trouble(kinds)
    PROVE  trouble' \in SUBSET Fault /\ trouble \subseteq trouble'
BY CheckPointReviewAssumption DEF Trouble

\* One rule gets a new row.
LEMMA OneRule ==
    ASSUME rules \in [Rule -> RuleRow], NEW r \in Rule, NEW row \in RuleRow,
           rules' = [rules EXCEPT ![r] = row]
    PROVE  rules' \in [Rule -> RuleRow]
OBVIOUS

\* A rule whose conversion is asked for.
LEMMA WaitTyped ==
    ASSUME rules \in [Rule -> RuleRow], NEW r \in Rule, Wait(r)
    PROVE  rules' \in [Rule -> RuleRow]
<1> DEFINE row == [rules[r] EXCEPT !.status = "WAITING", !.asked = rules[r].version]
<1>1. rules[r] \in RuleRow
  OBVIOUS
<1>2. row \in RuleRow
  BY <1>1 DEF RuleRow, LawRuleStatus
<1>3. rules' = [rules EXCEPT ![r] = row]
  BY <1>1 DEF Wait
<1> HIDE DEF row
<1> QED
  BY <1>2, <1>3, OneRule

\* One rule gets another status.
LEMMA OneStatus ==
    ASSUME rules \in [Rule -> RuleRow], NEW r \in Rule, NEW s \in LawRuleStatus,
           rules' = [rules EXCEPT ![r].status = s]
    PROVE  rules' \in [Rule -> RuleRow]
<1> DEFINE row == [rules[r] EXCEPT !.status = s]
<1>1. row \in RuleRow
  BY DEF RuleRow
<1>2. rules' = [rules EXCEPT ![r] = row]
  OBVIOUS
<1> HIDE DEF row
<1> QED
  BY <1>1, <1>2, OneRule

\* Edits and reviews leave the rules, the tasks and what is asked for as they are.
LEMMA ReviewIs ==
    ASSUME trouble \in SUBSET Fault, NEW u \in User, NEW c \in CheckPoint,
           UpdateCheckPoint(u, c) \/ StartCheckPointDel(u, c) \/ Reject(u, c) \/ Approve(u, c)
    PROVE  /\ UNCHANGED <<rules, queued, running, open, request>>
           /\ trouble' \in SUBSET Fault /\ trouble \subseteq trouble'
           /\ \/ UNCHANGED requests
              \/ Counted
<1>1. \/ UNCHANGED trouble
      \/ \E kinds : Trouble(kinds)
  BY DEF UpdateCheckPoint, StartCheckPointDel, Reject, Approve, Crossed
<1> QED
  BY <1>1, TroubleIs DEF UpdateCheckPoint, StartCheckPointDel, Reject, Approve, tasks, users

\* Edits and reviews leave all but the rows as they are, or of their types.
LEMMA ReviewTyped ==
    ASSUME OthersTyped, NEW u \in User, NEW c \in CheckPoint,
           UpdateCheckPoint(u, c) \/ StartCheckPointDel(u, c) \/ Reject(u, c) \/ Approve(u, c)
    PROVE  OthersTyped' /\ UNCHANGED request
BY ReviewIs DEF OthersTyped, Counted

\* Switches, and what waits for a conversion.
LEMMA SwitchTyped ==
    ASSUME OthersTyped, request \in [User -> Request \cup {None}], NEW u \in User,
           SwitchCheckPoint(u) \/ SwitchRule(u) \/ ConvertRule(u) \/ Apply(u)
    PROVE  /\ OthersTyped'
           /\ request' = [request EXCEPT ![u] = None]
<1>1. request[u] \in Request
  BY DEF SwitchCheckPoint, SwitchRule, ConvertRule, Apply, Asked
<1>2. /\ request[u].rule \in Rule /\ request[u].enable \in Switch
      /\ request[u].was \in LawRuleStatus
  BY <1>1 DEF Request
<1>3. CASE SwitchCheckPoint(u)
  BY <1>3 DEF SwitchCheckPoint, OthersTyped, Answered, tasks
<1>4. CASE SwitchRule(u)
  <2>1. Switched(request[u].enable, request[u].was) \in LawRuleStatus
    BY <1>2 DEF Switched, LawRuleStatus
  <2> DEFINE r == request[u].rule
             row == [rules[r] EXCEPT !.enable = request[u].enable,
                                     !.status = Switched(request[u].enable, request[u].was)]
  <2>2. rules' \in [Rule -> RuleRow]
    <3>1. rules[r] \in RuleRow
      BY <1>2 DEF OthersTyped
    <3>2. row \in RuleRow
      BY <1>2, <2>1, <3>1 DEF RuleRow
    <3>3. rules' = [rules EXCEPT ![r] = row]
      BY <1>2, <1>4, <3>1 DEF SwitchRule, OthersTyped
    <3> HIDE DEF r, row
    <3> QED
      BY <1>2, <3>2, <3>3, OneRule DEF OthersTyped, r
  <2> QED
    BY <1>4, <2>2, TroubleIs DEF SwitchRule, OthersTyped, Answered, tasks
<1>5. CASE ConvertRule(u)
  <2>1. rules' \in [Rule -> RuleRow]
    BY <1>2, <1>5, WaitTyped DEF ConvertRule, OthersTyped
  <2>2. queued' \in [Rule -> Nat]
    BY <1>2, <1>5 DEF ConvertRule, Queue, OthersTyped
  <2> QED
    BY <1>5, <2>1, <2>2 DEF ConvertRule, Queue, OthersTyped, Answered
<1>6. CASE Apply(u)
  <2>1. Left \in Rule /\ Right \in Rule
    BY DEF Rule
  <2> DEFINE left == [rules[Left] EXCEPT !.law = "deleted"]
             right == [rules[Right] EXCEPT !.law = IF @ = "deleted" THEN @ ELSE "current",
                                           !.enable = request[u].enable,
                                           !.status = request[u].was]
  <2>2. rules' \in [Rule -> RuleRow]
    <3>1. rules[Left] \in RuleRow /\ rules[Right] \in RuleRow
      BY <2>1 DEF OthersTyped
    <3>2. left \in RuleRow /\ right \in RuleRow
      BY <1>2, <3>1 DEF RuleRow
    <3>3. rules' = [rules EXCEPT ![Left] = left, ![Right] = right]
      BY <1>6, <2>1, <3>1, CheckPointReviewAssumption DEF Apply, OthersTyped
    <3> HIDE DEF left, right
    <3> QED
      BY <2>1, <3>2, <3>3 DEF OthersTyped
  <2> QED
    BY <1>6, <2>2, TroubleIs DEF Apply, OthersTyped, Answered, tasks
<1> QED
  BY <1>3, <1>4, <1>5, <1>6

\* What Convert does to the rules.
LEMMA ConvertTyped ==
    ASSUME OthersTyped, NEW r \in Rule, NEW v \in Version, NEW missed, NEW begun,
           Convert(r, v, missed, begun)
    PROVE  /\ rules' \in [Rule -> RuleRow]
           /\ trouble' \in SUBSET Fault /\ trouble \subseteq trouble'
<1> DEFINE newest == IF rules[r].converted < v THEN v ELSE rules[r].converted
           row == [rules[r] EXCEPT !.status = "CONVERTED", !.converted = newest]
<1>1. rules[r] \in RuleRow
  BY DEF OthersTyped
<1>2. newest \in Version
  BY <1>1 DEF RuleRow
<1>3. rules' = [rules EXCEPT ![r] = row]
  BY <1>1 DEF Convert, OthersTyped
<1> HIDE DEF newest
<1>4. row \in RuleRow
  BY <1>1, <1>2 DEF RuleRow, LawRuleStatus
<1> HIDE DEF row
<1> QED
  BY <1>3, <1>4, OneRule, TroubleIs DEF OthersTyped, Convert

\* Conversions and deletions.
LEMMA RuleTyped ==
    ASSUME OthersTyped, NEW r \in Rule, OnRule(r)
    PROVE  OthersTyped' /\ UNCHANGED request
<1>1. rules[r] \in RuleRow /\ queued[r] \in Nat /\ running[r] \in [Version -> Nat]
  BY DEF OthersTyped
<1>2. CASE ConvertRules(r)
  <2>1. rules' \in [Rule -> RuleRow]
    BY <1>2, WaitTyped DEF ConvertRules, OthersTyped
  <2> QED
    <3>1. queued' \in [Rule -> Nat]
      BY <1>1, <1>2 DEF ConvertRules, Queue, OthersTyped
    <3> QED
      BY <1>2, <2>1, <3>1 DEF ConvertRules, Queue, OthersTyped, Counted
<1>3. CASE EditRule(r)
  <2>1. rules[r].version + 1 \in Version
    <3>1. rules[r].version \in Version
      BY <1>1 DEF RuleRow
    <3>2. rules[r].version < MaxEdits
      BY <1>3 DEF EditRule
    <3> QED
      BY <3>1, <3>2, CheckPointReviewAssumption DEF Version
  <2> DEFINE row == [rules[r] EXCEPT !.version = rules[r].version + 1]
             asked == [rules[r] EXCEPT !.version = rules[r].version + 1, !.status = "WAITING",
                                       !.asked = rules[r].version + 1]
  <2>2. rules' \in [Rule -> RuleRow]
    <3>1. row \in RuleRow /\ asked \in RuleRow
      BY <1>1, <2>1 DEF RuleRow, LawRuleStatus
    <3>2. rules' = [rules EXCEPT ![r] = row] \/ rules' = [rules EXCEPT ![r] = asked]
      BY <1>1, <1>3 DEF EditRule, OthersTyped
    <3> HIDE DEF row, asked
    <3> QED
      BY <3>1, <3>2, OneRule DEF OthersTyped
  <2> QED
    BY <1>1, <1>3, <2>2 DEF EditRule, Queue, OthersTyped, Counted, tasks
<1>4. CASE DeleteRule(r)
  <2> DEFINE row == [rules[r] EXCEPT !.law = "deleted"]
  <2>1. rules' \in [Rule -> RuleRow]
    <3>1. row \in RuleRow
      BY <1>1 DEF RuleRow
    <3>2. rules' = [rules EXCEPT ![r] = row]
      BY <1>4 DEF DeleteRule
    <3> HIDE DEF row
    <3> QED
      BY <3>1, <3>2, OneRule DEF OthersTyped
  <2> QED
    BY <1>4, <2>1 DEF DeleteRule, OthersTyped, tasks, Counted
<1>5. ASSUME NEW v \in Version, Ends(r, v)
      PROVE  UNCHANGED queued /\ running' \in [Rule -> [Version -> Nat]]
  <2>1. running[r][v] - 1 \in Nat
    BY <1>1, <1>5 DEF Ends
  <2> QED
    BY <1>1, <1>5, <2>1 DEF Ends, OthersTyped
<1>6. CASE Crash(r)
  <2>1. CASE queued[r] > 0 /\ queued' = [queued EXCEPT ![r] = queued[r] - 1] /\ UNCHANGED running
    BY <1>1, <1>6, <2>1, TroubleIs DEF Crash, Fails, OthersTyped, users
  <2>2. CASE \E v \in Version : Ends(r, v)
    BY <1>5, <1>6, <2>2, TroubleIs DEF Crash, Fails, OthersTyped, users
  <2> QED
    BY <1>6, <2>1, <2>2 DEF Crash
<1>7. CASE ConvertStart(r)
  <2>1. queued' \in [Rule -> Nat]
    BY <1>1, <1>7 DEF ConvertStart, OthersTyped
  <2>2. rules[r].version \in Version
    BY <1>1 DEF RuleRow
  <2>3. running' \in [Rule -> [Version -> Nat]]
    <3>1. running[r][rules[r].version] + 1 \in Nat
      BY <1>1, <2>2
    <3>2. \/ UNCHANGED running
          \/ running' = [running EXCEPT ![r] =
                           [running[r] EXCEPT ![rules[r].version] = running[r][rules[r].version] + 1]]
      BY <1>7 DEF ConvertStart
    <3>3. [running[r] EXCEPT ![rules[r].version] = running[r][rules[r].version] + 1]
             \in [Version -> Nat]
      BY <1>1, <3>1
    <3> QED
      BY <3>2, <3>3 DEF OthersTyped
  <2>4. rules' \in [Rule -> RuleRow]
    <3>1. rules[r].status \in LawRuleStatus /\ "CONVERTING" \in LawRuleStatus
      BY <1>1 DEF RuleRow, LawRuleStatus
    <3>2. \/ UNCHANGED rules
          \/ rules' = [rules EXCEPT ![r].status = rules[r].status]
          \/ rules' = [rules EXCEPT ![r].status = "CONVERTING"]
      BY <1>7 DEF ConvertStart
    <3> QED
      BY <3>1, <3>2, OneStatus DEF OthersTyped
  <2> QED
    BY <1>7, <2>1, <2>3, <2>4 DEF ConvertStart, OthersTyped, users
<1>8. ASSUME NEW v \in Version, ConvertCommit(r, v) \/ ConvertInsert(r, v)
      PROVE  OthersTyped' /\ UNCHANGED request
  <2>1. PICK missed, begun : Convert(r, v, missed, begun)
    BY <1>8 DEF ConvertCommit, ConvertInsert
  <2>2. rules' \in [Rule -> RuleRow] /\ trouble' \in SUBSET Fault
    BY <2>1, ConvertTyped
  <2>3. queued' \in [Rule -> Nat] /\ running' \in [Rule -> [Version -> Nat]]
    BY <1>5, <1>8 DEF ConvertCommit, ConvertInsert, OthersTyped
  <2>4. open' \in [Rule -> SUBSET Version]
    BY <1>8 DEF ConvertCommit, ConvertInsert, OthersTyped
  <2> QED
    BY <2>1, <2>2, <2>3, <2>4 DEF Convert, OthersTyped, users
<1>9. ASSUME NEW v \in Version, ConvertUpdate(r, v) PROVE OthersTyped' /\ UNCHANGED request
  <2>1. open' \in [Rule -> SUBSET Version]
    BY <1>9 DEF ConvertUpdate, OthersTyped
  <2> QED
    BY <1>5, <1>9, <2>1 DEF ConvertUpdate, OthersTyped, users
<1>10. ASSUME NEW v \in Version, ConvertFails(r, v) PROVE OthersTyped' /\ UNCHANGED request
  <2>1. rules' \in [Rule -> RuleRow]
    BY <1>10, OneStatus DEF ConvertFails, OthersTyped, LawRuleStatus
  <2> QED
    BY <1>5, <1>10, <2>1, TroubleIs DEF ConvertFails, Fails, OthersTyped, users
<1>11. ASSUME NEW v \in Version, ConvertRaises(r, v) PROVE OthersTyped' /\ UNCHANGED request
  BY <1>5, <1>11, TroubleIs DEF ConvertRaises, Fails, OthersTyped, users
<1> QED
  BY <1>2, <1>3, <1>4, <1>6, <1>7, <1>8, <1>9, <1>10, <1>11 DEF OnRule

\* The deletion of the law.
LEMMA OrderTyped ==
    ASSUME OthersTyped, DeleteOrder
    PROVE  OthersTyped' /\ UNCHANGED request
<1>1. ASSUME NEW r \in Rule PROVE [rules[r] EXCEPT !.law = "deleted"] \in RuleRow
  <2>1. rules[r] \in RuleRow
    BY DEF OthersTyped
  <2> QED
    BY <2>1 DEF RuleRow
<1>2. rules' \in [Rule -> RuleRow]
  BY <1>1 DEF DeleteOrder
<1> QED
  BY <1>2 DEF DeleteOrder, OthersTyped, tasks, Counted

-----------------------------------------------------------------------------
\* Nothing read is well formed.
LEMMA NoRowsIs == NoRows \in Rows /\ Whole(NoRows) /\ Alone(NoRows)
BY DEF NoRows, Whole, Alone, Rows

\* The check points in use come with their parents.
LEMMA InUseIs ==
    ASSUME Typed, NEW f, f = [c \in CheckPoint |-> IF c \in InUse THEN rows[c] ELSE None]
    PROVE  f \in Rows /\ Whole(f) /\ Alone(f)
<1>1. f \in Rows
  BY DEF Typed, Rows
<1>2. \A c \in CheckPoint : f[c] # None => c \in InUse /\ f[c] = rows[c]
  OBVIOUS
<1>3. ASSUME NEW c \in CheckPoint, f[c] # None, f[c].parent # None
      PROVE  f[f[c].parent] # None
  <2>1. c \in InUse /\ rows[c].parent # None
    BY <1>3
  <2>2. PICK p \in Kept : c \in Drafts(p)
    BY <2>1 DEF InUse, Kept, Parents
  <2>3. rows[c].parent = p /\ p \in CheckPoint /\ p \in InUse /\ rows[p] # None
    BY <2>2 DEF Drafts, Kept, Parents, InUse
  <2> QED
    BY <1>3, <2>1, <2>3
<1>4. Alone(f)
  BY <1>2 DEF Typed, Alone
<1> QED
  BY <1>1, <1>3, <1>4 DEF Whole

\* User u has now asked for this, read with the rows that were seen.
AskedFor(u, op, c, r, enable, seen) ==
    \E q : /\ Read(q) /\ request' = [request EXCEPT ![u] = q]
           /\ q.op = op /\ q.cp = c /\ q.rule = r /\ q.enable = enable /\ q.rows = seen

\* What requests that read remember.
LEMMA AskTyped ==
    ASSUME Typed, NEW u \in User, NEW op \in Op, NEW c \in CheckPoint \cup {None}, NEW r \in Rule,
           NEW enable \in Switch, NEW was \in LawRuleStatus, NEW seen \in Rows,
           Whole(seen), Alone(seen), Ask(u, op, c, r, enable, was, seen)
    PROVE  OthersTyped' /\ AskedFor(u, op, c, r, enable, seen)
<1> DEFINE q == [op |-> op, cp |-> c, rule |-> r, enable |-> enable, was |-> was, rows |-> seen]
<1>1. /\ Read(q)
      /\ q.op = op /\ q.cp = c /\ q.rule = r /\ q.enable = enable /\ q.rows = seen
  BY DEF Request, Read
<1>2. request' = [request EXCEPT ![u] = q]
  BY DEF Ask
<1>3. OthersTyped'
  BY DEF Ask, Typed, OthersTyped, tasks, Counted
<1> QED
  BY <1>1, <1>2, <1>3 DEF AskedFor

\* The requests that read.
Asks(u, q) ==
    \/ /\ q.op = "switch_check_point" /\ q.cp \in Existing /\ Switchable(q.cp, q.enable)
       /\ q.rows = NoRows
    \/ /\ q.op = "switch_rule" /\ rules[q.rule].law = "current"
       /\ q.rows = NoRows
    \/ /\ q.op = "convert_rule" /\ rules[q.rule].status # "DISABLED"
       /\ q.rows = NoRows
    \/ /\ q.op = "apply_law" /\ rules[Left].law = "current"
       /\ q.rows = [c \in CheckPoint |-> IF c \in InUse THEN rows[c] ELSE None]

\* Each of the four requests asks with what it has just read.
LEMMA AsksIs ==
    ASSUME Typed, NEW u \in User,
           \/ \E c \in CheckPoint : SwitchCheckPointRead(u, c)
           \/ \E r \in Rule : SwitchRuleRead(u, r) \/ ConvertRuleRead(u, r)
           \/ ApplyRead(u)
    PROVE  /\ OthersTyped' /\ UNCHANGED <<rules, rows, queued, running, open, trouble>>
           /\ \E q : Read(q) /\ Asks(u, q) /\ request' = [request EXCEPT ![u] = q]
<1>1. \A r \in Rule : rules[r].status \in LawRuleStatus /\ rules[r].enable \in Switch
  BY DEF Typed, OthersTyped, RuleRow
<1>2. ASSUME NEW c \in CheckPoint, SwitchCheckPointRead(u, c)
      PROVE  OthersTyped' /\ \E q : Read(q) /\ Asks(u, q) /\ request' = [request EXCEPT ![u] = q]
  <2>1. PICK enable \in Switch :
           /\ c \in Existing /\ Switchable(c, enable)
           /\ Ask(u, "switch_check_point", c, Left, enable, "INIT", NoRows)
    BY <1>2 DEF SwitchCheckPointRead
  <2>2. /\ OthersTyped'
        /\ \E q : /\ Read(q) /\ request' = [request EXCEPT ![u] = q]
                  /\ q.op = "switch_check_point" /\ q.cp = c /\ q.enable = enable
                  /\ q.rows = NoRows
    BY <2>1, AskTyped, NoRowsIs DEF Op, Rule, LawRuleStatus, AskedFor
  <2> QED
    BY <2>1, <2>2 DEF Asks
<1>3. ASSUME NEW r \in Rule, SwitchRuleRead(u, r)
      PROVE  OthersTyped' /\ \E q : Read(q) /\ Asks(u, q) /\ request' = [request EXCEPT ![u] = q]
  <2>1. PICK enable \in Switch : /\ rules[r].law = "current"
                                 /\ Ask(u, "switch_rule", None, r, enable, rules[r].status, NoRows)
    BY <1>3 DEF SwitchRuleRead
  <2>2. /\ OthersTyped'
        /\ \E q : /\ Read(q) /\ request' = [request EXCEPT ![u] = q]
                  /\ q.op = "switch_rule" /\ q.cp = None /\ q.rule = r /\ q.enable = enable
                  /\ q.rows = NoRows
    <3> DEFINE was == rules[r].status
    <3>1. "switch_rule" \in Op /\ None \in CheckPoint \cup {None} /\ was \in LawRuleStatus
      BY <1>1 DEF Op
    <3>2. Ask(u, "switch_rule", None, r, enable, was, NoRows)
      BY <2>1
    <3> HIDE DEF was
    <3>3. OthersTyped' /\ AskedFor(u, "switch_rule", None, r, enable, NoRows)
      BY <3>1, <3>2, AskTyped, NoRowsIs
    <3> QED
      BY <3>3 DEF AskedFor
  <2> QED
    BY <2>1, <2>2 DEF Asks
<1>4. ASSUME NEW r \in Rule, ConvertRuleRead(u, r)
      PROVE  OthersTyped' /\ \E q : Read(q) /\ Asks(u, q) /\ request' = [request EXCEPT ![u] = q]
  <2>1. /\ rules[r].status # "DISABLED"
        /\ Ask(u, "convert_rule", None, r, "on", rules[r].status, NoRows)
    BY <1>4 DEF ConvertRuleRead
  <2>2. /\ OthersTyped'
        /\ \E q : /\ Read(q) /\ request' = [request EXCEPT ![u] = q]
                  /\ q.op = "convert_rule" /\ q.rule = r /\ q.rows = NoRows
    BY <1>1, <2>1, AskTyped, NoRowsIs DEF Op, Switch, AskedFor
  <2> QED
    BY <2>1, <2>2 DEF Asks
<1>5. ASSUME ApplyRead(u)
      PROVE  OthersTyped' /\ \E q : Read(q) /\ Asks(u, q) /\ request' = [request EXCEPT ![u] = q]
  <2> DEFINE f == [c \in CheckPoint |-> IF c \in InUse THEN rows[c] ELSE None]
  <2>1. /\ rules[Left].law = "current"
        /\ Ask(u, "apply_law", None, Left, rules[Left].enable, rules[Left].status, f)
    BY <1>5 DEF ApplyRead
  <2>2. f \in Rows /\ Whole(f) /\ Alone(f)
    BY InUseIs
  <2>3. f = [c \in CheckPoint |-> IF c \in InUse THEN rows[c] ELSE None]
    OBVIOUS
  <2> HIDE DEF f
  <2>4. /\ OthersTyped'
        /\ \E q : /\ Read(q) /\ request' = [request EXCEPT ![u] = q]
                  /\ q.op = "apply_law" /\ q.cp = None /\ q.rule = Left
                  /\ q.enable = rules[Left].enable /\ q.rows = f
    <3> DEFINE enable == rules[Left].enable
               was == rules[Left].status
    <3>1. /\ "apply_law" \in Op /\ None \in CheckPoint \cup {None} /\ Left \in Rule
          /\ enable \in Switch /\ was \in LawRuleStatus
      BY <1>1 DEF Op, Rule
    <3>2. Ask(u, "apply_law", None, Left, enable, was, f)
      BY <2>1
    <3> HIDE DEF enable, was
    <3>3. OthersTyped' /\ AskedFor(u, "apply_law", None, Left, enable, f)
      BY <2>2, <3>1, <3>2, AskTyped
    <3> QED
      BY <3>3 DEF enable, AskedFor
  <2> QED
    BY <2>1, <2>3, <2>4 DEF Asks
<1>6. UNCHANGED <<rules, rows, queued, running, open, trouble>>
  BY DEF SwitchCheckPointRead, SwitchRuleRead, ConvertRuleRead, ApplyRead, Ask, tasks
<1> QED
  BY <1>2, <1>3, <1>4, <1>5, <1>6

\* Each request is kept, answered, or asked for.
RequestStep(asking) ==
    \A u \in User :
        \/ request'[u] = request[u]
        \/ request'[u] = None
        \/ asking /\ request'[u] # None /\ Read(request'[u]) /\ Asks(u, request'[u])

\* Every step.
LEMMA OthersStep ==
    ASSUME Typed, [Next]_vars
    PROVE  /\ OthersTyped'
           /\ request' \in [User -> Request \cup {None}]
           /\ RequestStep(UNCHANGED <<rules, rows, trouble>>)
<1>1. OthersTyped /\ request \in [User -> Request \cup {None}]
  BY DEF Typed
<1>2. CASE OthersTyped' /\ UNCHANGED request
  BY <1>1, <1>2 DEF RequestStep
<1>3. CASE UNCHANGED vars
  BY <1>1, <1>2, <1>3 DEF vars, tasks, users, OthersTyped
<1>4. ASSUME NEW u \in User,
             \/ \E c \in CheckPoint : SwitchCheckPointRead(u, c)
             \/ \E r \in Rule : SwitchRuleRead(u, r) \/ ConvertRuleRead(u, r)
             \/ ApplyRead(u)
      PROVE  /\ OthersTyped'
             /\ request' \in [User -> Request \cup {None}]
             /\ RequestStep(UNCHANGED <<rules, rows, trouble>>)
  <2>1. PICK q : Read(q) /\ Asks(u, q) /\ request' = [request EXCEPT ![u] = q]
    BY <1>4, AsksIs
  <2>2. OthersTyped' /\ UNCHANGED <<rules, rows, trouble>>
    BY <1>4, AsksIs
  <2>3. q \in Request /\ q # None
    BY <2>1, NoneIs DEF Read
  <2>4. \A w \in User : request'[w] = IF w = u THEN q ELSE request[w]
    BY <1>1, <2>1
  <2>5. request' \in [User -> Request \cup {None}]
    BY <1>1, <2>1, <2>3
  <2>6. RequestStep(UNCHANGED <<rules, rows, trouble>>)
    BY <2>1, <2>2, <2>3, <2>4 DEF RequestStep
  <2> QED
    BY <2>2, <2>5, <2>6
<1>5. ASSUME NEW u \in User, NEW c \in CheckPoint,
             UpdateCheckPoint(u, c) \/ StartCheckPointDel(u, c) \/ Reject(u, c) \/ Approve(u, c)
      PROVE  OthersTyped' /\ UNCHANGED request
  BY <1>1, <1>5, ReviewTyped
<1>6. ASSUME NEW u \in User, SwitchCheckPoint(u) \/ SwitchRule(u) \/ ConvertRule(u) \/ Apply(u)
      PROVE  /\ OthersTyped'
             /\ request' \in [User -> Request \cup {None}]
             /\ RequestStep(UNCHANGED <<rules, rows, trouble>>)
  <2>1. OthersTyped' /\ request' = [request EXCEPT ![u] = None]
    BY <1>1, <1>6, SwitchTyped
  <2> QED
    BY <1>1, <2>1 DEF RequestStep
<1>7. ASSUME NEW r \in Rule, OnRule(r) PROVE OthersTyped' /\ UNCHANGED request
  BY <1>1, <1>7, RuleTyped
<1>8. ASSUME DeleteOrder PROVE OthersTyped' /\ UNCHANGED request
  BY <1>1, <1>8, OrderTyped
<1> QED
  BY <1>2, <1>3, <1>4, <1>5, <1>6, <1>7, <1>8 DEF Next, OnCheckPoint

\* Every step keeps the types.
LEMMA TypedStep ==
    ASSUME Typed, [Next]_vars
    PROVE  Typed'
BY RowsTyped, OthersStep DEF Typed, RequestStep

\* They hold at first.
LEMMA TypedInit == Init => Typed
<1> SUFFICES ASSUME Init PROVE Typed
  OBVIOUS
<1>1. 0 \in Version
  BY CheckPointReviewAssumption DEF Version
<1>2. rules \in [Rule -> RuleRow]
  BY <1>1 DEF Init, Begun, RuleRow, LawRuleStatus, Switch
<1>3. ASSUME NEW n \in CheckPoint, rows = [NoRows EXCEPT ![n] = Converted(Left, 0, {})]
      PROVE  rows \in Rows /\ Alone(rows)
  <2>1. Converted(Left, 0, {}) \in Row /\ Converted(Left, 0, {}).parent = None
    BY <1>1, ConvertedIs DEF Rule, Converted
  <2>2. rows = [c \in CheckPoint |-> IF c = n THEN Converted(Left, 0, {}) ELSE None]
    BY <1>3 DEF NoRows
  <2> HIDE DEF Converted
  <2> QED
    BY <2>1, <2>2 DEF Rows, Alone
<1>4. rows \in Rows /\ Alone(rows)
  BY <1>3, NoRowsIs DEF Init
<1>5. OthersTyped
  BY <1>2 DEF Init, OthersTyped
<1> QED
  BY <1>4, <1>5 DEF Init, Typed

\* Types hold in every state.
LEMMA AlwaysTyped == Spec => []Typed
BY TypedInit, TypedStep, PTL DEF Spec

\* What the rows, the requests and the tasks hold is as declared: the copy of a
\* draft finds the copy of its parent, whichever rows have become drafts, lost
\* their parents or taken their places since they were read.
THEOREM TypeCorrect == Spec => []TypeOK
<1>1. Typed => TypeOK
  BY DEF Typed, OthersTyped, TypeOK
<1> QED
  BY <1>1, AlwaysTyped, PTL

\* However edits, deletion requests and reviews of check points and of their
\* drafts, conversions and replacements of the law meet, nothing has two drafts
\* and no draft is of another rule than its parent.
THEOREM DraftsAreOne == Spec => []OneDraft
<1>1. Typed => OneDraft
  <2> SUFFICES ASSUME Typed, NEW c \in CheckPoint, NEW d \in Drafts(c)
               PROVE  /\ Drafts(c) = {d}
                      /\ c \in Existing => rows[c].rule = rows[d].rule
    BY DEF OneDraft
  <2> QED
    BY NoneIs DEF Typed, Alone, Drafts, Existing
<1> QED
  BY <1>1, AlwaysTyped, PTL

-----------------------------------------------------------------------------
\* A content that is abandoned, or that another user than its writer approved.
Settled(row) == row.abandoned = "yes" \/ row.approver \notin {None, row.writer}

\* What waits for its first review shows its writer, only a settled content has
\* passed, and only a settled one is in force: the switch of a draft is no matter.
Sound(row) ==
    /\ row.review = "NOT_REVIEWED" => row.by = row.writer
    /\ row.review = "PASS" => Settled(row)
    /\ row.parent = None /\ row.enable = "on" => Settled(row)

SoundRows(f) == \A c \in CheckPoint : f[c] # None => Sound(f[c])

\* What may be switched on.
Safe(row) == row = None \/ row.parent # None \/ Settled(row)

\* A request that will switch a check point on, or copy check points.
SoundRequest(q) ==
    /\ SoundRows(q.rows)
    /\ q.op = "switch_check_point" /\ q.cp \in CheckPoint /\ q.enable = "on" => Safe(rows[q.cp])

AllSound ==
    /\ SoundRows(rows)
    /\ \A u \in User : request[u] # None => SoundRequest(request[u])

Eyes == "crossed" \notin trouble => AllSound

\* What a step makes of an id.
SoundStep(c) ==
    \/ rows'[c] = None
    \/ c \in Free /\ Sound(rows'[c])
    \/ rows[c] # None /\ Sound(rows'[c]) /\ (Safe(rows[c]) => Safe(rows'[c]))

\* A row that stays.
LEMMA SameSound ==
    ASSUME AllSound, NEW c \in CheckPoint, rows'[c] = rows[c]
    PROVE  SoundStep(c)
BY DEF AllSound, SoundRows, SoundStep

\* A request that meets nobody.
LEMMA NotCrossed ==
    ASSUME NEW table, Crossed(table), "crossed" \notin trouble'
    PROVE  table = rows
BY DEF Crossed, Trouble, When

\* An edit changes drafts only.
LEMMA UpdateSound ==
    ASSUME Typed, AllSound, "crossed" \notin trouble',
           NEW u \in User, NEW c \in CheckPoint, UpdateCheckPoint(u, c), NEW x \in CheckPoint
    PROVE  SoundStep(x)
<1>1. c \in Existing /\ c \in CheckPoint /\ c # None
  BY NoneIs DEF UpdateCheckPoint
<1>2. CASE \E d \in Drafts(c) : \E table \in Met(c, d) :
              rows' = [table EXCEPT ![d] = Edited(@, u)] /\ Crossed(table)
  <2>1. PICK d \in Drafts(c) : \E f \in Met(c, d) :
               rows' = [f EXCEPT ![d] = Edited(f[d], u)] /\ Crossed(f)
    BY <1>2
  <2>2. rows' = [rows EXCEPT ![d] = Edited(rows[d], u)]
    BY <2>1, NotCrossed
  <2>3. d \in CheckPoint /\ rows[d] # None /\ rows[d].parent # None /\ rows[d] \in Row
    BY <1>1, RowIs DEF Drafts, Typed
  <2>4. /\ Edited(rows[d], u).parent # None /\ Edited(rows[d], u).review = "NOT_REVIEWED"
        /\ Edited(rows[d], u).by = Edited(rows[d], u).writer
    BY <2>3, EditedIs
  <2>5. \A y \in CheckPoint : rows'[y] = IF y = d THEN Edited(rows[d], u) ELSE rows[y]
    BY <2>2 DEF Typed, Rows
  <2>6. x = d => rows[x] # None /\ Sound(rows'[x]) /\ Safe(rows'[x])
    BY <2>3, <2>4, <2>5 DEF Sound, Safe
  <2> QED
    BY <2>5, <2>6, SameSound DEF SoundStep
<1>3. CASE \E d \in Free : rows' = [rows EXCEPT ![d] = Edited(Draft(c, u, "NOT_REVIEWED"), u)]
  <2>1. PICK d \in Free : rows' = [rows EXCEPT ![d] = Edited(Draft(c, u, "NOT_REVIEWED"), u)]
    BY <1>3
  <2> DEFINE draft == Draft(c, u, "NOT_REVIEWED")
  <2>2. draft \in Row /\ draft.parent = c
    BY <1>1, DraftIs
  <2>3. \A y \in CheckPoint : rows'[y] = IF y = d THEN Edited(draft, u) ELSE rows[y]
    BY <2>1 DEF Typed, Rows
  <2> HIDE DEF draft
  <2>4. /\ Edited(draft, u).parent # None /\ Edited(draft, u).review = "NOT_REVIEWED"
        /\ Edited(draft, u).by = Edited(draft, u).writer
    BY <1>1, <2>2, EditedIs
  <2>5. x = d => x \in Free /\ Sound(rows'[x])
    BY <2>3, <2>4 DEF Sound
  <2> QED
    BY <2>3, <2>5, SameSound DEF SoundStep
<1> QED
  BY <1>2, <1>3 DEF UpdateCheckPoint

\* A deletion request leaves contents and switches as they are.
LEMMA StartDelSound ==
    ASSUME Typed, AllSound, "crossed" \notin trouble',
           NEW u \in User, NEW c \in CheckPoint, StartCheckPointDel(u, c), NEW x \in CheckPoint
    PROVE  SoundStep(x)
<1>1. c \in Existing /\ c \in CheckPoint /\ c # None
  BY NoneIs DEF StartCheckPointDel
<1>2. PICK i \in CheckPoint :
         /\ Pending(c, i)
         /\ \/ \E d \in Free : rows' = [rows EXCEPT ![d] = Draft(c, u, "DEL_NOT_REVIEWED")]
            \/ \E table \in Met(c, i) :
                  /\ rows' = [table EXCEPT ![i].review = "DEL_NOT_REVIEWED", ![i].by = u]
                  /\ Crossed(table)
  BY DEF StartCheckPointDel
<1>3. CASE \E d \in Free : rows' = [rows EXCEPT ![d] = Draft(c, u, "DEL_NOT_REVIEWED")]
  <2>1. PICK d \in Free : rows' = [rows EXCEPT ![d] = Draft(c, u, "DEL_NOT_REVIEWED")]
    BY <1>3
  <2> DEFINE draft == Draft(c, u, "DEL_NOT_REVIEWED")
  <2>2. draft \in Row /\ draft.parent = c /\ draft.review = "DEL_NOT_REVIEWED"
    BY <1>1, DraftIs
  <2>3. \A y \in CheckPoint : rows'[y] = IF y = d THEN draft ELSE rows[y]
    BY <2>1 DEF Typed, Rows
  <2> HIDE DEF draft
  <2>4. x = d => x \in Free /\ Sound(rows'[x])
    BY <1>1, <2>2, <2>3 DEF Sound
  <2> QED
    BY <2>3, <2>4, SameSound DEF SoundStep
<1>4. CASE \E table \in Met(c, i) :
              /\ rows' = [table EXCEPT ![i].review = "DEL_NOT_REVIEWED", ![i].by = u]
              /\ Crossed(table)
  <2>1. rows' = [rows EXCEPT ![i].review = "DEL_NOT_REVIEWED", ![i].by = u]
    BY <1>4, NotCrossed
  <2>2. rows[i] # None /\ rows[i] \in Row
    BY <1>1, <1>2, PendingIs
  <2> DEFINE row == [rows[i] EXCEPT !.review = "DEL_NOT_REVIEWED", !.by = u]
  <2>3. \A y \in CheckPoint : rows'[y] = IF y = i THEN row ELSE rows[y]
    BY <2>1, <2>2 DEF Typed, Rows
  <2>4. /\ row.review = "DEL_NOT_REVIEWED" /\ row.parent = rows[i].parent
        /\ row.enable = rows[i].enable /\ row.abandoned = rows[i].abandoned
        /\ row.approver = rows[i].approver /\ row.writer = rows[i].writer
    BY <2>2 DEF Row
  <2> HIDE DEF row
  <2>5. Sound(rows[i])
    BY <2>2 DEF AllSound, SoundRows
  <2>6. Sound(row) /\ (Safe(rows[i]) => Safe(row))
    BY <2>2, <2>4, <2>5 DEF Sound, Safe, Settled
  <2> QED
    BY <2>2, <2>3, <2>6, SameSound DEF SoundStep
<1> QED
  BY <1>2, <1>3, <1>4

\* So does a rejection.
LEMMA RejectSound ==
    ASSUME Typed, AllSound, "crossed" \notin trouble',
           NEW u \in User, NEW c \in CheckPoint, Reject(u, c), NEW x \in CheckPoint
    PROVE  SoundStep(x)
<1>1. PICK i \in CheckPoint :
         /\ Reviewable(u, c, i)
         /\ \E table \in Met(c, i) : rows' = [table EXCEPT ![i].review = "NOT_PASS"] /\ Crossed(table)
  BY DEF Reject
<1>2. rows' = [rows EXCEPT ![i].review = "NOT_PASS"]
  BY <1>1, NotCrossed
<1>3. rows[i] # None /\ rows[i] \in Row
  BY <1>1, PendingIs DEF Reject, Reviewable
<1> DEFINE row == [rows[i] EXCEPT !.review = "NOT_PASS"]
<1>4. \A y \in CheckPoint : rows'[y] = IF y = i THEN row ELSE rows[y]
  BY <1>2, <1>3 DEF Typed, Rows
<1>5. /\ row.review = "NOT_PASS" /\ row.parent = rows[i].parent
      /\ row.enable = rows[i].enable /\ row.abandoned = rows[i].abandoned
      /\ row.approver = rows[i].approver /\ row.writer = rows[i].writer
  BY <1>3 DEF Row
<1> HIDE DEF row
<1>6. Sound(rows[i])
  BY <1>3 DEF AllSound, SoundRows
<1>7. Sound(row) /\ (Safe(rows[i]) => Safe(row))
  BY <1>3, <1>5, <1>6 DEF Sound, Safe, Settled
<1> QED
  BY <1>3, <1>4, <1>7, SameSound DEF SoundStep

\* Whoever approves a content has not written it.
LEMMA ApproveSound ==
    ASSUME Typed, AllSound, "crossed" \notin trouble',
           NEW u \in User, NEW c \in CheckPoint, Approve(u, c), NEW x \in CheckPoint
    PROVE  SoundStep(x)
<1>1. PICK i \in CheckPoint :
         /\ Reviewable(u, c, i)
         /\ \E table \in Met(c, i) : rows' = Approval(u, c, i, table) /\ Crossed(table)
  BY DEF Approve
<1>2. rows' = Approval(u, c, i, rows)
  BY <1>1, NotCrossed
<1>3. rows[c] # None /\ rows[i] # None /\ rows[i] \in Row
  BY <1>1, PendingIs DEF Approve, Reviewable
<1> DEFINE row == Approved(u, c, i, rows[i])
<1>4. \A y \in CheckPoint : rows'[y] = IF y = c THEN row ELSE IF y = i THEN None ELSE rows[y]
  BY <1>2 DEF Approval
<1>5. row \in Row /\ row.review = "PASS"
  BY <1>3, ApprovedIs DEF Descends
<1>6. Settled(row)
  <2>1. CASE rows[i].review = "NOT_REVIEWED"
    <3>1. rows[i].by = rows[i].writer /\ rows[i].by # u
      BY <1>1, <1>3, <2>1 DEF AllSound, SoundRows, Sound, Reviewable
    <3>2. row.approver = u /\ row.writer = rows[i].writer
      BY <1>3, <2>1 DEF Approved, Row
    <3> HIDE DEF row
    <3> QED
      BY <3>1, <3>2, NoneIs DEF Settled
  <2>2. CASE rows[i].review # "NOT_REVIEWED"
    <3>1. row.abandoned = "yes"
      BY <1>3, <2>2 DEF Approved, Row
    <3> HIDE DEF row
    <3> QED
      BY <3>1 DEF Settled
  <2> QED
    BY <2>1, <2>2
<1> HIDE DEF row
<1>7. Sound(row) /\ Safe(row)
  BY <1>5, <1>6 DEF Sound, Safe
<1> QED
  BY <1>3, <1>4, <1>7, SameSound DEF SoundStep

\* What is switched on is a draft or settled.
LEMMA SwitchSound ==
    ASSUME Typed, AllSound, NEW u \in User, SwitchCheckPoint(u) \/ SwitchRule(u),
           NEW x \in CheckPoint
    PROVE  SoundStep(x)
<1> DEFINE enable == request[u].enable
<1>1. \/ rows'[x] = rows[x]
      \/ /\ rows[x] # None /\ rows'[x] = [rows[x] EXCEPT !.enable = enable]
         /\ enable = "on" => rows[x].parent # None \/ Settled(rows[x])
  <2>1. CASE SwitchCheckPoint(u)
    <3>1. /\ request[u] # None /\ request[u].op = "switch_check_point"
          /\ \/ rows'[x] = rows[x]
             \/ /\ x = request[u].cp /\ rows[x] # None
                /\ rows'[x] = [rows[x] EXCEPT !.enable = enable]
      BY <2>1 DEF SwitchCheckPoint, Asked
    <3>2. x = request[u].cp /\ enable = "on" => Safe(rows[x])
      BY <3>1 DEF AllSound, SoundRequest
    <3> QED
      BY <3>1, <3>2 DEF Safe
  <2>2. CASE SwitchRule(u)
    <3>1. \/ rows'[x] = rows[x]
          \/ /\ rows[x] # None /\ rows'[x] = [rows[x] EXCEPT !.enable = enable]
             /\ enable = "on" => rows[x].review = "PASS"
      BY <2>2 DEF SwitchRule, Parents
    <3> QED
      BY <3>1 DEF AllSound, SoundRows, Sound
  <2> QED
    BY <2>1, <2>2
<1>2. ASSUME rows[x] # None, rows'[x] = [rows[x] EXCEPT !.enable = enable],
             enable = "on" => rows[x].parent # None \/ Settled(rows[x])
      PROVE  SoundStep(x)
  <2>1. rows[x] \in Row /\ Sound(rows[x])
    BY <1>2, RowIs DEF Typed, AllSound, SoundRows
  <2>2. /\ rows'[x].enable = enable /\ rows'[x].parent = rows[x].parent
        /\ rows'[x].review = rows[x].review /\ rows'[x].by = rows[x].by
        /\ rows'[x].abandoned = rows[x].abandoned
        /\ rows'[x].approver = rows[x].approver /\ rows'[x].writer = rows[x].writer
    BY <1>2, <2>1 DEF Row
  <2>3. Sound(rows'[x]) /\ (Safe(rows[x]) => Safe(rows'[x]))
    BY <1>2, <2>1, <2>2 DEF Sound, Safe, Settled
  <2> QED
    BY <1>2, <2>3 DEF SoundStep
<1> QED
  BY <1>1, <1>2, SameSound

\* A row that is kept, and perhaps abandoned, stays sound.
LEMMA KeptSound ==
    ASSUME NEW old, NEW new, Keeps(new, old), new.abandoned \in {"yes", old.abandoned}
    PROVE  /\ Sound(old) => Sound(new)
           /\ old # None => (Safe(old) => Safe(new))
BY DEF Keeps, Sound, Safe, Settled

\* A conversion adds what has not been reviewed.
LEMMA ConvertSound ==
    ASSUME Typed, AllSound, NEW r \in Rule, NEW v \in Version,
           ConvertCommit(r, v) \/ ConvertInsert(r, v), NEW x \in CheckPoint
    PROVE  SoundStep(x)
<1>1. PICK begun \in SUBSET Version : \E missed : Convert(r, v, missed, begun)
  BY Commits
<1>2. PICK missed : Convert(r, v, missed, begun)
  BY <1>1
<1>3. PICK n \in Free : ConvertedTo(r, v, n, missed)
  BY <1>2, ConvertIs
<1>4. CASE x = n
  <2>1. PICK b \in SUBSET Version : rows'[n] = Converted(r, v, b)
    BY <1>3 DEF ConvertedTo
  <2>2. Sound(rows'[n])
    BY <2>1 DEF Converted, Sound
  <2> QED
    BY <1>4, <2>2 DEF SoundStep
<1>5. CASE x # n
  <2>1. CASE rows[x] = None
    BY <1>3, <1>5, <2>1 DEF ConvertedTo, SoundStep
  <2>2. CASE rows[x] # None
    <3>1. Keeps(rows'[x], rows[x]) /\ rows'[x].abandoned \in {"yes", rows[x].abandoned}
      BY <1>3, <1>5, <2>2 DEF ConvertedTo
    <3> QED
      BY <2>2, <3>1, KeptSound DEF AllSound, SoundRows, SoundStep
  <2> QED
    BY <2>1, <2>2
<1> QED
  BY <1>4, <1>5

\* A law that is applied copies what was sound when it was read.
LEMMA ApplySound ==
    ASSUME Typed, AllSound, NEW u \in User, Apply(u), NEW x \in CheckPoint
    PROVE  SoundStep(x)
<1> DEFINE q == request[u]
<1>1. PICK copy : AppliedTo(q, copy)
  BY ApplyIs
<1>2. q # None /\ SoundRows(q.rows)
  BY DEF Apply, Asked, AllSound, SoundRequest
<1>3. \A c \in Taken(q) : /\ q.rows[c] \in Row
                          /\ q.rows[c].parent # None => q.rows[c].parent \in Taken(q)
  BY <1>1, AppliedIs
<1>4. copy \in [Taken(q) -> CheckPoint]
  BY <1>1 DEF AppliedTo
<1> HIDE DEF q
<1>5. CASE \E c \in Taken(q) : copy[c] = x
  <2>1. PICK c \in Taken(q) : copy[c] = x
    BY <1>5
  <2>2. x \in Free /\ rows'[x] = Copy(q.rows[c], copy)
    BY <1>1, <2>1 DEF AppliedTo
  <2>3. Sound(q.rows[c])
    BY <1>2 DEF SoundRows, Taken
  <2>4. Copy(q.rows[c], copy).parent = None => q.rows[c].parent = None
    BY <1>3, <1>4, CopyIs, NoneIs
  <2>5. Sound(Copy(q.rows[c], copy))
    BY <1>3, <1>4, <2>3, <2>4, CopyIs DEF Sound, Settled
  <2> QED
    BY <2>2, <2>5 DEF SoundStep
<1>6. CASE \A c \in Taken(q) : copy[c] # x
  <2>1. CASE rows[x] = None
    BY <1>1, <1>6, <2>1 DEF AppliedTo, SoundStep
  <2>2. CASE rows[x] # None
    <3>1. Keeps(rows'[x], rows[x]) /\ rows'[x].abandoned \in {"yes", rows[x].abandoned}
      BY <1>1, <1>6, <2>2 DEF AppliedTo
    <3> QED
      BY <2>2, <3>1, KeptSound DEF AllSound, SoundRows, SoundStep
  <2> QED
    BY <2>1, <2>2
<1> QED
  BY <1>5, <1>6

\* So does a deletion.
LEMMA AbandonSound ==
    ASSUME Typed, AllSound, NEW S \in SUBSET Existing, rows' = Abandon(S), NEW x \in CheckPoint
    PROVE  SoundStep(x)
<1>1. CASE rows[x] = None
  BY <1>1, AbandonIs DEF SoundStep
<1>2. CASE rows[x] # None
  <2>1. Keeps(rows'[x], rows[x]) /\ rows'[x].abandoned \in {"yes", rows[x].abandoned}
    BY <1>2, AbandonIs
  <2> QED
    BY <1>2, <2>1, KeptSound DEF AllSound, SoundRows, SoundStep
<1> QED
  BY <1>1, <1>2

\* Every step keeps contents sound.
LEMMA RowsSound ==
    ASSUME Typed, AllSound, "crossed" \notin trouble', [Next]_vars, NEW x \in CheckPoint
    PROVE  SoundStep(x)
<1>1. UNCHANGED rows => SoundStep(x)
  BY SameSound
<1>2. ASSUME NEW u \in User, NEW c \in CheckPoint,
             UpdateCheckPoint(u, c) \/ StartCheckPointDel(u, c) \/ Reject(u, c) \/ Approve(u, c)
      PROVE  SoundStep(x)
  BY <1>2, UpdateSound, StartDelSound, RejectSound, ApproveSound
<1>3. ASSUME NEW u \in User, SwitchCheckPoint(u) \/ SwitchRule(u) \/ Apply(u)
      PROVE  SoundStep(x)
  BY <1>3, SwitchSound, ApplySound
<1>4. ASSUME NEW r \in Rule, NEW v \in Version, ConvertCommit(r, v) \/ ConvertInsert(r, v)
      PROVE  SoundStep(x)
  BY <1>4, ConvertSound
<1>5. ASSUME NEW r \in Rule, DeleteRule(r) PROVE SoundStep(x)
  <2>1. Of(r) \in SUBSET Existing /\ rows' = Abandon(Of(r))
    BY <1>5 DEF DeleteRule, Of, Existing
  <2> QED
    BY <2>1, AbandonSound
<1>6. ASSUME DeleteOrder PROVE SoundStep(x)
  <2>1. Of(Left) \cup Of(Right) \in SUBSET Existing /\ rows' = Abandon(Of(Left) \cup Of(Right))
    BY <1>6 DEF DeleteOrder, Of, Existing
  <2> QED
    BY <2>1, AbandonSound
<1>7. UNCHANGED vars => UNCHANGED rows
  BY DEF vars
<1> QED
  BY <1>1, <1>2, <1>3, <1>4, <1>5, <1>6, <1>7, RowSteps

\* What has gone wrong is not forgotten.
LEMMA TroubleStays ==
    ASSUME Typed, [Next]_vars
    PROVE  trouble \subseteq trouble'
<1>1. trouble \in SUBSET Fault
  BY DEF Typed, OthersTyped
<1>2. UNCHANGED vars => UNCHANGED trouble
  BY DEF vars
<1>3. ASSUME NEW u \in User, NEW c \in CheckPoint, OnCheckPoint(u, c) PROVE trouble \subseteq trouble'
  BY <1>1, <1>3, ReviewIs DEF OnCheckPoint, SwitchCheckPointRead, Ask
<1>4. ASSUME NEW u \in User,
             \/ \E r \in Rule : SwitchRuleRead(u, r) \/ ConvertRuleRead(u, r)
             \/ ApplyRead(u) \/ SwitchCheckPoint(u) \/ ConvertRule(u)
      PROVE  UNCHANGED trouble
  BY <1>4 DEF SwitchRuleRead, ConvertRuleRead, ApplyRead, Ask, SwitchCheckPoint, ConvertRule
<1>5. ASSUME NEW u \in User, SwitchRule(u) \/ Apply(u) PROVE trouble \subseteq trouble'
  BY <1>1, <1>5, TroubleIs DEF SwitchRule, Apply
<1>6. ASSUME NEW r \in Rule, OnRule(r) PROVE trouble \subseteq trouble'
  <2>1. ASSUME NEW v \in Version,
               \/ ConvertCommit(r, v) \/ ConvertUpdate(r, v) \/ ConvertInsert(r, v)
               \/ ConvertFails(r, v) \/ ConvertRaises(r, v)
        PROVE  trouble \subseteq trouble'
    BY <1>1, <2>1, TroubleIs
       DEF ConvertCommit, ConvertUpdate, ConvertInsert, ConvertFails, ConvertRaises, Convert, Fails
  <2>2. ConvertRules(r) \/ EditRule(r) \/ DeleteRule(r) \/ ConvertStart(r) => UNCHANGED trouble
    BY DEF ConvertRules, EditRule, DeleteRule, ConvertStart
  <2>3. Crash(r) => trouble \subseteq trouble'
    BY <1>1, TroubleIs DEF Crash, Fails
  <2> QED
    BY <1>6, <2>1, <2>2, <2>3 DEF OnRule
<1>7. DeleteOrder => UNCHANGED trouble
  BY DEF DeleteOrder
<1> QED
  BY <1>2, <1>3, <1>4, <1>5, <1>6, <1>7 DEF Next

\* Every step keeps requests sound.
LEMMA EyesStep ==
    ASSUME Typed, Eyes, [Next]_vars
    PROVE  Eyes'
<1> SUFFICES ASSUME "crossed" \notin trouble' PROVE AllSound'
  BY DEF Eyes
<1>1. AllSound
  BY TroubleStays DEF Eyes
<1>2. \A c \in CheckPoint : SoundStep(c)
  BY <1>1, RowsSound
<1>3. SoundRows(rows')
  BY <1>2 DEF SoundRows, SoundStep
<1>4. RequestStep(UNCHANGED <<rules, rows, trouble>>)
  BY OthersStep
<1>5. ASSUME NEW u \in User, request'[u] # None PROVE SoundRequest(request[u])'
  <2>1. CASE request'[u] = request[u]
    <3>1. request[u] # None /\ SoundRequest(request[u])
      BY <1>1, <1>5, <2>1 DEF AllSound
    <3>2. request[u].cp \in CheckPoint => request[u].cp \notin Free
      BY <3>1 DEF Free
    <3>3. request[u].cp \in CheckPoint /\ Safe(rows[request[u].cp]) => Safe(rows'[request[u].cp])
      BY <1>2, <3>2 DEF SoundStep, Safe
    <3> QED
      BY <2>1, <3>1, <3>3 DEF SoundRequest
  <2>2. CASE /\ UNCHANGED <<rules, rows, trouble>>
             /\ Read(request'[u]) /\ Asks(u, request'[u])
    <3> DEFINE q == request'[u]
    <3>1. q.op = "switch_check_point" /\ q.enable = "on" => Settled(rows[q.cp])
      BY <1>1, <2>2 DEF Asks, Switchable, AllSound, SoundRows, Sound, Existing
    <3>2. CASE q.op = "switch_check_point"
      <4>1. q.rows = NoRows
        BY <2>2, <3>2 DEF Asks
      <4> QED
        BY <2>2, <3>1, <4>1 DEF SoundRequest, Safe, SoundRows, NoRows
    <3>3. CASE q.op # "switch_check_point"
      <4>1. q.rows = NoRows \/ \A c \in CheckPoint : q.rows[c] # None => q.rows[c] = rows[c]
        BY <2>2, <3>3 DEF Asks
      <4>2. SoundRows(q.rows)
        BY <1>1, <4>1 DEF AllSound, SoundRows, NoRows
      <4> QED
        BY <2>2, <3>3, <4>2 DEF SoundRequest
    <3> QED
      BY <3>2, <3>3
  <2> QED
    BY <1>4, <1>5, <2>1, <2>2 DEF RequestStep
<1> QED
  BY <1>3, <1>5 DEF AllSound

\* What is in place at first has been reviewed by nobody.
LEMMA EyesInit == Init => Eyes
<1> SUFFICES ASSUME Init PROVE AllSound
  BY DEF Eyes
<1>1. \A u \in User : request[u] = None
  BY DEF Init
<1>2. SoundRows(rows)
  <2>1. Sound(Converted(Left, 0, {}))
    BY DEF Converted, Sound
  <2>2. \A c \in CheckPoint : rows[c] = None \/ rows[c] = Converted(Left, 0, {})
    BY DEF Init, NoRows
  <2> QED
    BY <2>1, <2>2 DEF SoundRows
<1> QED
  BY <1>1, <1>2 DEF AllSound

\* Four eyes: no check point is in force that its last writer alone has seen,
\* whether it was edited and reviewed by its own id or as a draft of a draft, unless
\* a draft was approved by its id during a request on its parent.
THEOREM InForceIsApproved == Spec => []InForceApproved
<1>1. Eyes => InForceApproved
  <2> SUFFICES ASSUME Eyes, "crossed" \notin trouble, NEW c \in CheckPoint, Active(c)
               PROVE  rows[c].approver \notin {None, rows[c].writer}
    BY DEF InForceApproved
  <2>1. /\ Sound(rows[c]) /\ rows[c].parent = None
        /\ rows[c].enable = "on" /\ rows[c].abandoned = "no"
    BY DEF Eyes, AllSound, SoundRows, Active, Parents
  <2> QED
    BY <2>1 DEF Sound, Settled
<1>2. Spec => []Eyes
  BY AlwaysTyped, EyesInit, EyesStep, PTL DEF Spec
<1> QED
  BY <1>1, <1>2, PTL

-----------------------------------------------------------------------------
\* A rule that shows as waiting or being converted, and one that is.
Shown(r) == rules[r].law # "deleted" /\ rules[r].status \in Converting
UnderWay(r) == queued[r] > 0 \/ open[r] # {} \/ \E v \in Version : running[r][v] > 0

\* What goes wrong is remembered.
LEMMA Remembered ==
    ASSUME NEW kinds, Trouble(kinds)
    PROVE  trouble \subseteq trouble' /\ kinds \subseteq trouble'
BY DEF Trouble

\* Where nothing new shows and nothing under way ends, nothing changes.
LEMMA NothingShown ==
    ASSUME ConversionUnderWay, trouble \subseteq trouble',
           \A r \in Rule : Shown(r)' => (UnderWay(r)' \/ (Shown(r) /\ (UnderWay(r) => UnderWay(r)')))
    PROVE  ConversionUnderWay'
BY DEF ConversionUnderWay, Shown, UnderWay

\* Tasks that stay are still under way.
LEMMA SameTasks ==
    ASSUME NEW r, queued'[r] = queued[r], running'[r] = running[r], open'[r] = open[r]
    PROVE  UnderWay(r)' <=> UnderWay(r)
BY DEF UnderWay

\* What is queued is under way.
LEMMA QueueIs ==
    ASSUME OthersTyped, NEW r \in Rule, Queue(r)
    PROVE  /\ UnderWay(r)'
           /\ \A q \in Rule : q # r =>
                queued'[q] = queued[q] /\ running'[q] = running[q] /\ open'[q] = open[q]
<1>1. queued[r] \in Nat /\ queued'[r] = queued[r] + 1
  BY DEF OthersTyped, Queue
<1>2. UnderWay(r)'
  BY <1>1 DEF UnderWay
<1> QED
  BY <1>2 DEF OthersTyped, Queue

\* A rule that waits for its conversion.
LEMMA WaitUnderWay ==
    ASSUME OthersTyped, ConversionUnderWay, NEW r \in Rule, Queue(r), UNCHANGED trouble,
           \A q \in Rule : q # r => rules'[q] = rules[q]
    PROVE  ConversionUnderWay'
<1>1. \A q \in Rule : q # r => (UnderWay(q)' <=> UnderWay(q)) /\ (Shown(q)' <=> Shown(q))
  BY QueueIs, SameTasks DEF Shown
<1> QED
  BY <1>1, QueueIs, NothingShown

\* A switch that finds the status it has read, and one that does not.
LEMMA SwitchUnderWay ==
    ASSUME OthersTyped, request \in [User -> Request \cup {None}], ConversionUnderWay,
           NEW u \in User, SwitchRule(u)
    PROVE  ConversionUnderWay'
<1> DEFINE r == request[u].rule
           s == Switched(request[u].enable, request[u].was)
<1>1. request[u] \in Request /\ r \in Rule
  BY DEF SwitchRule, Asked, Request
<1>2. CASE rules[r].status # request[u].was
  <2>1. "stale" \in trouble'
    BY <1>2, Remembered DEF SwitchRule, When
  <2> QED
    BY <2>1 DEF ConversionUnderWay
<1>3. CASE rules[r].status = request[u].was
  <2>1. trouble \subseteq trouble' /\ UNCHANGED <<queued, running, open>>
    BY Remembered DEF SwitchRule, tasks
  <2>2. rules[r] \in RuleRow /\ rules' = [rules EXCEPT ![r].enable = request[u].enable, ![r].status = s]
    BY <1>1 DEF SwitchRule, OthersTyped
  <2>3. \A q \in Rule : q # r => rules'[q] = rules[q]
    BY <2>2 DEF OthersTyped
  <2>4. rules'[r].law = rules[r].law /\ rules'[r].status = s
    BY <1>1, <2>2 DEF OthersTyped, RuleRow
  <2>5. s \in Converting => rules[r].status \in Converting
    BY <1>3 DEF Switched, Converting
  <2>6. \A q \in Rule : Shown(q)' => Shown(q)
    BY <2>3, <2>4, <2>5 DEF Shown
  <2> QED
    BY <2>1, <2>6, NothingShown, SameTasks
<1> QED
  BY <1>2, <1>3

\* A law that is applied carries the status over.
LEMMA ApplyUnderWay ==
    ASSUME OthersTyped, ConversionUnderWay, NEW u \in User, Apply(u)
    PROVE  ConversionUnderWay'
<1>1. Left \in Rule /\ Right \in Rule /\ rules[Left] \in RuleRow /\ rules[Right] \in RuleRow
  BY DEF OthersTyped, Rule
<1>2. CASE request[u].was \in Converting
  <2>1. "carried" \in trouble'
    BY <1>2, Remembered DEF Apply, When
  <2> QED
    BY <2>1 DEF ConversionUnderWay
<1>3. CASE request[u].was \notin Converting
  <2>1. trouble \subseteq trouble' /\ UNCHANGED <<queued, running, open>>
    BY Remembered DEF Apply, tasks
  <2>2. rules'[Left].law = "deleted" /\ rules'[Right].status = request[u].was
    BY <1>1, CheckPointReviewAssumption DEF Apply, OthersTyped, RuleRow
  <2>3. \A q \in Rule : ~Shown(q)'
    BY <1>3, <2>2 DEF Shown, Rule
  <2> QED
    BY <2>1, <2>3, NothingShown
<1> QED
  BY <1>2, <1>3

\* A task that begins is under way where it was queued.
LEMMA StartUnderWay ==
    ASSUME OthersTyped, ConversionUnderWay, NEW r \in Rule, ConvertStart(r)
    PROVE  ConversionUnderWay'
<1>1. rules[r] \in RuleRow /\ queued[r] \in Nat /\ running[r] \in [Version -> Nat]
  BY DEF OthersTyped
<1>2. \A q \in Rule : q # r => /\ queued'[q] = queued[q] /\ running'[q] = running[q]
                               /\ open'[q] = open[q]
                               /\ rules'[q] = rules[q]
  BY DEF ConvertStart, OthersTyped
<1>3. CASE rules[r].law = "deleted"
  <2>1. ~Shown(r)'
    BY <1>3 DEF ConvertStart, Shown
  <2> QED
    BY <1>2, <2>1, SameTasks, NothingShown DEF ConvertStart, Shown
<1>4. CASE rules[r].law # "deleted"
  <2> DEFINE v == rules[r].version
  <2>1. v \in Version /\ running[r][v] \in Nat
    BY <1>1 DEF RuleRow
  <2>2. running'[r][v] = running[r][v] + 1
    BY <1>1, <1>4, <2>1 DEF ConvertStart, OthersTyped
  <2>3. UnderWay(r)'
    BY <2>1, <2>2 DEF UnderWay
  <2> QED
    BY <1>2, <2>3, SameTasks, NothingShown DEF ConvertStart, Shown
<1> QED
  BY <1>3, <1>4

\* A task that waits for another one's locks is still under way.
LEMMA UpdateUnderWay ==
    ASSUME OthersTyped, ConversionUnderWay, NEW r \in Rule, NEW v \in Version, ConvertUpdate(r, v)
    PROVE  ConversionUnderWay'
<1>1. open'[r] # {} /\ UNCHANGED <<rules, trouble>>
  BY DEF ConvertUpdate, OthersTyped
<1>2. \A q \in Rule : q # r => /\ queued'[q] = queued[q] /\ running'[q] = running[q]
                               /\ open'[q] = open[q]
  BY DEF ConvertUpdate, Ends, OthersTyped
<1>3. UnderWay(r)'
  BY <1>1 DEF UnderWay
<1> QED
  BY <1>1, <1>2, <1>3, SameTasks, NothingShown DEF Shown

\* A task that ends says so.
LEMMA EndUnderWay ==
    ASSUME OthersTyped, ConversionUnderWay, NEW r \in Rule, NEW v \in Version,
           ConvertCommit(r, v) \/ ConvertInsert(r, v) \/ ConvertFails(r, v)
    PROVE  ConversionUnderWay'
<1>1. rules[r] \in RuleRow
  BY DEF OthersTyped
<1>2. \A q \in Rule : q # r => /\ queued'[q] = queued[q] /\ running'[q] = running[q]
                               /\ open'[q] = open[q]
                               /\ rules'[q] = rules[q]
  BY DEF ConvertCommit, ConvertInsert, Convert, ConvertFails, Ends, OthersTyped
<1>3. rules'[r].status \in {"CONVERTED", "CONVERT_FAILED"}
  BY <1>1 DEF ConvertCommit, ConvertInsert, Convert, ConvertFails, OthersTyped, RuleRow
<1>4. ~Shown(r)'
  BY <1>3 DEF Shown, Converting
<1>5. trouble \subseteq trouble'
  BY Remembered DEF ConvertCommit, ConvertInsert, Convert, ConvertFails, Fails
<1> QED
  BY <1>2, <1>4, <1>5, SameTasks, NothingShown DEF Shown

\* A rule that shows as waiting or being converted is waiting or being converted,
\* unless a worker died, a conversion raised before its handler, a switch wrote the
\* status it had read, or the status was carried over to the next law's rule.
THEOREM ConversionsUnderWay == Spec => []ConversionUnderWay
<1>1. Init => ConversionUnderWay
  BY DEF Init, Begun, ConversionUnderWay, Converting
<1>2. ASSUME Typed, ConversionUnderWay, [Next]_vars
      PROVE  ConversionUnderWay'
  <2>1. OthersTyped /\ request \in [User -> Request \cup {None}]
    BY <1>2 DEF Typed
  <2>2. CASE UNCHANGED <<rules, tasks, trouble>>
    BY <1>2, <2>2 DEF ConversionUnderWay, tasks
  <2>3. CASE UNCHANGED vars
    BY <2>2, <2>3 DEF vars
  <2>4. ASSUME NEW u \in User, NEW c \in CheckPoint, OnCheckPoint(u, c)
        PROVE  ConversionUnderWay'
    <3>1. CASE SwitchCheckPointRead(u, c)
      BY <1>2, <2>2, <3>1 DEF SwitchCheckPointRead, Ask
    <3>2. CASE ~SwitchCheckPointRead(u, c)
      <4>1. UNCHANGED <<rules, queued, running, open>> /\ trouble \subseteq trouble'
        BY <2>1, <2>4, <3>2, ReviewIs DEF OnCheckPoint, OthersTyped
      <4> QED
        BY <1>2, <4>1, SameTasks, NothingShown DEF Shown
    <3> QED
      BY <3>1, <3>2
  <2>5. ASSUME NEW u \in User, NEW r \in Rule, SwitchRuleRead(u, r) \/ ConvertRuleRead(u, r)
        PROVE  UNCHANGED <<rules, tasks, trouble>>
    BY <2>5 DEF SwitchRuleRead, ConvertRuleRead, Ask
  <2>6. ASSUME NEW u \in User, ApplyRead(u) \/ SwitchCheckPoint(u)
        PROVE  UNCHANGED <<rules, tasks, trouble>>
    BY <2>6 DEF ApplyRead, SwitchCheckPoint, Ask
  <2>7. ASSUME NEW u \in User, SwitchRule(u) PROVE ConversionUnderWay'
    BY <1>2, <2>1, <2>7, SwitchUnderWay
  <2>8. ASSUME NEW u \in User, ConvertRule(u) PROVE ConversionUnderWay'
    <3>1. request[u].rule \in Rule
      BY <2>1, <2>8 DEF ConvertRule, Asked, Request
    <3> QED
      BY <1>2, <2>1, <2>8, <3>1, WaitUnderWay DEF ConvertRule, Wait, OthersTyped
  <2>9. ASSUME NEW u \in User, Apply(u) PROVE ConversionUnderWay'
    BY <1>2, <2>1, <2>9, ApplyUnderWay
  <2>10. ASSUME NEW r \in Rule, ConvertRules(r) PROVE ConversionUnderWay'
    BY <1>2, <2>1, <2>10, WaitUnderWay DEF ConvertRules, Wait, OthersTyped
  <2>11. ASSUME NEW r \in Rule, EditRule(r) PROVE ConversionUnderWay'
    <3>1. CASE Queue(r)
      BY <1>2, <2>1, <2>11, <3>1, WaitUnderWay DEF EditRule, OthersTyped
    <3>2. CASE ~Queue(r)
      <4>1. rules' = [rules EXCEPT ![r].version = rules[r].version + 1]
            /\ UNCHANGED <<queued, running, open, trouble>>
        BY <2>11, <3>2 DEF EditRule, tasks
      <4>2. \A q \in Rule : rules'[q].law = rules[q].law /\ rules'[q].status = rules[q].status
        BY <2>1, <4>1 DEF OthersTyped, RuleRow
      <4> QED
        BY <1>2, <4>1, <4>2 DEF ConversionUnderWay
    <3> QED
      BY <3>1, <3>2
  <2>12. ASSUME NEW r \in Rule, DeleteRule(r) PROVE ConversionUnderWay'
    <3>1. \A q \in Rule : Shown(q)' => Shown(q)
      BY <2>1, <2>12 DEF DeleteRule, Shown, OthersTyped, RuleRow
    <3> QED
      BY <1>2, <2>12, <3>1, SameTasks, NothingShown DEF DeleteRule, tasks
  <2>13. ASSUME NEW r \in Rule, Crash(r) PROVE ConversionUnderWay'
    <3>1. "crash" \in trouble'
      BY <2>13, Remembered DEF Crash, Fails
    <3> QED
      BY <3>1 DEF ConversionUnderWay
  <2>14. ASSUME NEW r \in Rule, ConvertStart(r) PROVE ConversionUnderWay'
    BY <1>2, <2>1, <2>14, StartUnderWay
  <2>15. ASSUME NEW r \in Rule, NEW v \in Version,
                ConvertCommit(r, v) \/ ConvertInsert(r, v) \/ ConvertFails(r, v)
         PROVE  ConversionUnderWay'
    BY <1>2, <2>1, <2>15, EndUnderWay
  <2>18. ASSUME NEW r \in Rule, NEW v \in Version, ConvertRaises(r, v) PROVE ConversionUnderWay'
    <3>1. "early" \in trouble'
      BY <2>18, Remembered DEF ConvertRaises, Fails
    <3> QED
      BY <3>1 DEF ConversionUnderWay
  <2>17. ASSUME NEW r \in Rule, NEW v \in Version, ConvertUpdate(r, v) PROVE ConversionUnderWay'
    BY <1>2, <2>1, <2>17, UpdateUnderWay
  <2>16. CASE DeleteOrder
    <3>1. \A q \in Rule : ~Shown(q)'
      BY <2>1, <2>16 DEF DeleteOrder, Shown, OthersTyped, RuleRow
    <3> QED
      BY <1>2, <2>16, <3>1, NothingShown DEF DeleteOrder
  <2> QED
    BY <1>2, <2>2, <2>3, <2>4, <2>5, <2>6, <2>7, <2>8, <2>9, <2>10, <2>11, <2>12, <2>13, <2>14,
       <2>15, <2>16, <2>17, <2>18 DEF Next, OnRule
<1> QED
  BY <1>1, <1>2, AlwaysTyped, PTL DEF Spec

-----------------------------------------------------------------------------
\* The rows of a rule all descend from rows of it.
Carries(r) ==
    \A c \in CheckPoint :
        rows'[c] # None /\ rows'[c].rule = r =>
            \E x \in CheckPoint : rows[x] # None /\ Descends(rows'[c], rows[x])

\* A row that is kept, and not superseded, descends from what it was.
LEMMA KeptDescends ==
    ASSUME NEW old, NEW new, Keeps(new, old), new.superseded = old.superseded,
           new.abandoned \in {"yes", old.abandoned}
    PROVE  Descends(new, old)
BY DEF Keeps, Descends

\* A conversion is no matter of other rules.
LEMMA OthersCarry ==
    ASSUME Typed, NEW q \in Rule, NEW v \in Version, ConvertCommit(q, v) \/ ConvertInsert(q, v),
           NEW r \in Rule, r # q
    PROVE  Carries(r)
<1>1. PICK begun \in SUBSET Version : \E missed : Convert(q, v, missed, begun)
  BY Commits
<1>2. PICK missed : Convert(q, v, missed, begun)
  BY <1>1
<1>3. PICK n \in Free : ConvertedTo(q, v, n, missed)
  BY <1>2, ConvertIs
<1>4. rows'[n].rule = q
  BY <1>3 DEF ConvertedTo, Converted
<1>5. ASSUME NEW c \in CheckPoint, rows'[c] # None, rows'[c].rule = r
      PROVE  rows[c] # None /\ Descends(rows'[c], rows[c])
  <2>1. c # n
    BY <1>4, <1>5
  <2>2. rows[c] # None /\ Keeps(rows'[c], rows[c])
    BY <1>3, <1>5, <2>1 DEF ConvertedTo
  <2>3. rows[c].rule = r
    BY <1>5, <2>2 DEF Keeps
  <2>4. /\ rows'[c].superseded = rows[c].superseded
        /\ rows'[c].abandoned \in {"yes", rows[c].abandoned}
    BY <1>3, <2>1, <2>2, <2>3 DEF ConvertedTo
  <2> QED
    BY <2>2, <2>4, KeptDescends
<1> QED
  BY <1>5 DEF Carries

\* What a step does to the rows, rule by rule.
LEMMA Carrying ==
    ASSUME Typed, [Next]_vars
    PROVE  \/ \A r \in Rule : Carries(r)
           \/ \E q \in Rule, v \in Version :
                /\ ConvertCommit(q, v) \/ ConvertInsert(q, v)
                /\ \A r \in Rule : r # q => Carries(r)
           \/ \E u \in User : Apply(u)
<1>1. Becomes(rows, rows') => \A r \in Rule : Carries(r)
  BY DEF Becomes, Come, Carries
<1> QED
  BY <1>1, RowsStep, OthersCarry

\* The tasks and rows of other rules than q stay.
Touches(q) ==
    \A r \in Rule : r # q =>
        /\ rules'[r] = rules[r] /\ queued'[r] = queued[r]
        /\ running'[r] = running[r] /\ open'[r] = open[r]

\* Steps of a rule are its own.
LEMMA RuleTouches ==
    ASSUME OthersTyped, NEW q \in Rule, OnRule(q)
    PROVE  Touches(q)
<1>1. ConvertRules(q) \/ EditRule(q) \/ DeleteRule(q) => Touches(q)
  BY DEF ConvertRules, Wait, EditRule, DeleteRule, Queue, OthersTyped, Touches, tasks
<1>2. Crash(q) \/ ConvertStart(q) => Touches(q)
  BY DEF Crash, ConvertStart, Ends, OthersTyped, Touches
<1>3. ASSUME NEW v \in Version,
             ConvertUpdate(q, v) \/ ConvertFails(q, v) \/ ConvertRaises(q, v)
      PROVE  Touches(q)
  BY <1>3 DEF ConvertUpdate, ConvertFails, ConvertRaises, Ends, OthersTyped, Touches
<1>4. ASSUME NEW v \in Version, ConvertCommit(q, v) \/ ConvertInsert(q, v)
      PROVE  Touches(q)
  BY <1>4 DEF ConvertCommit, ConvertInsert, Convert, Ends, OthersTyped, Touches
<1> QED
  BY <1>1, <1>2, <1>3, <1>4 DEF OnRule

\* So are requests on a rule.
LEMMA RequestTouches ==
    ASSUME Typed, NEW u \in User, SwitchRule(u) \/ ConvertRule(u)
    PROVE  request[u] # None /\ request[u].rule \in Rule /\ Touches(request[u].rule)
<1>1. request[u] # None /\ request[u] \in Request /\ request[u].rule \in Rule
  BY DEF SwitchRule, ConvertRule, Asked, Typed, Request
<1>2. SwitchRule(u) => Touches(request[u].rule)
  BY <1>1 DEF SwitchRule, Touches, Typed, OthersTyped, tasks
<1>3. ConvertRule(u) => Touches(request[u].rule)
  BY <1>1 DEF ConvertRule, Wait, Queue, Touches, Typed, OthersTyped
<1> QED
  BY <1>1, <1>2, <1>3

\* Whatever is not one of these leaves the rules and their tasks as they are.
LEMMA Touched ==
    ASSUME Typed, [Next]_vars
    PROVE  \/ UNCHANGED <<rules, queued, running, open>>
           \/ \E u \in User : SwitchRule(u) \/ ConvertRule(u) \/ Apply(u)
           \/ \E q \in Rule : OnRule(q)
           \/ DeleteOrder
<1>1. ASSUME NEW u \in User, NEW c \in CheckPoint, OnCheckPoint(u, c)
      PROVE  UNCHANGED <<rules, queued, running, open>>
  BY <1>1, ReviewIs DEF OnCheckPoint, SwitchCheckPointRead, Ask, tasks, Typed, OthersTyped
<1>2. ASSUME NEW u \in User,
             \/ \E r \in Rule : SwitchRuleRead(u, r) \/ ConvertRuleRead(u, r)
             \/ SwitchCheckPoint(u) \/ ApplyRead(u)
      PROVE  UNCHANGED <<rules, queued, running, open>>
  BY <1>2 DEF SwitchRuleRead, ConvertRuleRead, ApplyRead, Ask, SwitchCheckPoint, tasks
<1>3. UNCHANGED vars => UNCHANGED <<rules, queued, running, open>>
  BY DEF vars, tasks
<1> QED
  BY <1>1, <1>2, <1>3 DEF Next

\* A law takes effect or ends: a rule that is not of a draft never is again.
LawStep ==
    /\ \A r \in Rule : rules'[r].law = "draft" => rules[r].law = "draft"
    /\ rules[Left].law = "deleted" => rules'[Left].law = "deleted"
    /\ rules'[Right].law = "current" =>
         rules[Right].law = "current" \/ rules'[Left].law = "deleted"

\* Only deletions and apply_law change what law a rule is of.
LEMMA LawSteps ==
    ASSUME Typed, [Next]_vars
    PROVE  /\ LawStep
           /\ \/ \A r \in Rule : rules'[r].law = rules[r].law
              \/ \E r \in Rule : DeleteRule(r)
              \/ DeleteOrder
              \/ \E u \in User : Apply(u)
<1>1. /\ rules \in [Rule -> RuleRow] /\ Left \in Rule /\ Right \in Rule /\ Left # Right
      /\ \A r \in Rule : rules[r] \in RuleRow /\ (r = Left \/ r = Right)
  BY CheckPointReviewAssumption DEF Typed, OthersTyped, Rule
<1>2. ASSUME \A r \in Rule : rules'[r].law = rules[r].law PROVE LawStep
  BY <1>1, <1>2 DEF LawStep
<1>3. ASSUME NEW u \in User, SwitchRule(u) \/ ConvertRule(u)
      PROVE  \A r \in Rule : rules'[r].law = rules[r].law
  <2>1. request[u].rule \in Rule /\ Touches(request[u].rule)
    BY <1>3, RequestTouches
  <2>2. rules'[request[u].rule].law = rules[request[u].rule].law
    BY <1>1, <1>3, <2>1 DEF SwitchRule, ConvertRule, Wait, RuleRow
  <2> QED
    BY <2>1, <2>2 DEF Touches
<1>4. ASSUME NEW q \in Rule, OnRule(q), ~DeleteRule(q)
      PROVE  \A r \in Rule : rules'[r].law = rules[r].law
  <2>1. Touches(q)
    BY <1>4, RuleTouches DEF Typed
  <2>2. ConvertRules(q) \/ EditRule(q) \/ Crash(q) \/ ConvertStart(q) => rules'[q].law = rules[q].law
    BY <1>1 DEF ConvertRules, Wait, EditRule, Crash, ConvertStart, RuleRow
  <2>3. ASSUME NEW v \in Version,
               ConvertUpdate(q, v) \/ ConvertFails(q, v) \/ ConvertRaises(q, v)
        PROVE  rules'[q].law = rules[q].law
    BY <1>1, <2>3 DEF ConvertUpdate, ConvertFails, ConvertRaises, RuleRow
  <2>4. ASSUME NEW v \in Version, ConvertCommit(q, v) \/ ConvertInsert(q, v)
        PROVE  rules'[q].law = rules[q].law
    BY <1>1, <2>4 DEF ConvertCommit, ConvertInsert, Convert, RuleRow
  <2> QED
    BY <1>4, <2>1, <2>2, <2>3, <2>4 DEF OnRule, Touches
<1>5. ASSUME NEW r \in Rule, DeleteRule(r) PROVE LawStep
  <2>1. rules'[r].law = "deleted" /\ \A q \in Rule : q # r => rules'[q] = rules[q]
    BY <1>1, <1>5 DEF DeleteRule, RuleRow
  <2>2. \A q \in Rule : rules'[q].law = "deleted" \/ rules'[q].law = rules[q].law
    BY <2>1
  <2> QED
    BY <1>1, <2>2 DEF LawStep
<1>6. DeleteOrder => LawStep
  BY <1>1 DEF DeleteOrder, RuleRow, LawStep
<1>7. ASSUME NEW u \in User, Apply(u) PROVE LawStep
  <2>1. rules'[Left].law = "deleted" /\ rules'[Right].law # "draft"
    BY <1>1, <1>7 DEF Apply, RuleRow
  <2> QED
    BY <1>1, <2>1 DEF LawStep
<1>8. UNCHANGED rules => \A r \in Rule : rules'[r].law = rules[r].law
  OBVIOUS
<1> QED
  BY <1>2, <1>3, <1>4, <1>5, <1>6, <1>7, <1>8, Touched

-----------------------------------------------------------------------------
\* A row that does not count as in force by its law.
Out(row) == row.law = "null" \/ row.abandoned = "yes"

\* What is left of deleted rules is out: their drafts as well, which would take
\* the place of their parents when they are approved.
OutOf(r) == \A c \in CheckPoint : rows[c] # None /\ rows[c].rule = r => Out(rows[c])
DeletedOut == "late" \notin trouble => \A r \in Rule : rules[r].law = "deleted" => OutOf(r)

\* Rows that descend from what is out are out.
LEMMA CarriesOut ==
    ASSUME NEW r \in Rule, OutOf(r), Carries(r)
    PROVE  OutOf(r)'
BY DEF OutOf, Carries, Out, Descends

\* The deletion of rules takes all their rows out.
LEMMA AbandonOut ==
    ASSUME Typed, NEW S \in SUBSET Existing, rows' = Abandon(S), NEW r \in Rule, Of(r) \subseteq S
    PROVE  OutOf(r)'
<1> SUFFICES ASSUME NEW c \in CheckPoint, rows'[c] # None, rows'[c].rule = r PROVE Out(rows'[c])
  BY DEF OutOf
<1>1. rows[c] # None /\ rows'[c].rule = rows[c].rule
      /\ rows'[c].abandoned = IF c \in S THEN "yes" ELSE rows[c].abandoned
  BY AbandonIs DEF Keeps
<1> QED
  BY <1>1 DEF Of, Out

\* So does the replacement of a law, but for drafts that have no law.
LEMMA ApplyOut ==
    ASSUME Typed, NEW u \in User, Apply(u)
    PROVE  OutOf(Left)'
<1> DEFINE q == request[u]
<1>1. PICK copy : AppliedTo(q, copy)
  BY ApplyIs
<1>2. Left # Right
  BY CheckPointReviewAssumption
<1>3. \A c \in Taken(q) : rows'[copy[c]].rule = Right
  <2> SUFFICES ASSUME NEW c \in Taken(q) PROVE rows'[copy[c]].rule = Right
    OBVIOUS
  <2>1. q.rows[c] \in Row /\ rows'[copy[c]] = Copy(q.rows[c], copy)
    BY <1>1, AppliedIs DEF AppliedTo
  <2> QED
    BY <2>1 DEF Copy, Row
<1> SUFFICES ASSUME NEW x \in CheckPoint, rows'[x] # None, rows'[x].rule = Left PROVE Out(rows'[x])
  BY DEF OutOf
<1>4. \A c \in Taken(q) : copy[c] # x
  BY <1>2, <1>3
<1>5. /\ rows[x] # None /\ Keeps(rows'[x], rows[x])
      /\ rows'[x].abandoned = IF x \in OfLaw THEN "yes" ELSE rows[x].abandoned
  BY <1>1, <1>4 DEF AppliedTo
<1>6. x \in Of(Left) /\ rows'[x].law = rows[x].law /\ rows[x].law \in {"set", "null"}
  BY <1>5, RowIs DEF Keeps, Of, Typed, Row
<1> QED
  BY <1>5, <1>6 DEF Out, OfLaw

\* What is out stays out.
LEMMA OutStep ==
    ASSUME Typed, DeletedOut, [Next]_vars
    PROVE  DeletedOut'
<1> SUFFICES ASSUME "late" \notin trouble', NEW r \in Rule, rules'[r].law = "deleted" PROVE OutOf(r)'
  BY DEF DeletedOut
<1>1. rules[r].law = "deleted" => OutOf(r)
  BY TroubleStays DEF DeletedOut
<1>2. ASSUME rules[r].law = "deleted", ~\E u \in User : Apply(u) PROVE OutOf(r)'
  <2>1. CASE \A s \in Rule : Carries(s)
    BY <1>1, <1>2, <2>1, CarriesOut
  <2>2. ASSUME NEW q \in Rule, NEW v \in Version, ConvertCommit(q, v) \/ ConvertInsert(q, v),
               \A s \in Rule : s # q => Carries(s)
        PROVE  OutOf(r)'
    <3>1. rules[q].law # "deleted"
      <4>1. When(rules[q].law = "deleted", "late") \subseteq trouble'
        BY <2>2 DEF ConvertCommit, ConvertInsert, Convert, Trouble
      <4> QED
        BY <4>1 DEF When
    <3> QED
      BY <1>1, <1>2, <2>2, <3>1, CarriesOut
  <2> QED
    BY <1>2, <2>1, <2>2, Carrying
<1>3. ASSUME NEW u \in User, Apply(u) PROVE OutOf(r)'
  <2>1. r = Left
    <3>1. When("deleted" \in {rules[Left].law, rules[Right].law}, "late") \subseteq trouble'
      BY <1>3 DEF Apply, Trouble
    <3>2. rules[Right].law # "deleted" /\ Right \in Rule /\ rules[Right] \in RuleRow /\ Left # Right
      BY <3>1, CheckPointReviewAssumption DEF When, Typed, OthersTyped, Rule
    <3>3. rules'[Right].law # "deleted"
      BY <1>3, <3>2 DEF Apply, Typed, OthersTyped, RuleRow
    <3> QED
      BY <3>3 DEF Rule
  <2> QED
    BY <1>3, <2>1, ApplyOut
<1>4. ASSUME NEW s \in Rule, DeleteRule(s) PROVE OutOf(r)'
  <2>1. CASE s = r
    <3>1. Of(s) \in SUBSET Existing /\ rows' = Abandon(Of(s))
      BY <1>4 DEF DeleteRule, Of, Existing
    <3> QED
      BY <2>1, <3>1, AbandonOut
  <2>2. CASE s # r
    <3>1. rules[r].law = "deleted"
      BY <1>4, <2>2 DEF DeleteRule, Typed, OthersTyped
    <3> QED
      BY <1>2, <1>3, <3>1
  <2> QED
    BY <2>1, <2>2
<1>5. CASE DeleteOrder
  <2>1. Of(Left) \cup Of(Right) \in SUBSET Existing /\ rows' = Abandon(Of(Left) \cup Of(Right))
    BY <1>5 DEF DeleteOrder, Of, Existing
  <2>2. Of(r) \subseteq Of(Left) \cup Of(Right)
    BY DEF Rule
  <2> QED
    BY <2>1, <2>2, AbandonOut
<1>6. CASE \A s \in Rule : rules'[s].law = rules[s].law
  BY <1>2, <1>3, <1>6
<1> QED
  BY <1>3, <1>4, <1>5, <1>6, LawSteps

\* A check point in force has a rule, unless the rule was deleted while it was
\* being converted or its law applied, or the check point has lost its law.
THEOREM InForceHasItsRule == Spec => []InForceHasRule
<1>1. Init => DeletedOut
  BY DEF Init, Begun, DeletedOut
<1>2. Typed /\ DeletedOut /\ [Next]_vars => DeletedOut'
  BY OutStep
<1>3. Typed /\ DeletedOut => InForceHasRule
  <2> SUFFICES ASSUME Typed, DeletedOut, NEW c \in CheckPoint, Active(c), rows[c].law = "set",
                      "late" \notin trouble, rules[rows[c].rule].law = "deleted"
               PROVE  FALSE
    BY DEF InForceHasRule
  <2>1. rows[c] # None /\ rows[c].rule \in Rule /\ rows[c].abandoned = "no"
    BY RowIs DEF Active, Parents, Typed, Row
  <2> QED
    BY <2>1 DEF DeletedOut, OutOf, Out
<1> QED
  BY <1>1, <1>2, <1>3, AlwaysTyped, PTL DEF Spec

-----------------------------------------------------------------------------
\* A rule of a law that is still a draft has not been used.
Unused(r) ==
    rules[r].law = "draft" =>
        /\ rules[r].version = 0 /\ rules[r].asked = 0 /\ rules[r].status = "DISABLED"
        /\ queued[r] = 0 /\ open[r] = {} /\ \A v \in Version : running[r][v] = 0
        /\ \A c \in CheckPoint : rows[c] # None => rows[c].rule # r

\* A law takes effect when the one before it ends.
LeftFirst == rules[Right].law = "current" => rules[Left].law = "deleted"

\* No request is about a rule of a law that is still a draft.
Fit(q) == q.op \in {"switch_rule", "convert_rule"} => rules[q.rule].law # "draft"

Base ==
    /\ Typed
    /\ \A u \in User : request[u] # None => Fit(request[u])
    /\ \A r \in Rule : Unused(r)
    /\ LeftFirst

\* Where the law of a rule is a draft, nothing is done for the rule.
LEMMA NotDraft ==
    ASSUME Base, NEW q \in Rule, OnRule(q)
    PROVE  rules[q].law # "draft"
<1> SUFFICES ASSUME rules[q].law = "draft" PROVE FALSE
  OBVIOUS
<1>1. queued[q] = 0 /\ open[q] = {} /\ \A v \in Version : running[q][v] = 0
  BY DEF Base, Unused
<1>2. ~ConvertStart(q) /\ ~Crash(q)
  BY <1>1 DEF ConvertStart, Crash, Ends
<1>3. \A v \in Version : ~ConvertCommit(q, v) /\ ~ConvertUpdate(q, v) /\ ~ConvertInsert(q, v)
                         /\ ~ConvertFails(q, v) /\ ~ConvertRaises(q, v)
  BY <1>1 DEF ConvertCommit, ConvertUpdate, ConvertInsert, ConvertFails, ConvertRaises, Ends
<1> QED
  BY <1>2, <1>3 DEF OnRule, ConvertRules, EditRule, DeleteRule

\* When a law is applied in time, its rule has not been used.
LEMMA ApplyInTime ==
    ASSUME Base, NEW u \in User, Apply(u)
    PROVE  /\ rules'[Left].law = "deleted" /\ rules'[Right].law # "draft"
           /\ "late" \notin trouble' => rules[Right].law = "draft" /\ Unused(Right)
<1>1. /\ rules \in [Rule -> RuleRow] /\ Left \in Rule /\ Right \in Rule /\ Left # Right
      /\ rules[Left] \in RuleRow /\ rules[Right] \in RuleRow
  BY CheckPointReviewAssumption DEF Base, Typed, OthersTyped, Rule
<1>2. rules'[Left].law = "deleted" /\ rules'[Right].law # "draft"
  BY <1>1 DEF Apply, RuleRow
<1>3. ASSUME "late" \notin trouble' PROVE rules[Right].law = "draft"
  <2>1. When("deleted" \in {rules[Left].law, rules[Right].law}, "late") \subseteq trouble'
    BY DEF Apply, Trouble
  <2>2. rules[Left].law # "deleted" /\ rules[Right].law # "deleted"
    BY <1>3, <2>1 DEF When
  <2> QED
    BY <1>1, <2>2 DEF Base, LeftFirst, RuleRow
<1> QED
  BY <1>1, <1>2, <1>3 DEF Base

\* A rule of a draft stays unused.
LEMMA UnusedStep ==
    ASSUME Base, [Next]_vars, NEW r \in Rule
    PROVE  Unused(r)'
<1> SUFFICES ASSUME rules'[r].law = "draft" PROVE Unused(r)'
  BY DEF Unused
<1>0. Typed
  BY DEF Base
<1>1. rules[r].law = "draft" /\ Unused(r)
  BY <1>0, LawSteps DEF LawStep, Base
<1>2. \A u \in User : ~Apply(u)
  BY ApplyInTime DEF Rule
<1>3. Carries(r)
  <2>1. ASSUME NEW q \in Rule, NEW v \in Version, ConvertCommit(q, v) \/ ConvertInsert(q, v)
        PROVE  q # r
    BY <1>1, <2>1, NotDraft DEF OnRule
  <2> QED
    BY <1>0, <1>2, <2>1, Carrying
<1>4. ASSUME NEW c \in CheckPoint, rows'[c] # None PROVE rows'[c].rule # r
  BY <1>1, <1>3, <1>4 DEF Carries, Descends, Unused
<1>5. /\ rules'[r] = rules[r] /\ queued'[r] = queued[r]
      /\ running'[r] = running[r] /\ open'[r] = open[r]
  <2>1. ASSUME NEW q \in Rule, Touches(q), rules[q].law # "draft"
        PROVE  /\ rules'[r] = rules[r] /\ queued'[r] = queued[r]
               /\ running'[r] = running[r] /\ open'[r] = open[r]
    BY <1>1, <2>1 DEF Touches
  <2>2. ASSUME NEW u \in User, SwitchRule(u) \/ ConvertRule(u)
        PROVE  /\ request[u].rule \in Rule /\ Touches(request[u].rule)
               /\ rules[request[u].rule].law # "draft"
    <3>1. request[u] # None /\ request[u].rule \in Rule /\ Touches(request[u].rule)
      BY <1>0, <2>2, RequestTouches
    <3>2. request[u].op \in {"switch_rule", "convert_rule"}
      BY <2>2 DEF SwitchRule, ConvertRule, Asked
    <3> QED
      BY <3>1, <3>2 DEF Base, Fit
  <2>3. ASSUME NEW q \in Rule, OnRule(q) PROVE Touches(q) /\ rules[q].law # "draft"
    BY <1>0, <2>3, RuleTouches, NotDraft DEF Typed
  <2>4. ~DeleteOrder
    BY <1>0 DEF DeleteOrder, Typed, OthersTyped, RuleRow
  <2> QED
    BY <1>0, <1>2, <2>1, <2>2, <2>3, <2>4, Touched
<1> QED
  BY <1>1, <1>4, <1>5 DEF Unused

\* The invariant is inductive.
LEMMA BaseStep ==
    ASSUME Base, [Next]_vars
    PROVE  Base'
<1>1. Typed /\ Typed' /\ LawStep /\ RequestStep(UNCHANGED <<rules, rows, trouble>>)
  BY TypedStep, LawSteps, OthersStep DEF Base
<1>2. ASSUME NEW u \in User, request'[u] # None PROVE Fit(request[u])'
  <2>1. CASE request'[u] = request[u]
    <3>1. Fit(request[u]) /\ request[u].rule \in Rule
      BY <1>1, <1>2, <2>1 DEF Base, Typed, Request
    <3> QED
      BY <1>1, <2>1, <3>1 DEF Fit, LawStep
  <2>2. CASE /\ UNCHANGED <<rules, rows, trouble>>
             /\ Read(request'[u]) /\ Asks(u, request'[u])
    <3>1. request'[u].rule \in Rule
      BY <2>2 DEF Read, Request
    <3>2. Unused(request'[u].rule)
      BY <3>1 DEF Base
    <3> QED
      BY <2>2, <3>2 DEF Fit, Asks, Unused
  <2> QED
    BY <1>1, <1>2, <2>1, <2>2 DEF RequestStep
<1>3. LeftFirst'
  BY <1>1 DEF LeftFirst, LawStep, Base
<1> QED
  BY <1>1, <1>2, <1>3, UnusedStep DEF Base

\* It holds at first.
LEMMA BaseInit == Init => Base
<1> SUFFICES ASSUME Init PROVE Base
  OBVIOUS
<1>1. Left \in Rule /\ Right \in Rule /\ Left # Right
  BY CheckPointReviewAssumption DEF Rule
<1>2. Converted(Left, 0, {}).rule = Left
  BY DEF Converted
<1>3. \A c \in CheckPoint : rows[c] = None \/ rows[c] = Converted(Left, 0, {})
  BY DEF Init, NoRows
<1>4. /\ rules[Left].law = "current" /\ rules[Right].law = "draft"
      /\ rules[Right].version = 0 /\ rules[Right].asked = 0 /\ rules[Right].status = "DISABLED"
  BY <1>1 DEF Init, Begun
<1>5. \A c \in CheckPoint : rows[c] # None => rows[c].rule # Right
  BY <1>1, <1>2, <1>3
<1>6. queued[Right] = 0 /\ open[Right] = {} /\ \A v \in Version : running[Right][v] = 0
  BY <1>1 DEF Init
<1>7. \A r \in Rule : Unused(r)
  BY <1>4, <1>5, <1>6 DEF Unused, Rule
<1>8. \A u \in User : request[u] = None
  BY DEF Init
<1> QED
  BY <1>4, <1>7, <1>8, TypedInit DEF Base, LeftFirst

\* What the theorems about generations rest on holds in every state.
LEMMA BaseAlways == Spec => []Base
BY BaseInit, BaseStep, PTL DEF Spec

-----------------------------------------------------------------------------
\* What another generation has taken the place of is abandoned.
Gone(f) ==
    \A c \in CheckPoint : f[c] # None /\ f[c].superseded = "yes" => f[c].abandoned = "yes"

\* No conversion has missed another one's check points, and no rule was replaced
\* before what was begun for it was written.
Calm == trouble \cap {"late", "unseen"} = {}

\* Requests that read check points may still copy them.
Generations ==
    Calm => Gone(rows) /\ \A u \in User : request[u] # None => Gone(request[u].rows)

\* A conversion that has seen all.
LEMMA ConvertSees ==
    ASSUME NEW r \in Rule, NEW v \in Version, NEW missed, NEW begun,
           Convert(r, v, missed, begun), "unseen" \notin trouble'
    PROVE  missed = {}
<1>1. When(missed # {}, "unseen") \subseteq trouble'
  BY DEF Convert, Trouble
<1> QED
  BY <1>1 DEF When

\* Rows that descend from what is gone are gone.
LEMMA CarriesGone ==
    ASSUME Gone(rows), NEW r, Carries(r), NEW c \in CheckPoint,
           rows'[c] # None, rows'[c].rule = r, rows'[c].superseded = "yes"
    PROVE  rows'[c].abandoned = "yes"
BY DEF Gone, Carries, Descends

\* A conversion abandons what it takes the place of.
LEMMA ConvertGone ==
    ASSUME Typed, NEW q \in Rule, NEW v \in Version, ConvertCommit(q, v) \/ ConvertInsert(q, v),
           "unseen" \notin trouble', NEW c \in CheckPoint,
           rows'[c] # None, rows'[c].rule = q, rows'[c].superseded = "yes"
    PROVE  rows'[c].abandoned = "yes"
<1>1. PICK begun \in SUBSET Version : \E missed : Convert(q, v, missed, begun)
  BY Commits
<1>2. PICK missed : Convert(q, v, missed, begun)
  BY <1>1
<1>3. missed = {}
  BY <1>2, ConvertSees
<1>4. PICK n \in Free : ConvertedTo(q, v, n, missed)
  BY <1>2, ConvertIs
<1>5. rows'[n].superseded = "no"
  BY <1>4 DEF ConvertedTo, Converted
<1>6. c # n
  BY <1>5
<1>7. /\ rows[c] # None /\ Keeps(rows'[c], rows[c])
      /\ rows'[c].abandoned = IF c \in Of(q) \ missed THEN "yes" ELSE rows[c].abandoned
  BY <1>4, <1>6 DEF ConvertedTo
<1>8. c \in Of(q)
  BY <1>7 DEF Of, Keeps
<1> QED
  BY <1>3, <1>7, <1>8

\* A law that is applied in time takes the place of no generation but its own.
LEMMA ApplyGone ==
    ASSUME Base, NEW u \in User, Apply(u), "late" \notin trouble', Gone(rows),
           Gone(request[u].rows), NEW x \in CheckPoint,
           rows'[x] # None, rows'[x].superseded = "yes"
    PROVE  rows'[x].abandoned = "yes"
<1> DEFINE q == request[u]
<1>0. Typed
  BY DEF Base
<1>1. PICK copy : AppliedTo(q, copy)
  BY <1>0, ApplyIs
<1>2. rules[Right].law = "draft" /\ Unused(Right)
  BY ApplyInTime
<1>3. CASE \E c \in Taken(q) : copy[c] = x
  <2>1. PICK c \in Taken(q) : copy[c] = x
    BY <1>3
  <2>2. q.rows[c] \in Row /\ rows'[x] = Copy(q.rows[c], copy) /\ c \in CheckPoint /\ q.rows[c] # None
    BY <1>0, <1>1, <2>1, AppliedIs DEF AppliedTo, Taken
  <2>3. rows'[x].superseded = q.rows[c].superseded /\ rows'[x].abandoned = q.rows[c].abandoned
    BY <2>2 DEF Copy, Row
  <2> QED
    BY <2>2, <2>3 DEF Gone
<1>4. CASE \A c \in Taken(q) : copy[c] # x
  <2>1. /\ rows[x] # None
        /\ rows'[x].superseded = IF rows[x].rule = Right THEN "yes" ELSE rows[x].superseded
        /\ rows'[x].abandoned = IF x \in OfLaw THEN "yes" ELSE rows[x].abandoned
    BY <1>1, <1>4 DEF AppliedTo
  <2> QED
    BY <1>2, <2>1 DEF Unused, Gone
<1> QED
  BY <1>3, <1>4

\* What is gone stays gone.
LEMMA GenerationsStep ==
    ASSUME Base, Generations, [Next]_vars
    PROVE  Generations'
<1> SUFFICES ASSUME Calm'
             PROVE  Gone(rows') /\ \A u \in User : request'[u] # None => Gone(request'[u].rows)
  BY DEF Generations
<1>0. Typed
  BY DEF Base
<1>1. Calm /\ "late" \notin trouble' /\ "unseen" \notin trouble'
  BY <1>0, TroubleStays DEF Calm
<1>2. Gone(rows) /\ \A u \in User : request[u] # None => Gone(request[u].rows)
  BY <1>1 DEF Generations
<1>3. ASSUME NEW c \in CheckPoint, rows'[c] # None, rows'[c].superseded = "yes"
      PROVE  rows'[c].abandoned = "yes"
  <2>0. rows'[c].rule \in Rule
    BY <1>0, <1>3, RowsTyped, RowIs DEF Row
  <2>1. CASE \A r \in Rule : Carries(r)
    BY <1>2, <1>3, <2>0, <2>1, CarriesGone
  <2>2. ASSUME NEW q \in Rule, NEW v \in Version, ConvertCommit(q, v) \/ ConvertInsert(q, v),
               \A r \in Rule : r # q => Carries(r)
        PROVE  rows'[c].abandoned = "yes"
    <3>1. CASE rows'[c].rule = q
      BY <1>0, <1>1, <1>3, <2>2, <3>1, ConvertGone
    <3>2. CASE rows'[c].rule # q
      BY <1>2, <1>3, <2>0, <2>2, <3>2, CarriesGone
    <3> QED
      BY <3>1, <3>2
  <2>3. ASSUME NEW u \in User, Apply(u) PROVE rows'[c].abandoned = "yes"
    <3>1. Gone(request[u].rows)
      BY <1>2, <2>3 DEF Apply, Asked
    <3> QED
      BY <1>1, <1>2, <1>3, <2>3, <3>1, ApplyGone
  <2> QED
    BY <1>0, <2>1, <2>2, <2>3, Carrying
<1>4. ASSUME NEW u \in User, request'[u] # None PROVE Gone(request'[u].rows)
  <2>1. CASE request'[u] = request[u]
    BY <1>2, <1>4, <2>1
  <2>2. CASE Asks(u, request'[u])
    <3>1. \/ request'[u].rows = NoRows
          \/ \A c \in CheckPoint :
                request'[u].rows[c] # None => request'[u].rows[c] = rows[c]
      BY <2>2 DEF Asks
    <3> QED
      BY <1>2, <3>1 DEF Gone, NoRows
  <2> QED
    BY <1>0, <1>4, <2>1, <2>2, OthersStep DEF RequestStep
<1> QED
  BY <1>3, <1>4 DEF Gone

\* Contracts are judged by what one conversion has made of a rule, whatever was
\* edited, reviewed, converted again, replaced or applied at the same time,
\* unless a conversion did not see another one's check points, or the law was
\* applied to a rule that had been replaced.
THEOREM RulesHaveOneGeneration == Spec => []OneGeneration
<1>1. Init => Generations
  <2> SUFFICES ASSUME Init
               PROVE  Gone(rows) /\ \A u \in User : request[u] # None => Gone(request[u].rows)
    BY DEF Generations
  <2>1. Converted(Left, 0, {}).superseded = "no"
    BY DEF Converted
  <2>2. \A c \in CheckPoint : rows[c] = None \/ rows[c] = Converted(Left, 0, {})
    BY DEF Init, NoRows
  <2> QED
    BY <2>1, <2>2 DEF Init, Gone
<1>2. Base /\ Generations /\ [Next]_vars => Generations'
  BY GenerationsStep
<1>3. Typed /\ Generations => OneGeneration
  <2> SUFFICES ASSUME Typed, Generations, Calm, NEW c \in Parents, rows[c].abandoned = "no"
               PROVE  rows[c].superseded = "no"
    BY DEF OneGeneration, Calm
  <2>1. c \in CheckPoint /\ rows[c] # None /\ rows[c] \in Row
    BY RowIs DEF Parents, Typed
  <2>2. rows[c].superseded # "yes"
    BY <2>1 DEF Generations, Gone
  <2> QED
    BY <2>1, <2>2 DEF Row
<1> QED
  BY <1>1, <1>2, <1>3, AlwaysTyped, BaseAlways, PTL DEF Spec

-----------------------------------------------------------------------------
\* No conversion has failed, been lost or been overtaken, and no status was
\* written that was not meant.
Clean == trouble \cap {"llm", "early", "crash", "stale", "carried", "overtaken", "unseen", "late"} = {}

\* The newest text asked for is still being converted.
Newer(r) ==
    \/ queued[r] > 0
    \/ \E v \in Version : v >= rules[r].asked /\ (v \in open[r] \/ running[r][v] > 0)

\* What is in use of rule r is at least of text v.
UsedFrom(r, v) ==
    \A c \in CheckPoint :
        rows[c] # None /\ rows[c].rule = r /\ rows[c].abandoned = "no" => rows[c].version >= v

\* The newest text is in use, or it is being converted: once it has been, it tells
\* a conversion of an older text that it comes too late.
NewestOf(r) ==
    /\ rules[r].asked <= rules[r].version
    /\ \/ Newer(r)
       \/ /\ UsedFrom(r, rules[r].asked)
          /\ rules[r].asked = 0 \/ rules[r].converted >= rules[r].asked

Newest == Clean => \A r \in Rule : rules[r].law # "deleted" => NewestOf(r)

\* The numbers compared are numbers.
LEMMA Numbers ==
    ASSUME Typed
    PROVE  /\ \A v \in Version : v \in Nat
           /\ \A r \in Rule : /\ rules[r] \in RuleRow /\ queued[r] \in Nat
                              /\ rules[r].asked \in Version /\ rules[r].version \in Version
                              /\ rules[r].converted \in Version
                              /\ \A v \in Version : running[r][v] \in Nat
           /\ \A c \in CheckPoint : rows[c] # None => rows[c].version \in Version
<1>1. \A v \in Version : v \in Nat
  BY CheckPointReviewAssumption DEF Version
<1>2. \A c \in CheckPoint : rows[c] # None => rows[c].version \in Version
  BY RowIs DEF Typed, Row
<1>3. \A r \in Rule : /\ rules[r] \in RuleRow /\ queued[r] \in Nat
                      /\ \A v \in Version : running[r][v] \in Nat
  BY DEF Typed, OthersTyped
<1> QED
  BY <1>1, <1>2, <1>3 DEF RuleRow

\* Rows that descend from those in use are of their texts.
LEMMA CarriesUsed ==
    ASSUME Typed, NEW r \in Rule, NEW v, Carries(r), UsedFrom(r, v)
    PROVE  UsedFrom(r, v)'
<1> SUFFICES ASSUME NEW c \in CheckPoint, rows'[c] # None, rows'[c].rule = r,
                    rows'[c].abandoned = "no"
             PROVE  rows'[c].version >= v
  BY DEF UsedFrom
<1>1. PICK x \in CheckPoint : rows[x] # None /\ Descends(rows'[c], rows[x])
  BY DEF Carries
<1>2. rows[x].rule = r /\ rows[x].version = rows'[c].version /\ rows[x].abandoned # "yes"
  BY <1>1 DEF Descends
<1>3. rows[x].abandoned = "no"
  BY <1>1, <1>2, RowIs DEF Typed, Row
<1> QED
  BY <1>1, <1>2, <1>3 DEF UsedFrom

\* Where rows are carried on and conversions go on, the newest stays.
LEMMA NewestCarried ==
    ASSUME Typed, NEW r \in Rule, NewestOf(r), Carries(r),
           rules'[r].asked = rules[r].asked, rules'[r].asked <= rules'[r].version,
           rules'[r].converted = rules[r].converted,
           Newer(r) => Newer(r)'
    PROVE  NewestOf(r)'
<1>1. CASE Newer(r)
  BY <1>1 DEF NewestOf
<1>2. CASE UsedFrom(r, rules[r].asked) /\ (rules[r].asked = 0 \/ rules[r].converted >= rules[r].asked)
  <2>1. UsedFrom(r, rules[r].asked)'
    <3>1. \A v : UsedFrom(r, v) => UsedFrom(r, v)'
      BY CarriesUsed
    <3>2. UsedFrom(r, rules[r].asked) => \A c \in CheckPoint :
             rows'[c] # None /\ rows'[c].rule = r /\ rows'[c].abandoned = "no"
               => rows'[c].version >= rules[r].asked
      BY <3>1 DEF UsedFrom
    <3> QED
      BY <1>2, <3>2 DEF UsedFrom
  <2> QED
    BY <1>2, <2>1 DEF NewestOf
<1> QED
  BY <1>1, <1>2 DEF NewestOf

\* What is queued is converted later.
LEMMA QueuedNewest ==
    ASSUME Typed, NEW r \in Rule, Queue(r), rules'[r].asked <= rules'[r].version
    PROVE  NewestOf(r)'
<1>1. queued[r] \in Nat /\ queued'[r] = queued[r] + 1
  BY DEF Typed, OthersTyped, Queue
<1> QED
  BY <1>1 DEF NewestOf, Newer

\* A conversion ends: what it leaves in use is of the newest text asked for, or a
\* conversion of that text goes on.
LEMMA ConvertNewest ==
    ASSUME Typed, NEW r \in Rule, NEW v \in Version, ConvertCommit(r, v) \/ ConvertInsert(r, v),
           NewestOf(r), Clean'
    PROVE  NewestOf(r)'
<1>0. PICK begun \in SUBSET Version : \E missed : Convert(r, v, missed, begun)
  BY Commits
<1>1. PICK missed : Convert(r, v, missed, begun)
  BY <1>0
<1>2. /\ rules \in [Rule -> RuleRow] /\ rules[r] \in RuleRow
      /\ v \in Nat /\ rules[r].asked \in Nat /\ rules[r].converted \in Nat
  BY Numbers DEF Typed, OthersTyped
<1>3. missed = {} /\ ~(v < rules[r].converted)
  <2>1. missed = {}
    BY <1>1, ConvertSees DEF Clean
  <2>2. When(v < rules[r].converted, "overtaken") \subseteq trouble'
    BY <1>1 DEF Convert, Trouble
  <2> QED
    BY <2>1, <2>2 DEF When, Clean
<1>4. /\ rules'[r].asked = rules[r].asked /\ rules'[r].version = rules[r].version
      /\ rules'[r].converted = v
  <2> DEFINE newest == IF rules[r].converted < v THEN v ELSE rules[r].converted
  <2>1. rules' = [rules EXCEPT ![r].status = "CONVERTED", ![r].converted = newest]
    BY <1>1 DEF Convert
  <2>2. newest = v
    BY <1>2, <1>3
  <2> HIDE DEF newest
  <2> QED
    BY <1>2, <2>1, <2>2 DEF RuleRow
<1>5. UsedFrom(r, v)'
  <2>1. PICK n \in Free : ConvertedTo(r, v, n, missed)
    BY <1>1, ConvertIs
  <2>2. rows'[n].version = v
    BY <2>1 DEF ConvertedTo, Converted
  <2>3. ASSUME NEW c \in CheckPoint, c # n, rows'[c] # None, rows'[c].rule = r
        PROVE  rows'[c].abandoned = "yes"
    <3>1. /\ rows[c] # None /\ Keeps(rows'[c], rows[c])
          /\ rows'[c].abandoned = IF c \in Of(r) \ missed THEN "yes" ELSE rows[c].abandoned
      BY <2>1, <2>3 DEF ConvertedTo
    <3>2. c \in Of(r)
      BY <2>3, <3>1 DEF Keeps, Of
    <3> QED
      BY <1>3, <3>1, <3>2
  <2> QED
    BY <1>2, <2>2, <2>3 DEF UsedFrom
<1>6. CASE v >= rules[r].asked
  <2>1. UsedFrom(r, rules[r].asked)'
    <3>1. ASSUME NEW c \in CheckPoint, rows'[c] # None, rows'[c].rule = r, rows'[c].abandoned = "no"
          PROVE  rows'[c].version >= rules[r].asked
      <4>1. rows'[c].version >= v
        BY <1>5, <3>1 DEF UsedFrom
      <4>2. rows'[c].version \in Nat
        BY <3>1, RowsTyped, RowIs, CheckPointReviewAssumption DEF Row, Version, Next, OnRule
      <4> QED
        BY <1>2, <1>6, <4>1, <4>2
    <3> QED
      BY <1>4, <3>1 DEF UsedFrom
  <2> QED
    BY <1>4, <1>6, <2>1 DEF NewestOf
<1>7. CASE ~(v >= rules[r].asked)
  <2>1. Newer(r)
    BY <1>2, <1>3, <1>7 DEF NewestOf
  <2>2. \A w \in Version : w # v =>
           /\ running'[r][w] = running[r][w]
           /\ w \in open[r] => w \in open'[r]
    BY DEF ConvertCommit, ConvertInsert, Ends, Typed, OthersTyped
  <2>3. queued'[r] = queued[r]
    BY DEF ConvertCommit, ConvertInsert, Ends
  <2>4. Newer(r)'
    BY <1>4, <1>7, <2>1, <2>2, <2>3 DEF Newer
  <2> QED
    BY <1>4, <2>4 DEF NewestOf
<1> QED
  BY <1>6, <1>7

\* Steps of a rule keep its newest text.
LEMMA RuleNewest ==
    ASSUME Typed, NEW r \in Rule, OnRule(r), NewestOf(r), Clean', rules'[r].law # "deleted",
           Carries(r) \/ \E v \in Version : ConvertCommit(r, v) \/ ConvertInsert(r, v)
    PROVE  NewestOf(r)'
<1>1. /\ rules \in [Rule -> RuleRow] /\ rules[r] \in RuleRow
      /\ rules[r].asked \in Nat /\ rules[r].version \in Nat
      /\ queued \in [Rule -> Nat] /\ running \in [Rule -> [Version -> Nat]]
      /\ open \in [Rule -> SUBSET Version]
      /\ rules[r].asked <= rules[r].version
  BY Numbers DEF Typed, OthersTyped, NewestOf
<1>2. CASE \E v \in Version : ConvertCommit(r, v) \/ ConvertInsert(r, v)
  BY <1>2, ConvertNewest
<1> SUFFICES ASSUME Carries(r), ~\E v \in Version : ConvertCommit(r, v) \/ ConvertInsert(r, v)
             PROVE  NewestOf(r)'
  BY <1>2
<1>3. CASE ConvertRules(r)
  <2>1. rules'[r].asked = rules[r].version /\ rules'[r].version = rules[r].version /\ Queue(r)
    BY <1>1, <1>3 DEF ConvertRules, Wait, RuleRow
  <2> QED
    BY <1>1, <2>1, QueuedNewest
<1>4. CASE EditRule(r)
  <2>1. CASE Queue(r)
    <3>1. rules'[r].version = rules[r].version + 1
          /\ rules'[r].asked \in {rules[r].asked, rules[r].version + 1}
      BY <1>1, <1>4 DEF EditRule, RuleRow
    <3> QED
      BY <1>1, <2>1, <3>1, QueuedNewest
  <2>2. CASE ~Queue(r)
    <3>1. /\ rules'[r].version = rules[r].version + 1 /\ rules'[r].asked = rules[r].asked
          /\ rules'[r].converted = rules[r].converted
          /\ UNCHANGED <<queued, running, open>>
      BY <1>1, <1>4, <2>2 DEF EditRule, RuleRow, tasks
    <3>2. Newer(r) => Newer(r)'
      BY <3>1 DEF Newer
    <3> QED
      BY <1>1, <3>1, <3>2, NewestCarried
  <2> QED
    BY <2>1, <2>2
<1>5. CASE DeleteRule(r)
  BY <1>1, <1>5 DEF DeleteRule, RuleRow
<1>6. ~Crash(r) /\ \A v \in Version : ~ConvertFails(r, v) /\ ~ConvertRaises(r, v)
  BY Remembered DEF Crash, ConvertFails, ConvertRaises, Fails, Clean
<1>7. CASE ConvertStart(r)
  <2>1. rules[r].law # "deleted" \/ rules'[r] = rules[r]
    BY <1>7 DEF ConvertStart
  <2>2. /\ rules[r].law # "deleted" /\ rules'[r].asked = rules[r].asked
        /\ rules'[r].version = rules[r].version
    BY <1>1, <1>7, <2>1 DEF ConvertStart, RuleRow
  <2>3. /\ rules[r].version \in Version
        /\ running'[r][rules[r].version] = running[r][rules[r].version] + 1
    BY <1>1, <1>7, <2>2 DEF ConvertStart, RuleRow
  <2>4. running'[r][rules[r].version] > 0
    BY <1>1, <2>3
  <2>5. Newer(r)'
    BY <1>1, <2>2, <2>3, <2>4 DEF Newer
  <2> QED
    BY <1>1, <2>2, <2>5 DEF NewestOf
<1>8. ASSUME NEW v \in Version, ConvertUpdate(r, v) PROVE NewestOf(r)'
  <2>1. /\ UNCHANGED <<rules, queued>> /\ v \in open'[r]
        /\ \A w \in Version : /\ w \in open[r] => w \in open'[r]
                              /\ w # v => running'[r][w] = running[r][w]
    BY <1>1, <1>8 DEF ConvertUpdate, Ends
  <2>2. Newer(r) => Newer(r)'
    BY <2>1 DEF Newer
  <2> QED
    BY <1>1, <2>1, <2>2, NewestCarried
<1> QED
  BY <1>3, <1>4, <1>5, <1>6, <1>7, <1>8 DEF OnRule

\* A rule that a step leaves alone keeps its newest text.
LEMMA AloneNewest ==
    ASSUME Typed, NEW r \in Rule, NewestOf(r), Carries(r), rules'[r] = rules[r],
           queued'[r] = queued[r], running'[r] = running[r], open'[r] = open[r]
    PROVE  NewestOf(r)'
<1>1. Newer(r) => Newer(r)'
  BY DEF Newer
<1> QED
  BY <1>1, NewestCarried DEF NewestOf

\* The newest texts stay newest.
LEMMA NewestStep ==
    ASSUME Base, Newest, [Next]_vars
    PROVE  Newest'
<1> SUFFICES ASSUME Clean', NEW r \in Rule, rules'[r].law # "deleted" PROVE NewestOf(r)'
  BY DEF Newest
<1>0. Typed
  BY DEF Base
<1>1. trouble \subseteq trouble' /\ Clean
  BY <1>0, TroubleStays DEF Clean
<1>2. rules \in [Rule -> RuleRow] /\ rules[r] \in RuleRow
  BY <1>0 DEF Typed, OthersTyped
<1>3. ASSUME NEW u \in User, Apply(u) PROVE NewestOf(r)'
  <2>1. rules'[Left].law = "deleted" /\ rules[Right].law = "draft" /\ Unused(Right)
    BY <1>3, ApplyInTime DEF Clean
  <2>2. r = Right /\ Left \in Rule /\ Right \in Rule
    BY <2>1 DEF Rule
  <2>3. rules[r].asked = 0 /\ rules[r].version = 0
    BY <2>1, <2>2 DEF Unused
  <2>4. rules'[r].asked = 0 /\ rules'[r].version = 0
    BY <1>2, <1>3, <2>2, <2>3, CheckPointReviewAssumption DEF Apply, RuleRow
  <2>5. \A c \in CheckPoint : rows'[c] # None => rows'[c].version \in Nat
    BY <1>0, RowsTyped, RowIs, CheckPointReviewAssumption DEF Row, Version
  <2> QED
    BY <2>4, <2>5 DEF NewestOf, UsedFrom
<1>4. ASSUME rules[r].law = "deleted", ~\E u \in User : Apply(u) PROVE FALSE
  <2>1. CASE \A s \in Rule : rules'[s].law = rules[s].law
    BY <1>4, <2>1
  <2>2. ASSUME NEW s \in Rule, DeleteRule(s) PROVE FALSE
    BY <1>2, <1>4, <2>2 DEF DeleteRule, RuleRow
  <2>3. ~DeleteOrder
    BY <1>2 DEF DeleteOrder, RuleRow
  <2> QED
    BY <1>0, <1>4, <2>1, <2>2, <2>3, LawSteps
<1> SUFFICES ASSUME NewestOf(r), ~\E u \in User : Apply(u) PROVE NewestOf(r)'
  BY <1>1, <1>3, <1>4 DEF Newest
<1>5. Carries(r) \/ \E v \in Version : ConvertCommit(r, v) \/ ConvertInsert(r, v)
  BY <1>0, Carrying
<1>6. ASSUME NEW q \in Rule, NEW v \in Version, ConvertCommit(q, v) \/ ConvertInsert(q, v)
      PROVE  ~UNCHANGED <<queued, running, open>>
  <2>1. running[q][v] \in Nat /\ running \in [Rule -> [Version -> Nat]] /\ open \in [Rule -> SUBSET Version]
    BY <1>0 DEF Typed, OthersTyped
  <2>2. ConvertCommit(q, v) => running'[q][v] # running[q][v]
    BY <2>1 DEF ConvertCommit, Ends
  <2>3. ConvertInsert(q, v) => open'[q] # open[q]
    BY <2>1 DEF ConvertInsert
  <2> QED
    BY <1>6, <2>2, <2>3
<1>7. CASE UNCHANGED <<rules, queued, running, open>>
  BY <1>0, <1>5, <1>6, <1>7, AloneNewest
<1>8. ASSUME NEW q \in Rule, OnRule(q) PROVE NewestOf(r)'
  <2>1. CASE q = r
    BY <1>0, <1>5, <1>8, <2>1, RuleNewest
  <2>2. CASE q # r
    <3>1. /\ rules'[r] = rules[r] /\ queued'[r] = queued[r]
          /\ running'[r] = running[r] /\ open'[r] = open[r]
      BY <1>0, <1>8, <2>2, RuleTouches DEF Touches, Typed
    <3>2. \A v \in Version : ~ConvertCommit(r, v) /\ ~ConvertInsert(r, v)
      <4>1. /\ running \in [Rule -> [Version -> Nat]] /\ open \in [Rule -> SUBSET Version]
            /\ running[r] \in [Version -> Nat]
        BY <1>0 DEF Typed, OthersTyped
      <4>2. \A v \in Version : ConvertCommit(r, v) => running'[r][v] # running[r][v]
        BY <4>1 DEF ConvertCommit, Ends
      <4>3. \A v \in Version : ConvertInsert(r, v) => open'[r] # open[r]
        BY <4>1 DEF ConvertInsert
      <4> QED
        BY <3>1, <4>2, <4>3
    <3> QED
      BY <1>0, <1>5, <3>1, <3>2, AloneNewest
  <2> QED
    BY <2>1, <2>2
<1>9. CASE DeleteOrder
  BY <1>2, <1>9 DEF DeleteOrder, RuleRow
<1>10. ASSUME NEW u \in User, SwitchRule(u) \/ ConvertRule(u) PROVE NewestOf(r)'
  <2>1. request[u].rule \in Rule /\ Touches(request[u].rule)
    BY <1>0, <1>10, RequestTouches
  <2>2. UNCHANGED <<running, open>>
    BY <1>10 DEF SwitchRule, ConvertRule, Queue, tasks
  <2>3. Carries(r)
    <3>1. running \in [Rule -> [Version -> Nat]] /\ open \in [Rule -> SUBSET Version]
      BY <1>0 DEF Typed, OthersTyped
    <3>2. \A v \in Version : ConvertCommit(r, v) => running'[r][v] # running[r][v]
      BY <3>1 DEF ConvertCommit, Ends
    <3>3. \A v \in Version : ConvertInsert(r, v) => open'[r] # open[r]
      BY <3>1 DEF ConvertInsert
    <3> QED
      BY <1>5, <2>2, <3>2, <3>3
  <2>4. CASE r # request[u].rule
    BY <1>0, <2>1, <2>3, <2>4, AloneNewest DEF Touches
  <2>5. CASE r = request[u].rule /\ SwitchRule(u)
    <3>1. /\ rules'[r].asked = rules[r].asked /\ rules'[r].version = rules[r].version
          /\ rules'[r].converted = rules[r].converted
          /\ UNCHANGED <<queued, running, open>>
      <4>1. /\ UNCHANGED <<queued, running, open>>
            /\ \E s : rules' = [rules EXCEPT ![r].enable = request[u].enable, ![r].status = s]
        BY <2>5 DEF SwitchRule, tasks
      <4> QED
        BY <1>2, <4>1 DEF RuleRow
    <3>2. Newer(r) => Newer(r)'
      BY <3>1 DEF Newer
    <3> QED
      BY <1>0, <2>3, <3>1, <3>2, NewestCarried DEF NewestOf
  <2>6. CASE r = request[u].rule /\ ConvertRule(u)
    <3>1. rules'[r].asked = rules[r].version /\ rules'[r].version = rules[r].version /\ Queue(r)
      BY <1>2, <2>6 DEF ConvertRule, Wait, RuleRow
    <3>2. rules[r].version \in Nat
      BY <1>0, Numbers
    <3> QED
      BY <1>0, <3>1, <3>2, QueuedNewest
  <2> QED
    BY <1>10, <2>4, <2>5, <2>6
<1> QED
  BY <1>0, <1>7, <1>8, <1>9, <1>10, Touched

\* When the conversions of a rule have come to rest, the check points in use were
\* converted from the newest text whose conversion was asked for, or from a newer
\* one, unless a conversion failed, died, was overtaken, or did not see another
\* one's check points, a rule was replaced too early, or a status was written
\* that was not meant.
THEOREM NewestAreConverted == Spec => []NewestConverted
<1>1. Init => Newest
  <2> SUFFICES ASSUME Init, NEW r \in Rule PROVE NewestOf(r)
    BY DEF Newest
  <2>1. rules[r].asked = 0 /\ rules[r].version = 0
    BY DEF Init, Begun
  <2>2. \A c \in CheckPoint : rows[c] # None => rows[c].version \in Nat
    BY TypedInit, Numbers
  <2> QED
    BY <2>1, <2>2 DEF NewestOf, UsedFrom
<1>2. Base /\ Newest /\ [Next]_vars => Newest'
  BY NewestStep
<1>3. Newest => NewestConverted
  <2> SUFFICES ASSUME Newest, Clean, NEW r \in Rule, rules[r].law # "deleted",
                      queued[r] = 0, open[r] = {}, \A v \in Version : running[r][v] = 0,
                      NEW c \in Parents \cap Of(r), rows[c].abandoned = "no"
               PROVE  rows[c].version >= rules[r].asked
    BY DEF NewestConverted, Clean
  <2>1. ~Newer(r)
    BY DEF Newer
  <2> QED
    BY <2>1 DEF Newest, NewestOf, UsedFrom, Parents, Of
<1> QED
  BY <1>1, <1>2, <1>3, BaseAlways, PTL DEF Spec

=============================================================================
