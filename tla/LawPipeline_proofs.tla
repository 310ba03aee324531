------------------------- MODULE LawPipeline_proofs -------------------------
(***************************************************************************)
(* Proofs about LawPipeline, for any number of laws, administrators,       *)
(* requests and faults.                                                    *)
(***************************************************************************)
EXTENDS LawPipeline, TLAPS

\* The stages, and what is read at each.
Stages == {"parse", "fetching", "refetching", "posting", "posted", "answered", "insight",
           "outdated", "split", "splitting", "failed"}
Reads == {"unread", "current", "draft"}
Kind(s, d) ==
    \/ s \in {"parse", "insight", "outdated", "split"} /\ d = "unread"
    \/ /\ s \in {"fetching", "refetching", "posting", "posted", "answered", "splitting"}
       /\ d \in {"current", "draft"}
    \/ s = "failed" /\ d = "draft"

\* Some task or message of l is at stage s, and has read d.
On(l, s, d) == Kind(s, d) /\ flights[Fly(l, s, d)] > 0

\* A flight has a law, a stage and what it has read, and is told by them.
LEMMA FlyIs ==
    /\ \A l \in Law, s \in Stages, d \in Reads : Fly(l, s, d) \in Flight <=> Kind(s, d)
    /\ \A l, m \in Law, s, r \in Stages, d, b \in Reads :
        Fly(l, s, d) = Fly(m, r, b) => l = m /\ s = r /\ d = b
    /\ \A x \in Flight : \E l \in Law, s \in Stages, d \in Reads : x = Fly(l, s, d) /\ Kind(s, d)
<1> USE DEF Fly, Flight, Kind, Waiting, Running, Read, Stages, Reads
<1>1. ASSUME NEW l \in Law, NEW s \in Stages, NEW d \in Reads
      PROVE  Fly(l, s, d) \in Flight <=> Kind(s, d)
  OBVIOUS
<1>2. ASSUME NEW l \in Law, NEW m \in Law, NEW s, NEW r, NEW d, NEW b, Fly(l, s, d) = Fly(m, r, b)
      PROVE  l = m /\ s = r /\ d = b
  BY <1>2
<1>3. ASSUME NEW x \in Flight
      PROVE  \E l \in Law, s \in Stages, d \in Reads : x = Fly(l, s, d) /\ Kind(s, d)
  <2>1. x.law \in Law /\ x.stage \in Stages /\ x.read \in Reads /\ Kind(x.stage, x.read)
    OBVIOUS
  <2>2. x = Fly(x.law, x.stage, x.read)
    OBVIOUS
  <2> QED
    BY <2>1, <2>2
<1> QED
  BY <1>1, <1>2, <1>3

\* Two flights are the same when they say the same.
LEMMA SameFly ==
    ASSUME NEW l \in Law, NEW s \in Stages, NEW d \in Reads,
           NEW m \in Law, NEW r \in Stages, NEW b \in Reads
    PROVE  Fly(m, r, b) = Fly(l, s, d) <=> m = l /\ r = s /\ b = d
BY DEF Fly

\* What a flight that becomes others leaves of the flights.
LEMMA BecomeIs ==
    ASSUME flights \in [Flight -> Nat],
           NEW l \in Law, NEW s \in Stages, NEW d \in Reads, Kind(s, d),
           NEW Y \in SUBSET Flight, Fly(l, s, d) \notin Y,
           Become(Fly(l, s, d), Y)
    PROVE  /\ flights' \in [Flight -> Nat]
           /\ On(l, s, d)
           /\ \A m \in Law, r \in Stages, b \in Reads :
                /\ Fly(m, r, b) \in Y => On(m, r, b)'
                /\ On(m, r, b) /\ ~(m = l /\ r = s /\ b = d) => On(m, r, b)'
                /\ On(m, r, b)' /\ Fly(m, r, b) \notin Y => On(m, r, b)
<1> DEFINE x == Fly(l, s, d)
<1>1. x \in Flight /\ flights[x] > 0 /\ Kind(s, d)
  BY FlyIs DEF Become
<1>2. \A y \in Flight : flights'[y] = (flights[y] + IF y \in Y THEN 1 ELSE 0)
                                       - IF y = x THEN 1 ELSE 0
  BY <1>1 DEF Become
<1>3. flights' = [y \in Flight |-> flights'[y]]
  BY DEF Become
<1> HIDE DEF x
<1>4. \A y \in Flight : flights'[y] \in Nat
  BY <1>1, <1>2
<1>5. \A m \in Law, r \in Stages, b \in Reads :
         /\ Fly(m, r, b) \in Flight <=> Kind(r, b)
         /\ Fly(m, r, b) = x => m = l /\ r = s /\ b = d
  BY FlyIs DEF x
<1>6. \A y \in Flight : /\ y \in Y => flights'[y] > 0
                        /\ flights[y] > 0 /\ y # x => flights'[y] > 0
                        /\ flights'[y] > 0 /\ y \notin Y => flights[y] > 0
  BY <1>1, <1>2 DEF x
<1>7. flights' \in [Flight -> Nat]
  BY <1>3, <1>4
<1>8. ASSUME NEW m \in Law, NEW r \in Stages, NEW b \in Reads
      PROVE  /\ Fly(m, r, b) \in Y => On(m, r, b)'
             /\ On(m, r, b) /\ ~(m = l /\ r = s /\ b = d) => On(m, r, b)'
             /\ On(m, r, b)' /\ Fly(m, r, b) \notin Y => On(m, r, b)
  <2>1. CASE Kind(r, b)
    <3>1. Fly(m, r, b) \in Flight
      BY <1>5, <2>1
    <3> QED
      BY <1>5, <1>6, <2>1, <3>1 DEF On
  <2>2. CASE ~Kind(r, b)
    BY <1>5, <2>2 DEF On
  <2> QED
    BY <2>1, <2>2
<1> QED
  BY <1>1, <1>7, <1>8 DEF On, x

\* The same for a message that is sent.
LEMMA SendIs ==
    ASSUME flights \in [Flight -> Nat], NEW l \in Law, NEW s \in Stages, Kind(s, "unread"), Send(l, s)
    PROVE  /\ flights' \in [Flight -> Nat]
           /\ On(l, s, "unread")'
           /\ \A m \in Law, r \in Stages, b \in Reads :
                /\ On(m, r, b) => On(m, r, b)'
                /\ On(m, r, b)' /\ ~(m = l /\ r = s /\ b = "unread") => On(m, r, b)
<1>0. PICK d \in Reads : d = "unread"
  BY DEF Reads
<1> DEFINE x == Fly(l, s, d)
<1>1. x \in Flight
  BY <1>0, FlyIs
<1>2. flights' = [flights EXCEPT ![x] = flights[x] + 1]
  BY <1>0 DEF Send
<1>3. ASSUME NEW m \in Law, NEW r \in Stages, NEW b \in Reads
      PROVE  /\ Kind(r, b) => Fly(m, r, b) \in Flight
             /\ Fly(m, r, b) = x => m = l /\ r = s /\ b = d
  <2>1. Kind(r, b) => Fly(m, r, b) \in Flight
    BY FlyIs
  <2>2. Fly(m, r, b) = x => m = l /\ r = s /\ b = d
    BY SameFly
  <2> QED
    BY <2>1, <2>2
<1> HIDE DEF x
<1>4. flights[x] + 1 \in Nat /\ flights[x] + 1 > 0
  BY <1>1
<1>5. flights' \in [Flight -> Nat]
  BY <1>1, <1>2, <1>4
<1>6. /\ \A y \in Flight \ {x} : flights'[y] = flights[y]
      /\ flights'[x] > 0
  BY <1>1, <1>2, <1>4
<1>7. On(l, s, "unread")'
  BY <1>0, <1>6 DEF On, x
<1>8. ASSUME NEW m \in Law, NEW r \in Stages, NEW b \in Reads
      PROVE  /\ On(m, r, b) => On(m, r, b)'
             /\ On(m, r, b)' /\ ~(m = l /\ r = s /\ b = d) => On(m, r, b)
  <2>1. Kind(r, b) => Fly(m, r, b) = x \/ flights'[Fly(m, r, b)] = flights[Fly(m, r, b)]
    BY <1>3, <1>6
  <2> QED
    BY <1>3, <1>6, <2>1 DEF On
<1> QED
  BY <1>0, <1>5, <1>7, <1>8

\* And for flights that stay.
LEMMA StayIs ==
    ASSUME flights \in [Flight -> Nat], UNCHANGED flights
    PROVE  /\ flights' \in [Flight -> Nat]
           /\ \A m \in Law, r \in Stages, b \in Reads : On(m, r, b)' <=> On(m, r, b)
BY DEF On

\* What can go wrong is a fault.
LEMMA FailsIs ==
    ASSUME trouble \in SUBSET Fault, NEW fault, Fails(fault)
    PROVE  trouble' \in SUBSET Fault /\ trouble' = trouble \cup {fault}
BY LawPipelineAssumption DEF Fails

\* A flight that ends, one that goes on to stage t, and one that becomes two.
Lasting(l, s, d) ==
    /\ On(l, s, d)
    /\ \A m \in Law, r \in Stages, b \in Reads :
        On(m, r, b) /\ ~(m = l /\ r = s /\ b = d) => On(m, r, b)'

Ended(l, s, d) ==
    /\ Lasting(l, s, d)
    /\ \A m \in Law, r \in Stages, b \in Reads : On(m, r, b)' => On(m, r, b)

WentOn(l, s, d, t, e) ==
    /\ Lasting(l, s, d)
    /\ On(l, t, e)'
    /\ \A m \in Law, r \in Stages, b \in Reads :
        On(m, r, b)' => On(m, r, b) \/ (m = l /\ r = t /\ b = e)

Parted(l, s, d, t, e, v, f) ==
    /\ Lasting(l, s, d)
    /\ On(l, t, e)' /\ On(l, v, f)'
    /\ \A m \in Law, r \in Stages, b \in Reads :
        On(m, r, b)' => \/ On(m, r, b)
                        \/ (m = l /\ r = t /\ b = e)
                        \/ (m = l /\ r = v /\ b = f)

\* Become(x, {}) ends a flight.
LEMMA EndsIs ==
    ASSUME flights \in [Flight -> Nat],
           NEW l \in Law, NEW s \in Stages, NEW d \in Reads, Kind(s, d),
           Become(Fly(l, s, d), {})
    PROVE  flights' \in [Flight -> Nat] /\ Ended(l, s, d)
BY BecomeIs DEF Ended, Lasting

\* With one flight it goes on.
LEMMA GoesOnIs ==
    ASSUME flights \in [Flight -> Nat],
           NEW l \in Law, NEW s \in Stages, NEW d \in Reads, Kind(s, d),
           NEW t \in Stages, NEW e \in Reads, Kind(t, e), t # s,
           Become(Fly(l, s, d), {Fly(l, t, e)})
    PROVE  flights' \in [Flight -> Nat] /\ WentOn(l, s, d, t, e)
<1> DEFINE Y == {Fly(l, t, e)}
<1>1. Y \in SUBSET Flight /\ Fly(l, s, d) \notin Y
  BY FlyIs
<1>2. ASSUME NEW m \in Law, NEW r \in Stages, NEW b \in Reads
      PROVE  Fly(m, r, b) \in Y <=> m = l /\ r = t /\ b = e
  <2>1. Fly(m, r, b) = Fly(l, t, e) <=> m = l /\ r = t /\ b = e
    BY SameFly
  <2> QED
    BY <2>1
<1> HIDE DEF Y
<1>3. Become(Fly(l, s, d), Y)
  BY DEF Y
<1> QED
  BY <1>1, <1>2, <1>3, BecomeIs DEF WentOn, Lasting

\* And with two it parts.
LEMMA PartsIs ==
    ASSUME flights \in [Flight -> Nat],
           NEW l \in Law, NEW s \in Stages, NEW d \in Reads, Kind(s, d),
           NEW t \in Stages, NEW e \in Reads, Kind(t, e), t # s,
           NEW v \in Stages, NEW f \in Reads, Kind(v, f), v # s,
           Become(Fly(l, s, d), {Fly(l, t, e)} \cup {Fly(l, v, f)})
    PROVE  flights' \in [Flight -> Nat] /\ Parted(l, s, d, t, e, v, f)
<1> DEFINE Y == {Fly(l, t, e)} \cup {Fly(l, v, f)}
<1>1. Y \in SUBSET Flight /\ Fly(l, s, d) \notin Y
  BY FlyIs
<1>2. ASSUME NEW m \in Law, NEW r \in Stages, NEW b \in Reads
      PROVE  Fly(m, r, b) \in Y <=> m = l /\ ((r = t /\ b = e) \/ (r = v /\ b = f))
  <2>1. Fly(m, r, b) = Fly(l, t, e) <=> m = l /\ r = t /\ b = e
    BY SameFly
  <2>2. Fly(m, r, b) = Fly(l, v, f) <=> m = l /\ r = v /\ b = f
    BY SameFly
  <2> QED
    BY <2>1, <2>2
<1> HIDE DEF Y
<1>3. Become(Fly(l, s, d), Y)
  BY DEF Y
<1> QED
  BY <1>1, <1>2, <1>3, BecomeIs DEF Parted, Lasting

-----------------------------------------------------------------------------
(* What each task does to the flights. *)

\* A parse task begins, or finds nothing to do.
LEMMA ParseStartIs ==
    ASSUME flights \in [Flight -> Nat], NEW l \in Law, ParseStart(l)
    PROVE  /\ flights' \in [Flight -> Nat]
           /\ \/ /\ Ended(l, "parse", "unread")
                 /\ ~Live(l) \/ status[l] \in AtLeastParsed
              \/ /\ WentOn(l, "parse", "unread", FirstStage(l), IsCurrent(l))
                 /\ FirstStage(l) = "refetching" => status[l] \in AtLeastParsed
<1>1. CASE Become(Fly(l, "parse", "unread"), {})
           /\ (~Live(l) \/ status[l] \in AtLeastParsed)
  BY <1>1, EndsIs DEF Kind, Stages, Reads
<1>2. CASE Become(Fly(l, "parse", "unread"), {Fly(l, FirstStage(l), IsCurrent(l))})
  <2>1. /\ FirstStage(l) \in {"fetching", "refetching", "posting"} /\ FirstStage(l) # "parse"
        /\ IsCurrent(l) \in {"current", "draft"}
        /\ FirstStage(l) = "refetching" => status[l] \in AtLeastParsed
    BY DEF FirstStage, IsCurrent
  <2>2. Kind(FirstStage(l), IsCurrent(l)) /\ FirstStage(l) \in Stages /\ IsCurrent(l) \in Reads
    BY <2>1 DEF Kind, Stages, Reads
  <2>3. "parse" \in Stages /\ "unread" \in Reads /\ Kind("parse", "unread")
    BY DEF Kind, Stages, Reads
  <2> HIDE DEF IsCurrent, FirstStage
  <2> QED
    BY <1>2, <2>1, <2>2, <2>3, GoesOnIs
<1> QED
  BY <1>1, <1>2 DEF ParseStart

\* A failure: the order is told where the law was read as a draft.
LEMMA ReportedIs ==
    ASSUME flights \in [Flight -> Nat], NEW l \in Law, NEW s \in Stages, s # "failed",
           NEW d \in {"current", "draft"}, Kind(s, d), Become(Fly(l, s, d), Reported(l, d))
    PROVE  /\ flights' \in [Flight -> Nat]
           /\ \/ d = "current" /\ Ended(l, s, d)
              \/ d = "draft" /\ WentOn(l, s, d, "failed", "draft")
<1>1. CASE d = "current"
  <2>1. Become(Fly(l, s, d), {})
    BY <1>1 DEF Reported
  <2>2. d \in Reads
    BY <1>1 DEF Reads
  <2> QED
    BY <1>1, <2>1, <2>2, EndsIs DEF Kind
<1>2. CASE d = "draft"
  <2>1. Become(Fly(l, s, d), {Fly(l, "failed", "draft")})
    BY <1>2 DEF Reported
  <2>2. d \in Reads /\ "draft" \in Reads /\ "failed" \in Stages
    BY <1>2 DEF Reads, Stages
  <2> QED
    BY <1>2, <2>1, <2>2, GoesOnIs DEF Kind
<1> QED
  BY <1>1, <1>2

\* The parser takes the request.
LEMMA ParsePostIs ==
    ASSUME flights \in [Flight -> Nat], NEW l \in Law, NEW d \in {"current", "draft"}, ParsePost(l, d)
    PROVE  /\ flights' \in [Flight -> Nat]
           /\ WentOn(l, "posting", d, "posted", d)
<1>1. Become(Fly(l, "posting", d), {Fly(l, "posted", d)})
  BY DEF ParsePost
<1>2. "posting" \in Stages /\ "posted" \in Stages /\ d \in Reads /\ d \in Reads
  BY DEF Stages, Reads
<1> QED
  BY <1>1, <1>2, GoesOnIs DEF Kind

\* The request fails, at once or while the parser has it.
LEMMA ParseFailsIs ==
    ASSUME flights \in [Flight -> Nat], NEW l \in Law, NEW d \in {"current", "draft"}, ParseFails(l, d)
    PROVE  /\ flights' \in [Flight -> Nat]
           /\ \/ d = "current" /\ Ended(l, "posting", d)
              \/ d = "current" /\ WentOn(l, "posting", d, "insight", "unread")
              \/ d = "draft" /\ WentOn(l, "posting", d, "failed", "draft")
              \/ d = "draft" /\ Parted(l, "posting", d, "failed", "draft", "insight", "unread")
<1>1. /\ "posting" \in Stages /\ "failed" \in Stages /\ "insight" \in Stages
      /\ "unread" \in Reads /\ "draft" \in Reads /\ d \in Reads
  BY DEF Stages, Reads
<1>2. CASE Become(Fly(l, "posting", d), Reported(l, d))
  BY <1>1, <1>2, ReportedIs DEF Kind
<1>3. CASE /\ Become(Fly(l, "posting", d), Reported(l, d) \cup {Fly(l, "insight", "unread")})
           /\ d = "current"
  <2>1. Reported(l, d) \cup {Fly(l, "insight", "unread")} = {Fly(l, "insight", "unread")}
    BY <1>3 DEF Reported
  <2>2. Become(Fly(l, "posting", d), {Fly(l, "insight", "unread")})
    BY <1>3, <2>1
  <2> QED
    BY <1>1, <1>3, <2>2, GoesOnIs DEF Kind
<1>4. CASE /\ Become(Fly(l, "posting", d), Reported(l, d) \cup {Fly(l, "insight", "unread")})
           /\ d = "draft"
  <2>1. Reported(l, d) = {Fly(l, "failed", "draft")}
    BY <1>4 DEF Reported
  <2>2. Become(Fly(l, "posting", d),
               {Fly(l, "failed", "draft")} \cup {Fly(l, "insight", "unread")})
    BY <1>4, <2>1
  <2> QED
    BY <1>1, <1>4, <2>2, PartsIs DEF Kind
<1> QED
  BY <1>2, <1>3, <1>4 DEF ParseFails

\* PARSING is written.
LEMMA ParseRecordIs ==
    ASSUME flights \in [Flight -> Nat], NEW l \in Law, NEW d \in {"current", "draft"}, ParseRecord(l, d)
    PROVE  /\ flights' \in [Flight -> Nat]
           /\ WentOn(l, "posted", d, "insight", "unread") \/ Ended(l, "answered", d)
<1>1. /\ "posted" \in Stages /\ "insight" \in Stages /\ "answered" \in Stages
      /\ "unread" \in Reads /\ d \in Reads
  BY DEF Stages, Reads
<1>2. CASE Become(Fly(l, "posted", d), {Fly(l, "insight", "unread")})
  BY <1>1, <1>2, GoesOnIs DEF Kind
<1>3. CASE Become(Fly(l, "answered", d), {})
  BY <1>1, <1>3, EndsIs DEF Kind
<1> QED
  BY <1>2, <1>3 DEF ParseRecord

\* The document is there.
LEMMA FetchIs ==
    ASSUME flights \in [Flight -> Nat], NEW l \in Law, NEW d \in {"current", "draft"}, Fetch(l, d)
    PROVE  /\ flights' \in [Flight -> Nat]
           /\ WentOn(l, "fetching", d, "split", "unread")
<1>1. Become(Fly(l, "fetching", d), {Fly(l, "split", "unread")})
  BY DEF Fetch, Onward
<1>2. "fetching" \in Stages /\ "split" \in Stages /\ d \in Reads /\ "unread" \in Reads
  BY DEF Stages, Reads
<1> QED
  BY <1>1, <1>2, GoesOnIs DEF Kind

\* A page has changed: the task goes on to be posted or ends, the requests at
\* the parser are outdated.
Outdating(l, s, d) ==
    /\ On(l, s, d)
    /\ \A m \in Law \ {l}, r \in Stages, b \in Reads : On(m, r, b)' <=> On(m, r, b)
    /\ \A r \in Stages, b \in Reads :
        On(l, r, b)' => \/ On(l, r, b)
                        \/ r = "outdated" /\ b = "unread"
                        \/ s = "fetching" /\ r = "posting" /\ b = d

\* What becomes of the flights then.
LEMMA OutdatingIs ==
    ASSUME flights \in [Flight -> Nat], NEW l \in Law, NEW d \in {"current", "draft"},
           NEW s \in {"fetching", "refetching"}, NEW Y,
           Y = {} \/ (s = "fetching" /\ Y = {Fly(l, "posting", d)}),
           BecomeOutdating(l, Fly(l, s, d), Y)
    PROVE  flights' \in [Flight -> Nat] /\ Outdating(l, s, d)
<1> DEFINE x == Fly(l, s, d)
           at == Fly(l, "insight", "unread")
           out == Fly(l, "outdated", "unread")
           post == Fly(l, "posting", d)
<1>1. /\ Kind(s, d) /\ Kind("insight", "unread") /\ Kind("outdated", "unread") /\ Kind("posting", d)
      /\ s \in Stages /\ d \in Reads /\ "insight" \in Stages /\ "outdated" \in Stages
      /\ "posting" \in Stages /\ "unread" \in Reads /\ s # "insight" /\ s # "outdated"
      /\ s # "posting"
  BY DEF Kind, Stages, Reads
<1>2. x \in Flight /\ at \in Flight /\ out \in Flight /\ post \in Flight
  BY <1>1, FlyIs
<1>3. x # at /\ x # out /\ at # out /\ x # post
  BY <1>1, FlyIs
<1>4. /\ flights[x] > 0
      /\ flights' = [y \in Flight |->
                      IF y = at THEN 0
                      ELSE IF y = out THEN flights[out] + flights[at]
                      ELSE (flights[y] + IF y \in Y THEN 1 ELSE 0) - IF y = x THEN 1 ELSE 0]
  BY DEF BecomeOutdating
<1>5. ASSUME NEW m \in Law, NEW r \in Stages, NEW b \in Reads
      PROVE  /\ Fly(m, r, b) \in Flight <=> Kind(r, b)
             /\ Fly(m, r, b) = x => m = l
             /\ Fly(m, r, b) = at => m = l
             /\ Fly(m, r, b) = out => m = l /\ r = "outdated" /\ b = "unread"
             /\ Fly(m, r, b) = post => m = l /\ r = "posting" /\ b = d
  <2>1. Fly(m, r, b) \in Flight <=> Kind(r, b)
    BY FlyIs
  <2>2. (Fly(m, r, b) = x => m = l) /\ (Fly(m, r, b) = at => m = l)
    BY <1>1, SameFly
  <2>3. Fly(m, r, b) = out => m = l /\ r = "outdated" /\ b = "unread"
    BY <1>1, SameFly
  <2>4. Fly(m, r, b) = post => m = l /\ r = "posting" /\ b = d
    BY <1>1, SameFly
  <2> QED
    BY <2>1, <2>2, <2>3, <2>4
<1>6. Y = {} \/ (s = "fetching" /\ Y = {post})
  OBVIOUS
<1> HIDE DEF x, at, out, post
<1>7. \A y \in Flight : /\ flights'[y] \in Nat
                        /\ y \notin {x, at, out, post} => flights'[y] = flights[y]
                        /\ flights'[y] > 0 => \/ flights[y] > 0
                                              \/ y = out
                                              \/ y = post /\ s = "fetching"
  BY <1>2, <1>3, <1>4, <1>6
<1>8. flights' \in [Flight -> Nat]
  BY <1>4, <1>7
<1>9. On(l, s, d)
  BY <1>1, <1>4 DEF On, x
<1>10. ASSUME NEW m \in Law \ {l}, NEW r \in Stages, NEW b \in Reads
       PROVE  On(m, r, b)' <=> On(m, r, b)
  <2>1. CASE Kind(r, b)
    BY <1>5, <1>7, <2>1 DEF On
  <2>2. CASE ~Kind(r, b)
    BY <2>2 DEF On
  <2> QED
    BY <2>1, <2>2
<1>11. ASSUME NEW r \in Stages, NEW b \in Reads, On(l, r, b)'
       PROVE  \/ On(l, r, b)
              \/ r = "outdated" /\ b = "unread"
              \/ s = "fetching" /\ r = "posting" /\ b = d
  <2>1. Kind(r, b) /\ flights'[Fly(l, r, b)] > 0
    BY <1>11 DEF On
  <2>2. Fly(l, r, b) \in Flight
    BY <1>5, <2>1
  <2> QED
    BY <1>5, <1>7, <2>1, <2>2 DEF On
<1> QED
  BY <1>8, <1>9, <1>10, <1>11 DEF Outdating

\* A page is fetched.
LEMMA FetchPageIs ==
    ASSUME flights \in [Flight -> Nat], NEW l \in Law, NEW d \in {"current", "draft"}, FetchPage(l, d)
    PROVE  /\ flights' \in [Flight -> Nat]
           /\ \/ WentOn(l, "fetching", d, "posting", d)
              \/ Ended(l, "refetching", d)
              \/ /\ Fails("changed")
                 /\ \E s \in {"fetching", "refetching"} : Outdating(l, s, d)
<1>1. PICK s \in {"fetching", "refetching"} :
        LET Y == IF s = "fetching" THEN {Fly(l, "posting", d)} ELSE {}
        IN  \/ Become(Fly(l, s, d), Y)
            \/ Fails("changed") /\ BecomeOutdating(l, Fly(l, s, d), Y)
  <2>1. Fly(l, "fetching", d).stage = "fetching" /\ Fly(l, "refetching", d).stage = "refetching"
    BY DEF Fly
  <2> QED
    BY <2>1 DEF FetchPage
<1>2. /\ Kind("fetching", d) /\ Kind("posting", d) /\ Kind("refetching", d) /\ d \in Reads
      /\ "fetching" \in Stages /\ "posting" \in Stages /\ "refetching" \in Stages
  BY DEF Kind, Stages, Reads
<1>3. CASE s = "fetching" /\ Become(Fly(l, s, d), {Fly(l, "posting", d)})
  BY <1>2, <1>3, GoesOnIs
<1>4. CASE s = "refetching" /\ Become(Fly(l, s, d), {})
  BY <1>2, <1>4, EndsIs
<1>5. CASE /\ s = "fetching" /\ Fails("changed")
           /\ BecomeOutdating(l, Fly(l, s, d), {Fly(l, "posting", d)})
  BY <1>5, OutdatingIs
<1>6. CASE /\ s = "refetching" /\ Fails("changed")
           /\ BecomeOutdating(l, Fly(l, s, d), {})
  BY <1>6, OutdatingIs
<1> QED
  BY <1>1, <1>3, <1>4, <1>5, <1>6

\* Chatdoc has no document.
LEMMA FetchFailsIs ==
    ASSUME flights \in [Flight -> Nat], NEW l \in Law, NEW d \in {"current", "draft"}, FetchFails(l, d)
    PROVE  /\ flights' \in [Flight -> Nat]
           /\ \E s \in {"fetching", "refetching"} :
                \/ d = "current" /\ Ended(l, s, d)
                \/ d = "draft" /\ WentOn(l, s, d, "failed", "draft")
<1>1. PICK s \in {"fetching", "refetching"} : Become(Fly(l, s, d), Reported(l, d))
  BY DEF FetchFails
<1>2. s \in Stages /\ Kind(s, d) /\ s # "failed"
  BY DEF Kind, Stages
<1> QED
  BY <1>1, <1>2, ReportedIs

\* The order is told.
LEMMA ReportIs ==
    ASSUME flights \in [Flight -> Nat], NEW l \in Law, Report(l)
    PROVE  /\ flights' \in [Flight -> Nat]
           /\ Ended(l, "failed", "draft")
<1>1. Become(Fly(l, "failed", "draft"), {})
  BY DEF Report
<1>2. "failed" \in Stages /\ "draft" \in Reads
  BY DEF Stages, Reads
<1> QED
  BY <1>1, <1>2, EndsIs DEF Kind

\* The parser answers.
LEMMA CallbackIs ==
    ASSUME flights \in [Flight -> Nat], NEW l \in Law, Callback(l)
    PROVE  /\ flights' \in [Flight -> Nat]
           /\ \/ ~Live(l) /\ Ended(l, "insight", "unread")
              \/ Live(l) /\ WentOn(l, "insight", "unread", "split", "unread")
<1>1. "insight" \in Stages /\ "split" \in Stages /\ "unread" \in Reads
  BY DEF Stages, Reads
<1>2. CASE ~Live(l)
  <2>1. Become(Fly(l, "insight", "unread"), {})
    BY <1>2 DEF Callback, Answer
  <2> QED
    BY <1>1, <1>2, <2>1, EndsIs DEF Kind
<1>3. CASE Live(l)
  <2>1. Become(Fly(l, "insight", "unread"), {Fly(l, "split", "unread")})
    BY <1>3 DEF Callback, Answer, Onward
  <2> QED
    BY <1>1, <1>3, <2>1, GoesOnIs DEF Kind
<1> QED
  BY <1>2, <1>3

\* It answers before PARSING is written.
LEMMA EarlyCallbackIs ==
    ASSUME flights \in [Flight -> Nat], NEW l \in Law, NEW d \in {"current", "draft"}, EarlyCallback(l, d)
    PROVE  /\ flights' \in [Flight -> Nat]
           /\ \/ WentOn(l, "posted", d, "answered", d)
              \/ Live(l) /\ Parted(l, "posted", d, "answered", d, "split", "unread")
<1>1. /\ "posted" \in Stages /\ "split" \in Stages /\ "answered" \in Stages
      /\ "unread" \in Reads /\ d \in Reads
  BY DEF Stages, Reads
<1>2. CASE ~Live(l)
  <2>1. Become(Fly(l, "posted", d), {Fly(l, "answered", d)})
    BY <1>2 DEF EarlyCallback, Answer
  <2> QED
    BY <1>1, <2>1, GoesOnIs DEF Kind
<1>3. CASE Live(l)
  <2>1. Become(Fly(l, "posted", d), {Fly(l, "answered", d)} \cup {Fly(l, "split", "unread")})
    BY <1>3 DEF EarlyCallback, Answer, Onward
  <2> QED
    BY <1>1, <1>3, <2>1, PartsIs DEF Kind
<1> QED
  BY <1>2, <1>3

\* It answers without a document.
LEMMA CallbackFailsIs ==
    ASSUME flights \in [Flight -> Nat], NEW l \in Law, CallbackFails(l)
    PROVE  /\ flights' \in [Flight -> Nat]
           /\ Ended(l, "insight", "unread")
<1>1. Become(Fly(l, "insight", "unread"), {})
  BY DEF CallbackFails
<1>2. "insight" \in Stages /\ "unread" \in Reads
  BY DEF Stages, Reads
<1> QED
  BY <1>1, <1>2, EndsIs DEF Kind

\* It answers for a page that has changed.
LEMMA CallbackRefusedIs ==
    ASSUME flights \in [Flight -> Nat], NEW l \in Law, CallbackRefused(l)
    PROVE  /\ flights' \in [Flight -> Nat]
           /\ Ended(l, "outdated", "unread")
<1>1. Become(Fly(l, "outdated", "unread"), {})
  BY DEF CallbackRefused
<1>2. "outdated" \in Stages /\ "unread" \in Reads
  BY DEF Stages, Reads
<1> QED
  BY <1>1, <1>2, EndsIs DEF Kind

\* The split begins.
LEMMA SplitStartIs ==
    ASSUME flights \in [Flight -> Nat], NEW l \in Law, SplitStart(l)
    PROVE  /\ flights' \in [Flight -> Nat]
           /\ \/ ~(Live(l) /\ doc[l]) /\ Ended(l, "split", "unread")
              \/ /\ Live(l) /\ doc[l]
                 /\ WentOn(l, "split", "unread", "splitting", IsCurrent(l))
<1>1. /\ "split" \in Stages /\ "splitting" \in Stages /\ "unread" \in Reads
      /\ IsCurrent(l) \in Reads
      /\ Kind("split", "unread") /\ Kind("splitting", IsCurrent(l))
  BY DEF Stages, Reads, IsCurrent, Kind
<1>2. CASE ~(Live(l) /\ doc[l])
  <2>1. Become(Fly(l, "split", "unread"), {})
    BY <1>2 DEF SplitStart
  <2> QED
    BY <1>1, <1>2, <2>1, EndsIs
<1>3. CASE Live(l) /\ doc[l]
  <2>1. Become(Fly(l, "split", "unread"), {Fly(l, "splitting", IsCurrent(l))})
    BY <1>3 DEF SplitStart
  <2> HIDE DEF IsCurrent
  <2> QED
    BY <1>1, <1>3, <2>1, GoesOnIs
<1> QED
  BY <1>2, <1>3

\* It ends with rules.
LEMMA SplitCommitIs ==
    ASSUME flights \in [Flight -> Nat], NEW l \in Law, NEW d \in {"current", "draft"}, SplitCommit(l, d)
    PROVE  /\ flights' \in [Flight -> Nat]
           /\ Ended(l, "splitting", d)
<1>1. Become(Fly(l, "splitting", d), {})
  BY DEF SplitCommit
<1>2. "splitting" \in Stages /\ d \in Reads
  BY DEF Stages, Reads
<1> QED
  BY <1>1, <1>2, EndsIs DEF Kind

\* Or without.
LEMMA SplitFailsIs ==
    ASSUME flights \in [Flight -> Nat], NEW l \in Law, NEW d \in {"current", "draft"}, SplitFails(l, d)
    PROVE  /\ flights' \in [Flight -> Nat]
           /\ \/ d = "current" /\ Ended(l, "splitting", d)
              \/ d = "draft" /\ WentOn(l, "splitting", d, "failed", "draft")
<1>1. Become(Fly(l, "splitting", d), Reported(l, d))
  BY DEF SplitFails
<1>2. "splitting" \in Stages
  BY DEF Stages
<1> QED
  BY <1>1, <1>2, ReportedIs DEF Kind

-----------------------------------------------------------------------------
(* Types. *)

\* A status that is written is a status.
LEMMA StatusType ==
    ASSUME status \in [Law -> LawStatus], NEW l \in Law, NEW s \in LawStatus, SetStatus(l, s)
    PROVE  /\ status' \in [Law -> LawStatus]
           /\ status'[l] = s
           /\ \A m \in Law : m # l => status'[m] = status[m]
BY DEF SetStatus

\* What a law's status is called.
LEMMA StatusNames ==
    LawStatus = {"INIT", "PENDING", "PARSING", "PARSED", "SPLITTING", "SPLIT",
                 "PARSE_FAIL", "FETCH_FAIL", "SPLIT_FAIL"}
BY DEF LawStatus, InProgress, Failed

\* A request that begins.
LEMMA BeginIs ==
    ASSUME request \in [User -> Request \cup {None}], refresh \in LawRefreshStatus,
           NEW u \in User, NEW op \in Op, NEW S \in SUBSET Law, NEW T \in SUBSET Law,
           Begin(u, op, S, T)
    PROVE  /\ request' \in [User -> Request \cup {None}]
           /\ request'[u] # None /\ request'[u].op = op
           /\ request'[u].laws = S /\ request'[u].others = T
           /\ \A v \in User \ {u} : request'[v] = request[v]
<1> DEFINE q == [op |-> op, laws |-> S, others |-> T,
                was |-> IF op = "refresh" THEN refresh ELSE "INIT"]
<1>1. q \in Request /\ q.op = op /\ q.laws = S /\ q.others = T
  BY DEF Request, LawRefreshStatus
<1>2. request' = [request EXCEPT ![u] = q]
  BY DEF Begin
<1> HIDE DEF q
<1>3. request'[u] = q /\ \A v \in User \ {u} : request'[v] = request[v]
  BY <1>2
<1> QED
  BY <1>1, <1>2, <1>3, LawPipelineAssumption

\* One that ends.
LEMMA EndIs ==
    ASSUME request \in [User -> Request \cup {None}], NEW u \in User, End(u)
    PROVE  /\ request' \in [User -> Request \cup {None}]
           /\ request'[u] = None
           /\ \A v \in User \ {u} : request'[v] = request[v]
BY DEF End

\* One that has sent the task of a law ends with it or goes on without it.
LEMMA SentIs ==
    ASSUME request \in [User -> Request \cup {None}], NEW u \in User, request[u] # None,
           NEW l \in Law, Sent(u, l)
    PROVE  /\ request' \in [User -> Request \cup {None}]
           /\ \/ request'[u] = None /\ request[u].laws \subseteq {l}
              \/ /\ request'[u] # None /\ request'[u].op = request[u].op
                 /\ request'[u].laws = request[u].laws \ {l}
                 /\ request'[u].others = request[u].others \ {l}
           /\ \A v \in User \ {u} : request'[v] = request[v]
<1> DEFINE q == [request[u] EXCEPT !.laws = @ \ {l}, !.others = @ \ {l}]
<1>1. request[u] \in Request
  OBVIOUS
<1>2. /\ q \in Request /\ q.op = request[u].op
      /\ q.laws = request[u].laws \ {l} /\ q.others = request[u].others \ {l}
  BY <1>1 DEF Request
<1>3. CASE request[u].laws \cup request[u].others = {l}
  <2>1. request' = [request EXCEPT ![u] = None]
    BY <1>3 DEF Sent
  <2> QED
    BY <1>3, <2>1
<1>4. CASE request[u].laws \cup request[u].others # {l}
  <2>1. request' = [request EXCEPT ![u] = q]
    BY <1>4 DEF Sent
  <2> HIDE DEF q
  <2>2. request'[u] = q /\ \A v \in User \ {u} : request'[v] = request[v]
    BY <2>1
  <2> QED
    BY <1>2, <2>1, <2>2, LawPipelineAssumption
<1> QED
  BY <1>3, <1>4

\* Every step keeps the types.
LEMMA TypeStep ==
    TypeOK /\ [Next]_vars => TypeOK'
<1> SUFFICES ASSUME TypeOK, [Next]_vars PROVE TypeOK'
  OBVIOUS
<1> USE DEF TypeOK
<1>1. ASSUME NEW l \in Law, ParseStart(l) PROVE TypeOK'
  <2>1. flights' \in [Flight -> Nat]
    BY <1>1, ParseStartIs
  <2> QED
    BY <1>1, <2>1 DEF ParseStart, laws, users
<1>2. ASSUME NEW l \in Law, NEW d \in {"current", "draft"}, ParsePost(l, d) PROVE TypeOK'
  <2>1. flights' \in [Flight -> Nat]
    BY <1>2, ParsePostIs
  <2> QED
    BY <1>2, <2>1 DEF ParsePost, laws, users
<1>3. ASSUME NEW l \in Law, NEW d \in {"current", "draft"}, ParseFails(l, d) PROVE TypeOK'
  <2>1. flights' \in [Flight -> Nat]
    BY <1>3, ParseFailsIs
  <2>2. trouble' \in SUBSET Fault
    BY <1>3, FailsIs DEF ParseFails
  <2> QED
    BY <1>3, <2>1, <2>2, StatusNames DEF ParseFails, SetStatus, users
<1>4. ASSUME NEW l \in Law, NEW d \in {"current", "draft"}, ParseRecord(l, d) PROVE TypeOK'
  <2>1. flights' \in [Flight -> Nat]
    BY <1>4, ParseRecordIs
  <2> QED
    BY <1>4, <2>1, StatusNames DEF ParseRecord, SetStatus, users
<1>5. ASSUME NEW l \in Law, NEW d \in {"current", "draft"}, Fetch(l, d) PROVE TypeOK'
  <2>1. flights' \in [Flight -> Nat]
    BY <1>5, FetchIs
  <2> QED
    BY <1>5, <2>1, StatusNames DEF Fetch, SetStatus, users
<1>6. ASSUME NEW l \in Law, NEW d \in {"current", "draft"}, FetchFails(l, d) PROVE TypeOK'
  <2>1. flights' \in [Flight -> Nat]
    BY <1>6, FetchFailsIs
  <2>2. trouble' \in SUBSET Fault
    BY <1>6, FailsIs DEF FetchFails
  <2> QED
    BY <1>6, <2>1, <2>2, StatusNames DEF FetchFails, SetStatus, users
<1>7. ASSUME NEW l \in Law, Report(l) PROVE TypeOK'
  <2>1. flights' \in [Flight -> Nat]
    BY <1>7, ReportIs
  <2> QED
    BY <1>7, <2>1 DEF Report, laws, users, LawRefreshStatus
<1>8. ASSUME NEW l \in Law, Callback(l) PROVE TypeOK'
  <2>1. flights' \in [Flight -> Nat]
    BY <1>8, CallbackIs
  <2> QED
    BY <1>8, <2>1, StatusNames DEF Callback, SetStatus, users, Answer
<1>9. ASSUME NEW l \in Law, NEW d \in {"current", "draft"}, EarlyCallback(l, d) PROVE TypeOK'
  <2>1. flights' \in [Flight -> Nat]
    BY <1>9, EarlyCallbackIs
  <2>2. trouble' \in SUBSET Fault
    BY <1>9, FailsIs DEF EarlyCallback
  <2> QED
    BY <1>9, <2>1, <2>2, StatusNames DEF EarlyCallback, SetStatus, users, Answer
<1>10. ASSUME NEW l \in Law, CallbackFails(l) PROVE TypeOK'
  <2>1. flights' \in [Flight -> Nat]
    BY <1>10, CallbackFailsIs
  <2>2. trouble' \in SUBSET Fault
    BY <1>10, FailsIs DEF CallbackFails
  <2> QED
    BY <1>10, <2>1, <2>2, StatusNames DEF CallbackFails, SetStatus, users
<1>11. ASSUME NEW l \in Law, SplitStart(l) PROVE TypeOK'
  <2>1. flights' \in [Flight -> Nat]
    BY <1>11, SplitStartIs
  <2> QED
    BY <1>11, <2>1, StatusNames DEF SplitStart, SetStatus, users
<1>12. ASSUME NEW l \in Law, NEW d \in {"current", "draft"}, SplitCommit(l, d) PROVE TypeOK'
  <2>1. flights' \in [Flight -> Nat]
    BY <1>12, SplitCommitIs
  <2> QED
    BY <1>12, <2>1, StatusNames DEF SplitCommit, SetStatus, users, ReplaceRules, Comparisons, DiffStage
<1>13. ASSUME NEW l \in Law, NEW d \in {"current", "draft"}, SplitFails(l, d) PROVE TypeOK'
  <2>1. flights' \in [Flight -> Nat]
    BY <1>13, SplitFailsIs
  <2>2. trouble' \in SUBSET Fault
    BY <1>13, FailsIs DEF SplitFails
  <2> QED
    BY <1>13, <2>1, <2>2, StatusNames DEF SplitFails, SetStatus, users
<1>28. ASSUME NEW l \in Law, NEW d \in {"current", "draft"}, FetchPage(l, d) PROVE TypeOK'
  <2>1. flights' \in [Flight -> Nat]
    BY <1>28, FetchPageIs
  <2>2. trouble' \in SUBSET Fault
    BY <1>28, FailsIs DEF FetchPage
  <2> QED
    BY <1>28, <2>1, <2>2 DEF FetchPage, laws, users
<1>29. ASSUME NEW l \in Law, CallbackRefused(l) PROVE TypeOK'
  <2>1. flights' \in [Flight -> Nat]
    BY <1>29, CallbackRefusedIs
  <2> QED
    BY <1>29, <2>1 DEF CallbackRefused, laws, users
<1>14. ASSUME DiffCheck PROVE TypeOK'
  BY <1>14 DEF DiffCheck, DiffEnd, DiffMove, DiffStage, laws, users
<1>15. ASSUME DiffCompare PROVE TypeOK'
  <2>1. trouble' \in SUBSET Fault
    BY <1>15, FailsIs DEF DiffCompare
  <2> QED
    BY <1>15, <2>1 DEF DiffCompare, DiffEnd, DiffMove, DiffStage, laws, users
<1>16. ASSUME DiffWrite PROVE TypeOK'
  <2>1. PICK s \in DiffStage : DiffEnd(s)
    BY <1>16 DEF DiffWrite, DiffStage
  <2>2. diffs' \in [DiffStage -> Nat]
    BY <1>16, <2>1 DEF DiffEnd
  <2>3. refresh' \in LawRefreshStatus
    BY <1>16 DEF DiffWrite, LawRefreshStatus
  <2> QED
    BY <1>16, <2>2, <2>3 DEF DiffWrite, laws, users
<1>17. ASSUME NEW u \in User, Create(u) PROVE TypeOK'
  <2>1. PICK S \in SUBSET Law :
           /\ alive' = [l \in Law |-> IF l \in S THEN "live" ELSE alive[l]]
           /\ AddLaws(S, TRUE)
           /\ Begin(u, "dispatch", S, {})
    BY <1>17 DEF Create
  <2>0. "dispatch" \in Op /\ {} \in SUBSET Law
    BY DEF Op
  <2>2. request' \in [User -> Request \cup {None}]
    BY <2>0, <2>1, BeginIs
  <2> QED
    BY <1>17, <2>1, <2>2, StatusNames DEF Create, AddLaws, tasks
<1>18. ASSUME NEW u \in User, Dispatch(u) PROVE TypeOK'
  <2>1. request[u] # None /\ request[u] \in Request
    BY <1>18 DEF Dispatch, Asked
  <2>2. PICK l \in Law : Send(l, "parse") /\ Sent(u, l)
    BY <1>18, <2>1 DEF Dispatch, Request
  <2>3. request' \in [User -> Request \cup {None}]
    BY <2>1, <2>2, SentIs
  <2>4. flights' \in [Flight -> Nat]
    BY <2>2, SendIs DEF Kind, Stages
  <2> QED
    BY <1>18, <2>3, <2>4 DEF Dispatch, laws
<1>19. ASSUME NEW u \in User, Ask(u) PROVE TypeOK'
  <2>1. \E op \in Op, S \in SUBSET Law, T \in SUBSET Law : Begin(u, op, S, T)
    BY <1>19 DEF Ask, Op, Currents, Drafts
  <2>2. request' \in [User -> Request \cup {None}]
    BY <2>1, BeginIs
  <2> QED
    BY <1>19, <2>2 DEF Ask, laws, tasks
<1>20. ASSUME NEW u \in User, Trigger(u) PROVE TypeOK'
  <2>0. request[u] # None /\ request[u] \in Request
    BY <1>20 DEF Trigger, Asked
  <2>1. CASE \E l \in request[u].laws :
               SetStatus(l, "PENDING") /\ Send(l, "parse") /\ Sent(u, l)
    <3>1. PICK l \in Law : SetStatus(l, "PENDING") /\ Send(l, "parse") /\ Sent(u, l)
      BY <2>0, <2>1 DEF Request
    <3>2. request' \in [User -> Request \cup {None}]
      BY <2>0, <3>1, SentIs
    <3>3. flights' \in [Flight -> Nat]
      BY <3>1, SendIs DEF Kind, Stages
    <3> QED
      BY <1>20, <3>1, <3>2, <3>3, StatusNames DEF Trigger, SetStatus
  <2>2. CASE \E l \in request[u].others :
               Send(l, "split") /\ Sent(u, l) /\ UNCHANGED status
    <3>1. PICK l \in Law : Send(l, "split") /\ Sent(u, l)
      BY <2>0, <2>2 DEF Request
    <3>2. request' \in [User -> Request \cup {None}]
      BY <2>0, <3>1, SentIs
    <3>3. flights' \in [Flight -> Nat]
      BY <3>1, SendIs DEF Kind, Stages
    <3> QED
      BY <1>20, <2>2, <3>2, <3>3 DEF Trigger
  <2>3. CASE End(u) /\ UNCHANGED <<status, flights>>
    BY <1>20, <2>3, EndIs DEF Trigger
  <2> QED
    BY <1>20, <2>1, <2>2, <2>3 DEF Trigger
<1>21. ASSUME NEW u \in User, Refresh(u) PROVE TypeOK'
  <2>1. PICK S \in SUBSET Law :
           /\ alive' = [l \in Law |-> IF l \in S THEN "live"
                                      ELSE IF l \in request[u].laws THEN "deleted" ELSE alive[l]]
           /\ rules' = [l \in Law |-> IF l \in request[u].laws THEN 0 ELSE rules[l]]
           /\ AddLaws(S, FALSE)
           /\ Begin(u, "dispatch", S, {})
    BY <1>21 DEF Refresh
  <2>0. "dispatch" \in Op /\ {} \in SUBSET Law
    BY DEF Op
  <2>2. request' \in [User -> Request \cup {None}]
    BY <2>0, <2>1, BeginIs
  <2> QED
    BY <1>21, <2>1, <2>2, StatusNames DEF Refresh, AddLaws, tasks, LawRefreshStatus
<1>22. ASSUME NEW u \in User, RefreshRefused(u) PROVE TypeOK'
  <2>1. request' \in [User -> Request \cup {None}]
    BY <1>22, EndIs DEF RefreshRefused
  <2> QED
    BY <1>22, <2>1 DEF RefreshRefused, DeleteLaws, tasks, LawRefreshStatus
<1>23. ASSUME NEW u \in User, Revert(u) PROVE TypeOK'
  <2>1. request' \in [User -> Request \cup {None}]
    BY <1>23, EndIs DEF Revert
  <2> QED
    BY <1>23, <2>1 DEF Revert, DeleteLaws, tasks, LawRefreshStatus
<1>24. ASSUME NEW u \in User, Apply(u) PROVE TypeOK'
  <2>1. request' \in [User -> Request \cup {None}]
    BY <1>24, EndIs DEF Apply
  <2>2. current' \in [Law -> BOOLEAN]
    BY <1>24, Zenon DEF Apply
  <2> QED
    BY <1>24, <2>1, <2>2 DEF Apply, DeleteLaws, tasks, LawRefreshStatus
<1>25. ASSUME NEW u \in User, Delete(u) PROVE TypeOK'
  <2>1. request' \in [User -> Request \cup {None}]
    BY <1>25, EndIs DEF Delete
  <2> QED
    BY <1>25, <2>1 DEF Delete, DeleteLaws, tasks, LawRefreshStatus
<1>26. ASSUME Crash PROVE TypeOK'
  <2>1. trouble' \in SUBSET Fault
    BY <1>26, FailsIs DEF Crash
  <2>2. CASE /\ \E x \in Flight : x.stage \notin {"insight", "outdated"} /\ Become(x, {})
             /\ UNCHANGED <<diffs, request>>
    <3>1. PICK l \in Law, s \in Stages, d \in Reads : Kind(s, d) /\ Become(Fly(l, s, d), {})
      BY <2>2, FlyIs
    <3> QED
      BY <1>26, <2>1, <2>2, <3>1, EndsIs DEF Crash, laws
  <2>3. CASE (\E s \in DiffStage : DiffEnd(s)) /\ UNCHANGED <<flights, request>>
    BY <1>26, <2>1, <2>3 DEF Crash, laws, DiffEnd
  <2>4. CASE (\E u \in User : request[u] # None /\ End(u)) /\ UNCHANGED tasks
    BY <1>26, <2>1, <2>4, EndIs DEF Crash, laws, tasks
  <2> QED
    BY <1>26, <2>2, <2>3, <2>4 DEF Crash
<1>27. ASSUME UNCHANGED vars PROVE TypeOK'
  BY <1>27 DEF vars, laws, tasks, users
<1> HIDE DEF TypeOK
<1> QED
  BY <1>1, <1>2, <1>3, <1>4, <1>5, <1>6, <1>7, <1>8, <1>9, <1>10, <1>11, <1>12, <1>13,
     <1>14, <1>15, <1>16, <1>17, <1>18, <1>19, <1>20, <1>21, <1>22, <1>23, <1>24, <1>25,
     <1>26, <1>27, <1>28, <1>29
     DEF Next, Task, Diff, Serve, Read

\* TypeOK holds throughout.
THEOREM TypeCorrect == Spec => []TypeOK
<1>1. Init => TypeOK
  BY StatusNames DEF Init, TypeOK, LawRefreshStatus
<1> QED
  BY <1>1, TypeStep, PTL DEF Spec

-----------------------------------------------------------------------------
(* What a task of one law leaves alone. *)

Reading == {"fetching", "refetching", "posting", "posted", "splitting"}

\* The flights of other laws stay, and no law gets its first one.
Confined(l) ==
    /\ \E s \in Stages, d \in Reads : On(l, s, d)
    /\ \A m \in Law \ {l}, r \in Stages, b \in Reads : On(m, r, b)' <=> On(m, r, b)

\* Flights of l that were not there before.
New(l, s, d) == On(l, s, d)' /\ ~On(l, s, d)

\* Some task of l has read it as current before.
WasRead(l) == \E r \in Reading : On(l, r, "current")

TaskEffect(l) ==
    /\ Confined(l)
    /\ \A m \in Law \ {l} : status'[m] = status[m] /\ doc'[m] = doc[m] /\ rules'[m] = rules[m]
    /\ doc[l] => doc'[l]
    /\ \A r \in Reading : New(l, r, "current") => current[l] \/ WasRead(l)
    /\ \A d \in Reads : New(l, "split", d) => doc'[l]
    /\ \A d \in Reads : New(l, "splitting", d) => doc[l]
    /\ status'[l] \in Resplit => status[l] \in Resplit \/ doc'[l]
    /\ UNCHANGED <<order, alive, current, request, requests>>

\* Whatever a flight becomes, it is confined to its law.
LEMMA ConfinedIs ==
    ASSUME NEW l \in Law, NEW s \in Stages, NEW d \in Reads,
           \/ Ended(l, s, d)
           \/ \E t \in Stages, e \in Reads : WentOn(l, s, d, t, e)
           \/ \E t, v \in Stages, e, f \in Reads : Parted(l, s, d, t, e, v, f)
           \/ Outdating(l, s, d)
    PROVE  Confined(l)
<1>1. ASSUME Ended(l, s, d) PROVE Confined(l)
  BY <1>1 DEF Ended, Lasting, Confined
<1>2. ASSUME NEW t \in Stages, NEW e \in Reads, WentOn(l, s, d, t, e) PROVE Confined(l)
  BY <1>2 DEF WentOn, Lasting, Confined
<1>3. ASSUME NEW t \in Stages, NEW e \in Reads, NEW v \in Stages, NEW f \in Reads,
             Parted(l, s, d, t, e, v, f)
      PROVE  Confined(l)
  BY <1>3 DEF Parted, Lasting, Confined
<1>4. ASSUME Outdating(l, s, d) PROVE Confined(l)
  BY <1>4 DEF Outdating, Confined
<1> QED
  BY <1>1, <1>2, <1>3, <1>4

\* Every task keeps to its law, reads it as it is, and splits only what has a
\* document.
LEMMA TaskKeeps ==
    ASSUME TypeOK, NEW l \in Law, Task(l),
           \A d \in {"current", "draft"} : On(l, "splitting", d) => doc[l]
    PROVE  TaskEffect(l)
<1>0. /\ flights \in [Flight -> Nat]
      /\ status \in [Law -> LawStatus] /\ doc \in [Law -> BOOLEAN] /\ rules \in [Law -> Nat]
      /\ current \in [Law -> BOOLEAN]
  BY DEF TypeOK
<1>s. /\ "parse" \in Stages /\ "fetching" \in Stages /\ "posting" \in Stages
      /\ "refetching" \in Stages /\ "outdated" \in Stages /\ FirstStage(l) \in Stages
      /\ "posted" \in Stages /\ "answered" \in Stages /\ "insight" \in Stages
      /\ "split" \in Stages /\ "splitting" \in Stages /\ "failed" \in Stages
      /\ "unread" \in Reads /\ "current" \in Reads /\ "draft" \in Reads
      /\ IsCurrent(l) \in Reads
      /\ "fetching" \in Reading /\ "posting" \in Reading
  BY DEF Stages, Reads, IsCurrent, FirstStage, Reading
<1>c. IsCurrent(l) = "current" => current[l]
  BY DEF IsCurrent
<1>1. ASSUME ParseStart(l) PROVE TaskEffect(l)
  <2>1. Confined(l)
    BY <1>0, <1>s, <1>1, ParseStartIs, ConfinedIs
  <2>2. /\ \A m \in Law \ {l} :
            status'[m] = status[m] /\ doc'[m] = doc[m] /\ rules'[m] = rules[m]
        /\ doc[l] => doc'[l]
        /\ status'[l] \in Resplit => status[l] \in Resplit \/ doc'[l]
        /\ UNCHANGED <<order, alive, current, request, requests>>
    BY <1>0, <1>1 DEF ParseStart, laws, users, Resplit
  <2> DEFINE G == /\ \A r \in Reading : New(l, r, "current") => current[l] \/ WasRead(l)
                  /\ \A r \in Reads : New(l, "split", r) => doc'[l]
                  /\ \A r \in Reads : New(l, "splitting", r) => doc[l]
  <2>3. ASSUME Ended(l, "parse", "unread")
        PROVE  G
    BY <1>c, <1>s, <2>2, <2>3 DEF New, Reading, Ended, WentOn, Parted
  <2>4. ASSUME WentOn(l, "parse", "unread", FirstStage(l), IsCurrent(l))
        PROVE  G
    <3>1. FirstStage(l) \notin {"split", "splitting"}
      BY DEF FirstStage
    <3> QED
      BY <1>c, <1>s, <2>2, <2>4, <3>1 DEF New, Reading, WentOn
  <2>g. G
    BY <1>0, <1>1, ParseStartIs, <2>3, <2>4
  <2> QED
    BY <2>1, <2>2, <2>g DEF TaskEffect
<1>2. ASSUME NEW d \in {"current", "draft"}, ParsePost(l, d) PROVE TaskEffect(l)
  <2>1. Confined(l)
    BY <1>0, <1>s, <1>2, ParsePostIs, ConfinedIs
  <2>2. /\ \A m \in Law \ {l} :
            status'[m] = status[m] /\ doc'[m] = doc[m] /\ rules'[m] = rules[m]
        /\ doc[l] => doc'[l]
        /\ status'[l] \in Resplit => status[l] \in Resplit \/ doc'[l]
        /\ UNCHANGED <<order, alive, current, request, requests>>
    BY <1>0, <1>2 DEF ParsePost, laws, users, Resplit
  <2>3. /\ \A r \in Reading : New(l, r, "current") => current[l] \/ WasRead(l)
        /\ \A r \in Reads : New(l, "split", r) => doc'[l]
        /\ \A r \in Reads : New(l, "splitting", r) => doc[l]
    <3>1. WentOn(l, "posting", d, "posted", d)
      BY <1>0, <1>2, ParsePostIs
    <3> QED
      BY <1>s, <3>1 DEF New, Reading, WentOn, Lasting, WasRead
  <2> QED
    BY <2>1, <2>2, <2>3 DEF TaskEffect
<1>3. ASSUME NEW d \in {"current", "draft"}, ParseFails(l, d) PROVE TaskEffect(l)
  <2>1. Confined(l)
    BY <1>0, <1>s, <1>3, ParseFailsIs, ConfinedIs
  <2>2. /\ \A m \in Law \ {l} :
            status'[m] = status[m] /\ doc'[m] = doc[m] /\ rules'[m] = rules[m]
        /\ doc[l] => doc'[l]
        /\ status'[l] \in Resplit => status[l] \in Resplit \/ doc'[l]
        /\ UNCHANGED <<order, alive, current, request, requests>>
    BY <1>0, <1>3 DEF ParseFails, users, SetStatus, Resplit
  <2> DEFINE G == /\ \A r \in Reading : New(l, r, "current") => current[l] \/ WasRead(l)
                  /\ \A r \in Reads : New(l, "split", r) => doc'[l]
                  /\ \A r \in Reads : New(l, "splitting", r) => doc[l]
  <2>3. ASSUME Ended(l, "posting", d)
        PROVE  G
    BY <1>c, <1>s, <2>2, <2>3 DEF New, Reading, Ended, WentOn, Parted
  <2>4. ASSUME WentOn(l, "posting", d, "insight", "unread")
        PROVE  G
    BY <1>c, <1>s, <2>2, <2>4 DEF New, Reading, Ended, WentOn, Parted
  <2>5. ASSUME WentOn(l, "posting", d, "failed", "draft")
        PROVE  G
    BY <1>c, <1>s, <2>2, <2>5 DEF New, Reading, Ended, WentOn, Parted
  <2>6. ASSUME Parted(l, "posting", d, "failed", "draft", "insight", "unread")
        PROVE  G
    BY <1>c, <1>s, <2>2, <2>6 DEF New, Reading, Ended, WentOn, Parted
  <2>g. G
    BY <1>0, <1>3, ParseFailsIs, <2>3, <2>4, <2>5, <2>6
  <2> QED
    BY <2>1, <2>2, <2>g DEF TaskEffect
<1>4. ASSUME NEW d \in {"current", "draft"}, ParseRecord(l, d) PROVE TaskEffect(l)
  <2>1. Confined(l)
    BY <1>0, <1>s, <1>4, ParseRecordIs, ConfinedIs
  <2>2. /\ \A m \in Law \ {l} :
            status'[m] = status[m] /\ doc'[m] = doc[m] /\ rules'[m] = rules[m]
        /\ doc[l] => doc'[l]
        /\ status'[l] \in Resplit => status[l] \in Resplit \/ doc'[l]
        /\ UNCHANGED <<order, alive, current, request, requests>>
    BY <1>0, <1>4 DEF ParseRecord, users, SetStatus, Resplit
  <2> DEFINE G == /\ \A r \in Reading : New(l, r, "current") => current[l] \/ WasRead(l)
                  /\ \A r \in Reads : New(l, "split", r) => doc'[l]
                  /\ \A r \in Reads : New(l, "splitting", r) => doc[l]
  <2>3. ASSUME Ended(l, "answered", d) PROVE G
    BY <1>s, <2>3 DEF New, Reading, Ended
  <2>4. ASSUME WentOn(l, "posted", d, "insight", "unread") PROVE G
    BY <1>s, <2>4 DEF New, Reading, WentOn
  <2>g. G
    BY <1>0, <1>4, ParseRecordIs, <2>3, <2>4
  <2> QED
    BY <2>1, <2>2, <2>g DEF TaskEffect
<1>5. ASSUME NEW d \in {"current", "draft"}, Fetch(l, d) PROVE TaskEffect(l)
  <2>1. Confined(l)
    BY <1>0, <1>s, <1>5, FetchIs, ConfinedIs
  <2>2. /\ \A m \in Law \ {l} :
            status'[m] = status[m] /\ doc'[m] = doc[m] /\ rules'[m] = rules[m]
        /\ doc[l] => doc'[l]
        /\ status'[l] \in Resplit => status[l] \in Resplit \/ doc'[l]
        /\ UNCHANGED <<order, alive, current, request, requests>>
    BY <1>0, <1>5 DEF Fetch, users, SetStatus, Resplit
  <2>3. /\ \A r \in Reading : New(l, r, "current") => current[l] \/ WasRead(l)
        /\ \A r \in Reads : New(l, "split", r) => doc'[l]
        /\ \A r \in Reads : New(l, "splitting", r) => doc[l]
    <3>1. WentOn(l, "fetching", d, "split", "unread") /\ doc'[l]
      BY <1>0, <1>5, FetchIs DEF Fetch
    <3> QED
      BY <1>s, <3>1 DEF New, Reading, WentOn, Lasting, WasRead
  <2> QED
    BY <2>1, <2>2, <2>3 DEF TaskEffect
<1>14. ASSUME NEW d \in {"current", "draft"}, FetchPage(l, d) PROVE TaskEffect(l)
  <2>1. Confined(l)
    BY <1>0, <1>s, <1>14, FetchPageIs, ConfinedIs
  <2>2. /\ \A m \in Law \ {l} :
            status'[m] = status[m] /\ doc'[m] = doc[m] /\ rules'[m] = rules[m]
        /\ doc[l] => doc'[l]
        /\ status'[l] \in Resplit => status[l] \in Resplit \/ doc'[l]
        /\ UNCHANGED <<order, alive, current, request, requests>>
    BY <1>0, <1>14 DEF FetchPage, laws, users
  <2> DEFINE G == /\ \A r \in Reading : New(l, r, "current") => current[l] \/ WasRead(l)
                  /\ \A r \in Reads : New(l, "split", r) => doc'[l]
                  /\ \A r \in Reads : New(l, "splitting", r) => doc[l]
  <2>3. ASSUME WentOn(l, "fetching", d, "posting", d) PROVE G
    BY <1>s, <2>3 DEF New, Reading, WentOn, Lasting, WasRead
  <2>4. ASSUME Ended(l, "refetching", d) PROVE G
    BY <1>s, <2>4 DEF New, Reading, Ended
  <2>5. ASSUME NEW s \in {"fetching", "refetching"}, Outdating(l, s, d) PROVE G
    BY <1>s, <2>5 DEF New, Reading, Outdating, WasRead
  <2>g. G
    BY <1>0, <1>14, FetchPageIs, <2>3, <2>4, <2>5
  <2> QED
    BY <2>1, <2>2, <2>g DEF TaskEffect
<1>15. ASSUME CallbackRefused(l) PROVE TaskEffect(l)
  <2>1. Ended(l, "outdated", "unread")
    BY <1>0, <1>15, CallbackRefusedIs
  <2>2. Confined(l)
    BY <1>s, <2>1, ConfinedIs
  <2> QED
    BY <1>0, <1>s, <1>15, <2>1, <2>2 DEF CallbackRefused, laws, users, TaskEffect, New, Reading, Ended
<1>6. ASSUME NEW d \in {"current", "draft"}, FetchFails(l, d) PROVE TaskEffect(l)
  <2>1. Confined(l)
    BY <1>0, <1>s, <1>6, FetchFailsIs, ConfinedIs
  <2>2. /\ \A m \in Law \ {l} :
            status'[m] = status[m] /\ doc'[m] = doc[m] /\ rules'[m] = rules[m]
        /\ doc[l] => doc'[l]
        /\ status'[l] \in Resplit => status[l] \in Resplit \/ doc'[l]
        /\ UNCHANGED <<order, alive, current, request, requests>>
    BY <1>0, <1>6 DEF FetchFails, users, SetStatus, Resplit
  <2>3. /\ \A r \in Reading : New(l, r, "current") => current[l] \/ WasRead(l)
        /\ \A r \in Reads : New(l, "split", r) => doc'[l]
        /\ \A r \in Reads : New(l, "splitting", r) => doc[l]
    BY <1>0, <1>c, <1>s, <1>6, FetchFailsIs, <2>2 DEF FetchFails, users,
       New, Reading, Ended, WentOn, Parted, Lasting, WasRead
  <2> QED
    BY <2>1, <2>2, <2>3 DEF TaskEffect
<1>7. ASSUME Report(l) PROVE TaskEffect(l)
  <2>1. Confined(l)
    BY <1>0, <1>s, <1>7, ReportIs, ConfinedIs
  <2>2. /\ \A m \in Law \ {l} :
            status'[m] = status[m] /\ doc'[m] = doc[m] /\ rules'[m] = rules[m]
        /\ doc[l] => doc'[l]
        /\ status'[l] \in Resplit => status[l] \in Resplit \/ doc'[l]
        /\ UNCHANGED <<order, alive, current, request, requests>>
    BY <1>0, <1>7 DEF Report, laws, users, Resplit
  <2>3. /\ \A r \in Reading : New(l, r, "current") => current[l] \/ WasRead(l)
        /\ \A r \in Reads : New(l, "split", r) => doc'[l]
        /\ \A r \in Reads : New(l, "splitting", r) => doc[l]
    BY <1>0, <1>c, <1>s, <1>7, ReportIs, <2>2 DEF Report, laws, users,
       New, Reading, Ended, WentOn, Parted, Lasting, WasRead
  <2> QED
    BY <2>1, <2>2, <2>3 DEF TaskEffect
<1>8. ASSUME Callback(l) PROVE TaskEffect(l)
  <2>1. Confined(l)
    BY <1>0, <1>s, <1>8, CallbackIs, ConfinedIs
  <2>2. /\ \A m \in Law \ {l} :
            status'[m] = status[m] /\ doc'[m] = doc[m] /\ rules'[m] = rules[m]
        /\ doc[l] => doc'[l]
        /\ status'[l] \in Resplit => status[l] \in Resplit \/ doc'[l]
        /\ UNCHANGED <<order, alive, current, request, requests>>
    BY <1>0, <1>8 DEF Callback, users, Answer, SetStatus, Resplit
  <2>3. /\ \A r \in Reading : New(l, r, "current") => current[l] \/ WasRead(l)
        /\ \A r \in Reads : New(l, "split", r) => doc'[l]
        /\ \A r \in Reads : New(l, "splitting", r) => doc[l]
    BY <1>0, <1>c, <1>s, <1>8, CallbackIs, <2>2 DEF Callback, users, Answer,
       New, Reading, Ended, WentOn, Parted, Lasting, WasRead
  <2> QED
    BY <2>1, <2>2, <2>3 DEF TaskEffect
<1>9. ASSUME NEW d \in {"current", "draft"}, EarlyCallback(l, d) PROVE TaskEffect(l)
  <2>1. Confined(l)
    BY <1>0, <1>s, <1>9, EarlyCallbackIs, ConfinedIs
  <2>2. /\ \A m \in Law \ {l} :
            status'[m] = status[m] /\ doc'[m] = doc[m] /\ rules'[m] = rules[m]
        /\ doc[l] => doc'[l]
        /\ status'[l] \in Resplit => status[l] \in Resplit \/ doc'[l]
        /\ UNCHANGED <<order, alive, current, request, requests>>
    BY <1>0, <1>9 DEF EarlyCallback, users, Answer, SetStatus, Resplit
  <2> DEFINE G == /\ \A r \in Reading : New(l, r, "current") => current[l] \/ WasRead(l)
                  /\ \A r \in Reads : New(l, "split", r) => doc'[l]
                  /\ \A r \in Reads : New(l, "splitting", r) => doc[l]
  <2>3. ASSUME WentOn(l, "posted", d, "answered", d)
        PROVE  G
    BY <1>c, <1>s, <2>2, <2>3 DEF New, Reading, Ended, WentOn, Parted
  <2>4. ASSUME Live(l) /\ Parted(l, "posted", d, "answered", d, "split", "unread")
        PROVE  G
    BY <1>c, <1>s, <2>2, <2>4, <1>0, <1>9 DEF EarlyCallback, Answer, SetStatus, New, Reading, Ended, WentOn, Parted
  <2>g. G
    BY <1>0, <1>9, EarlyCallbackIs, <2>3, <2>4
  <2> QED
    BY <2>1, <2>2, <2>g DEF TaskEffect
<1>10. ASSUME CallbackFails(l) PROVE TaskEffect(l)
  <2>1. Confined(l)
    BY <1>0, <1>s, <1>10, CallbackFailsIs, ConfinedIs
  <2>2. /\ \A m \in Law \ {l} :
            status'[m] = status[m] /\ doc'[m] = doc[m] /\ rules'[m] = rules[m]
        /\ doc[l] => doc'[l]
        /\ status'[l] \in Resplit => status[l] \in Resplit \/ doc'[l]
        /\ UNCHANGED <<order, alive, current, request, requests>>
    BY <1>0, <1>10 DEF CallbackFails, users, SetStatus, Resplit
  <2>3. /\ \A r \in Reading : New(l, r, "current") => current[l] \/ WasRead(l)
        /\ \A r \in Reads : New(l, "split", r) => doc'[l]
        /\ \A r \in Reads : New(l, "splitting", r) => doc[l]
    BY <1>0, <1>c, <1>s, <1>10, CallbackFailsIs, <2>2 DEF CallbackFails, users,
       New, Reading, Ended, WentOn, Parted, Lasting, WasRead
  <2> QED
    BY <2>1, <2>2, <2>3 DEF TaskEffect
<1>11. ASSUME SplitStart(l) PROVE TaskEffect(l)
  <2>1. Confined(l)
    BY <1>0, <1>s, <1>11, SplitStartIs, ConfinedIs
  <2>2. /\ \A m \in Law \ {l} :
            status'[m] = status[m] /\ doc'[m] = doc[m] /\ rules'[m] = rules[m]
        /\ doc[l] => doc'[l]
        /\ status'[l] \in Resplit => status[l] \in Resplit \/ doc'[l]
        /\ UNCHANGED <<order, alive, current, request, requests>>
    BY <1>0, <1>11 DEF SplitStart, users, SetStatus, Resplit
  <2> DEFINE G == /\ \A r \in Reading : New(l, r, "current") => current[l] \/ WasRead(l)
                  /\ \A r \in Reads : New(l, "split", r) => doc'[l]
                  /\ \A r \in Reads : New(l, "splitting", r) => doc[l]
  <2>3. ASSUME Ended(l, "split", "unread") PROVE G
    BY <1>s, <2>3 DEF New, Reading, Ended
  <2>4. ASSUME WentOn(l, "split", "unread", "splitting", IsCurrent(l)), doc[l] PROVE G
    BY <1>c, <1>s, <2>4 DEF New, Reading, WentOn
  <2>g. G
    BY <1>0, <1>11, SplitStartIs, <2>3, <2>4
  <2> QED
    BY <2>1, <2>2, <2>g DEF TaskEffect
<1>12. ASSUME NEW d \in {"current", "draft"}, SplitCommit(l, d) PROVE TaskEffect(l)
  <2>1. Confined(l)
    BY <1>0, <1>s, <1>12, SplitCommitIs, ConfinedIs
  <2>2. /\ \A m \in Law \ {l} :
            status'[m] = status[m] /\ doc'[m] = doc[m] /\ rules'[m] = rules[m]
        /\ doc[l] => doc'[l]
        /\ status'[l] \in Resplit => status[l] \in Resplit \/ doc'[l]
        /\ UNCHANGED <<order, alive, current, request, requests>>
    BY <1>0, <1>12 DEF SplitCommit, users, ReplaceRules, SetStatus, Resplit
  <2>3. /\ \A r \in Reading : New(l, r, "current") => current[l] \/ WasRead(l)
        /\ \A r \in Reads : New(l, "split", r) => doc'[l]
        /\ \A r \in Reads : New(l, "splitting", r) => doc[l]
    BY <1>0, <1>c, <1>s, <1>12, SplitCommitIs, <2>2 DEF SplitCommit, users, ReplaceRules,
       New, Reading, Ended, WentOn, Parted, Lasting, WasRead
  <2> QED
    BY <2>1, <2>2, <2>3 DEF TaskEffect
<1>13. ASSUME NEW d \in {"current", "draft"}, SplitFails(l, d) PROVE TaskEffect(l)
  <2>1. Confined(l)
    BY <1>0, <1>s, <1>13, SplitFailsIs, ConfinedIs
  <2>0. doc[l]
    BY <1>0, <1>s, <1>13, SplitFailsIs DEF Ended, WentOn, Lasting
  <2>2. /\ \A m \in Law \ {l} :
            status'[m] = status[m] /\ doc'[m] = doc[m] /\ rules'[m] = rules[m]
        /\ doc[l] => doc'[l]
        /\ status'[l] \in Resplit => status[l] \in Resplit \/ doc'[l]
        /\ UNCHANGED <<order, alive, current, request, requests>>
    BY <1>0, <1>13, <2>0 DEF SplitFails, users, SetStatus, Resplit
  <2>3. /\ \A r \in Reading : New(l, r, "current") => current[l] \/ WasRead(l)
        /\ \A r \in Reads : New(l, "split", r) => doc'[l]
        /\ \A r \in Reads : New(l, "splitting", r) => doc[l]
    BY <1>0, <1>c, <1>s, <1>13, SplitFailsIs, <2>2 DEF SplitFails, users,
       New, Reading, Ended, WentOn, Parted, Lasting, WasRead
  <2> QED
    BY <2>1, <2>2, <2>3 DEF TaskEffect
<1> QED
  BY <1>1, <1>2, <1>3, <1>4, <1>5, <1>6, <1>7, <1>8, 
     <1>9, <1>10, <1>11, <1>12, <1>13, <1>14, <1>15 DEF Task, Read

-----------------------------------------------------------------------------
(* What holds of every law and request. *)

\* Before the order is created, nothing is under way.
NotYet ==
    order = "absent" =>
        /\ refresh = "INIT"
        /\ \A u \in User : request[u] = None
        /\ \A l \in Law : alive[l] = "absent"
        /\ \A s \in DiffStage : diffs[s] = 0

\* Nobody knows of a law that is not there yet.
Unknown ==
    \A l \in Law : alive[l] = "absent" =>
        /\ \A s \in Stages, d \in Reads : ~On(l, s, d)
        /\ \A u \in User :
            request[u] # None => l \notin request[u].laws \cup request[u].others

\* What is to be split has a document.
HasDoc ==
    \A l \in Law :
        /\ Live(l) /\ status[l] \in Resplit => doc[l]
        /\ \A d \in Reads : On(l, "split", d) \/ On(l, "splitting", d) => doc[l]
        /\ \A u \in User : Asked(u, "trigger") /\ l \in request[u].others => doc[l]

\* A task that has read that its law is current is right: only drafts change.
CurrentRead == \A l \in Law, s \in Reading : On(l, s, "current") => current[l]

Ground == NotYet /\ Unknown /\ HasDoc /\ CurrentRead

\* No task breaks it.
LEMMA GroundTask ==
    ASSUME TypeOK, Ground, NEW l \in Law, Task(l)
    PROVE  Ground' /\ TaskEffect(l)
<1>0. /\ "split" \in Stages /\ "splitting" \in Stages /\ "posting" \in Reading
      /\ "current" \in Reads /\ "draft" \in Reads /\ Reading \subseteq Stages
  BY DEF Stages, Reads, Reading
<1>1. TaskEffect(l)
  BY <1>0, TaskKeeps DEF Ground, HasDoc
<1>2. alive[l] # "absent"
  BY <1>1 DEF TaskEffect, Confined, Ground, Unknown
<1>3. order # "absent" /\ order' # "absent"
  BY <1>1, <1>2 DEF TaskEffect, Ground, NotYet
<1>4. NotYet'
  BY <1>3 DEF NotYet
<1>5. Unknown'
  <2>1. ASSUME NEW m \in Law, alive'[m] = "absent", NEW s \in Stages, NEW d \in Reads
        PROVE  ~On(m, s, d)'
    <3>1. m # l /\ alive[m] = "absent"
      BY <1>1, <1>2, <2>1 DEF TaskEffect
    <3> QED
      BY <1>1, <3>1 DEF TaskEffect, Confined, Ground, Unknown
  <2> QED
    BY <1>1, <2>1 DEF TaskEffect, Ground, Unknown
<1>6. HasDoc'
  <2>1. ASSUME NEW m \in Law, Live(m)', status'[m] \in Resplit PROVE doc'[m]
    <3>1. Live(m)
      BY <1>1, <2>1 DEF TaskEffect, Live
    <3>2. CASE m = l
      BY <1>1, <2>1, <3>1, <3>2 DEF TaskEffect, Ground, HasDoc
    <3>3. CASE m # l
      BY <1>1, <2>1, <3>1, <3>3 DEF TaskEffect, Ground, HasDoc
    <3> QED
      BY <3>2, <3>3
  <2>2. ASSUME NEW m \in Law, NEW d \in Reads, On(m, "split", d)' \/ On(m, "splitting", d)'
        PROVE  doc'[m]
    <3>1. CASE m = l
      BY <1>1, <2>2, <3>1 DEF TaskEffect, Ground, HasDoc, New
    <3>2. CASE m # l
      BY <1>0, <1>1, <2>2, <3>2 DEF TaskEffect, Confined, Ground, HasDoc
    <3> QED
      BY <3>1, <3>2
  <2>3. ASSUME NEW m \in Law, NEW u \in User, Asked(u, "trigger")', m \in request'[u].others
        PROVE  doc'[m]
    <3>1. doc[m]
      BY <1>1, <2>3 DEF TaskEffect, Ground, HasDoc, Asked
    <3> QED
      BY <1>1, <3>1 DEF TaskEffect
  <2> QED
    BY <2>1, <2>2, <2>3 DEF HasDoc
<1>7. CurrentRead'
  <2>1. ASSUME NEW m \in Law, NEW s \in Reading, On(m, s, "current")' PROVE current[m]
    <3>1. CASE m = l
      BY <1>0, <1>1, <2>1, <3>1 DEF TaskEffect, Ground, CurrentRead, New, WasRead
    <3>2. CASE m # l
      BY <1>0, <1>1, <2>1, <3>2 DEF TaskEffect, Confined, Ground, CurrentRead
    <3> QED
      BY <3>1, <3>2
  <2> QED
    BY <1>1, <2>1 DEF TaskEffect, CurrentRead
<1> QED
  BY <1>1, <1>4, <1>5, <1>6, <1>7 DEF Ground

\* No comparison breaks it.
LEMMA GroundDiff ==
    ASSUME TypeOK, Ground, Diff
    PROVE  Ground' /\ UNCHANGED <<order, laws, flights, users>>
<1>1. UNCHANGED <<order, laws, flights, users>>
  BY DEF Diff, DiffCheck, DiffCompare, DiffWrite
<1>2. \E s \in DiffStage : diffs[s] > 0
  BY DEF Diff, DiffCheck, DiffCompare, DiffWrite, DiffEnd, DiffMove, DiffStage
<1>3. order # "absent"
  BY <1>2 DEF Ground, NotYet
<1>4. \A m \in Law, r \in Stages, b \in Reads : On(m, r, b)' <=> On(m, r, b)
  BY <1>1, StayIs DEF TypeOK
<1>5. NotYet'
  BY <1>1, <1>3 DEF NotYet
<1>6. Unknown'
  BY <1>1, <1>4 DEF Ground, Unknown, laws, users
<1>7. HasDoc'
  BY <1>1, <1>4 DEF Ground, HasDoc, laws, users, Live, Asked, Stages
<1>8. CurrentRead'
  BY <1>1, <1>4 DEF Ground, CurrentRead, laws, Reading, Stages, Reads
<1> QED
  BY <1>1, <1>5, <1>6, <1>7, <1>8 DEF Ground

\* What is sent, and what a request becomes, breaks it as little: laws are never
\* made absent, and what was there keeps its document and its place.
LEMMA GroundKept ==
    ASSUME TypeOK, Ground, order' # "absent",
           \A l \in Law : alive'[l] = "absent" => alive[l] = "absent",
           doc' = doc,
           \A l \in Law : current[l] => current'[l] \/ alive[l] = "absent",
           \A l \in Law : Live(l)' /\ status'[l] \in Resplit =>
                            Live(l) /\ status[l] \in Resplit,
           \A l \in Law, s \in Stages, d \in Reads :
                New(l, s, d) => /\ s \in {"parse", "split"} /\ d = "unread"
                                /\ alive[l] # "absent"
                                /\ s = "split" => doc[l],
           \A v \in User : request'[v] # None =>
                /\ \A l \in Law : l \in request'[v].laws \cup request'[v].others =>
                                    alive'[l] # "absent"
                /\ \A l \in Law : Asked(v, "trigger")' /\ l \in request'[v].others => doc[l]
    PROVE  Ground'
<1>0. /\ "split" \in Stages /\ "splitting" \in Stages /\ Reading \subseteq Stages
      /\ "current" \in Reads /\ "split" \notin Reading /\ "parse" \notin Reading
  BY DEF Stages, Reads, Reading
<1>1. NotYet'
  BY DEF NotYet
<1>2. Unknown'
  BY DEF Ground, Unknown, New
<1>3. HasDoc'
  <2>1. ASSUME NEW m \in Law, NEW d \in Reads, On(m, "split", d)' \/ On(m, "splitting", d)'
        PROVE  doc[m]
    BY <1>0, <2>1 DEF Ground, HasDoc, New
  <2>2. \A m \in Law : Live(m)' /\ status'[m] \in Resplit => doc[m]
    BY DEF Ground, HasDoc
  <2>3. ASSUME NEW v \in User, NEW m \in Law, Asked(v, "trigger")', m \in request'[v].others
        PROVE  doc[m]
    BY <2>3 DEF Asked
  <2> QED
    BY <2>1, <2>2, <2>3 DEF HasDoc
<1>4. CurrentRead'
  <2>1. ASSUME NEW m \in Law, NEW s \in Reading, On(m, s, "current")' PROVE current'[m]
    <3>1. On(m, s, "current")
      BY <1>0, <2>1 DEF New
    <3>2. current[m] /\ alive[m] # "absent"
      BY <1>0, <3>1 DEF Ground, CurrentRead, Unknown
    <3> QED
      BY <3>2
  <2> QED
    BY <2>1 DEF CurrentRead
<1> QED
  BY <1>1, <1>2, <1>3, <1>4 DEF Ground

\* No request breaks it.
LEMMA GroundUser ==
    ASSUME TypeOK, Ground, NEW u \in User, Create(u) \/ Ask(u) \/ Serve(u)
    PROVE  Ground'
<1>0. /\ request \in [User -> Request \cup {None}] /\ flights \in [Flight -> Nat]
      /\ refresh \in LawRefreshStatus /\ status \in [Law -> LawStatus]
      /\ current \in [Law -> BOOLEAN] /\ alive \in [Law -> {"absent", "live", "deleted"}]
      /\ "parse" \in Stages /\ "split" \in Stages /\ "unread" \in Reads
      /\ "dispatch" \in Op /\ "trigger" # "dispatch" /\ {} \in SUBSET Law
  BY DEF TypeOK, Stages, Reads, Op
<1>q. \A v \in User : request[v] # None =>
         /\ request[v] \in Request
         /\ request[v].laws \in SUBSET Law /\ request[v].others \in SUBSET Law
         /\ order # "absent"
         /\ \A l \in Law : l \in request[v].laws \cup request[v].others => alive[l] # "absent"
         /\ \A l \in Law : Asked(v, "trigger") /\ l \in request[v].others => doc[l]
  BY <1>0 DEF Request, Ground, NotYet, Unknown, HasDoc
<1>k. Kind("parse", "unread") /\ Kind("split", "unread")
  BY DEF Kind
<1>f. UNCHANGED flights => \A l \in Law, s \in Stages, d \in Reads : ~New(l, s, d)
  BY <1>0, StayIs DEF New
<1>e. ASSUME End(u), \A l \in Law : alive'[l] = "absent" => alive[l] = "absent"
      PROVE  \A v \in User : request'[v] # None =>
                /\ \A l \in Law : l \in request'[v].laws \cup request'[v].others =>
                                    alive'[l] # "absent"
                /\ \A l \in Law : Asked(v, "trigger")' /\ l \in request'[v].others => doc[l]
  <2>1. ASSUME NEW v \in User, request'[v] # None
        PROVE  request[v] # None /\ request'[v] = request[v]
    BY <1>0, <1>e, <2>1, EndIs
  <2> QED
    BY <1>e, <1>q, <2>1 DEF Asked
<1>b. ASSUME NEW op \in Op, NEW S \in SUBSET Law, NEW T \in SUBSET Law, Begin(u, op, S, T),
             \A l \in S \cup T : alive'[l] # "absent",
             \A l \in Law : alive'[l] = "absent" => alive[l] = "absent",
             op = "trigger" => \A l \in T : doc[l]
      PROVE  \A v \in User : request'[v] # None =>
                /\ \A l \in Law : l \in request'[v].laws \cup request'[v].others =>
                                    alive'[l] # "absent"
                /\ \A l \in Law : Asked(v, "trigger")' /\ l \in request'[v].others => doc[l]
  <2>1. /\ request'[u].op = op /\ request'[u].laws = S /\ request'[u].others = T
        /\ \A v \in User \ {u} : request'[v] = request[v]
    BY <1>0, <1>b, BeginIs
  <2> TAKE v \in User
  <2> HAVE request'[v] # None
  <2>2. CASE v = u
    BY <1>b, <2>1, <2>2 DEF Asked
  <2>3. CASE v # u
    BY <1>b, <1>q, <2>1, <2>3 DEF Asked
  <2> QED
    BY <2>2, <2>3
<1>l. ASSUME request[u] # None, NEW l \in Law, UNCHANGED alive,
             Sent(u, l)
      PROVE  \A v \in User : request'[v] # None =>
                /\ \A m \in Law : m \in request'[v].laws \cup request'[v].others =>
                                    alive'[m] # "absent"
                /\ \A m \in Law : Asked(v, "trigger")' /\ m \in request'[v].others => doc[m]
  <2>1. /\ request'[u] # None =>
             /\ request'[u].op = request[u].op
             /\ request'[u].laws \subseteq request[u].laws
             /\ request'[u].others \subseteq request[u].others
        /\ \A v \in User \ {u} : request'[v] = request[v]
    BY <1>0, <1>l, SentIs
  <2> TAKE v \in User
  <2> HAVE request'[v] # None
  <2>2. CASE v = u
    BY <1>l, <1>q, <2>1, <2>2 DEF Asked
  <2>3. CASE v # u
    BY <1>l, <1>q, <2>1, <2>3 DEF Asked
  <2> QED
    BY <2>2, <2>3
<1>1. ASSUME Create(u) PROVE Ground'
  <2>1. PICK S \in SUBSET Law :
           /\ alive' = [l \in Law |-> IF l \in S THEN "live" ELSE alive[l]]
           /\ AddLaws(S, TRUE)
           /\ Begin(u, "dispatch", S, {})
    BY <1>1 DEF Create
  <2>2. \A l \in Law : alive[l] = "absent"
    BY <1>1 DEF Create, Ground, NotYet
  <2>3. /\ \A l \in S \cup {} : alive'[l] # "absent"
        /\ \A l \in Law : alive'[l] = "absent" => alive[l] = "absent"
    BY <2>1, <2>2
  <2>4. \A l \in Law : Live(l)' => status'[l] \notin Resplit
    BY <2>1, <2>2 DEF Live, AddLaws, Resplit
  <2>5. \A v \in User : request'[v] # None =>
                /\ \A l \in Law : l \in request'[v].laws \cup request'[v].others =>
                                    alive'[l] # "absent"
                /\ \A l \in Law : Asked(v, "trigger")' /\ l \in request'[v].others => doc[l]
    BY <1>0, <2>1, <2>3, <1>b
  <2>6. doc' = doc /\ UNCHANGED flights /\ order' # "absent"
    BY <1>1 DEF Create, tasks
  <2> QED
    BY <1>f, <2>2, <2>3, <2>4, <2>5, <2>6, GroundKept
<1>2. ASSUME Dispatch(u) PROVE Ground'
  <2>0. /\ request[u] # None /\ UNCHANGED <<order, alive, current, status, doc>>
    BY <1>2 DEF Dispatch, Asked, laws
  <2>1. ASSUME NEW l \in Law, l \in request[u].laws, Send(l, "parse"), Sent(u, l)
        PROVE  Ground'
    <3>1. \A m \in Law, s \in Stages, d \in Reads :
             New(m, s, d) => m = l /\ s = "parse" /\ d = "unread" /\ alive[m] # "absent"
      BY <1>0, <1>q, <1>k, <2>0, <2>1, SendIs DEF New
    <3> QED
      BY <1>q, <1>l, <2>0, <2>1, <3>1, GroundKept DEF Live
  <2> QED
    BY <1>2, <1>q, <2>0, <2>1 DEF Dispatch
<1>3. ASSUME Ask(u) PROVE Ground'
  <2>0. /\ UNCHANGED <<order, alive, current, status, doc, flights>> /\ order # "absent"
    BY <1>3 DEF Ask, laws, tasks
  <2>1. PICK op \in Op, S \in SUBSET Law, T \in SUBSET Law :
           /\ Begin(u, op, S, T)
           /\ S \cup T \subseteq Currents \cup Drafts
           /\ op = "trigger" => T \subseteq {l \in Currents \cup Drafts : status[l] \in Resplit}
    BY <1>3 DEF Ask, Op, Currents, Drafts
  <2>2. /\ \A l \in S \cup T : alive'[l] # "absent"
        /\ op = "trigger" => \A l \in T : doc[l]
    BY <2>0, <2>1 DEF Currents, Drafts, Live, Ground, HasDoc
  <2> QED
    BY <1>b, <1>f, <2>0, <2>1, <2>2, GroundKept DEF Live
<1>4. ASSUME Trigger(u) PROVE Ground'
  <2>0. /\ request[u] # None /\ Asked(u, "trigger")
        /\ UNCHANGED <<order, alive, current, doc>>
    BY <1>4 DEF Trigger, Asked
  <2>1. ASSUME NEW l \in Law, l \in request[u].laws, SetStatus(l, "PENDING"), Send(l, "parse"),
               Sent(u, l)
        PROVE  Ground'
    <3>1. \A m \in Law, s \in Stages, d \in Reads :
             New(m, s, d) => m = l /\ s = "parse" /\ d = "unread" /\ alive[m] # "absent"
      BY <1>0, <1>q, <1>k, <2>0, <2>1, SendIs DEF New
    <3>2. \A m \in Law : status'[m] \in Resplit => status[m] \in Resplit
      BY <1>0, <2>1 DEF SetStatus, Resplit
    <3> QED
      BY <1>q, <1>l, <2>0, <2>1, <3>1, <3>2, GroundKept DEF Live
  <2>2. ASSUME NEW l \in Law, l \in request[u].others, Send(l, "split"), UNCHANGED status,
               Sent(u, l)
        PROVE  Ground'
    <3>1. \A m \in Law, s \in Stages, d \in Reads :
             New(m, s, d) => /\ m = l /\ s = "split" /\ d = "unread"
                             /\ alive[m] # "absent" /\ doc[m]
      BY <1>0, <1>q, <1>k, <2>0, <2>2, SendIs DEF New
    <3> QED
      BY <1>q, <1>l, <2>0, <2>2, <3>1, GroundKept DEF Live
  <2>3. CASE End(u) /\ UNCHANGED <<status, flights>>
    BY <1>e, <1>f, <1>q, <2>0, <2>3, GroundKept DEF Live
  <2> QED
    BY <1>4, <1>q, <2>0, <2>1, <2>2, <2>3 DEF Trigger
<1>5. ASSUME Refresh(u) PROVE Ground'
  <2>0. /\ request[u] # None /\ UNCHANGED <<order, doc, flights>>
    BY <1>5 DEF Refresh, Asked, tasks
  <2>1. PICK S \in SUBSET Law :
           /\ \A l \in S : alive[l] = "absent"
           /\ alive' = [l \in Law |-> IF l \in S THEN "live"
                                      ELSE IF l \in request[u].laws THEN "deleted" ELSE alive[l]]
           /\ AddLaws(S, FALSE)
           /\ Begin(u, "dispatch", S, {})
    BY <1>5 DEF Refresh
  <2>2. /\ \A l \in S \cup {} : alive'[l] # "absent"
        /\ \A l \in Law : alive'[l] = "absent" => alive[l] = "absent"
        /\ \A l \in Law : current[l] => current'[l] \/ alive[l] = "absent"
    BY <2>1 DEF AddLaws
  <2>3. \A l \in Law : Live(l)' /\ status'[l] \in Resplit => Live(l) /\ status[l] \in Resplit
    BY <2>1 DEF Live, AddLaws, Resplit
  <2>4. \A v \in User : request'[v] # None =>
                /\ \A l \in Law : l \in request'[v].laws \cup request'[v].others =>
                                    alive'[l] # "absent"
                /\ \A l \in Law : Asked(v, "trigger")' /\ l \in request'[v].others => doc[l]
    BY <1>0, <2>1, <2>2, <1>b
  <2> QED
    BY <1>f, <1>q, <2>0, <2>2, <2>3, <2>4, GroundKept
<1>6. ASSUME RefreshRefused(u) \/ Revert(u) \/ Apply(u) \/ Delete(u) PROVE Ground'
  <2>0. request[u] # None /\ UNCHANGED <<doc, status, flights>> /\ End(u)
    BY <1>6 DEF RefreshRefused, Revert, Apply, Delete, Asked, tasks
  <2>1. order' # "absent"
    BY <1>6, <1>q, <2>0 DEF RefreshRefused, Revert, Apply, Delete
  <2>2. \A l \in Law : /\ alive'[l] = "absent" => alive[l] = "absent"
                       /\ alive'[l] = "live" => alive[l] = "live"
    BY <1>6 DEF RefreshRefused, Revert, Apply, Delete, DeleteLaws
  <2>3. \A l \in Law : current[l] => current'[l]
    BY <1>6 DEF RefreshRefused, Revert, Apply, Delete
  <2> QED
    BY <1>e, <1>f, <2>0, <2>1, <2>2, <2>3, GroundKept DEF Live
<1> QED
  BY <1>1, <1>2, <1>3, <1>4, <1>5, <1>6 DEF Serve

\* Nor does a process that dies.
LEMMA GroundCrash ==
    ASSUME TypeOK, Ground, Crash
    PROVE  Ground'
<1>0. /\ request \in [User -> Request \cup {None}] /\ flights \in [Flight -> Nat]
      /\ UNCHANGED <<order, refresh, alive, current, status, doc>>
  BY DEF TypeOK, Crash, laws
<1>q. \A v \in User : request[v] # None =>
         /\ order # "absent"
         /\ \A l \in Law : l \in request[v].laws \cup request[v].others => alive[l] # "absent"
         /\ \A l \in Law : Asked(v, "trigger") /\ l \in request[v].others => doc[l]
  BY DEF Ground, NotYet, Unknown, HasDoc
<1>1. ASSUME NEW l \in Law, NEW s \in Stages, NEW d \in Reads, Kind(s, d),
             Become(Fly(l, s, d), {}), UNCHANGED request
      PROVE  Ground'
  <2>1. Ended(l, s, d)
    BY <1>0, <1>1, EndsIs
  <2>2. \A m \in Law, r \in Stages, b \in Reads : ~New(m, r, b)
    BY <2>1 DEF Ended, New
  <2>3. order # "absent"
    BY <2>1 DEF Ended, Lasting, Ground, NotYet, Unknown
  <2> QED
    BY <1>0, <1>1, <1>q, <2>2, <2>3, GroundKept DEF Live, Asked
<1>2. ASSUME NEW s \in DiffStage, DiffEnd(s), UNCHANGED <<flights, request>> PROVE Ground'
  <2>1. order # "absent"
    BY <1>2 DEF DiffEnd, Ground, NotYet
  <2>2. \A m \in Law, r \in Stages, b \in Reads : ~New(m, r, b)
    BY <1>0, <1>2, StayIs DEF New
  <2> QED
    BY <1>0, <1>2, <1>q, <2>1, <2>2, GroundKept DEF Live, Asked
<1>3. ASSUME NEW u \in User, request[u] # None, End(u), UNCHANGED tasks PROVE Ground'
  <2>1. \A m \in Law, r \in Stages, b \in Reads : ~New(m, r, b)
    BY <1>0, <1>3, StayIs DEF New, tasks
  <2>2. \A v \in User : request'[v] # None => request[v] # None /\ request'[v] = request[v]
    BY <1>0, <1>3, EndIs
  <2> QED
    BY <1>0, <1>3, <1>q, <2>1, <2>2, GroundKept DEF Live, Asked
<1>4. ASSUME NEW x \in Flight, Become(x, {}), UNCHANGED <<diffs, request>> PROVE Ground'
  BY <1>1, <1>4, FlyIs
<1> QED
  BY <1>2, <1>3, <1>4 DEF Crash

\* So it holds throughout.
LEMMA GroundStep ==
    TypeOK /\ Ground /\ [Next]_vars => Ground'
<1> SUFFICES ASSUME TypeOK, Ground, [Next]_vars PROVE Ground'
  OBVIOUS
<1>1. CASE \E l \in Law : Task(l)
  BY <1>1, GroundTask
<1>2. CASE Diff
  BY <1>2, GroundDiff
<1>3. CASE \E u \in User : Create(u) \/ Ask(u) \/ Serve(u)
  BY <1>3, GroundUser
<1>4. CASE Crash
  BY <1>4, GroundCrash
<1>5. CASE UNCHANGED vars
  <2>1. \A m \in Law, r \in Stages, b \in Reads : On(m, r, b)' <=> On(m, r, b)
    BY <1>5, StayIs DEF TypeOK, vars, tasks
  <2> QED
    BY <1>5, <2>1 DEF vars, laws, tasks, users, Ground, NotYet, Unknown, HasDoc, CurrentRead,
                      Live, Asked, Stages, Reads, Reading
<1> QED
  BY <1>1, <1>2, <1>3, <1>4, <1>5 DEF Next

\* It holds at the beginning.
LEMMA GroundInit ==
    Init => Ground
<1> SUFFICES ASSUME Init PROVE Ground
  OBVIOUS
<1>1. \A m \in Law, r \in Stages, b \in Reads : ~On(m, r, b)
  BY FlyIs DEF Init, On
<1> QED
  BY <1>1 DEF Init, Ground, NotYet, Unknown, HasDoc, CurrentRead, Live, Asked, Resplit,
              Stages, Reads, Reading

\* SplitHasRules holds throughout: it is inductive with the types.
THEOREM SplitWithRules == Spec => []SplitHasRules
<1>1. Init => SplitHasRules
  BY DEF Init, SplitHasRules, Live
<1>2. TypeOK /\ SplitHasRules /\ [Next]_vars => SplitHasRules'
  <2> SUFFICES ASSUME TypeOK, SplitHasRules, [Next]_vars PROVE SplitHasRules'
    OBVIOUS
  <2>0. /\ status \in [Law -> LawStatus] /\ rules \in [Law -> Nat]
        /\ alive \in [Law -> {"absent", "live", "deleted"}]
    BY DEF TypeOK
  <2>1. ASSUME NEW l \in Law, Task(l) PROVE SplitHasRules'
    <3>1. ASSUME NEW d \in {"current", "draft"}, SplitCommit(l, d) PROVE SplitHasRules'
      BY <2>0, <3>1 DEF SplitCommit, SetStatus, ReplaceRules, SplitHasRules, Live
    <3>2. CASE /\ UNCHANGED <<alive, rules>>
               /\ \/ UNCHANGED status
                  \/ \E s : SetStatus(l, s) /\ s # "SPLIT"
      BY <2>0, <3>2 DEF SetStatus, SplitHasRules, Live
    <3>3. ASSUME NEW d \in {"current", "draft"},
                 \/ ParsePost(l, d) \/ ParseFails(l, d) \/ ParseRecord(l, d)
                 \/ EarlyCallback(l, d)
                 \/ Fetch(l, d) \/ FetchPage(l, d) \/ FetchFails(l, d) \/ SplitFails(l, d)
          PROVE  /\ UNCHANGED <<alive, rules>>
                 /\ \/ UNCHANGED status
                    \/ \E s : SetStatus(l, s) /\ s # "SPLIT"
      <4>1. UNCHANGED <<alive, rules>>
        BY <3>3 DEF ParsePost, ParseFails, ParseRecord, EarlyCallback, Answer, Fetch,
                    FetchPage, FetchFails, SplitFails, laws
      <4>2. \/ UNCHANGED status \/ SetStatus(l, "FETCH_FAIL") \/ SetStatus(l, "PARSE_FAIL")
            \/ SetStatus(l, "PARSING") \/ SetStatus(l, "PARSED") \/ SetStatus(l, "SPLIT_FAIL")
        BY <3>3 DEF ParsePost, ParseFails, ParseRecord, EarlyCallback, Answer, Fetch,
                    FetchPage, FetchFails, SplitFails, laws
      <4> QED
        BY <4>1, <4>2
    <3>4. ASSUME \/ ParseStart(l) \/ Callback(l) \/ CallbackFails(l) \/ CallbackRefused(l)
                 \/ SplitStart(l) \/ Report(l)
          PROVE  /\ UNCHANGED <<alive, rules>>
                 /\ \/ UNCHANGED status
                    \/ \E s : SetStatus(l, s) /\ s # "SPLIT"
      <4>1. UNCHANGED <<alive, rules>>
        BY <3>4 DEF ParseStart, Callback, CallbackFails, CallbackRefused, Answer, SplitStart,
                    Report, laws
      <4>2. \/ UNCHANGED status \/ SetStatus(l, "PARSE_FAIL")
            \/ SetStatus(l, "PARSED") \/ SetStatus(l, "SPLITTING")
        BY <3>4 DEF ParseStart, Callback, CallbackFails, CallbackRefused, Answer, SplitStart,
                    Report, laws
      <4> QED
        BY <4>1, <4>2
    <3> QED
      BY <2>1, <3>1, <3>2, <3>3, <3>4 DEF Task, Read
  <2>2. CASE Diff
    BY <2>2 DEF Diff, DiffCheck, DiffCompare, DiffWrite, laws, SplitHasRules, Live
  <2>3. ASSUME NEW u \in User, Create(u) PROVE SplitHasRules'
    <3>1. PICK S \in SUBSET Law :
             /\ alive' = [l \in Law |-> IF l \in S THEN "live" ELSE alive[l]]
             /\ AddLaws(S, TRUE)
      BY <2>3 DEF Create
    <3> QED
      BY <2>0, <2>3, <3>1 DEF Create, AddLaws, SplitHasRules, Live
  <2>4. ASSUME NEW u \in User, Refresh(u) PROVE SplitHasRules'
    <3>1. PICK S \in SUBSET Law :
             /\ alive' = [l \in Law |-> IF l \in S THEN "live"
                                        ELSE IF l \in request[u].laws THEN "deleted" ELSE alive[l]]
             /\ rules' = [l \in Law |-> IF l \in request[u].laws THEN 0 ELSE rules[l]]
             /\ AddLaws(S, FALSE)
      BY <2>4 DEF Refresh
    <3> QED
      BY <2>0, <3>1 DEF AddLaws, SplitHasRules, Live
  <2>5. ASSUME NEW u \in User, Ask(u) \/ Dispatch(u) PROVE SplitHasRules'
    BY <2>5 DEF Ask, Dispatch, laws, SplitHasRules, Live
  <2>6. ASSUME NEW u \in User, Trigger(u) PROVE SplitHasRules'
    <3>1. UNCHANGED <<alive, rules>>
          /\ (UNCHANGED status \/ \E l \in request[u].laws : SetStatus(l, "PENDING"))
      BY <2>6 DEF Trigger
    <3> QED
      BY <2>0, <3>1 DEF SetStatus, SplitHasRules, Live
  <2>7. ASSUME NEW u \in User, RefreshRefused(u) \/ Revert(u) \/ Apply(u) \/ Delete(u)
        PROVE  SplitHasRules'
    <3>1. UNCHANGED status
          /\ (UNCHANGED <<alive, rules>> \/ \E S : DeleteLaws(S))
      BY <2>7 DEF RefreshRefused, Revert, Apply, Delete
    <3> QED
      BY <2>0, <3>1 DEF DeleteLaws, SplitHasRules, Live
  <2>8. CASE Crash \/ UNCHANGED vars
    BY <2>8 DEF Crash, vars, laws, SplitHasRules, Live
  <2> QED
    BY <2>1, <2>2, <2>3, <2>4, <2>5, <2>6, <2>7, <2>8 DEF Next, Serve
<1> QED
  BY <1>1, <1>2, TypeCorrect, PTL DEF Spec

-----------------------------------------------------------------------------
(* No law is stranded. *)

\* The stages that write no status any more, or none but a failure.
Aside == {"refetching", "answered", "outdated", "failed"}

\* What Pending says, in terms of stages.
Coming(l) ==
    \/ \E s \in Stages \ Aside, d \in Reads : On(l, s, d)
    \/ \E u \in User : Asked(u, "dispatch") /\ l \in request[u].laws

\* The two say the same.
LEMMA PendingIs ==
    ASSUME NEW l \in Law
    PROVE  Pending(l) <=> Coming(l)
<1>1. ASSUME NEW s \in Stages \ Aside, NEW d \in Reads, On(l, s, d)
      PROVE  Pending(l)
  <2>1. Fly(l, s, d) \in Flight
    BY <1>1, FlyIs DEF On
  <2>2. Fly(l, s, d).law = l /\ Fly(l, s, d).stage = s
    BY DEF Fly
  <2> QED
    BY <1>1, <2>1, <2>2 DEF On, Pending, Aside
<1>2. ASSUME NEW x \in Flight, x.law = l, x.stage \notin Aside, flights[x] > 0
      PROVE  Coming(l)
  <2>1. PICK m \in Law, s \in Stages, d \in Reads : x = Fly(m, s, d) /\ Kind(s, d)
    BY FlyIs
  <2>2. m = l /\ s \notin Aside
    BY <1>2, <2>1 DEF Fly
  <2> QED
    BY <1>2, <2>1, <2>2 DEF On, Coming
<1> QED
  BY <1>1, <1>2 DEF Pending, Coming, Aside

\* No answer has come early; what is parsed is being split; what is in progress
\* has something to come.
Way(l) ==
    /\ \A d \in Reads : ~On(l, "answered", d)
    /\ Live(l) /\ status[l] \in {"PARSED", "SPLITTING"} =>
        \E d \in Reads : On(l, "split", d) \/ On(l, "splitting", d)
    /\ Live(l) /\ status[l] \in InProgress => Coming(l)

Quiet == trouble \cap {"crash", "early", "changed"} = {}

OnTheWay == Quiet => \A l \in Law : Way(l)

\* A task of one law leaves the way of another as it is, and keeps the requests.
LEMMA WayOfOthers ==
    ASSUME NEW l \in Law, TaskEffect(l), NEW m \in Law, m # l, Way(m)
    PROVE  Way(m)'
<1>1. /\ \A r \in Stages, b \in Reads : On(m, r, b)' <=> On(m, r, b)
      /\ status'[m] = status[m] /\ (Live(m)' <=> Live(m))
      /\ Coming(m) => Coming(m)'
  BY DEF TaskEffect, Confined, Live, Coming, Asked
<1> QED
  BY <1>1 DEF Way, Stages

\* And its own.
LEMMA WayOfOwn ==
    ASSUME TypeOK, Ground, NEW l \in Law, Task(l), TaskEffect(l), Way(l),
           "early" \notin trouble', "changed" \notin trouble'
    PROVE  Way(l)'
<1>0. /\ flights \in [Flight -> Nat] /\ status \in [Law -> LawStatus]
      /\ Live(l)' <=> Live(l)
      /\ "draft" # "unread" /\ "draft" # "current"
  BY DEF TypeOK, TaskEffect, Live
<1>s. /\ "parse" \in Stages /\ "fetching" \in Stages /\ "posting" \in Stages
      /\ "refetching" \in Stages /\ "outdated" \in Stages /\ FirstStage(l) \in Stages
      /\ "posted" \in Stages /\ "answered" \in Stages /\ "insight" \in Stages
      /\ "split" \in Stages /\ "splitting" \in Stages /\ "failed" \in Stages
      /\ "unread" \in Reads /\ "current" \in Reads /\ "draft" \in Reads
      /\ IsCurrent(l) \in Reads
      /\ {"parse", "fetching", "posting", "posted", "insight", "split", "splitting"}
           = Stages \ Aside
  BY DEF Stages, Reads, IsCurrent, FirstStage, Aside
<1>t. \A s \in Stages \ Aside, d \in Reads : On(l, s, d)' => Coming(l)'
  BY DEF Coming
<1>1. ASSUME ParseStart(l) PROVE Way(l)'
  <2>0. status'[l] = status[l]
    BY <1>1 DEF ParseStart, laws
  <2>1. ASSUME Ended(l, "parse", "unread"), ~Live(l) \/ status[l] \in AtLeastParsed
        PROVE  Way(l)'
    BY <1>0, <1>s, <1>t, <2>0, <2>1 DEF Way, Ended, Lasting, AtLeastParsed, InProgress
  <2>2. ASSUME NEW s \in {"fetching", "posting"}, NEW e \in Reads,
               WentOn(l, "parse", "unread", s, e)
        PROVE  Way(l)'
    <3>1. Coming(l)'
      BY <1>s, <1>t, <2>2 DEF WentOn
    <3>2. \A r \in {"split", "splitting"}, b \in Reads : On(l, r, b) => On(l, r, b)'
      BY <1>s, <2>2 DEF WentOn, Lasting
    <3>3. \A b \in Reads : On(l, "answered", b)' => On(l, "answered", b)
      BY <1>s, <2>2 DEF WentOn
    <3> QED
      BY <1>0, <2>0, <3>1, <3>2, <3>3 DEF Way
  <2>3. ASSUME NEW e \in Reads, status[l] \in AtLeastParsed,
               WentOn(l, "parse", "unread", "refetching", e)
        PROVE  Way(l)'
    <3>1. \A r \in {"split", "splitting"}, b \in Reads : On(l, r, b) => On(l, r, b)'
      BY <1>s, <2>3 DEF WentOn, Lasting
    <3>2. \A b \in Reads : On(l, "answered", b)' => On(l, "answered", b)
      BY <1>s, <2>3 DEF WentOn
    <3>3. status[l] \in InProgress => status[l] \in {"PARSED", "SPLITTING"}
      BY <2>3 DEF AtLeastParsed, InProgress
    <3> QED
      BY <1>0, <1>s, <1>t, <2>0, <3>1, <3>2, <3>3 DEF Way
  <2>4. FirstStage(l) \in {"fetching", "posting", "refetching"}
    BY DEF FirstStage
  <2> QED
    BY <1>0, <1>s, <1>1, <2>1, <2>2, <2>3, <2>4, ParseStartIs
<1>14. ASSUME NEW d \in {"current", "draft"}, FetchPage(l, d) PROVE Way(l)'
  <2>0. status'[l] = status[l] /\ d \in Reads
    BY <1>s, <1>14 DEF FetchPage, laws
  <2>1. ASSUME WentOn(l, "fetching", d, "posting", d) PROVE Way(l)'
    BY <1>0, <1>s, <1>t, <2>0, <2>1 DEF Way, WentOn, Lasting
  <2>2. ASSUME Ended(l, "refetching", d) PROVE Way(l)'
    <3>1. Coming(l) => Coming(l)'
      BY <1>s, <2>2 DEF Ended, Lasting, Coming, Asked, TaskEffect, Aside
    <3> QED
      BY <1>0, <1>s, <2>0, <2>2, <3>1 DEF Way, Ended, Lasting
  <2> QED
    BY <1>0, <1>14, <2>1, <2>2, FetchPageIs DEF Fails
<1>15. ASSUME CallbackRefused(l) PROVE Way(l)'
  <2>0. status'[l] = status[l]
    BY <1>15 DEF CallbackRefused, laws
  <2>1. Ended(l, "outdated", "unread")
    BY <1>0, <1>15, CallbackRefusedIs
  <2>2. Coming(l) => Coming(l)'
    BY <2>1 DEF Ended, Lasting, Coming, Asked, TaskEffect, Aside
  <2> QED
    BY <1>0, <1>s, <2>0, <2>1, <2>2 DEF Way, Ended, Lasting
<1>2. ASSUME NEW d \in {"current", "draft"}, ParsePost(l, d) PROVE Way(l)'
  <2>0. status'[l] = status[l]
    BY <1>2 DEF ParsePost, laws
  <2>1. WentOn(l, "posting", d, "posted", d)
    BY <1>0, <1>2, ParsePostIs
  <2> QED
    BY <1>0, <1>s, <1>t, <2>0, <2>1 DEF Way, WentOn, Lasting
<1>3. ASSUME NEW d \in {"current", "draft"}, ParseFails(l, d) PROVE Way(l)'
  <2>0. status'[l] \in Failed
    BY <1>0, <1>3 DEF ParseFails, SetStatus, Failed
  <2>1. \A b \in Reads : On(l, "answered", b)' => On(l, "answered", b)
    BY <1>0, <1>s, <1>3, ParseFailsIs DEF Ended, WentOn, Parted
  <2> QED
    BY <2>0, <2>1 DEF Way, Failed, InProgress
<1>4. ASSUME NEW d \in {"current", "draft"}, ParseRecord(l, d) PROVE Way(l)'
  <2>0. status'[l] = "PARSING"
    BY <1>0, <1>4 DEF ParseRecord, SetStatus
  <2>1. ~On(l, "answered", d)
    BY <1>s DEF Way
  <2>2. WentOn(l, "posted", d, "insight", "unread")
    BY <1>0, <1>4, <2>1, ParseRecordIs DEF Ended, Lasting
  <2> QED
    BY <1>0, <1>s, <1>t, <2>0, <2>2 DEF Way, WentOn, Lasting
<1>5. ASSUME NEW d \in {"current", "draft"}, Fetch(l, d) PROVE Way(l)'
  <2>1. WentOn(l, "fetching", d, "split", "unread")
    BY <1>0, <1>5, FetchIs
  <2> QED
    BY <1>0, <1>s, <1>t, <2>1 DEF Way, WentOn, Lasting
<1>6. ASSUME NEW d \in {"current", "draft"}, FetchFails(l, d) PROVE Way(l)'
  <2>0. status'[l] \in Failed
    BY <1>0, <1>6 DEF FetchFails, SetStatus, Failed
  <2>1. \A b \in Reads : On(l, "answered", b)' => On(l, "answered", b)
    BY <1>0, <1>s, <1>6, FetchFailsIs DEF Ended, WentOn, Parted
  <2> QED
    BY <2>0, <2>1 DEF Way, Failed, InProgress
<1>7. ASSUME Report(l) PROVE Way(l)'
  <2>0. status'[l] = status[l]
    BY <1>7 DEF Report, laws
  <2>1. Ended(l, "failed", "draft")
    BY <1>0, <1>7, ReportIs
  <2>2. Coming(l) => Coming(l)'
    BY <2>1 DEF Ended, Lasting, Coming, Asked, TaskEffect, Aside
  <2> QED
    BY <1>0, <1>s, <2>0, <2>1, <2>2 DEF Way, Ended, Lasting
<1>8. ASSUME Callback(l) PROVE Way(l)'
  <2>1. ASSUME ~Live(l), Ended(l, "insight", "unread") PROVE Way(l)'
    BY <1>0, <1>s, <2>1 DEF Way, Ended
  <2>2. ASSUME WentOn(l, "insight", "unread", "split", "unread") PROVE Way(l)'
    BY <1>0, <1>s, <1>t, <2>2 DEF Way, WentOn
  <2> QED
    BY <1>0, <1>8, <2>1, <2>2, CallbackIs
<1>9. ASSUME NEW d \in {"current", "draft"}, EarlyCallback(l, d) PROVE Way(l)'
  BY <1>9 DEF EarlyCallback, Fails
<1>10. ASSUME CallbackFails(l) PROVE Way(l)'
  <2>0. status'[l] \in Failed
    BY <1>0, <1>10 DEF CallbackFails, SetStatus, Failed
  <2>1. \A b \in Reads : On(l, "answered", b)' => On(l, "answered", b)
    BY <1>0, <1>s, <1>10, CallbackFailsIs DEF Ended, WentOn, Parted
  <2> QED
    BY <2>0, <2>1 DEF Way, Failed, InProgress
<1>11. ASSUME SplitStart(l) PROVE Way(l)'
  <2>1. On(l, "split", "unread")
    BY <1>0, <1>11, SplitStartIs DEF Ended, WentOn, Lasting
  <2>2. doc[l]
    BY <1>s, <2>1 DEF Ground, HasDoc
  <2>3. ASSUME ~Live(l), Ended(l, "split", "unread") PROVE Way(l)'
    BY <1>0, <1>s, <2>3 DEF Way, Ended
  <2>4. ASSUME NEW e \in Reads, WentOn(l, "split", "unread", "splitting", e) PROVE Way(l)'
    <3>1. On(l, "splitting", e)' /\ Coming(l)'
      BY <1>s, <1>t, <2>4 DEF WentOn
    <3>2. \A b \in Reads : On(l, "answered", b)' => On(l, "answered", b)
      BY <1>s, <2>4 DEF WentOn
    <3> QED
      BY <3>1, <3>2 DEF Way
  <2> QED
    BY <1>0, <1>s, <1>11, <2>2, <2>3, <2>4, SplitStartIs
<1>12. ASSUME NEW d \in {"current", "draft"}, SplitCommit(l, d) PROVE Way(l)'
  <2>0. status'[l] = "SPLIT"
    BY <1>0, <1>12 DEF SplitCommit, SetStatus
  <2>1. Ended(l, "splitting", d)
    BY <1>0, <1>12, SplitCommitIs
  <2> QED
    BY <1>s, <2>0, <2>1 DEF Way, Ended, InProgress
<1>13. ASSUME NEW d \in {"current", "draft"}, SplitFails(l, d) PROVE Way(l)'
  <2>0. status'[l] \in Failed
    BY <1>0, <1>13 DEF SplitFails, SetStatus, Failed
  <2>1. \A b \in Reads : On(l, "answered", b)' => On(l, "answered", b)
    BY <1>0, <1>s, <1>13, SplitFailsIs DEF Ended, WentOn, Parted
  <2> QED
    BY <2>0, <2>1 DEF Way, Failed, InProgress
<1> QED
  BY <1>1, <1>2, <1>3, <1>4, <1>5, <1>6, <1>7, <1>8, 
     <1>9, <1>10, <1>11, <1>12, <1>13, <1>14, <1>15 DEF Task, Read

\* A request leaves every law on its way when what it takes from it is what it sends.
LEMMA WayKept ==
    ASSUME NEW l \in Law, Way(l),
           \A s \in Stages, d \in Reads :
                /\ On(l, s, d) => On(l, s, d)'
                /\ New(l, s, d) => s # "answered",
           \/ (Live(l)' => Live(l)) /\ status'[l] = status[l]
           \/ status'[l] \notin {"PARSED", "SPLITTING"} /\ Coming(l)',
           \A v \in User : Asked(v, "dispatch") /\ l \in request[v].laws => Coming(l)'
    PROVE  Way(l)'
<1>1. \A d \in Reads : ~On(l, "answered", d)'
  BY DEF Way, New, Stages
<1>2. Coming(l) => Coming(l)'
  BY DEF Coming
<1>3. \A d \in Reads : On(l, "split", d) \/ On(l, "splitting", d) =>
                        On(l, "split", d)' \/ On(l, "splitting", d)'
  BY DEF Stages
<1>4. CASE (Live(l)' => Live(l)) /\ status'[l] = status[l]
  BY <1>1, <1>2, <1>3, <1>4 DEF Way
<1>5. CASE status'[l] \notin {"PARSED", "SPLITTING"} /\ Coming(l)'
  BY <1>1, <1>5 DEF Way
<1> QED
  BY <1>4, <1>5

\* So no request strands a law.
LEMMA WayOfUser ==
    ASSUME TypeOK, Ground, NEW u \in User, Create(u) \/ Ask(u) \/ Serve(u), NEW l \in Law, Way(l)
    PROVE  Way(l)'
<1>0. /\ request \in [User -> Request \cup {None}] /\ flights \in [Flight -> Nat]
      /\ refresh \in LawRefreshStatus /\ status \in [Law -> LawStatus]
      /\ alive \in [Law -> {"absent", "live", "deleted"}]
      /\ "parse" \in Stages \ Aside /\ "split" \in Stages \ Aside
      /\ Kind("parse", "unread") /\ Kind("split", "unread")
      /\ "unread" \in Reads /\ "dispatch" \in Op /\ {} \in SUBSET Law
  BY DEF TypeOK, Stages, Reads, Op, Aside, Kind
<1>q. \A v \in User : request[v] # None =>
         request[v].laws \in SUBSET Law /\ request[v].others \in SUBSET Law
  BY <1>0 DEF Request
<1>f. UNCHANGED flights => \A s \in Stages, d \in Reads :
         (On(l, s, d) => On(l, s, d)') /\ ~New(l, s, d)
  BY <1>0, StayIs DEF New
<1>s. ASSUME NEW m \in Law, NEW s \in {"parse", "split"}, Send(m, s)
      PROVE  /\ \A r \in Stages, d \in Reads :
                  (On(l, r, d) => On(l, r, d)') /\ (New(l, r, d) => r # "answered")
             /\ m = l => Coming(l)'
  BY <1>0, <1>s, SendIs DEF New, Coming
<1>l. ASSUME NEW m \in Law, request[u] # None, m = l => Coming(l)', Sent(u, m)
      PROVE  \A v \in User : Asked(v, "dispatch") /\ l \in request[v].laws => Coming(l)'
  <2>1. /\ \/ request[u].laws \subseteq {m}
           \/ /\ request'[u] # None /\ request'[u].op = request[u].op
              /\ request'[u].laws = request[u].laws \ {m}
        /\ \A v \in User \ {u} : request'[v] = request[v]
    BY <1>0, <1>l, SentIs
  <2> TAKE v \in User
  <2> HAVE Asked(v, "dispatch") /\ l \in request[v].laws
  <2>2. CASE v # u
    BY <2>1, <2>2 DEF Coming, Asked
  <2>3. CASE v = u /\ m # l
    BY <2>1, <2>3 DEF Coming, Asked
  <2>4. CASE m = l
    BY <1>l, <2>4
  <2> QED
    BY <2>2, <2>3, <2>4
<1>e. ASSUME ~Asked(u, "dispatch") \/ request[u].laws = {},
             \A v \in User \ {u} : request'[v] = request[v]
      PROVE  \A v \in User : Asked(v, "dispatch") /\ l \in request[v].laws => Coming(l)'
  BY <1>e DEF Coming, Asked
<1>b. ASSUME NEW op \in Op, NEW S \in SUBSET Law, NEW T \in SUBSET Law, Begin(u, op, S, T)
      PROVE  /\ \A v \in User \ {u} : request'[v] = request[v]
             /\ op = "dispatch" /\ l \in S => Coming(l)'
  <2>1. /\ request'[u] # None /\ request'[u].op = op /\ request'[u].laws = S
        /\ \A v \in User \ {u} : request'[v] = request[v]
    BY <1>0, <1>b, BeginIs
  <2> QED
    BY <2>1 DEF Coming, Asked
<1>1. ASSUME Create(u) PROVE Way(l)'
  <2>1. PICK S \in SUBSET Law :
           /\ alive' = [m \in Law |-> IF m \in S THEN "live" ELSE alive[m]]
           /\ AddLaws(S, TRUE)
           /\ Begin(u, "dispatch", S, {})
    BY <1>1 DEF Create
  <2>2. UNCHANGED flights /\ request[u] = None
    BY <1>1 DEF Create, tasks, Ground, NotYet
  <2>3. /\ \A v \in User : Asked(v, "dispatch") /\ l \in request[v].laws => Coming(l)'
        /\ l \in S => Coming(l)'
    BY <1>0, <1>b, <1>e, <2>1, <2>2 DEF Asked
  <2>4. \/ (Live(l)' => Live(l)) /\ status'[l] = status[l]
        \/ status'[l] \notin {"PARSED", "SPLITTING"} /\ Coming(l)'
    BY <1>0, <2>1, <2>3 DEF AddLaws, Live
  <2> QED
    BY <1>f, <2>2, <2>3, <2>4, WayKept
<1>2. ASSUME Dispatch(u) PROVE Way(l)'
  <2>0. request[u] # None /\ UNCHANGED <<alive, status>>
    BY <1>2 DEF Dispatch, Asked, laws
  <2>1. ASSUME NEW m \in Law, Send(m, "parse"), Sent(u, m)
        PROVE  Way(l)'
    BY <1>l, <1>s, <2>0, <2>1, WayKept DEF Live
  <2> QED
    BY <1>2, <1>q, <2>0, <2>1 DEF Dispatch
<1>3. ASSUME Ask(u) PROVE Way(l)'
  <2>1. PICK op \in Op, S \in SUBSET Law, T \in SUBSET Law : Begin(u, op, S, T)
    BY <1>3 DEF Ask, Op, Currents, Drafts
  <2>2. UNCHANGED <<alive, status, flights>> /\ request[u] = None
    BY <1>3 DEF Ask, laws, tasks
  <2> QED
    BY <1>b, <1>e, <1>f, <2>1, <2>2, WayKept DEF Live, Asked
<1>4. ASSUME Trigger(u) PROVE Way(l)'
  <2>0. request[u] # None /\ ~Asked(u, "dispatch") /\ UNCHANGED alive
    BY <1>4 DEF Trigger, Asked
  <2>1. ASSUME NEW m \in Law, SetStatus(m, "PENDING"), Send(m, "parse"), Sent(u, m)
        PROVE  Way(l)'
    <3>1. \/ (Live(l)' => Live(l)) /\ status'[l] = status[l]
          \/ status'[l] \notin {"PARSED", "SPLITTING"} /\ Coming(l)'
      BY <1>0, <1>s, <2>0, <2>1 DEF SetStatus, Live
    <3> QED
      BY <1>l, <1>s, <2>0, <2>1, <3>1, WayKept
  <2>2. ASSUME NEW m \in Law, Send(m, "split"), UNCHANGED status, Sent(u, m)
        PROVE  Way(l)'
    BY <1>l, <1>s, <2>0, <2>2, WayKept DEF Live
  <2>3. CASE End(u) /\ UNCHANGED <<status, flights>>
    <3>1. \A v \in User \ {u} : request'[v] = request[v]
      BY <1>0, <2>3, EndIs
    <3> QED
      BY <1>e, <1>f, <2>0, <2>3, <3>1, WayKept DEF Live
  <2> QED
    BY <1>4, <1>q, <2>0, <2>1, <2>2, <2>3 DEF Trigger
<1>5. ASSUME Refresh(u) PROVE Way(l)'
  <2>1. PICK S \in SUBSET Law :
           /\ alive' = [m \in Law |-> IF m \in S THEN "live"
                                      ELSE IF m \in request[u].laws THEN "deleted" ELSE alive[m]]
           /\ AddLaws(S, FALSE)
           /\ Begin(u, "dispatch", S, {})
    BY <1>5 DEF Refresh
  <2>2. UNCHANGED flights /\ ~Asked(u, "dispatch")
    BY <1>5 DEF Refresh, tasks, Asked
  <2>3. /\ \A v \in User : Asked(v, "dispatch") /\ l \in request[v].laws => Coming(l)'
        /\ l \in S => Coming(l)'
    BY <1>0, <1>b, <1>e, <2>1, <2>2
  <2>4. \/ (Live(l)' => Live(l)) /\ status'[l] = status[l]
        \/ status'[l] \notin {"PARSED", "SPLITTING"} /\ Coming(l)'
    BY <1>0, <2>1, <2>3 DEF AddLaws, Live
  <2> QED
    BY <1>f, <2>2, <2>3, <2>4, WayKept
<1>6. ASSUME RefreshRefused(u) \/ Revert(u) \/ Apply(u) \/ Delete(u) PROVE Way(l)'
  <2>0. /\ ~Asked(u, "dispatch") /\ UNCHANGED <<status, flights>> /\ End(u)
    BY <1>6 DEF RefreshRefused, Revert, Apply, Delete, Asked, tasks
  <2>1. Live(l)' => Live(l)
    BY <1>6 DEF RefreshRefused, Revert, Apply, Delete, DeleteLaws, Live
  <2>2. \A v \in User \ {u} : request'[v] = request[v]
    BY <1>0, <2>0, EndIs
  <2> QED
    BY <1>e, <1>f, <2>0, <2>1, <2>2, WayKept
<1> QED
  BY <1>1, <1>2, <1>3, <1>4, <1>5, <1>6 DEF Serve

\* What has gone wrong stays on record.
LEMMA TroubleStays ==
    [Next]_vars => trouble \subseteq trouble'
<1>0. \A fault : Fails(fault) => trouble \subseteq trouble'
  BY DEF Fails
<1>1. ASSUME NEW l \in Law, Task(l) PROVE trouble \subseteq trouble'
  <2>1. CASE \/ ParseStart(l) \/ Callback(l) \/ CallbackFails(l) \/ CallbackRefused(l)
             \/ SplitStart(l) \/ Report(l)
    BY <1>0, <2>1 DEF ParseStart, Callback, CallbackFails, CallbackRefused, SplitStart, Report
  <2>2. ASSUME NEW d \in Read, ParsePost(l, d) \/ ParseFails(l, d) \/ ParseRecord(l, d)
        PROVE  trouble \subseteq trouble'
    BY <1>0, <2>2 DEF ParsePost, ParseFails, ParseRecord
  <2>3. ASSUME NEW d \in Read, EarlyCallback(l, d) \/ Fetch(l, d) \/ FetchPage(l, d)
        PROVE  trouble \subseteq trouble'
    BY <1>0, <2>3 DEF EarlyCallback, Fetch, FetchPage
  <2>4. ASSUME NEW d \in Read, FetchFails(l, d) \/ SplitCommit(l, d) \/ SplitFails(l, d)
        PROVE  trouble \subseteq trouble'
    BY <1>0, <2>4 DEF FetchFails, SplitCommit, SplitFails
  <2> QED
    BY <1>1, <2>1, <2>2, <2>3, <2>4 DEF Task
<1>2. CASE Diff
  BY <1>0, <1>2 DEF Diff, DiffCheck, DiffCompare, DiffWrite
<1>3. ASSUME NEW u \in User, Create(u) \/ Ask(u) \/ Serve(u) PROVE trouble \subseteq trouble'
  BY <1>3 DEF Create, Ask, Serve, Dispatch, Trigger, Refresh, RefreshRefused, Revert, Apply, Delete
<1>4. CASE Crash \/ UNCHANGED vars
  BY <1>0, <1>4 DEF Crash, vars
<1> QED
  BY <1>1, <1>2, <1>3, <1>4 DEF Next

\* Every step keeps every law on its way.
LEMMA OnTheWayStep ==
    TypeOK /\ Ground /\ OnTheWay /\ [Next]_vars => OnTheWay'
<1> SUFFICES ASSUME TypeOK, Ground, OnTheWay, [Next]_vars, Quiet' PROVE \A l \in Law : Way(l)'
  BY DEF OnTheWay
<1>0. /\ Quiet /\ "early" \notin trouble' /\ "crash" \notin trouble'
      /\ "changed" \notin trouble'
  BY TroubleStays DEF Quiet
<1>w. \A l \in Law : Way(l)
  BY <1>0 DEF OnTheWay
<1> TAKE l \in Law
<1>1. ASSUME NEW m \in Law, Task(m) PROVE Way(l)'
  <2>1. TaskEffect(m)
    BY <1>1, GroundTask
  <2> QED
    BY <1>0, <1>1, <1>w, <2>1, WayOfOthers, WayOfOwn
<1>2. CASE Diff \/ UNCHANGED vars
  <2>1. UNCHANGED <<alive, status, flights, request>>
    BY <1>2, GroundDiff DEF vars, laws, tasks, users
  <2>2. \A m \in Law, r \in Stages, b \in Reads : On(m, r, b)' <=> On(m, r, b)
    BY <2>1, StayIs DEF TypeOK
  <2> QED
    BY <1>w, <2>1, <2>2 DEF Way, Coming, Asked, Live, Stages
<1>3. ASSUME NEW u \in User, Create(u) \/ Ask(u) \/ Serve(u) PROVE Way(l)'
  BY <1>3, <1>w, WayOfUser
<1>4. CASE Crash
  BY <1>0, <1>4 DEF Crash, Fails
<1> QED
  BY <1>1, <1>2, <1>3, <1>4 DEF Next

\* No law is left in the middle of its way (parse_law_file to split_law_rules): a
\* task, a parse or a message is there to go on with it, but for the faults that
\* NotStranded names.
THEOREM NoneStranded == Spec => []NotStranded
<1>1. Init => TypeOK /\ Ground /\ OnTheWay
  <2> SUFFICES ASSUME Init PROVE TypeOK /\ Ground /\ OnTheWay
    OBVIOUS
  <2>1. TypeOK
    BY StatusNames DEF Init, TypeOK, LawRefreshStatus
  <2>2. \A m \in Law, r \in Stages, b \in Reads : ~On(m, r, b)
    BY FlyIs DEF Init, On
  <2>3. OnTheWay
    BY <2>2 DEF Init, OnTheWay, Way, Live, Stages
  <2> QED
    BY <2>1, <2>3, GroundInit
<1>2. TypeOK /\ Ground /\ OnTheWay /\ [Next]_vars => (TypeOK /\ Ground /\ OnTheWay)'
  BY TypeStep, GroundStep, OnTheWayStep
<1>3. OnTheWay => NotStranded
  BY PendingIs DEF OnTheWay, Quiet, Way, NotStranded
<1> QED
  BY <1>1, <1>2, <1>3, PTL DEF Spec

-----------------------------------------------------------------------------
(* A refresh has something to end it. *)

\* A draft on its way, a report to the order, or a comparison.
Busy ==
    \/ \E l \in Law : Live(l) /\ ~current[l] /\ status[l] \in InProgress
    \/ \E l \in Law : On(l, "failed", "draft")
    \/ \E s \in DiffStage : diffs[s] > 0

Refreshing == order = "live" /\ refresh = "REFRESHING"

HasDrafts == Refreshing => Drafts # {}

Untroubled == trouble \cap {"crash", "early", "callback", "changed", "compare"} = {}

RefreshOn == HasDrafts /\ (Untroubled /\ Refreshing /\ Currents # {} => Busy)

\* What a task does to a refresh: it fails it, or leaves it with all it had,
\* and a draft that comes out of its way does so with a report or a comparison.
Forwards(l) ==
    /\ refresh' \in {refresh, "FAILED"}
    /\ refresh' = "REFRESHING" /\ "changed" \notin trouble' =>
        /\ On(l, "failed", "draft") => On(l, "failed", "draft")'
        /\ \A s \in DiffStage : diffs[s] > 0 => diffs'[s] > 0
        /\ status[l] \in InProgress /\ ~current[l] =>
            \/ status'[l] \in InProgress
            \/ On(l, "failed", "draft")'
            \/ \E s \in DiffStage : diffs'[s] > 0
            \/ "callback" \in trouble'

\* Every task does so.
LEMMA ForwardsIs ==
    ASSUME TypeOK, Ground, NEW l \in Law, Task(l)
    PROVE  Forwards(l)
<1>0. /\ flights \in [Flight -> Nat] /\ status \in [Law -> LawStatus]
      /\ diffs \in [DiffStage -> Nat] /\ refresh \in LawRefreshStatus
  BY DEF TypeOK
<1>s. /\ "parse" \in Stages /\ "fetching" \in Stages /\ "posting" \in Stages
      /\ "refetching" \in Stages /\ "outdated" \in Stages /\ FirstStage(l) \in Stages
      /\ IsCurrent(l) \in Reads
      /\ "posted" \in Stages /\ "answered" \in Stages /\ "insight" \in Stages
      /\ "split" \in Stages /\ "splitting" \in Stages /\ "failed" \in Stages
      /\ "unread" \in Reads /\ "current" \in Reads /\ "draft" \in Reads
      /\ {"fetching", "refetching", "posting", "posted", "splitting"} \subseteq Reading
  BY DEF Stages, Reads, Reading, FirstStage, IsCurrent
<1>1. ASSUME ParseStart(l) PROVE Forwards(l)
  <2>1. /\ refresh' = refresh /\ diffs' = diffs
        /\ status[l] \in InProgress => status'[l] \in InProgress
    BY <1>0, <1>1 DEF ParseStart, laws
  <2>2. On(l, "failed", "draft") => On(l, "failed", "draft")'
    BY <1>0, <1>s, <1>1, ParseStartIs DEF Ended, WentOn, Parted, Lasting
  <2> QED
    BY <2>1, <2>2 DEF Forwards
<1>2. ASSUME NEW d \in {"current", "draft"}, ParsePost(l, d) PROVE Forwards(l)
  <2>1. /\ refresh' = refresh /\ diffs' = diffs
        /\ status[l] \in InProgress => status'[l] \in InProgress
    BY <1>0, <1>2 DEF ParsePost, laws
  <2>2. On(l, "failed", "draft") => On(l, "failed", "draft")'
    BY <1>0, <1>s, <1>2, ParsePostIs DEF Ended, WentOn, Parted, Lasting
  <2> QED
    BY <2>1, <2>2 DEF Forwards
<1>4. ASSUME NEW d \in {"current", "draft"}, ParseRecord(l, d) PROVE Forwards(l)
  <2>1. /\ refresh' = refresh /\ diffs' = diffs
        /\ status[l] \in InProgress => status'[l] \in InProgress
    BY <1>0, <1>4 DEF ParseRecord, SetStatus, InProgress
  <2>2. On(l, "failed", "draft") => On(l, "failed", "draft")'
    BY <1>0, <1>s, <1>4, ParseRecordIs DEF Ended, WentOn, Parted, Lasting
  <2> QED
    BY <2>1, <2>2 DEF Forwards
<1>5. ASSUME NEW d \in {"current", "draft"}, Fetch(l, d) PROVE Forwards(l)
  <2>1. /\ refresh' = refresh /\ diffs' = diffs
        /\ status[l] \in InProgress => status'[l] \in InProgress
    BY <1>0, <1>5 DEF Fetch, SetStatus, InProgress
  <2>2. On(l, "failed", "draft") => On(l, "failed", "draft")'
    BY <1>0, <1>s, <1>5, FetchIs DEF Ended, WentOn, Parted, Lasting
  <2> QED
    BY <2>1, <2>2 DEF Forwards
<1>8. ASSUME Callback(l) PROVE Forwards(l)
  <2>1. /\ refresh' = refresh /\ diffs' = diffs
        /\ status[l] \in InProgress => status'[l] \in InProgress
    BY <1>0, <1>8 DEF Callback, Answer, SetStatus, InProgress
  <2>2. On(l, "failed", "draft") => On(l, "failed", "draft")'
    BY <1>0, <1>s, <1>8, CallbackIs DEF Ended, WentOn, Parted, Lasting
  <2> QED
    BY <2>1, <2>2 DEF Forwards
<1>9. ASSUME NEW d \in {"current", "draft"}, EarlyCallback(l, d) PROVE Forwards(l)
  <2>1. /\ refresh' = refresh /\ diffs' = diffs
        /\ status[l] \in InProgress => status'[l] \in InProgress
    BY <1>0, <1>9 DEF EarlyCallback, Answer, SetStatus, InProgress
  <2>2. On(l, "failed", "draft") => On(l, "failed", "draft")'
    BY <1>0, <1>s, <1>9, EarlyCallbackIs DEF Ended, WentOn, Parted, Lasting
  <2> QED
    BY <2>1, <2>2 DEF Forwards
<1>11. ASSUME SplitStart(l) PROVE Forwards(l)
  <2>1. /\ refresh' = refresh /\ diffs' = diffs
        /\ status[l] \in InProgress => status'[l] \in InProgress
    BY <1>0, <1>11 DEF SplitStart, SetStatus, InProgress
  <2>2. On(l, "failed", "draft") => On(l, "failed", "draft")'
    BY <1>0, <1>s, <1>11, SplitStartIs DEF Ended, WentOn, Parted, Lasting
  <2> QED
    BY <2>1, <2>2 DEF Forwards
<1>3. ASSUME NEW d \in {"current", "draft"}, ParseFails(l, d) PROVE Forwards(l)
  <2>1. refresh' = refresh /\ diffs' = diffs
    BY <1>3 DEF ParseFails
  <2>2. On(l, "posting", d)
    BY <1>0, <1>s, <1>3, ParseFailsIs DEF Ended, WentOn, Parted, Lasting
  <2>3. ~current[l] => d = "draft"
    BY <1>s, <2>2 DEF Ground, CurrentRead
  <2>4. d = "draft" => On(l, "failed", "draft")'
    BY <1>0, <1>s, <1>3, ParseFailsIs DEF WentOn, Parted
  <2>5. On(l, "failed", "draft") => On(l, "failed", "draft")'
    BY <1>0, <1>s, <1>3, ParseFailsIs DEF Ended, WentOn, Parted, Lasting
  <2> QED
    BY <2>1, <2>3, <2>4, <2>5 DEF Forwards
<1>6. ASSUME NEW d \in {"current", "draft"}, FetchFails(l, d) PROVE Forwards(l)
  <2>1. refresh' = refresh /\ diffs' = diffs
    BY <1>6 DEF FetchFails
  <2>2. On(l, "fetching", d) \/ On(l, "refetching", d)
    BY <1>0, <1>s, <1>6, FetchFailsIs DEF Ended, WentOn, Parted, Lasting
  <2>3. ~current[l] => d = "draft"
    BY <1>s, <2>2 DEF Ground, CurrentRead
  <2>4. d = "draft" => On(l, "failed", "draft")'
    BY <1>0, <1>s, <1>6, FetchFailsIs DEF WentOn, Parted
  <2>5. On(l, "failed", "draft") => On(l, "failed", "draft")'
    BY <1>0, <1>s, <1>6, FetchFailsIs DEF Ended, WentOn, Parted, Lasting
  <2> QED
    BY <2>1, <2>3, <2>4, <2>5 DEF Forwards
<1>13. ASSUME NEW d \in {"current", "draft"}, SplitFails(l, d) PROVE Forwards(l)
  <2>1. refresh' = refresh /\ diffs' = diffs
    BY <1>13 DEF SplitFails
  <2>2. On(l, "splitting", d)
    BY <1>0, <1>s, <1>13, SplitFailsIs DEF Ended, WentOn, Parted, Lasting
  <2>3. ~current[l] => d = "draft"
    BY <1>s, <2>2 DEF Ground, CurrentRead
  <2>4. d = "draft" => On(l, "failed", "draft")'
    BY <1>0, <1>s, <1>13, SplitFailsIs DEF WentOn, Parted
  <2>5. On(l, "failed", "draft") => On(l, "failed", "draft")'
    BY <1>0, <1>s, <1>13, SplitFailsIs DEF Ended, WentOn, Parted, Lasting
  <2> QED
    BY <2>1, <2>3, <2>4, <2>5 DEF Forwards
<1>14. ASSUME NEW d \in {"current", "draft"}, FetchPage(l, d) PROVE Forwards(l)
  <2>1. refresh' = refresh /\ diffs' = diffs /\ status' = status
    BY <1>14 DEF FetchPage, laws
  <2>2. ASSUME WentOn(l, "fetching", d, "posting", d) PROVE Forwards(l)
    BY <1>s, <2>1, <2>2 DEF WentOn, Lasting, Forwards
  <2>3. ASSUME Ended(l, "refetching", d) PROVE Forwards(l)
    BY <1>s, <2>1, <2>3 DEF Ended, Lasting, Forwards
  <2>4. ASSUME Fails("changed") PROVE Forwards(l)
    BY <2>1, <2>4 DEF Fails, Forwards
  <2> QED
    BY <1>0, <1>14, <2>2, <2>3, <2>4, FetchPageIs
<1>15. ASSUME CallbackRefused(l) PROVE Forwards(l)
  <2>1. refresh' = refresh /\ diffs' = diffs /\ status' = status
    BY <1>15 DEF CallbackRefused, laws
  <2>2. Ended(l, "outdated", "unread")
    BY <1>0, <1>15, CallbackRefusedIs
  <2> QED
    BY <1>s, <2>1, <2>2 DEF Ended, Lasting, Forwards
<1>7. ASSUME Report(l) PROVE Forwards(l)
  BY <1>7 DEF Report, Forwards
<1>10. ASSUME CallbackFails(l) PROVE Forwards(l)
  <2>1. refresh' = refresh /\ diffs' = diffs /\ "callback" \in trouble'
    BY <1>10 DEF CallbackFails, Fails
  <2>2. On(l, "failed", "draft") => On(l, "failed", "draft")'
    BY <1>0, <1>s, <1>10, CallbackFailsIs DEF Ended, Lasting
  <2> QED
    BY <2>1, <2>2 DEF Forwards
<1>12. ASSUME NEW d \in {"current", "draft"}, SplitCommit(l, d) PROVE Forwards(l)
  <2>1. On(l, "splitting", d) /\ (On(l, "failed", "draft") => On(l, "failed", "draft")')
    BY <1>0, <1>s, <1>12, SplitCommitIs DEF Ended, Lasting
  <2>2. ~current[l] => d = "draft"
    BY <1>s, <2>1 DEF Ground, CurrentRead
  <2>3. "queued" \in DiffStage
    BY DEF DiffStage
  <2>4. /\ \A s \in DiffStage : diffs[s] > 0 => diffs'[s] > 0
        /\ d = "draft" => diffs'["queued"] > 0
        /\ refresh' = refresh
    BY <1>0, <1>12, <2>3 DEF SplitCommit, Comparisons
  <2> QED
    BY <2>1, <2>2, <2>3, <2>4 DEF Forwards
<1> QED
  BY <1>1, <1>2, <1>3, <1>4, <1>5, <1>6, <1>7, <1>8, 
     <1>9, <1>10, <1>11, <1>12, <1>13, <1>14, <1>15 DEF Task, Read

\* A step that leaves the laws, or changes only the refresh of the order.
LEMMA RefreshOfTask ==
    ASSUME TypeOK, Ground, RefreshOn, NEW l \in Law, Task(l),
           trouble \subseteq trouble'
    PROVE  RefreshOn'
<1>1. TaskEffect(l) /\ Forwards(l)
  BY GroundTask, ForwardsIs
<1>2. /\ UNCHANGED <<order, alive, current>>
      /\ Drafts' = Drafts /\ Currents' = Currents
      /\ \A m \in Law : Live(m)' <=> Live(m)
  BY <1>1 DEF TaskEffect, Drafts, Currents, Live
<1>3. HasDrafts'
  BY <1>1, <1>2 DEF Forwards, RefreshOn, HasDrafts, Refreshing
<1>4. ASSUME Untroubled', Refreshing', Currents' # {} PROVE Busy'
  <2>0. Untroubled /\ Refreshing /\ Currents # {} /\ refresh' = "REFRESHING"
        /\ "callback" \notin trouble' /\ "changed" \notin trouble'
    BY <1>1, <1>2, <1>4 DEF Untroubled, Refreshing, Forwards
  <2>1. Busy
    BY <2>0 DEF RefreshOn
  <2>2. ASSUME NEW m \in Law, Live(m), ~current[m], status[m] \in InProgress PROVE Busy'
    <3>1. CASE m = l
      BY <1>1, <1>2, <2>0, <2>2, <3>1 DEF Forwards, Busy
    <3>2. CASE m # l
      <4>1. status'[m] = status[m]
        BY <1>1, <3>2 DEF TaskEffect
      <4> QED
        BY <1>2, <2>2, <4>1 DEF Busy
    <3> QED
      BY <3>1, <3>2
  <2>3. ASSUME NEW m \in Law, On(m, "failed", "draft") PROVE Busy'
    <3>1. CASE m = l
      BY <1>1, <2>0, <2>3, <3>1 DEF Forwards, Busy
    <3>2. CASE m # l
      BY <1>1, <2>3, <3>2 DEF TaskEffect, Confined, Busy, Stages, Reads
    <3> QED
      BY <3>1, <3>2
  <2>4. ASSUME NEW s \in DiffStage, diffs[s] > 0 PROVE Busy'
    BY <1>1, <2>0, <2>4 DEF Forwards, Busy
  <2> QED
    BY <2>1, <2>2, <2>3, <2>4 DEF Busy
<1> QED
  BY <1>3, <1>4 DEF RefreshOn

\* A step that leaves the laws' places, the order and the comparisons alone and
\* takes no report away.
LEMMA RefreshKept ==
    ASSUME RefreshOn, UNCHANGED <<order, refresh, alive, current, diffs>>,
           trouble \subseteq trouble',
           \A l \in Law : status'[l] = status[l] \/ status'[l] \in InProgress,
           \A l \in Law : On(l, "failed", "draft") => On(l, "failed", "draft")'
    PROVE  RefreshOn'
<1>1. /\ Drafts' = Drafts /\ Currents' = Currents
      /\ \A m \in Law : Live(m)' <=> Live(m)
      /\ Refreshing' <=> Refreshing
      /\ Untroubled' => Untroubled
  BY DEF Drafts, Currents, Live, Refreshing, Untroubled
<1>2. Busy => Busy'
  BY <1>1 DEF Busy
<1> QED
  BY <1>1, <1>2 DEF RefreshOn, HasDrafts

\* A step that leaves no refresh under way.
LEMMA RefreshOver ==
    ASSUME ~Refreshing'
    PROVE  RefreshOn'
BY DEF RefreshOn, HasDrafts

\* A comparison that does not end the refresh leaves a draft or a comparison.
LEMMA RefreshOfDiff ==
    ASSUME TypeOK, Ground, RefreshOn, Diff, trouble \subseteq trouble'
    PROVE  RefreshOn'
<1>0. /\ UNCHANGED <<order, laws, flights, users>>
      /\ Untroubled' => Untroubled
      /\ Drafts' = Drafts /\ Currents' = Currents
      /\ diffs \in [DiffStage -> Nat]
      /\ "queued" \in DiffStage /\ "comparing" \in DiffStage
      /\ "success" \in DiffStage /\ "failed" \in DiffStage
  BY GroundDiff DEF laws, Drafts, Currents, Live, TypeOK, DiffStage, Untroubled
<1>1. ASSUME DiffCheck PROVE RefreshOn'
  <2>1. refresh' = refresh
    BY <1>1 DEF DiffCheck
  <2>2. CASE Awaited # {}
    <3>1. \E l \in Law : Live(l) /\ ~current[l] /\ status[l] \in InProgress
      BY <2>2 DEF Awaited, Drafts
    <3>2. Busy'
      BY <1>0, <3>1 DEF Busy, laws, Live
    <3> QED
      BY <1>0, <2>1, <3>2 DEF RefreshOn, HasDrafts, Refreshing
  <2>3. CASE Awaited = {}
    <3>1. DiffMove("queued", "comparing")
      BY <1>1, <2>3 DEF DiffCheck
    <3>2. diffs'["comparing"] > 0
      BY <1>0, <3>1 DEF DiffMove
    <3>3. Busy'
      BY <1>0, <3>2 DEF Busy
    <3> QED
      BY <1>0, <2>1, <3>3 DEF RefreshOn, HasDrafts, Refreshing
  <2> QED
    BY <2>2, <2>3
<1>2. ASSUME DiffCompare PROVE RefreshOn'
  <2>1. refresh' = refresh
    BY <1>2 DEF DiffCompare
  <2>2. HasDrafts'
    BY <1>0, <2>1 DEF RefreshOn, HasDrafts, Refreshing
  <2>3. ASSUME Untroubled', Refreshing', Currents' # {} PROVE Busy'
    <3>1. Refreshing /\ order = "live" /\ Currents # {} /\ Drafts # {}
      BY <1>0, <2>1, <2>3 DEF RefreshOn, HasDrafts, Refreshing
    <3>0. ~Fails("compare")
      BY <2>3 DEF Fails, Untroubled
    <3>2. PICK verdict \in {"success", "failed"} : DiffMove("comparing", verdict)
      BY <1>2, <3>0, <3>1 DEF DiffCompare
    <3>3. diffs'[verdict] > 0
      BY <1>0, <3>2 DEF DiffMove
    <3> QED
      BY <1>0, <3>3 DEF Busy
  <2> QED
    BY <2>2, <2>3 DEF RefreshOn
<1>3. ASSUME DiffWrite PROVE RefreshOn'
  BY <1>3, RefreshOver DEF DiffWrite, Refreshing
<1> QED
  BY <1>1, <1>2, <1>3 DEF Diff

\* A new refresh has its drafts; the other requests end one or leave it.
LEMMA RefreshOfUser ==
    ASSUME TypeOK, Ground, RefreshOn, NEW u \in User, Create(u) \/ Ask(u) \/ Serve(u)
    PROVE  RefreshOn'
<1>0. /\ request \in [User -> Request \cup {None}] /\ flights \in [Flight -> Nat]
      /\ status \in [Law -> LawStatus]
      /\ "failed" \in Stages /\ "draft" \in Reads /\ "parse" \in Stages /\ "split" \in Stages
      /\ Kind("parse", "unread") /\ Kind("split", "unread")
      /\ "PENDING" \in InProgress /\ "INIT" \in InProgress
  BY DEF TypeOK, Stages, Reads, InProgress, Kind
<1>f. UNCHANGED flights => \A l \in Law : On(l, "failed", "draft") => On(l, "failed", "draft")'
  BY <1>0, StayIs
<1>s. \A m \in Law, s \in {"parse", "split"} :
         Send(m, s) => \A l \in Law : On(l, "failed", "draft") => On(l, "failed", "draft")'
  BY <1>0, SendIs
<1>q. request[u] # None =>
         request[u].laws \in SUBSET Law /\ request[u].others \in SUBSET Law
  BY <1>0 DEF Request
<1>1. ASSUME Create(u) PROVE RefreshOn'
  <2>1. refresh' = "INIT"
    BY <1>1 DEF Create, Ground, NotYet
  <2> QED
    BY <2>1, RefreshOver DEF Refreshing
<1>2. ASSUME Ask(u) PROVE RefreshOn'
  BY <1>2, <1>f, RefreshKept DEF Ask, laws, tasks
<1>3. ASSUME Dispatch(u) PROVE RefreshOn'
  <2>1. \A l \in Law : On(l, "failed", "draft") => On(l, "failed", "draft")'
    BY <1>3, <1>s, <1>q DEF Dispatch, Asked
  <2> QED
    BY <1>3, <2>1, RefreshKept DEF Dispatch, laws
<1>4. ASSUME Trigger(u) PROVE RefreshOn'
  <2>1. \A l \in Law : On(l, "failed", "draft") => On(l, "failed", "draft")'
    BY <1>4, <1>f, <1>s, <1>q DEF Trigger, Asked
  <2>2. \A l \in Law : status'[l] = status[l] \/ status'[l] \in InProgress
    BY <1>0, <1>4 DEF Trigger, SetStatus
  <2> QED
    BY <1>4, <2>1, <2>2, RefreshKept DEF Trigger
<1>5. ASSUME Refresh(u) PROVE RefreshOn'
  <2>1. PICK S \in SUBSET Law :
           /\ Batch(S)
           /\ alive' = [l \in Law |-> IF l \in S THEN "live"
                                      ELSE IF l \in request[u].laws THEN "deleted" ELSE alive[l]]
           /\ AddLaws(S, FALSE)
    BY <1>5 DEF Refresh
  <2>2. PICK l \in S : TRUE
    BY <2>1 DEF Batch
  <2>3. Live(l)' /\ ~current'[l] /\ status'[l] = "INIT"
    BY <2>1, <2>2 DEF AddLaws, Live
  <2>4. Busy' /\ Drafts' # {}
    BY <1>0, <2>2, <2>3 DEF Busy, Drafts
  <2> QED
    BY <2>4 DEF RefreshOn, HasDrafts
<1>6. ASSUME RefreshRefused(u) PROVE RefreshOn'
  <2>1. CASE request[u].was # "INIT"
    BY <1>6, <2>1, RefreshOver DEF RefreshRefused, Refreshing
  <2>2. CASE ~(request[u].was # "INIT")
    BY <1>6, <1>f, <2>2, RefreshKept DEF RefreshRefused, tasks
  <2> QED
    BY <2>1, <2>2
<1>7. ASSUME Revert(u) \/ Delete(u) PROVE RefreshOn'
  BY <1>7, RefreshOver DEF Revert, Delete, Refreshing
<1>8. ASSUME Apply(u) PROVE RefreshOn'
  <2>1. CASE refresh' = "INIT"
    BY <2>1, RefreshOver DEF Refreshing
  <2>2. CASE UNCHANGED <<alive, rules, current, refresh>>
    BY <1>8, <1>f, <2>2, RefreshKept DEF Apply, tasks
  <2> QED
    BY <1>8, <2>1, <2>2 DEF Apply
<1> QED
  BY <1>1, <1>2, <1>3, <1>4, <1>5, <1>6, <1>7, <1>8 DEF Serve

\* Every step leaves a refresh something to end it.
LEMMA RefreshOnStep ==
    TypeOK /\ Ground /\ RefreshOn /\ [Next]_vars => RefreshOn'
<1> SUFFICES ASSUME TypeOK, Ground, RefreshOn, [Next]_vars PROVE RefreshOn'
  OBVIOUS
<1>1. CASE \E l \in Law : Task(l)
  BY <1>1, RefreshOfTask, TroubleStays
<1>2. CASE Diff
  BY <1>2, RefreshOfDiff, TroubleStays
<1>3. CASE \E u \in User : Create(u) \/ Ask(u) \/ Serve(u)
  BY <1>3, RefreshOfUser
<1>4. CASE Crash
  <2>1. /\ "crash" \in trouble'
        /\ UNCHANGED <<order, refresh, alive, current>>
    BY <1>4 DEF Crash, Fails, laws
  <2>2. HasDrafts' /\ ~Untroubled'
    BY <2>1 DEF RefreshOn, HasDrafts, Refreshing, Drafts, Live, Untroubled
  <2> QED
    BY <2>2 DEF RefreshOn
<1>5. CASE UNCHANGED vars
  <2>1. \A m \in Law : On(m, "failed", "draft") => On(m, "failed", "draft")'
    BY <1>5 DEF On, vars, tasks
  <2> QED
    BY <1>5, <2>1, RefreshKept DEF vars, laws, tasks
<1> QED
  BY <1>1, <1>2, <1>3, <1>4, <1>5 DEF Next

\* An order that shows REFRESHING has something that will end it, however many drafts
\* it has and whichever were replaced (refresh_law, split_law_rules), but for the
\* faults that RefreshHasWork names.
THEOREM RefreshesHaveWork == Spec => []RefreshHasWork
<1>1. Init => RefreshOn
  BY DEF Init, RefreshOn, HasDrafts, Refreshing
<1>2. TypeOK /\ Ground /\ RefreshOn /\ [Next]_vars => RefreshOn'
  BY RefreshOnStep
<1>3. NotStranded /\ RefreshOn => RefreshHasWork
  <2> SUFFICES ASSUME NotStranded, RefreshOn, Untroubled, Refreshing, Currents # {}
               PROVE  \/ \E l \in Drafts : Pending(l)
                      \/ \E l \in Law : flights[Fly(l, "failed", "draft")] > 0
                      \/ \E s \in DiffStage : diffs[s] > 0
    BY DEF RefreshHasWork, Untroubled, Refreshing
  <2>1. ASSUME NEW l \in Law, Live(l), ~current[l], status[l] \in InProgress
        PROVE  \E m \in Drafts : Pending(m)
    BY <2>1 DEF NotStranded, Untroubled, Drafts
  <2> QED
    BY <2>1 DEF RefreshOn, Busy, On
<1>4. Init => Ground
  BY GroundInit
<1>5. TypeOK /\ Ground /\ [Next]_vars => Ground'
  BY GroundStep
<1> QED
  BY <1>1, <1>2, <1>3, <1>4, <1>5, TypeCorrect, NoneStranded, PTL DEF Spec

=============================================================================
