------------------------------ MODULE Producers ------------------------------
(***************************************************************************)
(* What the row locks of the questions promise: the two producers of an    *)
(* answer, and the users who start them again, work on a question one after *)
(* another.  Each finds the other one's last result, changes only its own   *)
(* status, and publishes its items together with those the other has        *)
(* finished.  QuestionPredict is shown to implement this.                   *)
(***************************************************************************)
CONSTANTS
    Question,     \* the questions of a file
    Predictable,  \* those the predictor answers
    Extractable,  \* those the studio answers
    Initial       \* Initial[q]: the predictor's status when it has still to begin

VARIABLES
    predictor,    \* predictor[q]: the predictor's status of q
    studio,       \* studio[q]: the studio's
    answer        \* answer[q]: the producers whose items the answer of q holds

vars == <<predictor, studio, answer>>

Stays(q) == predictor'[q] = predictor[q] /\ studio'[q] = studio[q] /\ answer'[q] = answer[q]

\* The items of producer, with those of the other if that one has finished.
Published(q, producer, other, status) ==
    {producer} \cup {o \in {other} : q \in Predictable \cap Extractable /\ status[q] = "FINISH"}

\* The predictor leaves a question alone, gives up, or finishes; one that is to be
\* skipped it does not begin.
PredictOne(q) ==
    /\ studio'[q] = studio[q]
    /\ \/ predictor'[q] \in {predictor[q], "DISABLE", "UNCORRELATED"} /\ answer'[q] = answer[q]
       \/ /\ predictor[q] # "SKIP_PREDICT"
          /\ \/ predictor'[q] = "FAILED" /\ answer'[q] = answer[q]
             \/ /\ predictor'[q] = "FINISH"
                /\ answer'[q] = Published(q, "predictor", "studio", studio)

\* It commits all questions of the file at once.
Predict == \A q \in Question : IF q \in Predictable THEN PredictOne(q) ELSE Stays(q)

\* The studio is asked, or answers: with a result, which stays published when a
\* pipe fails after it, or with a failure, which may take the answer away.
ExtractOne(q) ==
    /\ predictor'[q] = predictor[q]
    /\ \/ studio'[q] \in {studio[q], "DOING", "FAILED"} /\ answer'[q] = answer[q]
       \/ studio'[q] = "FAILED" /\ answer'[q] = {}
       \/ /\ studio'[q] \in {"FINISH", "FAILED"}
          /\ answer'[q] = Published(q, "studio", "predictor", predictor)

Extract(q) ==
    /\ q \in Extractable
    /\ ExtractOne(q)
    /\ \A p \in Question \ {q} : Stays(p)

\* Both are to begin again; the answer stays until one of them publishes.
Reset(q) ==
    /\ predictor'[q] = Initial[q]
    /\ studio'[q] \in {"TODO", "SKIP_PREDICT"}
    /\ answer'[q] = answer[q]
    /\ \A p \in Question \ {q} : Stays(p)

Init ==
    \A q \in Question :
        /\ predictor[q] = Initial[q]
        /\ studio[q] \in {"TODO", "SKIP_PREDICT"}
        /\ answer[q] = {}

Next == Predict \/ \E q \in Question : Extract(q) \/ Reset(q)

Spec == Init /\ [][Next]_vars
=============================================================================
