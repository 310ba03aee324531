-------------------------- MODULE MCQuestionPredict --------------------------
(* Instances of QuestionPredict for TLC. *)
EXTENDS QuestionPredict, TLC

CONSTANTS q1, q2, w1, w2

TwoHybrid == q1 :> "HYBRID" @@ q2 :> "HYBRID"
LLMAndComplex == q1 :> "LLM" @@ q2 :> "COMPLEX"
OneHybrid == q1 :> "HYBRID"
OneLLM == q1 :> "LLM"

AllEnabled == [q \in Question |-> "enabled"]
AllTodo == [q \in Question |-> "TODO"]

\* The second question's mold has no model and was set to be skipped.
AllButOneEnabled == [AllEnabled EXCEPT ![q2] = "none"]
AllButOneTodo == [AllTodo EXCEPT ![q2] = "SKIP_PREDICT"]

\* Workers are interchangeable (safety runs only).
WorkerSymmetry == Permutations(Worker)
=============================================================================
