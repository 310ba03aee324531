---------------------------- MODULE MCLawJudge ----------------------------
(* LawJudge with a check point that compares with a template, always judged, *)
(* and one with a method, whose judgement may fail, of one rule.             *)
EXTENDS LawJudge, TLC

CONSTANTS t1, a1, left

RuleOfPoint == t1 :> left @@ a1 :> left
OutcomesOfPoint == t1 :> {"SUCCESS"} @@ a1 :> Verdict
=============================================================================
