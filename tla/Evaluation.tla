------------------------------ MODULE Evaluation ------------------------------
(***************************************************************************)
(* How two blind judges' votes become the status of a turn                 *)
(* (evaluation.py, contracts.QuestionFit, the status table of              *)
(* SynthesisCoordinator.synthesize_image).  Operators only: the machines   *)
(* that collect the votes are in other modules.                            *)
(***************************************************************************)
EXTENDS Sequences

\* contracts.GateVerdict
GateVerdicts ==
    {"MET", "NOT_MET", "UNKNOWN", "NOT_APPLICABLE", "NOT_EVALUATED", "ERROR"}

\* What one judge may answer (RubricVerdict, QuestionFit): never an ERROR.
JudgeVerdicts == {"MET", "NOT_MET", "UNKNOWN"}

\* evaluation.consensus: two equal decided votes, no majority and no average.
consensus(votes) ==
    IF \/ Len(votes) # 2
       \/ \E i \in DOMAIN votes : votes[i] = "ERROR"
    THEN "ERROR"
    ELSE IF votes[1] = votes[2] /\ votes[1] \in {"MET", "NOT_MET"}
         THEN votes[1]
         ELSE "UNKNOWN"

\* QuestionFit.aggregate over the set of a judge's three answers.
FitAggregate(answers) ==
    IF "NOT_MET" \in answers THEN "NOT_MET"
    ELSE IF answers = {"MET"} THEN "MET" ELSE "UNKNOWN"

\* Slip: what nobody could tell counts as a failure.
UnknownFails(gates) ==
    IF "ERROR" \in gates THEN "ERROR"
    ELSE IF gates \cap {"NOT_MET", "UNKNOWN", "NOT_EVALUATED"} # {} THEN "FAIL"
    ELSE "PASS"

\* evaluation.aggregate_rating over the set of the gate items' verdicts
\* (items whose default_use is not "gate" do not reach it).
aggregate_rating(gates) ==
    IF "ERROR" \in gates THEN "ERROR"
    ELSE IF "NOT_MET" \in gates THEN "FAIL"
    ELSE IF gates \cap {"UNKNOWN", "NOT_EVALUATED"} # {} THEN "ABSTAIN"
    ELSE "PASS"

\* synthesize_image: the status a rated turn gets.
TurnStatus(aggregate) ==
    CASE aggregate = "PASS"    -> "COMMITTED"
      [] aggregate = "FAIL"    -> "REJECTED"
      [] aggregate = "ABSTAIN" -> "ABSTAINED"
      [] OTHER                 -> "ERROR"

\* synthesize_image: how a detailed run ends when question fit or requirement
\* extraction is not MET.
PreAnswerStop(verdict) == IF verdict = "UNKNOWN" THEN "ABSTAINED" ELSE "REJECTED"
===============================================================================
