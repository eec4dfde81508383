------------------------------- MODULE RunReport -------------------------------
(***************************************************************************)
(* What the output file of a run promises to whoever reads it while the    *)
(* run goes on, ends or is started again: it is what a serial loop over    *)
(* the manifest would have written.  Its rows are in input order and only  *)
(* ever appended, until a restart begins a new file; a row is either the   *)
(* image's final verdict or the report of an operational error.            *)
(*                                                                         *)
(* This is the abstract specification that Batch implements.               *)
(***************************************************************************)
EXTENDS Integers, Sequences

CONSTANTS JobCount, Verdict, NoVerdict

VARIABLES
    durable,   \* do verdicts become durable (holistic evaluation)?
    verdicts,  \* by job: NoVerdict or the verdict that is durable
    report     \* the rows of the output file

reportVars == <<durable, verdicts, report>>

Job == 1 .. JobCount

Init ==
    /\ durable \in BOOLEAN
    /\ verdicts = [j \in Job |-> NoVerdict]
    /\ report = <<>>

Settle(j, v) ==
    /\ durable
    /\ verdicts[j] = NoVerdict
    /\ verdicts' = [verdicts EXCEPT ![j] = v]
    /\ UNCHANGED <<durable, report>>

\* What may be said of job j.
Truthful(j, outcome) ==
    \/ outcome = "ERROR"
    \/ IF durable THEN outcome # NoVerdict /\ outcome = verdicts[j]
                  ELSE outcome \in Verdict

\* The next row is the next job's.
AppendRow(outcome) ==
    LET j == Len(report) + 1 IN
    /\ j \in Job
    /\ Truthful(j, outcome)
    /\ report' = Append(report, [job |-> j, outcome |-> outcome])
    /\ UNCHANGED <<durable, verdicts>>

Restart == report' = <<>> /\ UNCHANGED <<durable, verdicts>>

Next ==
    \/ \E j \in Job, v \in Verdict : Settle(j, v)
    \/ \E outcome \in Verdict \cup {"ERROR"} : AppendRow(outcome)
    \/ Restart

Spec == Init /\ [][Next]_reportVars
=================================================================================
