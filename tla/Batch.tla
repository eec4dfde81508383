--------------------------------- MODULE Batch ---------------------------------
(***************************************************************************)
(* A run over a manifest: the main thread of `pixelogue synthesize`        *)
(* (cli.synthesize), the generator synthesize_batch with its window of     *)
(* futures (pipeline.py), the worker threads, the output and summary files *)
(* and the progress line (progress.py), over restarts, kills, Ctrl-C and   *)
(* exceptions.                                                             *)
(*                                                                         *)
(* What a worker does with its image is Synthesis; here it looks its       *)
(* conversation up, may commit a verdict, and returns or raises.  A job is *)
(* its position in the manifest.                                           *)
(***************************************************************************)
EXTENDS Integers, Sequences, FiniteSets

CONSTANTS
    JobCount,         \* images scheduled from the manifest
    WorkerCounts,     \* --workers or runtime.max_concurrent_images
    Verdicts,         \* what a conversation may end with, errors apart
    SummaryInterval,  \* rows between two summaries (100 in the code)
    MaxStarts,        \* bound: how often the command is started
    None

ASSUME BatchAssumption ==
    /\ JobCount \in Nat
    /\ WorkerCounts \subseteq Nat \ {0}
    /\ SummaryInterval \in Nat \ {0}
    /\ "ERROR" \notin Verdicts

VARIABLES
    durable,        \* evaluation.mode = "holistic"
    verdicts,       \* durable: conversation_commit, by job
    output,         \* the complete rows of the output file
    summary,        \* the rows the summary file counts, or None: no such file
    seen,           \* history: every row that ever was in the output file
    starts,
    workers,        \* the worker count of this process
    pc,             \* where the main thread is
    ended,          \* how the process ends, or how the last one ended
    nextJob,        \* where the iterator over the jobs is
    pending,        \* the deque of futures, by job
    taken,          \* the job whose future was taken from it, or None
    stage,          \* the state of each job's future
    result,         \* what the future returns
    buffered,       \* a row written to the stream and not yet flushed
    conversations,  \* the rows counted for the summary
    progress        \* the progress line: rows recorded and its state

fileVars == <<output, summary, seen>>
jobVars == <<nextJob, pending, stage, result>>
mainVars == <<pc, ended, taken, buffered, conversations, progress>>
vars == <<durable, verdicts, fileVars, starts, workers, jobVars, mainVars>>

Jobs == 1 .. JobCount

Outcomes == Verdicts \cup {"ERROR"}

Row == [job : Jobs, outcome : Outcomes]

ASSUME NoneAssumption == None \notin Nat \cup Outcomes \cup Row

RowOf(j) == [job |-> j, outcome |-> result[j]]

\* Futures that are not done.
Busy == {"submitted", "working", "settled"}

\* The loop over synthesize_batch: its generator and its body.
LoopSteps ==
    {"fill", "take", "await", "write", "flush", "tally", "summarise", "record", "refill"}

ExitSteps == {"drain", "final", "close"}

TypeOK ==
    /\ durable \in BOOLEAN
    /\ verdicts \in [Jobs -> Verdicts \cup {None}]
    /\ output \in Seq(Row)
    /\ summary = None \/ summary \in Seq(Row)
    /\ seen \subseteq Row
    /\ starts \in Nat /\ workers \in WorkerCounts
    /\ pc \in {"down"} \cup LoopSteps \cup ExitSteps
    /\ ended \in {"no", "success", "aborted", "interrupted", "killed"}
    /\ nextJob \in 1 .. JobCount + 1
    /\ pending \in Seq(Jobs)
    /\ stage \in [Jobs -> {"waiting", "done", "raised"} \cup Busy]
    /\ result \in [Jobs -> Outcomes \cup {None}]
    /\ taken \in Jobs \cup {None}
    /\ buffered \in Row \cup {None}
    /\ conversations \in Seq(Row)
    /\ progress \in [shown : Nat,
                     state : {"running", "finished", "incomplete", "interrupted"}]

\* A process without anything done yet.
Fresh ==
    /\ nextJob' = 1 /\ pending' = <<>>
    /\ stage' = [j \in Jobs |-> "waiting"]
    /\ result' = [j \in Jobs |-> None]
    /\ taken' = None /\ buffered' = None /\ conversations' = <<>>
    /\ progress' = [shown |-> 0, state |-> "running"]

Init ==
    /\ durable \in BOOLEAN
    /\ verdicts = [j \in Jobs |-> None]
    /\ output = <<>> /\ summary = None /\ seen = {}
    /\ starts = 0 /\ workers \in WorkerCounts /\ pc = "down" /\ ended = "no"
    /\ nextJob = 1 /\ pending = <<>>
    /\ stage = [j \in Jobs |-> "waiting"]
    /\ result = [j \in Jobs |-> None]
    /\ taken = None /\ buffered = None /\ conversations = <<>>
    /\ progress = [shown |-> 0, state |-> "running"]
-----------------------------------------------------------------------------
\* The command opens the run and truncates its output; the summary of the
\* process before it stays until the first row is there.
Start ==
    /\ pc = "down"
    /\ starts < MaxStarts
    /\ starts' = starts + 1
    /\ workers' \in WorkerCounts
    /\ pc' = "fill"
    /\ ended' = "no"
    /\ output' = <<>>
    /\ Fresh
    /\ UNCHANGED <<durable, verdicts, summary, seen>>

Goto(step) == pc' = step /\ UNCHANGED <<durable, verdicts, starts, workers>>

\* Slip: one future more than workers.
WindowOpenOneMore == Len(pending) <= workers

\* The first loop submits one job per worker.
WindowOpen == Len(pending) < workers

\* Slip: the iterator is taken to be at its end one job early.
JobsLeftButLast == nextJob < JobCount

JobsLeft == nextJob <= JobCount

Submit ==
    /\ pending' = Append(pending, nextJob)
    /\ stage' = [stage EXCEPT ![nextJob] = "submitted"]
    /\ nextJob' = nextJob + 1
    /\ UNCHANGED result

\* synthesize_batch before its first result.
Fill ==
    /\ pc = "fill"
    /\ IF JobsLeft /\ WindowOpen
       THEN Submit /\ Goto("fill")
       ELSE Goto("take") /\ UNCHANGED jobVars
    /\ UNCHANGED <<fileVars, ended, taken, buffered, conversations, progress>>

\* Slip: the latest future instead of the oldest.
NextResultLatest(p) == p[Len(p)]

\* pending.popleft()
NextResult(p) == p[1]

Take ==
    /\ pc = "take"
    /\ IF pending = <<>>
       THEN /\ Goto("drain") /\ ended' = "success"
            /\ UNCHANGED <<jobVars, taken>>
       ELSE /\ Goto("await")
            /\ taken' = NextResult(pending)
            /\ pending' = Tail(pending)
            /\ UNCHANGED <<nextJob, stage, result, ended>>
    /\ UNCHANGED <<fileVars, buffered, conversations, progress>>

\* result() waits for the future and raises what its job raised.
Await ==
    /\ pc = "await"
    /\ stage[taken] \in {"done", "raised"}
    /\ IF stage[taken] = "raised"
       THEN Goto("drain") /\ ended' = "aborted"
       ELSE Goto("write") /\ UNCHANGED ended
    /\ UNCHANGED <<fileVars, jobVars, taken, buffered, conversations, progress>>

Write ==
    /\ pc = "write"
    /\ buffered' = RowOf(taken)
    /\ Goto("flush")
    /\ UNCHANGED <<fileVars, jobVars, ended, taken, conversations, progress>>

\* What the stream holds becomes a row of the file.
Emit ==
    /\ output' = Append(output, buffered)
    /\ seen' = seen \cup {buffered}
    /\ buffered' = None

Flush ==
    /\ pc = "flush"
    /\ Emit
    /\ Goto("tally")
    /\ UNCHANGED <<summary, jobVars, ended, taken, conversations, progress>>

\* The first row and every SummaryInterval-th one refresh the summary.
SummaryDue(n) == n = 1 \/ n % SummaryInterval = 0

Tally ==
    /\ pc = "tally"
    /\ conversations' = Append(conversations, RowOf(taken))
    /\ Goto(IF SummaryDue(Len(conversations')) THEN "summarise" ELSE "record")
    /\ UNCHANGED <<fileVars, jobVars, ended, taken, buffered, progress>>

\* write_json replaces the file atomically.
Summarise ==
    /\ pc = "summarise"
    /\ summary' = conversations
    /\ Goto("record")
    /\ UNCHANGED <<output, seen, jobVars, ended, taken, buffered, conversations, progress>>

Record ==
    /\ pc = "record"
    /\ progress' = [progress EXCEPT !.shown = @ + 1]
    /\ Goto("refill")
    /\ UNCHANGED <<fileVars, jobVars, ended, taken, buffered, conversations>>

\* The generator is resumed and submits the next job.
Refill ==
    /\ pc = "refill"
    /\ IF JobsLeft THEN Submit ELSE UNCHANGED jobVars
    /\ Goto("take")
    /\ taken' = None
    /\ UNCHANGED <<fileVars, ended, buffered, conversations, progress>>

\* Slip: the executor is left without waiting for its threads.
DrainedAtOnce == TRUE

\* Slip: the jobs nobody submitted are waited for as well.
DrainedWholly == \A j \in Jobs : stage[j] \in {"done", "raised"}

\* Leaving the executor waits for every job that was submitted.
Drained == \A j \in Jobs : stage[j] \notin Busy

Drain ==
    /\ pc = "drain"
    /\ Drained
    /\ Goto("final")
    /\ UNCHANGED <<fileVars, jobVars, ended, taken, buffered, conversations, progress>>

\* Slip: no summary when the loop ends, if there is one.
FinalSummaryMissing == IF summary = None THEN conversations ELSE summary

FinalSummary == conversations

\* finally: the summary of what there is.
Final ==
    /\ pc = "final"
    /\ summary' = FinalSummary
    /\ Goto("close")
    /\ UNCHANGED <<output, seen, jobVars, ended, taken, buffered, conversations, progress>>

\* synthesis_progress ends, the output file is closed (and flushed), and then
\* the store.
Close ==
    /\ pc = "close"
    /\ progress' = [progress EXCEPT !.state =
                      IF ended # "success" THEN "interrupted"
                      ELSE IF progress.shown = JobCount THEN "finished" ELSE "incomplete"]
    /\ IF buffered = None THEN UNCHANGED <<output, seen, buffered>> ELSE Emit
    /\ Goto("down")
    /\ UNCHANGED <<summary, jobVars, ended, taken, conversations>>

\* Ctrl-C, or an exception of the main thread's own (a full disk, say), in the
\* loop.  With one worker the main thread is the worker, and its job ends.
Interrupt ==
    /\ pc \in LoopSteps
    /\ ended' = "interrupted"
    /\ Goto("drain")
    /\ stage' = [j \in Jobs |->
                   IF workers = 1 /\ stage[j] \in Busy THEN "raised" ELSE stage[j]]
    /\ UNCHANGED <<fileVars, nextJob, pending, result, taken, buffered, conversations, progress>>

\* The process is killed; the bound leaves the last one alive.  What was not
\* flushed is lost.
Kill ==
    /\ pc # "down"
    /\ starts < MaxStarts
    /\ pc' = "down"
    /\ ended' = "killed"
    /\ Fresh
    /\ UNCHANGED <<durable, verdicts, fileVars, starts, workers>>

Main ==
    \/ Fill \/ Take \/ Await \/ Write \/ Flush \/ Tally \/ Summarise \/ Record
    \/ Refill \/ Drain \/ Final \/ Close
-----------------------------------------------------------------------------
Becomes(j, state, outcome) ==
    /\ stage' = [stage EXCEPT ![j] = state]
    /\ result' = [result EXCEPT ![j] = outcome]
    /\ UNCHANGED <<durable, fileVars, starts, workers, nextJob, pending, mainVars>>

\* Slip: a saved verdict is not looked up.
SavedNever(j) == FALSE

\* Holistic: the conversation has a conversation_commit row.
Saved(j) == durable /\ verdicts[j] # None

\* The look-up at the start of a job.  A saved verdict is returned, unless the
\* manifest no longer fits it: then the job reports that, or fails to.
Begin(j) ==
    /\ stage[j] = "submitted"
    /\ IF Saved(j)
       THEN \/ Becomes(j, "done", verdicts[j])
            \/ Becomes(j, "done", "ERROR")
            \/ Becomes(j, "raised", None)
       ELSE Becomes(j, "working", None)
    /\ UNCHANGED verdicts

SettledVerdicts(j, v) == [verdicts EXCEPT ![j] = v]

\* The conversation comes to its end.
Decide(j) ==
    /\ stage[j] = "working"
    /\ \E v \in Verdicts :
          IF durable
          THEN Becomes(j, "settled", v) /\ verdicts' = SettledVerdicts(j, v)
          ELSE Becomes(j, "done", v) /\ UNCHANGED verdicts

Return(j) ==
    /\ stage[j] = "settled"
    /\ Becomes(j, "done", result[j])
    /\ UNCHANGED verdicts

\* An ExecutionError is reported; any other exception is the future's.
Raise(j) ==
    /\ stage[j] = "working"
    /\ Becomes(j, "done", "ERROR") \/ Becomes(j, "raised", None)
    /\ UNCHANGED verdicts

Worker(j) == Begin(j) \/ Decide(j) \/ Return(j) \/ Raise(j)

Next == Start \/ Main \/ Interrupt \/ Kill \/ \E j \in Jobs : Worker(j)

Spec == Init /\ [][Next]_vars

\* Threads are scheduled, and what a worker does ends (requests time out).
FairSpec == Spec /\ WF_vars(Main) /\ \A j \in Jobs : WF_vars(Worker(j))
-----------------------------------------------------------------------------
\* Holistic: over all the processes of a run, no reader of the output ever sees
\* two different verdicts on one image ("returns that recorded output").
RowsStable ==
    durable =>
        \A first, second \in seen :
            /\ first.job = second.job
            /\ "ERROR" \notin {first.outcome, second.outcome}
            => first = second

\* No more jobs than workers are under way, and none is started that far ahead
\* of the output that a slow head would leave results without bound
\* (synthesize_batch: "At most ``max_workers`` jobs are submitted at once").
WindowBound ==
    /\ Cardinality({j \in Jobs : stage[j] \in Busy}) <= workers
    /\ nextJob - 1 <= Len(output) + workers

\* The store is closed after the last worker is done with it, also when the
\* loop ended early.
StoreOutlivesWorkers == pc = "down" => \A j \in Jobs : stage[j] \notin Busy

\* A process that was not killed leaves a summary of its output, all of it; only
\* when it was interrupted may the last row be missing from it ("The summary is
\* refreshed after the first record, every 100 records, and on exit").
SummaryOnExit ==
    pc = "down" /\ ended \in {"success", "aborted", "interrupted"} =>
        /\ Len(output) - Len(summary) \in {0} \cup {n \in {1} : ended = "interrupted"}
        /\ summary = SubSeq(output, 1, Len(summary))

\* The command ends well only with a row for every job, and only then the
\* progress line says finished.
SuccessIsComplete ==
    pc = "down" /\ (ended = "success" \/ progress.state = "finished") =>
        Len(output) = JobCount /\ progress.shown = JobCount

\* However the loop ends, the command does: no future is waited for that nobody
\* will complete.
BatchEnds == pc # "down" ~> pc = "down"

\* Whatever order the workers finish in, the output is what RunReport promises:
\* rows in input order (synthesize_batch: "yield input order"), each an error or
\* the verdict in the store.
Report == INSTANCE RunReport WITH
    Verdict <- Verdicts, NoVerdict <- None, report <- output

ImplementsReport == Report!Spec
=================================================================================
