------------------------------ MODULE BatchProofs ------------------------------
(***************************************************************************)
(* For every number of jobs and workers, every summary interval and any    *)
(* number of restarts: Batch keeps its types, its window, its summary and  *)
(* its verdicts, closes the store last, and implements RunReport.          *)
(***************************************************************************)
EXTENDS Batch, FiniteSetTheorems, SequenceTheorems, TLAPS

\* The taken job is not in the output yet, and the taken job is.
BeforeRow == {"await", "write", "flush"}
AfterRow == {"tally", "summarise", "record", "refill"}

\* How many jobs were taken from the deque.
Position == IF pc \in BeforeRow THEN Len(output) + 1 ELSE Len(output)

\* A row's outcome is an error or the job's verdict.
TruthfulOutcome(j, outcome) ==
    \/ outcome = "ERROR"
    \/ outcome \in Verdicts /\ (durable => verdicts[j] = outcome)

FuturesTruthful ==
    \A j \in Jobs :
        /\ stage[j] = "done" => result[j] \in Outcomes /\ TruthfulOutcome(j, result[j])
        /\ stage[j] = "settled" =>
              durable /\ result[j] \in Verdicts /\ verdicts[j] = result[j]
        /\ stage[j] = "working" /\ durable => verdicts[j] = None

RowsTruthful ==
    /\ \A row \in seen : TruthfulOutcome(row.job, row.outcome)
    /\ \A i \in DOMAIN output : output[i].job = i /\ output[i] \in seen
    /\ buffered # None =>
          buffered.job = Len(output) + 1 /\ TruthfulOutcome(buffered.job, buffered.outcome)

\* The deque holds the jobs after the taken ones, in order; the taken job waits
\* for its row.
DequeInOrder ==
    pc \in LoopSteps =>
        /\ Len(pending) = nextJob - 1 - Position
        /\ \A i \in DOMAIN pending : pending[i] = Position + i
        /\ pc \in BeforeRow \cup AfterRow => taken = Position
        /\ pc \in (BeforeRow \cup AfterRow) \ {"await"} => stage[taken] = "done"
        /\ buffered = IF pc = "flush" THEN RowOf(taken) ELSE None
        /\ pc = "tally" => output[Len(output)] = RowOf(taken)

\* As many jobs are under way as there are workers, and none is when the
\* manifest is used up or the executor is left.
WindowHeld ==
    /\ pc \in LoopSteps => Len(pending) <= IF pc \in {"fill", "take"} THEN workers ELSE workers - 1
    /\ pc = "take" /\ pending = <<>> => nextJob = JobCount + 1
    /\ nextJob - 1 <= Len(output) + workers
    /\ \A j \in Jobs : stage[j] # "waiting" => j < nextJob
    /\ \A j \in Jobs : stage[j] \in Busy => Len(output) < j
    /\ pc \in {"final", "close", "down"} => \A j \in Jobs : stage[j] \notin Busy

\* The counted rows are the first rows of the output.
CountedArePrefix ==
    /\ Len(conversations) <= Len(output)
    /\ \A i \in 1 .. Len(conversations) : conversations[i] = output[i]

CountsKept ==
    /\ pc \in LoopSteps =>
          /\ ended = "no"
          /\ CountedArePrefix
          /\ Len(conversations) = IF pc = "tally" THEN Len(output) - 1 ELSE Len(output)
          /\ progress.shown = IF pc \in {"tally", "summarise", "record"}
                              THEN Len(output) - 1 ELSE Len(output)
    /\ pc \in ExitSteps =>
          /\ ended \in {"success", "aborted", "interrupted"}
          /\ CountedArePrefix
          /\ LET due == Len(output) + (IF buffered = None THEN 0 ELSE 1) IN
             due = Len(conversations) \/ (ended = "interrupted" /\ due = Len(conversations) + 1)
    /\ pc = "close" => summary = conversations
    /\ pc \in ExitSteps \cup {"down"} /\ ended = "success" =>
          Len(output) = JobCount /\ progress.shown = JobCount
    /\ progress.state = "finished" => pc = "down" /\ ended = "success"

BatchInv ==
    /\ TypeOK
    /\ FuturesTruthful
    /\ RowsTruthful
    /\ DequeInOrder
    /\ WindowHeld
    /\ CountsKept
    /\ SummaryOnExit
-----------------------------------------------------------------------------
\* Nothing is done yet: a new process, or what a killed one leaves.
LEMMA FreshFacts ==
    ASSUME TypeOK, Fresh, pc' \in {"down", "fill"}, verdicts' = verdicts,
           durable' = durable, output' \in Seq(Row)
    PROVE  /\ nextJob' \in 1 .. JobCount + 1 /\ pending' \in Seq(Jobs)
           /\ stage' \in [Jobs -> {"waiting", "done", "raised"} \cup Busy]
           /\ result' \in [Jobs -> Outcomes \cup {None}]
           /\ taken' \in Jobs \cup {None} /\ buffered' \in Row \cup {None}
           /\ conversations' \in Seq(Row)
           /\ progress' \in [shown : Nat,
                   state : {"running", "finished", "incomplete", "interrupted"}]
           /\ Len(conversations') = 0 /\ Len(pending') = 0
           /\ FuturesTruthful'
  BY BatchAssumption DEF Fresh, FuturesTruthful, Busy, Jobs

\* While its row is on the way, the taken job is a job, and done.
LEMMA TakenFacts ==
    ASSUME BatchInv, pc \in BeforeRow \cup AfterRow
    PROVE  /\ taken \in Jobs /\ taken = Position
           /\ stage[taken] = "done" =>
                 RowOf(taken) \in Row /\ TruthfulOutcome(taken, result[taken])
  <1>1. Position \in Nat /\ pc \in LoopSteps
    BY DEF BatchInv, TypeOK, Position, BeforeRow, AfterRow, LoopSteps
  <1>2. taken = Position
    BY <1>1 DEF BatchInv, DequeInOrder
  <1>3. taken \in Jobs
    BY <1>1, <1>2, NoneAssumption DEF BatchInv, TypeOK
  <1>4. stage[taken] = "done" =>
           RowOf(taken) \in Row /\ TruthfulOutcome(taken, result[taken])
    BY <1>3 DEF BatchInv, FuturesTruthful, RowOf, Row
  <1>5. QED  BY <1>2, <1>3, <1>4

\* What Emit appends is the buffered row.
LEMMA EmitFacts ==
    ASSUME TypeOK, Emit, buffered # None
    PROVE  /\ buffered \in Row
           /\ output' \in Seq(Row) /\ Len(output') = Len(output) + 1
           /\ output'[Len(output')] = buffered
           /\ \A i \in 1 .. Len(output) : output'[i] = output[i]
           /\ DOMAIN output' = 1 .. Len(output) + 1 /\ DOMAIN output = 1 .. Len(output)
           /\ seen' = seen \cup {buffered} /\ seen' \subseteq Row
           /\ buffered' = None
  BY DEF TypeOK, Emit

\* Emit as the flush and the close meet it: there is a row to emit.
LEMMA FlushFacts ==
    ASSUME BatchInv, pc = "flush"
    PROVE  buffered # None /\ buffered = RowOf(taken) /\ taken = Len(output) + 1
  <1>1. stage[taken] = "done" /\ buffered = RowOf(taken)
    BY DEF BatchInv, DequeInOrder, LoopSteps, BeforeRow, AfterRow
  <1>2. RowOf(taken) \in Row /\ taken = Position
    BY <1>1, TakenFacts DEF BeforeRow, AfterRow
  <1>3. QED  BY <1>1, <1>2, NoneAssumption DEF Position, BeforeRow

\* A submission: the next job joins the deque.
LEMMA SubmitFacts ==
    ASSUME TypeOK, JobsLeft, Submit
    PROVE  /\ nextJob \in Jobs /\ nextJob' = nextJob + 1 /\ nextJob' \in 1 .. JobCount + 1
           /\ pending' \in Seq(Jobs) /\ Len(pending') = Len(pending) + 1
           /\ \A i \in 1 .. Len(pending) : pending'[i] = pending[i]
           /\ pending'[Len(pending) + 1] = nextJob
           /\ stage' = [stage EXCEPT ![nextJob] = "submitted"] /\ result' = result
           /\ stage' \in [Jobs -> {"waiting", "done", "raised"} \cup Busy]
  <1>1. nextJob \in Jobs /\ nextJob' = nextJob + 1 /\ nextJob' \in 1 .. JobCount + 1
    BY BatchAssumption DEF TypeOK, JobsLeft, Jobs, Submit
  <1>2. QED  BY <1>1 DEF TypeOK, Submit, Busy

\* A worker's step keeps futures and verdicts in their types.
LEMMA WorkerType ==
    ASSUME TypeOK, NEW j \in Jobs, Worker(j)
    PROVE  /\ stage' \in [Jobs -> {"waiting", "done", "raised"} \cup Busy]
           /\ result' \in [Jobs -> Outcomes \cup {None}]
           /\ verdicts' \in [Jobs -> Verdicts \cup {None}]
  <1>1. /\ stage \in [Jobs -> {"waiting", "done", "raised"} \cup Busy]
        /\ result \in [Jobs -> Outcomes \cup {None}]
        /\ verdicts \in [Jobs -> Verdicts \cup {None}]
    BY DEF TypeOK
  <1> USE DEF Becomes, Busy, Outcomes
  <1>2. CASE Begin(j)
    BY <1>1, <1>2 DEF Begin, Saved
  <1>3. CASE Decide(j)
    BY <1>1, <1>3 DEF Decide, SettledVerdicts
  <1>4. CASE Return(j)
    BY <1>1, <1>4 DEF Return
  <1>5. CASE Raise(j)
    BY <1>1, <1>5 DEF Raise
  <1>6. QED  BY <1>2, <1>3, <1>4, <1>5 DEF Worker

LEMMA TypeStep == BatchInv /\ [Next]_vars => TypeOK'
  <1> SUFFICES ASSUME BatchInv, [Next]_vars PROVE TypeOK'
    OBVIOUS
  <1> USE DEF BatchInv
  <1>1. CASE Start
    <2>1. output' \in Seq(Row)
      BY <1>1 DEF Start
    <2>2. QED  BY <1>1, <2>1, FreshFacts DEF TypeOK, Start, LoopSteps
  <1>2. CASE Fill
    <2>1. CASE JobsLeft /\ WindowOpen
      BY <1>2, <2>1, SubmitFacts DEF TypeOK, Fill, Goto, fileVars, LoopSteps
    <2>2. CASE ~(JobsLeft /\ WindowOpen)
      BY <1>2, <2>2 DEF TypeOK, Fill, Goto, fileVars, jobVars, LoopSteps
    <2>3. QED  BY <2>1, <2>2
  <1>3. CASE Take
    <2>1. CASE pending = <<>>
      BY <1>3, <2>1 DEF TypeOK, Take, Goto, fileVars, jobVars, LoopSteps, ExitSteps
    <2>2. CASE pending # <<>>
      <3>1. pending[1] \in Jobs /\ Tail(pending) \in Seq(Jobs)
        BY <2>2 DEF TypeOK
      <3>2. QED
        BY <1>3, <2>2, <3>1 DEF TypeOK, Take, NextResult, Goto, fileVars, LoopSteps
    <2>3. QED  BY <2>1, <2>2
  <1>4. CASE Await
    BY <1>4 DEF TypeOK, Await, Goto, fileVars, jobVars, LoopSteps, ExitSteps
  <1>5. CASE Write
    <2>1. RowOf(taken) \in Row
      BY <1>5, TakenFacts DEF Write, DequeInOrder, LoopSteps, BeforeRow, AfterRow
    <2>2. QED  BY <1>5, <2>1 DEF TypeOK, Write, Goto, fileVars, jobVars, LoopSteps
  <1>6. CASE Flush
    BY <1>6, FlushFacts, EmitFacts DEF TypeOK, Flush, Goto, jobVars, LoopSteps
  <1>7. CASE Tally
    <2>1. RowOf(taken) \in Row
      BY <1>7, TakenFacts DEF Tally, DequeInOrder, LoopSteps, BeforeRow, AfterRow
    <2>2. QED  BY <1>7, <2>1 DEF TypeOK, Tally, Goto, fileVars, jobVars, LoopSteps
  <1>8. CASE Summarise
    BY <1>8 DEF TypeOK, Summarise, Goto, jobVars, LoopSteps
  <1>9. CASE Record
    <2>1. progress' \in [shown : Nat,
                state : {"running", "finished", "incomplete", "interrupted"}]
      <3>1. progress \in [shown : Nat,
                  state : {"running", "finished", "incomplete", "interrupted"}]
        BY DEF TypeOK
      <3>2. QED  BY <1>9, <3>1 DEF Record
    <2>2. QED  BY <1>9, <2>1 DEF TypeOK, Record, Goto, fileVars, jobVars, LoopSteps
  <1>10. CASE Refill
    <2>1. CASE JobsLeft
      BY <1>10, <2>1, SubmitFacts DEF TypeOK, Refill, Goto, fileVars, LoopSteps
    <2>2. CASE ~JobsLeft
      BY <1>10, <2>2 DEF TypeOK, Refill, Goto, fileVars, jobVars, LoopSteps
    <2>3. QED  BY <2>1, <2>2
  <1>11. CASE Drain
    BY <1>11 DEF TypeOK, Drain, Goto, fileVars, jobVars, ExitSteps
  <1>12. CASE Final
    BY <1>12 DEF TypeOK, Final, FinalSummary, Goto, jobVars, ExitSteps
  <1>13. CASE Close
    <2>1. /\ output' \in Seq(Row) /\ seen' \subseteq Row /\ buffered' \in Row \cup {None}
      BY <1>13, EmitFacts DEF TypeOK, Close
    <2>2. progress' \in [shown : Nat,
                state : {"running", "finished", "incomplete", "interrupted"}]
      BY <1>13 DEF TypeOK, Close
    <2>3. QED  BY <1>13, <2>1, <2>2 DEF TypeOK, Close, Goto, jobVars
  <1>14. CASE Interrupt
    BY <1>14 DEF TypeOK, Interrupt, Goto, fileVars, ExitSteps, Busy
  <1>15. CASE Kill
    <2>1. output' \in Seq(Row)
      BY <1>15 DEF TypeOK, Kill, fileVars
    <2>2. QED  BY <1>15, <2>1, FreshFacts DEF TypeOK, Kill, fileVars
  <1>16. CASE \E j \in Jobs : Worker(j)
    <2>1. PICK j \in Jobs : Worker(j)
      BY <1>16
    <2>2. /\ stage' \in [Jobs -> {"waiting", "done", "raised"} \cup Busy]
          /\ result' \in [Jobs -> Outcomes \cup {None}]
          /\ verdicts' \in [Jobs -> Verdicts \cup {None}]
      BY <2>1, WorkerType
    <2>3. QED
      BY <2>1, <2>2 DEF TypeOK, Worker, Begin, Decide, Return, Raise, Becomes, fileVars, mainVars
  <1>17. CASE UNCHANGED vars
    BY <1>17 DEF TypeOK, vars, fileVars, jobVars, mainVars
  <1>18. QED
    BY <1>1, <1>2, <1>3, <1>4, <1>5, <1>6, <1>7, <1>8, <1>9, <1>10, <1>11, <1>12, <1>13,
       <1>14, <1>15, <1>16, <1>17 DEF Next, Main

\* A worker's step concerns its own job.
LEMMA WorkerFacts ==
    ASSUME BatchInv, NEW j \in Jobs, Worker(j)
    PROVE  /\ \A other \in Jobs \ {j} :
                 /\ stage'[other] = stage[other] /\ result'[other] = result[other]
                 /\ verdicts'[other] = verdicts[other]
           /\ stage[j] \in Busy /\ stage'[j] \in {"working", "settled", "done", "raised"}
           /\ durable /\ verdicts[j] # None => verdicts'[j] = verdicts[j]
           /\ durable' = durable
           /\ stage'[j] = "done" =>
                 /\ result'[j] \in Outcomes
                 /\ \/ result'[j] = "ERROR"
                    \/ result'[j] \in Verdicts /\ (durable => verdicts'[j] = result'[j])
           /\ stage'[j] = "settled" =>
                 durable /\ result'[j] \in Verdicts /\ verdicts'[j] = result'[j]
           /\ stage'[j] = "working" /\ durable => verdicts'[j] = None
  <1> USE DEF BatchInv, TypeOK, FuturesTruthful, TruthfulOutcome, Becomes, Busy, Outcomes
  <1>1. CASE Begin(j)
    BY <1>1, NoneAssumption DEF Begin, Saved
  <1>2. CASE Decide(j)
    BY <1>2, NoneAssumption DEF Decide, SettledVerdicts
  <1>3. CASE Return(j)
    BY <1>3 DEF Return
  <1>4. CASE Raise(j)
    BY <1>4 DEF Raise
  <1>5. QED  BY <1>1, <1>2, <1>3, <1>4 DEF Worker

LEMMA FuturesStep == BatchInv /\ [Next]_vars => FuturesTruthful'
  <1> SUFFICES ASSUME BatchInv, [Next]_vars PROVE FuturesTruthful'
    OBVIOUS
  <1>1. CASE Start
    <2>1. output' \in Seq(Row)
      BY <1>1 DEF Start
    <2>2. QED  BY <1>1, <2>1, FreshFacts DEF BatchInv, Start
  <1>2. CASE Kill
    <2>1. output' \in Seq(Row)
      BY <1>2 DEF Kill, fileVars, BatchInv, TypeOK
    <2>2. QED  BY <1>2, <2>1, FreshFacts DEF BatchInv, Kill
  <1>3. CASE Fill \/ Refill
    <2>1. CASE UNCHANGED jobVars
      BY <1>3, <2>1 DEF BatchInv, FuturesTruthful, TruthfulOutcome, Fill, Refill, Goto, jobVars
    <2>2. CASE JobsLeft /\ Submit
      <3>1. stage' = [stage EXCEPT ![nextJob] = "submitted"] /\ result' = result
        BY <2>2, SubmitFacts DEF BatchInv
      <3>2. QED
        BY <1>3, <3>1 DEF BatchInv, FuturesTruthful, TruthfulOutcome, TypeOK, Fill, Refill, Goto
    <2>3. QED  BY <1>3, <2>1, <2>2 DEF Fill, Refill
  <1>4. CASE Interrupt
    <2>1. \A j \in Jobs : stage'[j] \in {stage[j], "raised"}
      BY <1>4 DEF Interrupt
    <2>2. UNCHANGED <<durable, verdicts, result>>
      BY <1>4 DEF Interrupt, Goto
    <2>3. QED  BY <2>1, <2>2 DEF BatchInv, FuturesTruthful, TruthfulOutcome
  <1>5. CASE \E j \in Jobs : Worker(j)
    <2>1. PICK j \in Jobs : Worker(j)
      BY <1>5
    <2>2. QED
      BY <2>1, WorkerFacts DEF BatchInv, FuturesTruthful, TruthfulOutcome
  <1>6. CASE UNCHANGED <<durable, verdicts, stage, result>>
    BY <1>6 DEF BatchInv, FuturesTruthful, TruthfulOutcome
  <1>7. ASSUME \/ Take \/ Await \/ Write \/ Flush \/ Tally \/ Summarise \/ Record
               \/ Drain \/ Final \/ Close \/ UNCHANGED vars
        PROVE  UNCHANGED <<durable, verdicts, stage, result>>
    BY <1>7 DEF Take, Await, Write, Flush, Tally, Summarise, Record, Drain, Final, Close,
                Goto, jobVars, vars
  <1>8. QED
    BY <1>1, <1>2, <1>3, <1>4, <1>5, <1>6, <1>7 DEF Next, Main

\* Verdicts stay, so what was said of a job stays true.
LEMMA StillTruthful ==
    ASSUME BatchInv, [Next]_vars, NEW j \in Jobs, NEW outcome, TruthfulOutcome(j, outcome)
    PROVE  TruthfulOutcome(j, outcome)'
  <1>1. CASE \E k \in Jobs : Worker(k)
    <2>1. PICK k \in Jobs : Worker(k)
      BY <1>1
    <2>2. outcome # "ERROR" => outcome # None
      BY NoneAssumption DEF TruthfulOutcome, Outcomes
    <2>3. durable' = durable
          /\ (durable /\ verdicts[j] # None => verdicts'[j] = verdicts[j])
      BY <2>1, WorkerFacts
    <2>4. QED  BY <2>2, <2>3 DEF TruthfulOutcome
  <1>2. CASE UNCHANGED <<durable, verdicts>>
    BY <1>2 DEF TruthfulOutcome
  <1>3. ASSUME ~\E k \in Jobs : Worker(k)
        PROVE  UNCHANGED <<durable, verdicts>>
    BY <1>3 DEF Next, Main, Start, Fill, Take, Await, Write, Flush, Tally, Summarise, Record,
                Refill, Drain, Final, Close, Interrupt, Kill, Goto, vars
  <1>4. QED  BY <1>1, <1>2, <1>3

LEMMA RowsStep == BatchInv /\ [Next]_vars => RowsTruthful'
  <1> SUFFICES ASSUME BatchInv, [Next]_vars PROVE RowsTruthful'
    OBVIOUS
  <1>1. ASSUME UNCHANGED <<output, seen, buffered>>
        PROVE  RowsTruthful'
    <2>1. \A row \in seen : TruthfulOutcome(row.job, row.outcome)'
      BY <1>1, StillTruthful DEF BatchInv, RowsTruthful, TypeOK, Row
    <2>2. buffered # None => buffered.job \in Jobs
      BY DEF BatchInv, TypeOK, Row
    <2>3. ASSUME buffered # None
          PROVE  TruthfulOutcome(buffered.job, buffered.outcome)'
      <3> DEFINE outcome == buffered.outcome
                 job == buffered.job
      <3>1. job \in Jobs /\ TruthfulOutcome(job, outcome)
        BY <2>2, <2>3 DEF BatchInv, RowsTruthful
      <3>2. job' = job /\ outcome' = outcome
        BY <1>1
      <3>3. QED  BY <3>1, <3>2, StillTruthful DEF TruthfulOutcome
    <2>4. QED
      BY <1>1, <2>1, <2>3 DEF BatchInv, RowsTruthful, TruthfulOutcome
  <1>2. ASSUME Emit, buffered # None, UNCHANGED <<durable, verdicts>>
        PROVE  RowsTruthful'
    <2>1. /\ buffered' = None /\ seen' = seen \cup {buffered}
          /\ Len(output') = Len(output) + 1 /\ DOMAIN output' = 1 .. Len(output) + 1
          /\ DOMAIN output = 1 .. Len(output) /\ Len(output) \in Nat
          /\ output'[Len(output) + 1] = buffered
          /\ \A i \in 1 .. Len(output) : output'[i] = output[i]
      BY <1>2, EmitFacts DEF BatchInv, TypeOK
    <2>2. \A i \in DOMAIN output' : output'[i].job = i /\ output'[i] \in seen'
      BY <1>2, <2>1 DEF BatchInv, RowsTruthful
    <2>3. \A row \in seen' : TruthfulOutcome(row.job, row.outcome)'
      BY <1>2, <2>1 DEF BatchInv, RowsTruthful, TruthfulOutcome
    <2>4. QED  BY <2>1, <2>2, <2>3 DEF RowsTruthful, TruthfulOutcome
  <1>3. CASE Start
    <2>1. \A row \in seen : TruthfulOutcome(row.job, row.outcome)'
      BY StillTruthful DEF BatchInv, RowsTruthful, TypeOK, Row
    <2>2. QED  BY <1>3, <2>1 DEF Start, Fresh, RowsTruthful, TruthfulOutcome
  <1>4. CASE Kill
    <2>1. \A row \in seen : TruthfulOutcome(row.job, row.outcome)'
      BY StillTruthful DEF BatchInv, RowsTruthful, TypeOK, Row
    <2>2. QED
      BY <1>4, <2>1 DEF Kill, Fresh, fileVars, BatchInv, RowsTruthful, TruthfulOutcome
  <1>5. CASE Write
    <2>1. stage[taken] = "done" /\ taken = Len(output) + 1
      BY <1>5, TakenFacts
      DEF Write, BatchInv, DequeInOrder, LoopSteps, BeforeRow, AfterRow, Position
    <2>2. taken \in Jobs /\ TruthfulOutcome(taken, result[taken])
      BY <1>5, <2>1, TakenFacts DEF Write, BeforeRow, AfterRow
    <2>3. buffered' = [job |-> taken, outcome |-> result[taken]]
      BY <1>5 DEF Write, RowOf
    <2>4. UNCHANGED <<output, seen, durable, verdicts>>
      BY <1>5 DEF Write, fileVars, Goto
    <2>5. QED  BY <2>1, <2>2, <2>3, <2>4 DEF BatchInv, RowsTruthful, TruthfulOutcome
  <1>6. CASE Flush
    BY <1>2, <1>6, FlushFacts DEF Flush, Goto
  <1>7. CASE Close
    BY <1>1, <1>2, <1>7 DEF Close, Goto
  <1>8. ASSUME \/ Fill \/ Take \/ Await \/ Tally \/ Summarise \/ Record \/ Refill \/ Drain
               \/ Final \/ Interrupt \/ (\E j \in Jobs : Worker(j)) \/ UNCHANGED vars
        PROVE  UNCHANGED <<output, seen, buffered>>
    BY <1>8 DEF Fill, Take, Await, Tally, Summarise, Record, Refill, Drain, Final, Interrupt,
                Worker, Begin, Decide, Return, Raise, Becomes, fileVars, mainVars, vars
  <1>9. QED
    BY <1>1, <1>3, <1>4, <1>5, <1>6, <1>7, <1>8 DEF Next, Main

LEMMA DequeStep == BatchInv /\ [Next]_vars => DequeInOrder'
  <1> SUFFICES ASSUME BatchInv, [Next]_vars PROVE DequeInOrder'
    OBVIOUS
  <1> USE DEF BatchInv, Position, BeforeRow, AfterRow
  <1>0. Len(output) \in Nat /\ nextJob \in Nat /\ Len(pending) \in Nat
        /\ DOMAIN pending = 1 .. Len(pending)
    BY BatchAssumption DEF TypeOK, Jobs
  <1>1. CASE Start
    <2>1. nextJob' = 1 /\ pc' = "fill" /\ buffered' = None
      BY <1>1 DEF Start, Fresh
    <2>2. Len(pending') = 0 /\ Len(output') = 0 /\ DOMAIN pending' = {}
      BY <1>1 DEF Start, Fresh
    <2>3. pc' \notin BeforeRow /\ pc' \notin AfterRow
      BY <2>1
    <2>4. Position' = 0
      BY <2>2, <2>3
    <2>5. Len(pending') = nextJob' - 1 - Position'
      <3> HIDE DEF Position
      <3>1. QED  BY <2>1, <2>2, <2>4
    <2>6. QED  BY <2>1, <2>2, <2>3, <2>5 DEF DequeInOrder
  <1>2. CASE (Fill \/ Refill) /\ UNCHANGED jobVars
    BY <1>0, <1>2 DEF Fill, Refill, Goto, jobVars, fileVars, DequeInOrder, LoopSteps, RowOf, WindowOpen
  <1>3. CASE (Fill \/ Refill) /\ JobsLeft /\ Submit
    <2>1. /\ nextJob' = nextJob + 1 /\ Len(pending') = Len(pending) + 1
          /\ \A i \in 1 .. Len(pending) : pending'[i] = pending[i]
          /\ pending'[Len(pending) + 1] = nextJob
          /\ DOMAIN pending' = 1 .. Len(pending) + 1
      BY <1>3, SubmitFacts DEF TypeOK
    <2>2. /\ pc \in {"fill", "refill"} /\ pc' \in {"fill", "take"}
          /\ output' = output /\ buffered' = buffered
      BY <1>3 DEF Fill, Refill, Goto, fileVars
    <2>3. Position' = Position /\ Position \in Nat
      BY <1>0, <2>2
    <2>4. Len(pending) = nextJob - 1 - Position /\ buffered = None
          /\ \A i \in 1 .. Len(pending) : pending[i] = Position + i
      BY <1>0, <2>2 DEF DequeInOrder, LoopSteps
    <2>5. \A i \in 1 .. Len(pending) + 1 : pending'[i] = Position' + i
      <3>1. nextJob = Position + (Len(pending) + 1)
        BY <1>0, <2>3, <2>4
      <3> HIDE DEF Position
      <3>2. TAKE i \in 1 .. Len(pending) + 1
      <3>3. CASE i \in 1 .. Len(pending)
        BY <2>1, <2>3, <2>4, <3>3
      <3>4. CASE i = Len(pending) + 1
        BY <2>1, <2>3, <3>1, <3>4
      <3>5. QED  BY <1>0, <3>3, <3>4
    <2>6. Len(pending') = nextJob' - 1 - Position'
      <3> HIDE DEF Position
      <3>1. QED  BY <1>0, <2>1, <2>3, <2>4
    <2>7. QED  BY <2>1, <2>2, <2>4, <2>5, <2>6 DEF DequeInOrder
  <1>4. CASE Take
    <2>1. CASE pending = <<>>
      BY <1>4, <2>1 DEF Take, Goto, DequeInOrder, LoopSteps
    <2>2. CASE pending # <<>>
      <3>0. pending \in Seq(Jobs) /\ pending' = Tail(pending) /\ taken' = pending[1]
        BY <1>4, <2>2 DEF Take, NextResult, TypeOK
      <3>1. /\ Len(pending') = Len(pending) - 1 /\ DOMAIN pending' = 1 .. Len(pending) - 1
            /\ \A i \in DOMAIN pending' : pending'[i] = pending[i + 1]
            /\ taken' = pending[1] /\ 1 \in DOMAIN pending
        BY <2>2, <3>0
      <3>2. /\ pc = "take" /\ pc' = "await"
            /\ UNCHANGED <<output, nextJob, buffered>>
        BY <1>4, <2>2 DEF Take, Goto, fileVars
      <3>3. QED  BY <1>0, <3>1, <3>2 DEF DequeInOrder, LoopSteps
    <2>3. QED  BY <2>1, <2>2
  <1>5. CASE Await
    BY <1>0, <1>5 DEF Await, Goto, jobVars, fileVars, DequeInOrder, LoopSteps
  <1>6. CASE Write
    BY <1>0, <1>6 DEF Write, Goto, jobVars, fileVars, DequeInOrder, LoopSteps, RowOf
  <1>7. CASE Flush
    <2>1. /\ buffered = RowOf(taken) /\ output'[Len(output')] = RowOf(taken)
          /\ Len(output') = Len(output) + 1 /\ buffered' = None
      BY <1>7, FlushFacts, EmitFacts DEF Flush
    <2>2. QED
      BY <1>0, <1>7, <2>1 DEF Flush, Goto, jobVars, DequeInOrder, LoopSteps, RowOf
  <1>8. CASE Tally \/ Summarise \/ Record
    BY <1>0, <1>8
    DEF Tally, Summarise, Record, Goto, jobVars, fileVars, DequeInOrder, LoopSteps, RowOf
  <1>9. CASE \E j \in Jobs : Worker(j)
    <2>1. PICK j \in Jobs : Worker(j)
      BY <1>9
    <2>2. /\ \A k \in Jobs : stage[k] = "done" => stage'[k] = "done" /\ result'[k] = result[k]
          /\ UNCHANGED <<pc, output, nextJob, pending, taken, buffered>>
      BY <2>1, WorkerFacts
      DEF Busy, Worker, Begin, Decide, Return, Raise, Becomes, fileVars, mainVars
    <2>3. pc \in BeforeRow \cup AfterRow => taken \in Jobs
      BY TakenFacts
    <2>4. pc \in (BeforeRow \cup AfterRow) \ {"await"} /\ stage[taken] = "done" =>
             stage'[taken] = "done" /\ RowOf(taken)' = RowOf(taken)
      BY <2>2, <2>3 DEF RowOf
    <2>5. Position' = Position
      BY <2>2
    <2>6. QED  BY <2>2, <2>4, <2>5 DEF DequeInOrder, LoopSteps
  <1>10. CASE UNCHANGED vars
    BY <1>10 DEF vars, fileVars, jobVars, mainVars, DequeInOrder, RowOf
  <1>11. ASSUME Drain \/ Final \/ Close \/ Interrupt \/ Kill
         PROVE  pc' \notin LoopSteps
    BY <1>11 DEF Drain, Final, Close, Interrupt, Kill, Goto, LoopSteps
  <1>12. (Fill \/ Refill) => UNCHANGED jobVars \/ (JobsLeft /\ Submit)
    BY DEF Fill, Refill
  <1>13. QED
    BY <1>1, <1>2, <1>3, <1>4, <1>5, <1>6, <1>7, <1>8, <1>9, <1>10, <1>11, <1>12
    DEF Next, Main, DequeInOrder

LEMMA WindowStep == BatchInv /\ [Next]_vars => WindowHeld'
  <1> SUFFICES ASSUME BatchInv, [Next]_vars PROVE WindowHeld'
    OBVIOUS
  <1> USE DEF BatchInv, Busy
  <1>0. Len(output) \in Nat /\ nextJob \in Nat /\ Len(pending) \in Nat /\ JobCount \in Nat
        /\ workers \in Nat \ {0} /\ (pending = <<>> <=> Len(pending) = 0) /\ nextJob <= JobCount + 1
    BY BatchAssumption DEF TypeOK, Jobs
  <1>1. CASE Start
    <2>1. /\ Len(pending') = 0 /\ Len(output') = 0 /\ nextJob' = 1 /\ pc' = "fill"
          /\ \A j \in Jobs : stage'[j] = "waiting"
      BY <1>1 DEF Start, Fresh
    <2>2. workers' \in Nat
      BY <1>1, BatchAssumption DEF Start
    <2>3. nextJob' - 1 = 0
      BY <2>1
    <2>4. 0 <= workers'
      BY <2>2
    <2>5. \A w \in Nat : 0 + w = w
      OBVIOUS
    <2>6. QED  BY <2>1, <2>2, <2>3, <2>4, <2>5 DEF WindowHeld, LoopSteps
  <1>2. CASE Kill
    <2>1. /\ nextJob' = 1 /\ pc' = "down" /\ output' = output /\ workers' = workers
          /\ \A j \in Jobs : stage'[j] = "waiting"
      BY <1>2 DEF Kill, Fresh, fileVars
    <2>2. QED  BY <1>0, <2>1 DEF WindowHeld, LoopSteps
  <1>3. CASE (Fill \/ Refill) /\ JobsLeft /\ Submit
    <2>1. /\ nextJob \in Jobs /\ nextJob' = nextJob + 1 /\ Len(pending') = Len(pending) + 1
          /\ stage' = [stage EXCEPT ![nextJob] = "submitted"]
      BY <1>3, SubmitFacts
    <2>2. /\ pc \in {"fill", "refill"} /\ output' = output /\ workers' = workers
          /\ pc' \in {"fill", "take"}
      BY <1>3 DEF Fill, Refill, Goto, fileVars
    <2>a. ASSUME Fill PROVE Len(pending) < workers
      <3>1. pc = "fill" /\ WindowOpen
        BY <1>0, <2>1, <2>a DEF Fill, jobVars
      <3>2. QED  BY <3>1 DEF WindowOpen
    <2>b. ASSUME Refill PROVE Len(pending) < workers
      BY <1>0, <2>b DEF Refill, WindowHeld, LoopSteps
    <2>c. Len(pending) = nextJob - 1 - Len(output)
      BY <2>2 DEF DequeInOrder, Position, BeforeRow, LoopSteps
    <2>3. Len(pending) < workers /\ Len(pending) = nextJob - 1 - Len(output)
      BY <1>0, <1>3, <2>a, <2>b, <2>c
    <2>4. \A j \in Jobs : (stage'[j] # "waiting" => j < nextJob') /\ (stage'[j] \in Busy => Len(output') < j)
      BY <1>0, <2>1, <2>2, <2>3 DEF WindowHeld, TypeOK, Jobs
    <2>5. Len(pending') <= workers' /\ nextJob' - 1 <= Len(output') + workers' /\ Len(pending') # 0
      BY <1>0, <2>1, <2>2, <2>3
    <2>6. QED  BY <2>2, <2>4, <2>5 DEF WindowHeld, LoopSteps
  <1>4. CASE (Fill \/ Refill) /\ UNCHANGED jobVars
    <2>1. /\ UNCHANGED <<nextJob, pending, stage, output, workers>>
          /\ pc \in {"fill", "refill"} /\ pc' = "take"
          /\ ~(JobsLeft /\ (pc = "fill" => WindowOpen))
      BY <1>0, <1>4 DEF Fill, Refill, Goto, fileVars, jobVars, Submit
    <2>2. pending = <<>> => nextJob = JobCount + 1
      BY <1>0, <2>1 DEF WindowOpen, JobsLeft
    <2>3. Len(pending) <= workers
      BY <1>0, <2>1 DEF WindowHeld, LoopSteps
    <2>4. QED  BY <2>1, <2>2, <2>3 DEF WindowHeld, LoopSteps
  <1>5. CASE Take
    <2>1. CASE pending = <<>>
      BY <1>5, <2>1 DEF Take, Goto, fileVars, jobVars, WindowHeld, LoopSteps
    <2>2. CASE pending # <<>>
      <3>1. /\ Len(pending') = Len(pending) - 1 /\ pc = "take" /\ pc' = "await"
            /\ UNCHANGED <<nextJob, stage, output, workers>>
        BY <1>5, <2>2 DEF Take, Goto, fileVars, TypeOK
      <3>2. QED  BY <1>0, <3>1 DEF WindowHeld, LoopSteps
    <2>3. QED  BY <2>1, <2>2
  <1>6. CASE Flush
    <2>1. Len(output') = Len(output) + 1 /\ stage[Len(output) + 1] = "done"
      BY <1>6, FlushFacts, EmitFacts DEF Flush, DequeInOrder, LoopSteps, BeforeRow, AfterRow
    <2>2. UNCHANGED <<nextJob, pending, stage, workers>> /\ pc = "flush" /\ pc' = "tally"
      BY <1>6 DEF Flush, Goto, jobVars
    <2>3. \A j \in Jobs : stage[j] \in Busy => Len(output) + 1 < j
      BY <1>0, <2>1 DEF WindowHeld, Jobs
    <2>4. QED  BY <1>0, <2>1, <2>2, <2>3 DEF WindowHeld, LoopSteps
  <1>7. CASE Await \/ Write \/ Tally \/ Summarise \/ Record
    <2>1. /\ UNCHANGED <<nextJob, pending, stage, output, workers>> /\ pc \in LoopSteps \ {"fill", "take"}
          /\ pc' \in (LoopSteps \ {"fill", "take"}) \cup {"drain"}
      BY <1>7 DEF Await, Write, Tally, Summarise, Record, Goto, fileVars, jobVars, LoopSteps
    <2>2. QED  BY <2>1 DEF WindowHeld, LoopSteps
  <1>8. CASE Drain
    BY <1>8 DEF Drain, Drained, Goto, fileVars, jobVars, WindowHeld, LoopSteps
  <1>9. CASE Final
    BY <1>9 DEF Final, Goto, jobVars, WindowHeld, LoopSteps
  <1>10. CASE Close
    <2>1. Len(output') \in {Len(output), Len(output) + 1}
      BY <1>10, EmitFacts DEF Close
    <2>2. UNCHANGED <<nextJob, pending, stage, workers>> /\ pc = "close" /\ pc' = "down"
      BY <1>10 DEF Close, Goto, jobVars
    <2>3. QED  BY <1>0, <2>1, <2>2 DEF WindowHeld, LoopSteps
  <1>11. CASE Interrupt
    <2>1. \A j \in Jobs : stage'[j] \in Busy => stage[j] \in Busy
      BY <1>11 DEF Interrupt
    <2>2. \A j \in Jobs : stage'[j] # "waiting" => stage[j] # "waiting"
      BY <1>11 DEF Interrupt
    <2>3. UNCHANGED <<nextJob, pending, output, workers>> /\ pc' = "drain"
      BY <1>11 DEF Interrupt, Goto, fileVars
    <2>4. QED  BY <2>1, <2>2, <2>3 DEF WindowHeld, LoopSteps
  <1>12. CASE \E j \in Jobs : Worker(j)
    <2>1. PICK j \in Jobs : Worker(j)
      BY <1>12
    <2>2. /\ \A k \in Jobs \ {j} : stage'[k] = stage[k]
          /\ stage[j] \in Busy
          /\ UNCHANGED <<pc, output, nextJob, pending, workers>>
      BY <2>1, WorkerFacts
      DEF Worker, Begin, Decide, Return, Raise, Becomes, fileVars, mainVars
    <2>3. QED  BY <2>2 DEF WindowHeld
  <1>13. CASE UNCHANGED vars
    BY <1>13 DEF vars, fileVars, jobVars, mainVars, WindowHeld
  <1>14. (Fill \/ Refill) => UNCHANGED jobVars \/ (JobsLeft /\ Submit)
    BY DEF Fill, Refill
  <1>15. QED
    BY <1>1, <1>2, <1>3, <1>4, <1>5, <1>6, <1>7, <1>8, <1>9, <1>10, <1>11, <1>12, <1>13, <1>14
    DEF Next, Main

LEMMA CountsStep == BatchInv /\ [Next]_vars => CountsKept'
  <1> SUFFICES ASSUME BatchInv, [Next]_vars PROVE CountsKept'
    OBVIOUS
  <1> USE DEF BatchInv
  <1>0. /\ Len(output) \in Nat /\ Len(conversations) \in Nat /\ progress.shown \in Nat
        /\ JobCount \in Nat /\ nextJob \in Nat /\ Len(pending) \in Nat
        /\ (pending = <<>> => Len(pending) = 0)
    BY BatchAssumption DEF TypeOK, Jobs
  <1>1. CASE Start
    <2>1. /\ Len(conversations') = 0 /\ Len(output') = 0 /\ progress'.shown = 0
          /\ progress'.state = "running" /\ pc' = "fill" /\ ended' = "no"
      BY <1>1 DEF Start, Fresh
    <2>2. QED  BY <2>1 DEF CountsKept, CountedArePrefix, LoopSteps, ExitSteps
  <1>2. CASE Kill
    <2>1. progress'.state = "running" /\ pc' = "down" /\ ended' = "killed"
      BY <1>2 DEF Kill, Fresh
    <2>2. QED  BY <2>1 DEF CountsKept, LoopSteps, ExitSteps
  <1>3. CASE Fill \/ Refill \/ Write
    <2>1. /\ UNCHANGED <<output, conversations, progress, ended>>
          /\ pc \in {"fill", "refill", "write"} /\ pc' \in {"fill", "take", "flush"}
      BY <1>3 DEF Fill, Refill, Write, Goto, fileVars
    <2>2. QED  BY <2>1 DEF CountsKept, CountedArePrefix, LoopSteps, ExitSteps
  <1>4. CASE Take
    <2>1. UNCHANGED <<output, buffered, conversations, progress>> /\ pc = "take"
      BY <1>4 DEF Take, fileVars
    <2>2. CASE pending = <<>>
      <3>1. pc' = "drain" /\ ended' = "success"
        BY <1>4, <2>2 DEF Take, Goto
      <3>2. nextJob = JobCount + 1 /\ Len(pending) = nextJob - 1 - Len(output) /\ buffered = None
        BY <2>1, <2>2
        DEF WindowHeld, DequeInOrder, Position, BeforeRow, LoopSteps
      <3>3. Len(output) = JobCount
        BY <1>0, <2>2, <3>2
      <3>4. QED
        BY <1>0, <2>1, <3>1, <3>2, <3>3 DEF CountsKept, CountedArePrefix, LoopSteps, ExitSteps
    <2>3. CASE pending # <<>>
      BY <1>4, <2>1, <2>3 DEF Take, Goto, CountsKept, CountedArePrefix, LoopSteps, ExitSteps
    <2>4. QED  BY <2>2, <2>3
  <1>5. CASE Await
    <2>1. UNCHANGED <<output, buffered, conversations, progress>> /\ pc = "await"
      BY <1>5 DEF Await, fileVars
    <2>2. buffered = None
      BY <2>1 DEF DequeInOrder, LoopSteps
    <2>3. \/ pc' = "drain" /\ ended' = "aborted"
          \/ pc' = "write" /\ ended' = ended
      BY <1>5 DEF Await, Goto
    <2>4. QED
      BY <1>0, <2>1, <2>2, <2>3 DEF CountsKept, CountedArePrefix, LoopSteps, ExitSteps
  <1>6. CASE Flush
    <2>1. /\ Len(output') = Len(output) + 1
          /\ \A i \in 1 .. Len(output) : output'[i] = output[i]
      BY <1>6, FlushFacts, EmitFacts DEF Flush
    <2>2. UNCHANGED <<conversations, progress, ended>> /\ pc = "flush" /\ pc' = "tally"
      BY <1>6 DEF Flush, Goto
    <2>3. QED
      BY <1>0, <2>1, <2>2 DEF CountsKept, CountedArePrefix, LoopSteps, ExitSteps
  <1>7. CASE Tally
    <2>1. UNCHANGED <<output, progress, ended>> /\ pc = "tally" /\ pc' \in {"summarise", "record"}
      BY <1>7 DEF Tally, Goto, fileVars
    <2>2. RowOf(taken) \in Row /\ conversations' = Append(conversations, RowOf(taken))
      BY <1>7, <2>1, TakenFacts DEF Tally, DequeInOrder, LoopSteps, BeforeRow, AfterRow
    <2>3. /\ Len(conversations') = Len(conversations) + 1
          /\ conversations'[Len(conversations) + 1] = RowOf(taken)
          /\ \A i \in 1 .. Len(conversations) : conversations'[i] = conversations[i]
      BY <2>2 DEF TypeOK
    <2>4. output[Len(output)] = RowOf(taken) /\ Len(conversations) + 1 = Len(output)
      BY <1>0, <2>1 DEF DequeInOrder, CountsKept, LoopSteps
    <2>5. \A i \in 1 .. Len(output) : conversations'[i] = output[i]
      BY <1>0, <2>1, <2>3, <2>4 DEF CountsKept, CountedArePrefix, LoopSteps
    <2>6. QED
      BY <1>0, <2>1, <2>3, <2>4, <2>5 DEF CountsKept, CountedArePrefix, LoopSteps, ExitSteps
  <1>8. CASE Summarise
    BY <1>8 DEF Summarise, Goto, CountsKept, CountedArePrefix, LoopSteps, ExitSteps
  <1>9. CASE Record
    <2>1. /\ UNCHANGED <<output, conversations, ended>> /\ pc = "record" /\ pc' = "refill"
          /\ progress'.shown = progress.shown + 1 /\ progress'.state = progress.state
      BY <1>9 DEF Record, Goto, fileVars, TypeOK
    <2>2. progress.shown + 1 = Len(output)
      BY <1>0, <2>1 DEF CountsKept, LoopSteps
    <2>3. QED  BY <2>1, <2>2 DEF CountsKept, CountedArePrefix, LoopSteps, ExitSteps
  <1>10. CASE Drain
    BY <1>10 DEF Drain, Goto, fileVars, CountsKept, CountedArePrefix, LoopSteps, ExitSteps
  <1>11. CASE Final
    BY <1>11 DEF Final, FinalSummary, Goto, CountsKept, CountedArePrefix, LoopSteps, ExitSteps
  <1>12. CASE Close
    <2>1. pc = "close" /\ pc' = "down" /\ ended' = ended /\ progress'.shown = progress.shown
          /\ (progress'.state = "finished" => ended = "success")
      BY <1>12 DEF Close, Goto, TypeOK
    <2>2. ended = "success" => buffered = None
      BY <1>0, <2>1 DEF CountsKept, CountedArePrefix, ExitSteps
    <2>3. ended = "success" => output' = output
      BY <1>12, <2>2 DEF Close
    <2>4. QED  BY <2>1, <2>3 DEF CountsKept, LoopSteps, ExitSteps
  <1>13. CASE Interrupt
    <2>1. /\ UNCHANGED <<output, buffered, conversations, progress>>
          /\ pc \in LoopSteps /\ pc' = "drain" /\ ended' = "interrupted"
      BY <1>13 DEF Interrupt, Goto, fileVars
    <2>2. buffered # None <=> pc = "flush"
      BY <2>1, FlushFacts DEF DequeInOrder
    <2>3. QED
      BY <1>0, <2>1, <2>2 DEF CountsKept, CountedArePrefix, LoopSteps, ExitSteps
  <1>14. CASE \E j \in Jobs : Worker(j)
    BY <1>14 DEF Worker, Begin, Decide, Return, Raise, Becomes, fileVars, mainVars,
                 CountsKept, CountedArePrefix
  <1>15. CASE UNCHANGED vars
    BY <1>15 DEF vars, fileVars, jobVars, mainVars, CountsKept, CountedArePrefix
  <1>16. QED
    BY <1>1, <1>2, <1>3, <1>4, <1>5, <1>6, <1>7, <1>8, <1>9, <1>10, <1>11, <1>12, <1>13,
       <1>14, <1>15
    DEF Next, Main

\* A sequence that agrees with the first elements of another is that one's
\* subsequence.
LEMMA PrefixIsSubSeq ==
    ASSUME NEW S, NEW s \in Seq(S), NEW t \in Seq(S), Len(t) <= Len(s),
           \A i \in 1 .. Len(t) : t[i] = s[i]
    PROVE  t = SubSeq(s, 1, Len(t))
  <1>1. Len(t) \in Nat /\ Len(s) \in Nat
    OBVIOUS
  <1>2. \A i \in 1 .. Len(t) : s[i] \in S
    BY <1>1
  <1>3. /\ SubSeq(s, 1, Len(t)) \in Seq(S)
        /\ Len(SubSeq(s, 1, Len(t))) = IF 1 <= Len(t) THEN Len(t) - 1 + 1 ELSE 0
        /\ \A i \in 1 .. Len(t) - 1 + 1 : SubSeq(s, 1, Len(t))[i] = s[1 + i - 1]
    BY <1>1, <1>2, SubSeqProperties
  <1>4. Len(SubSeq(s, 1, Len(t))) = Len(t)
    BY <1>1, <1>3
  <1>5. \A i \in 1 .. Len(t) : SubSeq(s, 1, Len(t))[i] = t[i]
    <2>1. TAKE i \in 1 .. Len(t)
    <2>2. i \in 1 .. Len(t) - 1 + 1 /\ 1 + i - 1 = i
      BY <1>1
    <2>3. QED  BY <1>3, <2>2
  <1>6. QED  BY <1>3, <1>4, <1>5, SeqEqual

LEMMA SummaryStep == BatchInv /\ [Next]_vars => SummaryOnExit'
  <1> SUFFICES ASSUME BatchInv, [Next]_vars PROVE SummaryOnExit'
    OBVIOUS
  <1> USE DEF BatchInv
  <1>1. CASE Close
    <2>1. /\ pc = "close" /\ ended' = ended /\ summary' = summary
          /\ \/ buffered = None /\ output' = output
             \/ buffered # None /\ Emit
      BY <1>1 DEF Close, Goto
    <2>2. /\ summary = conversations /\ conversations \in Seq(Row)
          /\ output \in Seq(Row) /\ CountedArePrefix
          /\ Len(output) \in Nat /\ Len(conversations) \in Nat
          /\ ended \in {"success", "aborted", "interrupted"}
      BY <2>1 DEF CountsKept, ExitSteps, TypeOK
    <2>3. /\ output' \in Seq(Row)
          /\ Len(output') = Len(output) + (IF buffered = None THEN 0 ELSE 1)
          /\ \A i \in 1 .. Len(output) : output'[i] = output[i]
      BY <2>1, <2>2, EmitFacts
    <2>4. \/ Len(output') = Len(conversations)
          \/ ended = "interrupted" /\ Len(output') = Len(conversations) + 1
      BY <2>1, <2>3 DEF CountsKept, ExitSteps
    <2>5. /\ Len(conversations) <= Len(output')
          /\ \A i \in 1 .. Len(conversations) : conversations[i] = output'[i]
      BY <2>2, <2>3, <2>4 DEF CountedArePrefix
    <2>6. conversations = SubSeq(output', 1, Len(conversations))
      BY <2>2, <2>3, <2>5, PrefixIsSubSeq
    <2>7. Len(output') - Len(conversations) \in {0} \cup {n \in {1} : ended = "interrupted"}
      BY <2>2, <2>4
    <2>8. QED  BY <2>1, <2>2, <2>6, <2>7 DEF SummaryOnExit
  <1>2. CASE Kill
    BY <1>2 DEF Kill, SummaryOnExit
  <1>3. CASE \E j \in Jobs : Worker(j)
    BY <1>3 DEF Worker, Begin, Decide, Return, Raise, Becomes, fileVars, mainVars, SummaryOnExit
  <1>4. CASE UNCHANGED vars
    BY <1>4 DEF vars, fileVars, mainVars, SummaryOnExit
  <1>5. ASSUME \/ Start \/ Fill \/ Take \/ Await \/ Write \/ Flush \/ Tally \/ Summarise
               \/ Record \/ Refill \/ Drain \/ Final \/ Interrupt
        PROVE  pc' # "down"
    BY <1>5 DEF Start, Fill, Take, Await, Write, Flush, Tally, Summarise, Record, Refill,
                Drain, Final, Interrupt, Goto
  <1>6. QED
    BY <1>1, <1>2, <1>3, <1>4, <1>5 DEF Next, Main, SummaryOnExit
-----------------------------------------------------------------------------
LEMMA InitInv == Init => BatchInv
  <1> SUFFICES ASSUME Init PROVE BatchInv
    OBVIOUS
  <1>1. TypeOK
    BY BatchAssumption DEF Init, TypeOK, Jobs
  <1>2. FuturesTruthful /\ RowsTruthful /\ DequeInOrder /\ SummaryOnExit
    BY DEF Init, FuturesTruthful, RowsTruthful, DequeInOrder, SummaryOnExit, LoopSteps
  <1>3. WindowHeld /\ CountsKept
    BY BatchAssumption DEF Init, WindowHeld, CountsKept, LoopSteps, ExitSteps, Busy
  <1>4. QED  BY <1>1, <1>2, <1>3 DEF BatchInv

LEMMA InvHolds == Spec => []BatchInv
  <1>1. BatchInv /\ [Next]_vars => BatchInv'
    BY TypeStep, FuturesStep, RowsStep, DequeStep, WindowStep, CountsStep, SummaryStep
    DEF BatchInv
  <1>2. QED  BY InitInv, <1>1, PTL DEF Spec

\* The state of the command, of its window and of its files keeps its types.
THEOREM TypeCorrect == Spec => []TypeOK
  <1>1. BatchInv => TypeOK
    BY DEF BatchInv
  <1>2. QED  BY InvHolds, <1>1, PTL

\* Holistic evaluation: no reader of the output, at any time, over all restarts
\* and kills, sees two verdicts on one image.
THEOREM RowsAreStable == Spec => []RowsStable
  <1>1. BatchInv => RowsStable
    <2> SUFFICES ASSUME BatchInv, durable, NEW first \in seen, NEW second \in seen,
                        first.job = second.job,
                        "ERROR" \notin {first.outcome, second.outcome}
                 PROVE  first = second
      BY DEF RowsStable
    <2>1. first \in Row /\ second \in Row
      BY DEF BatchInv, TypeOK
    <2>2. first.outcome = verdicts[first.job] /\ second.outcome = verdicts[second.job]
      BY DEF BatchInv, RowsTruthful, TruthfulOutcome
    <2>3. QED  BY <2>1, <2>2 DEF Row
  <1>2. QED  BY InvHolds, <1>1, PTL

\* Never more jobs under way than workers, none started too far ahead.
THEOREM WindowIsBounded == Spec => []WindowBound
  <1>1. BatchInv => WindowBound
    <2> SUFFICES ASSUME BatchInv PROVE WindowBound
      OBVIOUS
    <2> DEFINE underWay == {j \in Jobs : stage[j] \in Busy}
               ahead == (Len(output) + 1) .. (nextJob - 1)
    <2>1. Len(output) \in Nat /\ nextJob \in Nat /\ workers \in Nat /\ JobCount \in Nat
      BY BatchAssumption DEF BatchInv, TypeOK
    <2>2. nextJob - 1 <= Len(output) + workers
      BY DEF BatchInv, WindowHeld
    <2>3. underWay \in SUBSET ahead
      BY <2>1 DEF BatchInv, WindowHeld, Jobs, Busy
    <2>4. IsFiniteSet(ahead)
          /\ Cardinality(ahead) = IF Len(output) + 1 > nextJob - 1
                                  THEN 0 ELSE (nextJob - 1) - (Len(output) + 1) + 1
      BY <2>1, FS_Interval
    <2>5. Cardinality(underWay) <= Cardinality(ahead) /\ IsFiniteSet(underWay)
      BY <2>3, <2>4, FS_Subset
    <2>6. Cardinality(underWay) \in Nat
      BY <2>5, FS_CardinalityType
    <2>7. Cardinality(ahead) <= workers /\ Cardinality(ahead) \in Nat
      BY <2>1, <2>2, <2>4
    <2>8. Cardinality(underWay) <= workers
      BY <2>1, <2>5, <2>6, <2>7
    <2>9. QED  BY <2>2, <2>8 DEF WindowBound
  <1>2. QED  BY InvHolds, <1>1, PTL

\* Nothing runs any more that could use the store when it is closed.
THEOREM StoreIsClosedLast == Spec => []StoreOutlivesWorkers
  <1>1. BatchInv => StoreOutlivesWorkers
    BY DEF BatchInv, WindowHeld, StoreOutlivesWorkers
  <1>2. QED  BY InvHolds, <1>1, PTL

\* A process that was not killed leaves a summary of all its output, of all but
\* the last row at worst.
THEOREM SummaryIsComplete == Spec => []SummaryOnExit
  <1>1. BatchInv => SummaryOnExit
    BY DEF BatchInv
  <1>2. QED  BY InvHolds, <1>1, PTL

\* A command that ends well has written a row for every job.
THEOREM SuccessMeansAll == Spec => []SuccessIsComplete
  <1>1. BatchInv => SuccessIsComplete
    BY DEF BatchInv, CountsKept, SuccessIsComplete
  <1>2. QED  BY InvHolds, <1>1, PTL
-----------------------------------------------------------------------------
\* A row that leaves the buffer is the next row of the report.
LEMMA EmitAppends ==
    ASSUME BatchInv, Emit, buffered # None, UNCHANGED <<durable, verdicts>>
    PROVE  Report!Next
  <1> DEFINE outcome == buffered.outcome
  <1>1. /\ buffered \in Row /\ buffered.job = Len(output) + 1
        /\ TruthfulOutcome(buffered.job, outcome)
    BY DEF BatchInv, TypeOK, RowsTruthful
  <1>2. Len(output) + 1 \in Jobs /\ outcome \in Outcomes
        /\ buffered = [job |-> Len(output) + 1, outcome |-> outcome]
    BY <1>1 DEF Row
  <1>3. Report!Truthful(Len(output) + 1, outcome)
    BY <1>1, <1>2, NoneAssumption DEF Report!Truthful, TruthfulOutcome, Outcomes
  <1>4. Report!AppendRow(outcome)
    BY <1>2, <1>3 DEF Report!AppendRow, Report!Job, Jobs, Emit
  <1>5. QED  BY <1>2, <1>4 DEF Report!Next, Outcomes

LEMMA RefinedStep == BatchInv /\ [Next]_vars => [Report!Next]_(Report!reportVars)
  <1> SUFFICES ASSUME BatchInv, [Next]_vars PROVE [Report!Next]_(Report!reportVars)
    OBVIOUS
  <1> USE DEF Report!reportVars
  <1>1. CASE Start
    BY <1>1 DEF Start, Report!Next, Report!Restart
  <1>2. CASE Flush
    BY <1>2, FlushFacts, EmitAppends DEF Flush, Goto
  <1>3. CASE Close
    BY <1>3, EmitAppends DEF Close, Goto
  <1>4. CASE \E j \in Jobs : Worker(j)
    <2>1. PICK j \in Jobs : Worker(j)
      BY <1>4
    <2>2. UNCHANGED <<durable, output>>
      BY <2>1 DEF Worker, Begin, Decide, Return, Raise, Becomes, fileVars
    <2>3. CASE Decide(j) /\ durable
      <3>1. PICK v \in Verdicts : verdicts' = [verdicts EXCEPT ![j] = v]
        BY <2>3 DEF Decide, SettledVerdicts
      <3>2. verdicts[j] = None
        BY <2>3 DEF Decide, BatchInv, FuturesTruthful
      <3>3. Report!Settle(j, v)
        BY <2>2, <2>3, <3>1, <3>2 DEF Report!Settle
      <3>4. QED  BY <3>3 DEF Report!Next, Report!Job, Jobs
    <2>4. CASE ~(Decide(j) /\ durable)
      BY <2>1, <2>2, <2>4 DEF Worker, Begin, Decide, Return, Raise
    <2>5. QED  BY <2>3, <2>4
  <1>5. ASSUME \/ Fill \/ Take \/ Await \/ Write \/ Tally \/ Summarise \/ Record \/ Refill
               \/ Drain \/ Final \/ Interrupt \/ Kill \/ UNCHANGED vars
        PROVE  UNCHANGED Report!reportVars
    BY <1>5 DEF Fill, Take, Await, Write, Tally, Summarise, Record, Refill, Drain, Final,
                Interrupt, Kill, Goto, fileVars, vars
  <1>6. QED
    BY <1>1, <1>2, <1>3, <1>4, <1>5 DEF Next, Main

\* The output is a serial loop's, whatever order the workers finish in and
\* however often the command is killed and started again.
THEOREM Refinement == Spec => ImplementsReport
  <1>1. Init => Report!Init
    BY DEF Init, Report!Init, Report!Job, Jobs
  <1>2. QED
    BY <1>1, RefinedStep, InvHolds, PTL DEF Spec, ImplementsReport, Report!Spec
=================================================================================
