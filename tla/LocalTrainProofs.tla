---------------------------- MODULE LocalTrainProofs ----------------------------
(***************************************************************************)
(* For any number of runs, metadata files, images and disturbances: the    *)
(* sample is the best of what was read and each of its ids was listed      *)
(* once, no directory holds the files of two runs, and a manifest tells of *)
(* a finished directory.                                                   *)
(***************************************************************************)
EXTENDS LocalTrain, FiniteSetTheorems, WellFoundedInduction, TLAPS

-----------------------------------------------------------------------------
\* About numbers and finite sets

\* A finite set of numbers that is not empty has a greatest member: the one with
\* the fewest above it.
LEMMA HasMaximum ==
    ASSUME NEW h \in SUBSET Nat, IsFiniteSet(h), h # {}
    PROVE  \E i \in h : \A j \in h : j <= i
  <1> DEFINE above(i) == {j \in h : j > i}
             family   == {above(i) : i \in h}
             R        == StrictSubsetOrdering(h)
  <1>1. IsWellFoundedOn(R, FiniteSubsetsOf(h))
    BY FS_StrictSubsetOrderingWellFounded
  <1>2. family \subseteq FiniteSubsetsOf(h) /\ family # {}
    <2>1. \A T \in SUBSET h : IsFiniteSet(T)
      BY FS_Subset
    <2> QED  BY <2>1 DEF FiniteSubsetsOf
  <1>3. \E x \in family : \A y \in family : ~(<<y, x>> \in R)
    BY <1>1, <1>2, WFMin
  <1>4. PICK i \in h : \A j \in h : ~(<<above(j), above(i)>> \in R)
    BY <1>3
  <1>5. ASSUME NEW j \in h, j > i
        PROVE  FALSE
    <2>1. above(j) \subseteq above(i) /\ above(j) # above(i)
      <3>1. j \in above(i) /\ j \notin above(j)
        BY <1>5
      <3>2. \A k \in h : k > j => k > i
        BY <1>5
      <3> QED  BY <3>1, <3>2
    <2>2. above(j) \in SUBSET h /\ above(i) \in SUBSET h
      OBVIOUS
    <2>3. <<above(j), above(i)>> \in R
      BY <2>1, <2>2 DEF StrictSubsetOrdering
    <2> QED  BY <1>4, <2>3
  <1> QED  BY <1>5

LEMMA WorstIsGreatest ==
    ASSUME NEW h \in SUBSET Nat, IsFiniteSet(h), h # {}
    PROVE  Worst(h) \in h /\ \A j \in h : j <= Worst(h)
  BY HasMaximum DEF Worst

\* Inserting what is worth probing keeps the sample within its bound and full
\* once it is; who leaves is worse than all that stay.
LEMMA InsertionKeepsBest ==
    ASSUME NEW h \in SUBSET Nat, IsFiniteSet(h), Cardinality(h) <= Count,
           NEW id \in Nat, id \notin h, Enters(id, h)
    PROVE  LET after == Inserted(id, h) IN
           /\ IsFiniteSet(after) /\ Cardinality(after) <= Count
           /\ after \subseteq h \cup {id} /\ id \in after
           /\ Full(h) => Full(after)
           /\ \A j \in Nat : Full(h) /\ (\A i \in h : i < j) => \A i \in after : i < j
           /\ \A j \in h \ after : Full(after) /\ \A i \in after : i < j
  <1> DEFINE after == Inserted(id, h)
  <1> USE LocalTrainAssumption
  <1>0. Cardinality(h) \in Nat /\ \A i \in h : i \in Nat
    BY FS_CardinalityType
  <1>1. CASE Full(h)
    <2>1. h # {}
      BY <1>1, FS_EmptySet DEF Full
    <2>2. Worst(h) \in h /\ \A j \in h : j <= Worst(h)
      BY <2>1, WorstIsGreatest
    <2>3. after = (h \ {Worst(h)}) \cup {id}
      BY <1>1 DEF Inserted
    <2>4. IsFiniteSet(h \ {Worst(h)}) /\ Cardinality(h \ {Worst(h)}) = Cardinality(h) - 1
      BY <2>2, FS_RemoveElement
    <2>5. id \notin h \ {Worst(h)}
      OBVIOUS
    <2>6. IsFiniteSet(after) /\ Cardinality(after) = Cardinality(h) - 1 + 1
      <3>1. /\ IsFiniteSet((h \ {Worst(h)}) \cup {id})
            /\ Cardinality((h \ {Worst(h)}) \cup {id}) = Cardinality(h \ {Worst(h)}) + 1
        BY <2>4, <2>5, FS_AddElement
      <3> QED  BY <3>1, <2>3, <2>4
    <2>7. Full(after)
      BY <1>0, <1>1, <2>6 DEF Full
    <2>8. id < Worst(h) /\ Worst(h) \in Nat
      BY <1>0, <1>1, <2>2 DEF Enters
    <2>9. ASSUME NEW j \in h \ after, NEW i \in after
          PROVE  i < j
      <3>1. j = Worst(h)
        BY <2>9, <2>3
      <3>2. i = id \/ (i \in h /\ i # Worst(h))
        BY <2>9, <2>3
      <3>3. CASE i = id
        BY <3>1, <3>3, <2>8
      <3>4. CASE i \in h /\ i # Worst(h)
        <4>1. i \in Nat /\ i <= Worst(h)
          BY <1>0, <2>2, <3>4
        <4> QED  BY <3>1, <3>4, <4>1, <2>8
      <3> QED  BY <3>2, <3>3, <3>4
    <2>10. ASSUME NEW j \in Nat, \A i \in h : i < j, NEW i \in after
           PROVE  i < j
      <3>1. Worst(h) < j
        BY <2>10, <2>2
      <3>2. i = id \/ i \in h
        BY <2>10, <2>3
      <3>3. CASE i = id
        BY <2>8, <3>1, <3>3
      <3> QED  BY <3>2, <3>3, <2>10
    <2> HIDE DEF after
    <2>11. after \subseteq h \cup {id} /\ id \in after
      BY <2>3
    <2>12. Cardinality(after) <= Count
      BY <2>7 DEF Full
    <2> QED  BY <2>6, <2>7, <2>9, <2>10, <2>11, <2>12 DEF after
  <1>2. CASE ~Full(h)
    <2>1. after = h \cup {id}
      BY <1>2 DEF Inserted
    <2>2. IsFiniteSet(after) /\ Cardinality(after) = Cardinality(h) + 1
      BY <2>1, FS_AddElement
    <2>3. Cardinality(after) <= Count
      BY <1>0, <1>2, <2>2 DEF Full
    <2> QED  BY <1>2, <2>1, <2>2, <2>3
  <1> QED  BY <1>1, <1>2

\* Two of at most one are the same.
LEMMA AtMostOne ==
    ASSUME NEW S, IsFiniteSet(S), Cardinality(S) <= 1, NEW k \in S, NEW l \in S
    PROVE  k = l
  <1>1. Cardinality(S) \in Nat /\ Cardinality(S) # 0
    BY FS_CardinalityType, FS_EmptySet
  <1>2. Cardinality(S) = 1
    BY <1>1
  <1>3. PICK x : S = {x}
    BY <1>2, FS_Singleton
  <1> QED  BY <1>3

\* The outputs are seven different ones.
LEMMA OutputsDiffer ==
    /\ Outputs \in [1 .. 7 -> Files]
    /\ \A k, l \in 1 .. 7 : Outputs[k] = Outputs[l] => k = l
  BY DEF Outputs, Files
-----------------------------------------------------------------------------
\* Types

LEMMA RowsAreRows ==
    ASSUME TypeOK, NEW k \in 1 .. Len(metadata)
    PROVE  metadata[k] \in Row
  <1>1. metadata \in Seq(Row)
    BY LocalTrainAssumption DEF TypeOK, Row
  <1> QED  BY <1>1

LEMMA TypeStep ==
    ASSUME TypeOK, [Next]_vars
    PROVE  TypeOK'
  <1> USE DEF TypeOK, Running
  <1>1. CASE Disturb
    <2>1. changes' \in 0 .. MaxChanges
      BY <1>1, LocalTrainAssumption DEF Disturb
    <2>2. metadata' \in Metadata /\ files' \subseteq Ids
      BY <1>1 DEF Disturb
    <2> QED  BY <1>1, <2>1, <2>2 DEF Disturb
  <1>2. ASSUME NEW p \in Runs, Start(p) \/ EndScan(p) \/ EndVerify(p) \/ EndPrepare(p) \/ Kill(p)
        PROVE  TypeOK'
    BY <1>2 DEF Start, EndScan, EndVerify, EndPrepare, Kill, Goto, inputVars
  <1>3. ASSUME NEW p \in Runs, ScanRow(p)
        PROVE  TypeOK'
    <2> DEFINE row == metadata[Len(rows[p]) + 1]
    <2>1. row \in Row
      BY <1>3, RowsAreRows DEF ScanRow
    <2>2. row.id \in Ids
      BY <2>1 DEF Row
    <2>3. Inserted(row.id, heap[p]) \subseteq Ids
      BY <2>2 DEF Inserted
    <2>4. rows' \in [Runs -> Seq(Row)]
      BY <1>3, <2>1 DEF ScanRow
    <2>5. heap' \in [Runs -> SUBSET Ids] /\ absent' \in [Runs -> SUBSET Ids]
      BY <1>3, <2>2, <2>3 DEF ScanRow
    <2> QED  BY <1>3, <2>4, <2>5 DEF ScanRow, inputVars
  <1>4. ASSUME NEW p \in Runs, VerifyRow(p)
        PROVE  TypeOK'
    <2>1. metadata[Len(verified[p]) + 1] \in Row
      BY <1>4, RowsAreRows DEF VerifyRow
    <2> QED  BY <1>4, <2>1 DEF VerifyRow, inputVars
  <1>5. ASSUME NEW p \in Runs, MakeDirectory(p)
        PROVE  TypeOK'
    BY <1>5 DEF MakeDirectory, inputVars
  <1>6. ASSUME NEW p \in Runs, NEW i \in Ids, PrepareSource(p, i)
        PROVE  TypeOK'
    BY <1>6 DEF PrepareSource, inputVars
  <1>7. ASSUME NEW p \in Runs, WriteOutput(p)
        PROVE  TypeOK'
    <2>0. written[p] \in 0 .. 7 /\ written[p] < 7
      BY <1>7 DEF WriteOutput
    <2>1. \A f \in Files : Content(p, f) \in SUBSET Ids
      BY DEF Content, Accepted
    <2>2. NextOutput(written[p]) \in Files
      <3>1. written[p] + 1 \in 1 .. 7
        BY <2>0
      <3> QED  BY <3>1, OutputsDiffer DEF NextOutput
    <2> DEFINE f == NextOutput(written[p])
               content == [by |-> p, ids |-> Content(p, f)]
    <2>3. content \in [by : Runs, ids : SUBSET Ids]
      BY <2>1, <2>2
    <2>4. output' = [output EXCEPT ![f] = content]
      BY <1>7 DEF WriteOutput
    <2> HIDE DEF f, content
    <2>5. output' \in [Files -> [by : Runs, ids : SUBSET Ids] \cup {NotYet}]
      BY <2>3, <2>4
    <2>6. written[p] + 1 \in 0 .. 7 /\ written' = [written EXCEPT ![p] = written[p] + 1]
      BY <1>7, <2>0 DEF WriteOutput
    <2>7. written' \in [Runs -> 0 .. 7]
      BY <2>6
    <2>8. pc' \in [Runs -> Running \cup {"done", "refused", "raised", "killed"}]
      BY <1>7 DEF WriteOutput
    <2> QED  BY <1>7, <2>5, <2>7, <2>8 DEF WriteOutput, inputVars
  <1>8. CASE UNCHANGED vars
    BY <1>8 DEF vars, inputVars
  <1> QED  BY <1>1, <1>2, <1>3, <1>4, <1>5, <1>6, <1>7, <1>8 DEF Next, Step, Ended

LEMMA TypeInit ==
    ASSUME Init
    PROVE  TypeOK
  <1>1. <<>> \in Seq(Row) /\ {} \in SUBSET Ids /\ 0 \in 0 .. 7 /\ 0 \in 0 .. MaxChanges
    BY LocalTrainAssumption
  <1>2. /\ rows \in [Runs -> Seq(Row)] /\ verified \in [Runs -> Seq(Row)]
        /\ absent \in [Runs -> SUBSET Ids] /\ heap \in [Runs -> SUBSET Ids]
        /\ images \in [Runs -> SUBSET Ids] /\ failed \in [Runs -> SUBSET Ids]
        /\ written \in [Runs -> 0 .. 7]
    BY <1>1 DEF Init
  <1> QED  BY <1>1, <1>2 DEF Init, TypeOK, Running

\* Types of the inputs, the destination and the locals of each run, for any
\* number of runs (prepare_local_train).
THEOREM TypeCorrect == Spec => []TypeOK
  BY TypeInit, TypeStep, PTL DEF Spec
-----------------------------------------------------------------------------
\* The destination

\* The run that made the directory.
Inside(p) == pc[p] \in {"write", "prepare", "done"} \/ written[p] > 0

\* Only one run ever made it.
OneInside ==
    /\ \A p \in Runs : Inside(p) => directory
    /\ \A p, q \in Runs : Inside(p) /\ Inside(q) => p = q

\* Where a run is tells how many outputs it has written.
InOrder ==
    \A p \in Runs :
        /\ pc[p] \in {"start", "scan", "verify", "mkdir"} => written[p] = 0
        /\ pc[p] = "prepare" => written[p] = 2
        /\ pc[p] = "done" => written[p] = 7

\* Steps of the runs that leave the destination alone.
LEMMA QuietSteps ==
    ASSUME TypeOK, NEW p \in Runs,
           \/ Start(p) \/ ScanRow(p) \/ EndScan(p) \/ VerifyRow(p) \/ EndVerify(p) \/ Kill(p)
    PROVE  /\ UNCHANGED <<directory, output, written, images, failed>>
           /\ \A q \in Runs \ {p} : pc'[q] = pc[q]
           /\ pc'[p] \notin {"write", "prepare", "done"}
           /\ pc'[p] \in {"start", "scan", "verify", "mkdir"} =>
                 pc[p] \in {"start", "scan", "verify", "mkdir"}
  BY DEF TypeOK, Start, ScanRow, EndScan, VerifyRow, EndVerify, Kill, Goto, Running

LEMMA OneInsideStep ==
    ASSUME TypeOK, OneInside, InOrder, [Next]_vars
    PROVE  OneInside' /\ InOrder'
  <1> USE DEF OneInside, InOrder, Inside
  <1>1. CASE Disturb \/ UNCHANGED vars
    BY <1>1 DEF Disturb, vars
  <1>2. ASSUME NEW p \in Runs,
               \/ Start(p) \/ ScanRow(p) \/ EndScan(p) \/ VerifyRow(p) \/ EndVerify(p) \/ Kill(p)
        PROVE  OneInside' /\ InOrder'
    BY <1>2, QuietSteps
  <1>3. ASSUME NEW p \in Runs, MakeDirectory(p)
        PROVE  OneInside' /\ InOrder'
    BY <1>3 DEF MakeDirectory, MayMake, TypeOK
  <1>4. ASSUME NEW p \in Runs, NEW i \in Ids, PrepareSource(p, i)
        PROVE  OneInside' /\ InOrder'
    BY <1>4 DEF PrepareSource, TypeOK
  <1>5. ASSUME NEW p \in Runs, EndPrepare(p)
        PROVE  OneInside' /\ InOrder'
    BY <1>5 DEF EndPrepare, Goto, TypeOK
  <1>6. ASSUME NEW p \in Runs, WriteOutput(p)
        PROVE  OneInside' /\ InOrder'
    <2>1. written[p] \in 0 .. 6 /\ Inside(p) /\ directory
      BY <1>6 DEF WriteOutput, TypeOK
    <2>2. /\ written' = [written EXCEPT ![p] = written[p] + 1]
          /\ pc'[p] = IF written[p] + 1 = 2 THEN "prepare"
                      ELSE IF written[p] + 1 = 7 THEN "done" ELSE "write"
          /\ \A q \in Runs \ {p} : pc'[q] = pc[q]
          /\ directory' = directory
      BY <1>6 DEF WriteOutput, TypeOK
    <2>3. \A q \in Runs : Inside(q)' => Inside(q)
      BY <2>1, <2>2 DEF TypeOK
    <2>4. OneInside'
      BY <2>1, <2>2, <2>3
    <2>5. InOrder'
      BY <2>1, <2>2 DEF TypeOK
    <2> QED  BY <2>4, <2>5
  <1> QED  BY <1>1, <1>2, <1>3, <1>4, <1>5, <1>6 DEF Next, Step, Ended
-----------------------------------------------------------------------------
\* The outputs

\* What is in the directory is what its run has written so far, and of its run.
OutputsTrue ==
    /\ \A p \in Runs : \A k \in 1 .. written[p] :
          output[Outputs[k]] = [by |-> p, ids |-> Content(p, Outputs[k])]
    /\ \A f \in Files : output[f] # NotYet =>
          \E p \in Runs : \E k \in 1 .. written[p] : Outputs[k] = f

\* Every sampled id is prepared or reported, and none is an evaluation image.
SourcesAccounted ==
    \A p \in Runs :
        /\ heap[p] \cap Excluded = {}
        /\ images[p] \cap failed[p] = {}
        /\ written[p] > 2 \/ (written[p] = 2 /\ pc[p] = "write") =>
              heap[p] = images[p] \cup failed[p]

\* The first two outputs do not depend on what prepare_sources makes of the sample.
LEMMA EarlyContent ==
    ASSUME NEW p \in Runs, NEW k \in 1 .. 2
    PROVE  Content(p, Outputs[k]) = heap[p] /\ Content(p, Outputs[k])' = heap'[p]
  BY DEF Content, Outputs

LEMMA OutputsStep ==
    ASSUME TypeOK, OneInside, InOrder, OutputsTrue, [Next]_vars
    PROVE  OutputsTrue'
  <1> USE DEF OutputsTrue
  <1>1. CASE Disturb \/ UNCHANGED vars
    BY <1>1 DEF Disturb, vars, Content, Accepted
  <1>2. ASSUME NEW p \in Runs,
               \/ Start(p) \/ ScanRow(p) \/ EndScan(p) \/ VerifyRow(p) \/ EndVerify(p) \/ Kill(p)
        PROVE  OutputsTrue'
    <2>1. UNCHANGED <<output, written, images, failed>>
      BY <1>2, QuietSteps
    <2>2. \A q \in Runs : q # p \/ written[p] > 0 => heap'[q] = heap[q]
      BY <1>2 DEF Start, ScanRow, EndScan, VerifyRow, EndVerify, Kill, Goto, InOrder, TypeOK
    <2>3. \A q \in Runs : \A k \in 1 .. written[q] :
              Content(q, Outputs[k])' = Content(q, Outputs[k])
      <3>1. ASSUME NEW q \in Runs, NEW k \in 1 .. written[q]
            PROVE  Content(q, Outputs[k])' = Content(q, Outputs[k])
        <4>1. written[q] \in 0 .. 7
          BY DEF TypeOK
        <4>2. heap'[q] = heap[q]
          BY <2>2, <4>1
        <4> QED  BY <2>1, <4>2 DEF Content, Accepted
      <3> QED  BY <2>1, <3>1
    <2> QED  BY <2>1, <2>3
  <1>3. ASSUME NEW p \in Runs, MakeDirectory(p) \/ EndPrepare(p)
        PROVE  OutputsTrue'
    BY <1>3 DEF MakeDirectory, EndPrepare, Goto, Content, Accepted
  <1>4. ASSUME NEW p \in Runs, NEW i \in Ids, PrepareSource(p, i)
        PROVE  OutputsTrue'
    <2>1. written[p] = 2 /\ UNCHANGED <<output, written, heap>>
      BY <1>4 DEF PrepareSource, InOrder
    <2>2. \A q \in Runs \ {p} : images'[q] = images[q] /\ failed'[q] = failed[q]
      BY <1>4 DEF PrepareSource, TypeOK
    <2>3. \A q \in Runs : \A k \in 1 .. written[q] :
              Content(q, Outputs[k])' = Content(q, Outputs[k])
      <3>1. ASSUME NEW q \in Runs \ {p}, NEW k \in 1 .. written[q]
            PROVE  Content(q, Outputs[k])' = Content(q, Outputs[k])
        BY <2>1, <2>2 DEF Content, Accepted
      <3>2. ASSUME NEW k \in 1 .. 2
            PROVE  Content(p, Outputs[k])' = Content(p, Outputs[k])
        BY <2>1, EarlyContent
      <3> QED  BY <2>1, <3>1, <3>2
    <2> QED  BY <2>1, <2>3
  <1>5. ASSUME NEW p \in Runs, WriteOutput(p)
        PROVE  OutputsTrue'
    <2> DEFINE n == written[p] + 1
               f == Outputs[n]
    <2>1. written[p] \in 0 .. 6 /\ n \in 1 .. 7 /\ f \in Files
      BY <1>5, OutputsDiffer DEF WriteOutput, TypeOK
    <2>2. /\ written' = [written EXCEPT ![p] = n]
          /\ output' = [output EXCEPT ![f] = [by |-> p, ids |-> Content(p, f)]]
          /\ UNCHANGED <<heap, images, failed>>
      BY <1>5 DEF WriteOutput, NextOutput
    <2>3. \A q \in Runs, g \in Files : Content(q, g)' = Content(q, g)
      BY <2>2 DEF Content, Accepted
    <2>4. \A q \in Runs \ {p} : written[q] \in 0 .. 7 /\ ~(written[q] > 0) /\ written'[q] = written[q]
      BY <1>5, <2>2 DEF OneInside, Inside, WriteOutput, TypeOK
    <2>5. \A g \in Files : output'[g] = IF g = f THEN [by |-> p, ids |-> Content(p, f)] ELSE output[g]
      BY <2>2 DEF TypeOK
    <2>6. written'[p] = n
      BY <2>2 DEF TypeOK
    <2>7. \A k \in 1 .. 7 : Outputs[k] \in Files
      BY OutputsDiffer
    <2> HIDE DEF f, n
    <2>8. ASSUME NEW k \in 1 .. n
          PROVE  output'[Outputs[k]] = [by |-> p, ids |-> Content(p, Outputs[k])]
      <3>1. CASE k = n
        BY <2>1, <2>5, <3>1 DEF f
      <3>2. CASE k # n
        <4>1. k \in 1 .. written[p] /\ k \in 1 .. 7 /\ Outputs[k] # f
          BY <2>1, <3>2, OutputsDiffer DEF f, n
        <4> QED  BY <2>5, <2>7, <4>1
      <3> QED  BY <3>1, <3>2
    <2>9. ASSUME NEW q \in Runs, NEW k \in 1 .. written'[q]
          PROVE  output'[Outputs[k]] = [by |-> q, ids |-> Content(q, Outputs[k])']
      <3>1. q = p /\ k \in 1 .. n /\ k \in 1 .. 7
        BY <2>1, <2>4, <2>6, <2>9
      <3> QED  BY <2>3, <2>7, <2>8, <3>1
    <2>10. ASSUME NEW g \in Files, output'[g] # NotYet
           PROVE  \E q \in Runs : \E k \in 1 .. written'[q] : Outputs[k] = g
      <3>1. CASE g = f
        BY <2>1, <2>6, <3>1 DEF f
      <3>2. CASE g # f
        <4>0. PICK q \in Runs : \E k \in 1 .. written[q] : Outputs[k] = g
          BY <2>5, <2>10, <3>2
        <4>1. PICK k \in 1 .. written[q] : Outputs[k] = g
          BY <4>0
        <4>2. q = p
          BY <2>4, <4>1
        <4>3. k \in 1 .. written'[p]
          BY <2>1, <2>6, <4>1, <4>2 DEF n
        <4> QED  BY <4>1, <4>3
      <3> QED  BY <3>1, <3>2
    <2> QED  BY <2>9, <2>10
  <1> QED  BY <1>1, <1>2, <1>3, <1>4, <1>5 DEF Next, Step, Ended

LEMMA SourcesStep ==
    ASSUME TypeOK, InOrder, SourcesAccounted, [Next]_vars
    PROVE  SourcesAccounted'
  <1> USE DEF SourcesAccounted
  <1>1. CASE Disturb \/ UNCHANGED vars
    BY <1>1 DEF Disturb, vars
  <1>2. ASSUME NEW p \in Runs,
               \/ Start(p) \/ EndScan(p) \/ VerifyRow(p) \/ EndVerify(p) \/ Kill(p)
        PROVE  SourcesAccounted'
    <2>1. UNCHANGED heap
      BY <1>2 DEF Start, EndScan, VerifyRow, EndVerify, Kill, Goto
    <2> QED  BY <1>2, <2>1, QuietSteps
  <1>3. ASSUME NEW p \in Runs, ScanRow(p)
        PROVE  SourcesAccounted'
    <2> DEFINE row == metadata[Len(rows[p]) + 1]
    <2>1. heap'[p] = heap[p] \/ (heap'[p] = Inserted(row.id, heap[p]) /\ Eligible(row))
      BY <1>3 DEF ScanRow, Considered, TypeOK
    <2>2. heap'[p] \cap Excluded = {}
      BY <2>1 DEF Inserted, Eligible
    <2>3. written[p] = 0 /\ \A q \in Runs \ {p} : heap'[q] = heap[q]
      BY <1>3 DEF ScanRow, InOrder, TypeOK
    <2> QED  BY <1>3, <2>2, <2>3, QuietSteps
  <1>4. ASSUME NEW p \in Runs, MakeDirectory(p)
        PROVE  SourcesAccounted'
    BY <1>4 DEF MakeDirectory, InOrder, TypeOK
  <1>5. ASSUME NEW p \in Runs, NEW i \in Ids, PrepareSource(p, i)
        PROVE  SourcesAccounted'
    BY <1>5 DEF PrepareSource, InOrder, TypeOK
  <1>6. ASSUME NEW p \in Runs, EndPrepare(p)
        PROVE  SourcesAccounted'
    BY <1>6 DEF EndPrepare, Goto, TypeOK
  <1>7. ASSUME NEW p \in Runs, WriteOutput(p)
        PROVE  SourcesAccounted'
    <2>1. /\ written[p] \in 0 .. 6 /\ pc[p] = "write" /\ written'[p] = written[p] + 1
          /\ written'[p] = 2 => pc'[p] = "prepare"
          /\ \A q \in Runs \ {p} : written'[q] = written[q] /\ pc'[q] = pc[q]
          /\ UNCHANGED <<heap, images, failed>>
      BY <1>7 DEF WriteOutput, TypeOK
    <2> QED  BY <2>1
  <1> QED  BY <1>1, <1>2, <1>3, <1>4, <1>5, <1>6, <1>7 DEF Next, Step, Ended

LEMMA DestinationInit ==
    ASSUME Init
    PROVE  OneInside /\ InOrder /\ OutputsTrue /\ SourcesAccounted
  BY DEF Init, OneInside, Inside, InOrder, OutputsTrue, SourcesAccounted

DestinationInv == TypeOK /\ OneInside /\ InOrder /\ OutputsTrue /\ SourcesAccounted

LEMMA DestinationHolds == Spec => []DestinationInv
  <1>1. Init => DestinationInv
    BY TypeInit, DestinationInit DEF DestinationInv
  <1>2. DestinationInv /\ [Next]_vars => DestinationInv'
    BY TypeStep, OneInsideStep, OutputsStep, SourcesStep DEF DestinationInv
  <1> QED  BY <1>1, <1>2, PTL DEF Spec

\* Who has written something is inside, and only one is.
LEMMA OneWrites ==
    ASSUME DestinationInv, NEW f \in Files, output[f] # NotYet
    PROVE  \E p \in Runs : Inside(p) /\ output[f].by = p
  <1>1. PICK p \in Runs : \E k \in 1 .. written[p] : Outputs[k] = f
    BY DEF DestinationInv, OutputsTrue
  <1>2. PICK k \in 1 .. written[p] : Outputs[k] = f
    BY <1>1
  <1>3. output[f] = [by |-> p, ids |-> Content(p, f)]
    BY <1>2 DEF DestinationInv, OutputsTrue
  <1>4. written[p] > 0
    <2>1. written[p] \in 0 .. 7
      BY DEF DestinationInv, TypeOK
    <2> QED  BY <1>2, <2>1
  <1> QED  BY <1>3, <1>4 DEF Inside

\* No directory holds the files of two runs: mkdir is the only arbiter between
\* runs that all found no destination (prepare_local_train).
THEOREM OneRun == Spec => []OneRunPerDestination
  <1>1. DestinationInv => OneRunPerDestination
    BY OneWrites DEF DestinationInv, OneInside, OneRunPerDestination
  <1> QED  BY <1>1, DestinationHolds, PTL

LEMMA ManifestFromInv ==
    ASSUME DestinationInv
    PROVE  ManifestIsTrue
  <1> USE DEF DestinationInv
  <1> SUFFICES ASSUME output["manifest"] # NotYet
               PROVE  ManifestIsTrue
    BY DEF ManifestIsTrue
  <1>1. PICK p \in Runs : \E k \in 1 .. written[p] : Outputs[k] = "manifest"
    BY DEF OutputsTrue, Files, Outputs
  <1>2. Outputs[7] = "manifest"
    BY DEF Outputs
  <1>3. written[p] = 7
    <2>1. written[p] \in 0 .. 7
      BY DEF TypeOK
    <2>2. PICK k \in 1 .. written[p] : Outputs[k] = "manifest"
      BY <1>1
    <2>3. k = 7
      BY <1>2, <2>1, <2>2, OutputsDiffer
    <2> QED  BY <2>1, <2>2, <2>3
  <1>4. \A f \in Files : output[f] = [by |-> p, ids |-> Content(p, f)]
    <2>1. \A f \in Files : \E k \in 1 .. 7 : f = Outputs[k]
      BY DEF Files
    <2> QED  BY <1>3, <2>1 DEF OutputsTrue
  <1>5. \A f \in Files : output[f] # NotYet /\ output[f].ids = Content(p, f)
    <2>0. heap[p] \subseteq Ids /\ images[p] \subseteq Ids /\ failed[p] \subseteq Ids
      BY DEF TypeOK
    <2>1. \A f : Content(p, f) \in SUBSET Ids
      BY <2>0 DEF Content, Accepted
    <2>2. ASSUME NEW f \in Files
          PROVE  output[f] \in [by : Runs, ids : SUBSET Ids] /\ output[f].ids = Content(p, f)
      <3>1. \A ids \in SUBSET Ids :
                LET record == [by |-> p, ids |-> ids]
                IN  record \in [by : Runs, ids : SUBSET Ids] /\ record.ids = ids
        OBVIOUS
      <3>2. Content(p, f) \in SUBSET Ids
        BY <2>1
      <3> QED  BY <1>4, <3>1, <3>2, Zenon
    <2> QED  BY <2>2, LocalTrainAssumption
  <1>6. heap[p] = images[p] \cup failed[p] /\ heap[p] \cap Excluded = {}
        /\ images[p] \cap failed[p] = {}
    BY <1>3 DEF SourcesAccounted
  <1>7. \A f \in {"sources", "rights", "images", "manifest"} :
            f \in Files /\ output[f].ids = images[p] \ Copies
    <2>1. {"sources", "rights", "images", "manifest"} \subseteq Files
      BY DEF Files, Outputs
    <2>2. \A f \in {"sources", "rights", "images", "manifest"} : Content(p, f) = images[p] \ Copies
      BY DEF Content, Accepted
    <2> QED  BY <1>5, <2>1, <2>2
  <1>8. output["failures"].ids = failed[p] \cup (images[p] \ (images[p] \ Copies))
    <2>1. "failures" \in Files
      BY DEF Files, Outputs
    <2> QED  BY <1>5, <2>1 DEF Content, Accepted
  <1>9. output["selected-ids"].ids = heap[p]
    <2>1. "selected-ids" \in Files
      BY DEF Files, Outputs
    <2> QED  BY <1>5, <2>1 DEF Content
  <1> QED  BY <1>5, <1>6, <1>7, <1>8, <1>9 DEF ManifestIsTrue

\* A manifest tells of a finished directory whose files agree (prepare_local_train
\* writes it last, and accounts for every sampled id once).
THEOREM ManifestHolds == Spec => []ManifestIsTrue
  BY DestinationHolds, ManifestFromInv, PTL
-----------------------------------------------------------------------------
\* The sample

Sampled == {"mkdir", "prepare", "write", "done"}

\* The candidates that are not sampled were no image or are worse than all that are.
BestOf(p) ==
    \A j \in Candidates(p) \ heap[p] :
        j \in absent[p] \/ (Full(heap[p]) /\ \A i \in heap[p] : i < j)

\* The sample of one run; it is full after the first pass and free of
\* repetitions after the second.
SampleOf(p) ==
    /\ IsFiniteSet(heap[p]) /\ Cardinality(heap[p]) <= Count
    /\ heap[p] \subseteq Candidates(p)
    /\ BestOf(p)
    /\ pc[p] \in Sampled \cup {"verify"} => Full(heap[p])
    /\ pc[p] \in Sampled => \A i \in heap[p] : Occurrences(i, rows[p]) <= 1

\* The new row is the only new candidate.
LEMMA OneMoreCandidate ==
    ASSUME TypeOK, NEW p \in Runs, NEW row \in Row, rows'[p] = Append(rows[p], row)
    PROVE  /\ Candidates(p) \subseteq Candidates(p)'
           /\ Eligible(row) => row.id \in Candidates(p)'
           /\ \A j \in Candidates(p)' \ Candidates(p) : Eligible(row) /\ j = row.id
  <1> DEFINE before == rows[p]
             after  == rows'[p]
  <1>1. before \in Seq(Row) /\ row.id \in Ids
    BY DEF TypeOK, Row
  <1>2. /\ DOMAIN before = 1 .. Len(before) /\ Len(before) \in Nat
        /\ DOMAIN after = 1 .. Len(before) + 1
        /\ \A k \in DOMAIN before : after[k] = before[k]
        /\ after[Len(before) + 1] = row
    BY <1>1
  <1>3. DOMAIN before \subseteq DOMAIN after /\ Len(before) + 1 \in DOMAIN after
    BY <1>2
  <1>4. \A k \in DOMAIN after : k \in DOMAIN before \/ k = Len(before) + 1
    BY <1>2
  <1> HIDE DEF before, after
  <1>5. /\ Candidates(p) = {i \in Ids : \E k \in DOMAIN before : before[k].id = i /\ Eligible(before[k])}
        /\ Candidates(p)' = {i \in Ids : \E k \in DOMAIN after : after[k].id = i /\ Eligible(after[k])}
    BY DEF Candidates, before, after, Eligible
  <1>6. Candidates(p) \subseteq Candidates(p)'
    BY <1>2, <1>3, <1>5
  <1>7. Eligible(row) => row.id \in Candidates(p)'
    BY <1>1, <1>2, <1>3, <1>5
  <1>8. ASSUME NEW j \in Candidates(p)', j \notin Candidates(p)
        PROVE  Eligible(row) /\ j = row.id
    BY <1>2, <1>4, <1>5, <1>8
  <1> QED  BY <1>6, <1>7, <1>8

\* One row of the first pass keeps the sample.
LEMMA ScanKeepsSample ==
    ASSUME TypeOK, NEW p \in Runs, ScanRow(p), SampleOf(p)
    PROVE  SampleOf(p)'
  <1> DEFINE row == metadata[Len(rows[p]) + 1]
  <1>1. row \in Row /\ row.id \in Ids /\ row.id \in Nat
    <2>1. row \in Row
      BY RowsAreRows DEF ScanRow, TypeOK
    <2> QED  BY <2>1, LocalTrainAssumption DEF Row
  <1>2. rows'[p] = Append(rows[p], row)
    BY DEF ScanRow, TypeOK
  <1>3. /\ pc'[p] \in {"raised", "scan"}
        /\ heap'[p] = IF Considered(row, heap[p]) /\ row.id \in files
                      THEN Inserted(row.id, heap[p]) ELSE heap[p]
        /\ absent'[p] = IF Considered(row, heap[p]) /\ row.id \notin files
                        THEN absent[p] \cup {row.id} ELSE absent[p]
    BY DEF ScanRow, TypeOK
  <1> HIDE DEF row
  <1>4. heap[p] \in SUBSET Nat /\ IsFiniteSet(heap[p]) /\ Cardinality(heap[p]) <= Count
    BY LocalTrainAssumption DEF TypeOK, SampleOf
  <1>5. /\ Candidates(p) \subseteq Candidates(p)'
        /\ Eligible(row) => row.id \in Candidates(p)'
        /\ \A j \in Candidates(p)' \ Candidates(p) : Eligible(row) /\ j = row.id
    BY <1>1, <1>2, OneMoreCandidate
  <1>6. Candidates(p)' \subseteq Nat /\ heap[p] \subseteq Candidates(p)
    BY LocalTrainAssumption DEF Candidates, SampleOf
  <1>7. pc'[p] \notin Sampled \cup {"verify"}
    BY <1>3 DEF Sampled
  <1>8. CASE Considered(row, heap[p]) /\ row.id \in files
    <2> DEFINE after == Inserted(row.id, heap[p])
    <2>1. heap'[p] = after /\ absent'[p] = absent[p]
      BY <1>3, <1>8
    <2>2. row.id \notin heap[p] /\ Eligible(row) /\ Enters(row.id, heap[p])
      BY <1>8 DEF Considered
    <2>3. /\ IsFiniteSet(after) /\ Cardinality(after) <= Count
          /\ after \subseteq heap[p] \cup {row.id} /\ row.id \in after
          /\ Full(heap[p]) => Full(after)
          /\ \A j \in Nat : Full(heap[p]) /\ (\A i \in heap[p] : i < j) => \A i \in after : i < j
          /\ \A j \in heap[p] \ after : Full(after) /\ \A i \in after : i < j
      BY <1>1, <1>4, <2>2, InsertionKeepsBest
    <2> HIDE DEF after
    <2>4. ASSUME NEW j \in Candidates(p)', j \notin after
          PROVE  j \in absent[p] \/ (Full(after) /\ \A i \in after : i < j)
      <3>1. j \in Candidates(p) /\ j \in Nat
        BY <1>5, <1>6, <2>3, <2>4
      <3>2. CASE j \in heap[p]
        BY <2>3, <2>4, <3>2
      <3>3. CASE j \notin heap[p]
        BY <2>3, <3>1, <3>3 DEF SampleOf, BestOf
      <3> QED  BY <3>2, <3>3
    <2>5. BestOf(p)'
      BY <2>1, <2>4 DEF BestOf, Full
    <2>6. after \subseteq Candidates(p)'
      BY <1>5, <1>6, <2>2, <2>3
    <2> QED  BY <1>7, <2>1, <2>3, <2>5, <2>6 DEF SampleOf
  <1>9. CASE ~(Considered(row, heap[p]) /\ row.id \in files)
    <2>1. heap'[p] = heap[p] /\ absent[p] \subseteq absent'[p]
      BY <1>3, <1>9
    <2>2. ASSUME NEW j \in Candidates(p)', j \notin heap[p]
          PROVE  j \in absent'[p] \/ (Full(heap[p]) /\ \A i \in heap[p] : i < j)
      <3>1. CASE j \in Candidates(p)
        BY <2>1, <2>2, <3>1 DEF SampleOf, BestOf
      <3>2. CASE j \notin Candidates(p)
        <4>1. j = row.id /\ Eligible(row)
          BY <1>5, <3>2
        <4>2. CASE Enters(row.id, heap[p])
          BY <1>3, <1>9, <2>2, <4>1, <4>2 DEF Considered
        <4>3. CASE ~Enters(row.id, heap[p])
          <5>1. Full(heap[p]) /\ ~(row.id < Worst(heap[p]))
            BY <4>3 DEF Enters
          <5>2. heap[p] # {}
            BY <5>1, FS_EmptySet, LocalTrainAssumption DEF Full
          <5>3. Worst(heap[p]) \in heap[p] /\ \A i \in heap[p] : i <= Worst(heap[p])
            BY <1>4, <5>2, WorstIsGreatest
          <5>4. Worst(heap[p]) \in Nat /\ Worst(heap[p]) # row.id /\ \A i \in heap[p] : i \in Nat
            BY <1>4, <2>2, <4>1, <5>3
          <5>5. \A i \in heap[p] : i < row.id
            BY <1>1, <5>1, <5>3, <5>4
          <5> QED  BY <4>1, <5>1, <5>5
        <4> QED  BY <4>2, <4>3
      <3> QED  BY <3>1, <3>2
    <2>3. BestOf(p)'
      BY <2>1, <2>2 DEF BestOf, Full
    <2> QED  BY <1>4, <1>5, <1>6, <1>7, <2>1, <2>3 DEF SampleOf
  <1> QED  BY <1>8, <1>9

\* A run whose sample, rows and missing files stay keeps it.
LEMMA SampleStays ==
    ASSUME TypeOK, NEW p \in Runs, SampleOf(p),
           heap'[p] = heap[p], absent'[p] = absent[p], rows'[p] = rows[p],
           pc'[p] \in Sampled \cup {"verify"} => Full(heap[p]),
           pc'[p] \in Sampled => \A i \in heap[p] : Occurrences(i, rows[p]) <= 1
    PROVE  SampleOf(p)'
  <1>1. Candidates(p)' = Candidates(p)
    BY DEF Candidates, Eligible
  <1>2. Full(heap[p])' = Full(heap[p]) /\ \A i : Occurrences(i, rows[p])' = Occurrences(i, rows[p])
    BY DEF Full, Occurrences
  <1> QED  BY <1>1, <1>2 DEF SampleOf, BestOf

LEMMA SampleStep ==
    ASSUME TypeOK, NEW q \in Runs, SampleOf(q), [Next]_vars
    PROVE  SampleOf(q)'
  <1>0. /\ pc[q] \in Sampled \cup {"verify"} => Full(heap[q])
        /\ pc[q] \in Sampled => \A i \in heap[q] : Occurrences(i, rows[q]) <= 1
    BY DEF SampleOf
  <1>1. CASE Disturb \/ UNCHANGED vars
    <2>1. UNCHANGED <<heap, absent, rows, pc>>
      BY <1>1 DEF Disturb, vars
    <2> QED  BY <1>0, <2>1, SampleStays
  <1>2. ASSUME NEW p \in Runs, p # q, Step(p)
        PROVE  SampleOf(q)'
    <2>1. pc'[q] = pc[q] /\ heap'[q] = heap[q] /\ absent'[q] = absent[q] /\ rows'[q] = rows[q]
      BY <1>2 DEF Step, Start, ScanRow, EndScan, VerifyRow, EndVerify, MakeDirectory,
                  PrepareSource, EndPrepare, WriteOutput, Kill, Goto, TypeOK
    <2> QED  BY <1>0, <2>1, SampleStays
  <1>3. CASE ScanRow(q)
    BY <1>3, ScanKeepsSample
  <1>4. CASE Step(q) /\ ~ScanRow(q)
    <2>1. UNCHANGED <<heap, absent, rows>>
      BY <1>4 DEF Step, Start, EndScan, VerifyRow, EndVerify, MakeDirectory, PrepareSource,
                  EndPrepare, WriteOutput, Kill, Goto
    <2>2. CASE EndScan(q)
      <3>1. pc'[q] = IF Full(heap[q]) THEN "verify" ELSE "raised"
        BY <2>2 DEF EndScan, Goto, TypeOK
      <3> QED  BY <2>1, <3>1, SampleStays DEF Sampled
    <2>3. CASE EndVerify(q)
      <3>1. pc[q] = "verify" /\ pc'[q] = IF IsVerified(q) THEN "mkdir" ELSE "raised"
        BY <2>3 DEF EndVerify, Goto, TypeOK
      <3>2. IsVerified(q) => \A i \in heap[q] : Occurrences(i, rows[q]) <= 1
        BY DEF IsVerified
      <3> QED  BY <1>0, <2>1, <3>1, <3>2, SampleStays DEF Sampled
    <2>4. CASE ~EndScan(q) /\ ~EndVerify(q)
      <3>1. \/ pc'[q] \notin Sampled \cup {"verify"}
            \/ pc'[q] \in Sampled /\ pc[q] \in Sampled
            \/ pc'[q] = pc[q]
        BY <1>4, <2>4 DEF Step, Start, VerifyRow, MakeDirectory, PrepareSource, EndPrepare,
                          WriteOutput, Kill, Goto, Sampled, TypeOK
      <3> QED  BY <1>0, <2>1, <3>1, SampleStays
    <2> QED  BY <2>2, <2>3, <2>4
  <1> QED  BY <1>1, <1>2, <1>3, <1>4 DEF Next, Ended

SampleInv == TypeOK /\ \A p \in Runs : SampleOf(p)

LEMMA SampleInit ==
    ASSUME Init
    PROVE  SampleInv
  <1>1. ASSUME NEW p \in Runs
        PROVE  SampleOf(p)
    <2>1. heap[p] = {} /\ pc[p] = "start" /\ rows[p] = <<>>
      BY DEF Init
    <2>2. Candidates(p) = {}
      BY <2>1 DEF Candidates
    <2> QED  BY <2>1, <2>2, FS_EmptySet, LocalTrainAssumption DEF SampleOf, BestOf, Sampled
  <1> QED  BY <1>1, TypeInit DEF SampleInv

LEMMA SampleHolds == Spec => []SampleInv
  <1>1. SampleInv /\ [Next]_vars => SampleInv'
    BY TypeStep, SampleStep DEF SampleInv
  <1> QED  BY <1>1, SampleInit, PTL DEF Spec

\* The bounded heap holds the best of all rows read, whatever order they come in
\* and whatever happens to the files meanwhile (the first pass of prepare_local_train).
THEOREM SampleLowest == Spec => []SampleIsLowest
  <1>1. SampleInv => SampleIsLowest
    BY DEF SampleInv, SampleOf, BestOf, SampleIsLowest
  <1> QED  BY <1>1, SampleHolds, PTL

\* What goes to prepare_sources was listed exactly once in a file that read the
\* same twice (the two passes of prepare_local_train).
THEOREM Once == Spec => []SampledOnce
  <1>1. ASSUME SampleInv, NEW p \in Runs, pc[p] \in Sampled
        PROVE  /\ Cardinality(heap[p]) = Count
               /\ \A i \in heap[p] : \E k \in DOMAIN rows[p] :
                     /\ Eligible(rows[p][k]) /\ rows[p][k].id = i
                     /\ \A l \in DOMAIN rows[p] : rows[p][l].id = i => l = k
    <2>1. Full(heap[p]) /\ heap[p] \subseteq Candidates(p)
      BY <1>1 DEF SampleInv, SampleOf
    <2>2. ASSUME NEW i \in heap[p]
          PROVE  \E k \in DOMAIN rows[p] :
                     /\ Eligible(rows[p][k]) /\ rows[p][k].id = i
                     /\ \A l \in DOMAIN rows[p] : rows[p][l].id = i => l = k
      <3> DEFINE S == {k \in DOMAIN rows[p] : rows[p][k].id = i}
      <3>1. PICK k \in DOMAIN rows[p] : rows[p][k].id = i /\ Eligible(rows[p][k])
        BY <2>1 DEF Candidates
      <3>2. IsFiniteSet(S)
        <4>1. DOMAIN rows[p] = 1 .. Len(rows[p]) /\ Len(rows[p]) \in Nat
          BY <1>1 DEF SampleInv, TypeOK
        <4>2. IsFiniteSet(DOMAIN rows[p])
          BY <4>1, FS_Interval
        <4> QED  BY <4>2, FS_Subset
      <3>3. Cardinality(S) <= 1
        BY <1>1 DEF SampleInv, SampleOf, Occurrences
      <3>4. ASSUME NEW l \in DOMAIN rows[p], rows[p][l].id = i
            PROVE  l = k
        <4>1. l \in S /\ k \in S
          BY <3>1, <3>4
        <4> HIDE DEF S
        <4> QED  BY <3>2, <3>3, <4>1, AtMostOne
      <3> QED  BY <3>1, <3>4
    <2> QED  BY <2>1, <2>2 DEF Full
  <1>2. SampleInv => SampledOnce
    BY <1>1 DEF SampledOnce, Sampled
  <1> QED  BY <1>2, SampleHolds, PTL
================================================================================
