------------------------------- MODULE LocalTrain -------------------------------
(***************************************************************************)
(* The command prepare-local-train (local_train.py): a bounded sample of   *)
(* the rows of a metadata file that is streamed twice, decoded and written *)
(* to a directory of its own.  Several runs may be given one directory, a  *)
(* run may be killed at any point, and the input files belong to others,   *)
(* who may change them meanwhile.                                          *)
(*                                                                         *)
(* An image id is its rank, SHA-256 of seed and id: the lower, the sooner  *)
(* it is sampled.  A digest of the bytes read is the sequence of the rows. *)
(***************************************************************************)
EXTENDS Integers, Sequences, FiniteSets

CONSTANTS
    Runs,        \* processes that prepare the same destination
    Count,       \* requested candidates
    Ids,
    Metadata,    \* contents the metadata file may have: sequences of [id, kind]
    Excluded,    \* ids of the pinned and the evaluation images
    Copies,      \* ids whose bytes or pixels are those of an evaluation image
    Corrupt,     \* ids whose file does not decode
    MaxChanges,  \* bound: how often others touch the inputs
    NotYet

\* Malformed rows end the scan; ineligible ones (split, license, attribution,
\* rotation) are skipped.
Kinds == {"eligible", "ineligible", "malformed"}

ASSUME LocalTrainAssumption ==
    /\ Count \in Nat \ {0} /\ Ids \subseteq Nat /\ MaxChanges \in Nat
    /\ Metadata \subseteq Seq([id : Ids, kind : Kinds])
    /\ Excluded \subseteq Ids /\ Copies \subseteq Ids /\ Corrupt \subseteq Ids
    /\ NotYet \notin [by : Runs, ids : SUBSET Ids]

\* What a run writes, in this order; prepare_sources is between the second and the third.
Outputs == <<"private-metadata", "selected-ids", "sources", "rights", "images",
             "failures", "manifest">>

Files == {Outputs[i] : i \in 1 .. 7}

VARIABLES
    metadata,   \* the metadata file
    files,      \* ids with a regular JPEG under image_root
    changes,    \* how often others touched them
    directory,  \* whether the destination exists
    output,     \* its files: NotYet, or [by, ids]
    pc,
    rows,       \* rows of the first pass
    verified,   \* rows of the second pass
    absent,     \* ids skipped as missing_or_symlink_when_probed
    heap,       \* the sample: selected_ids
    images,     \* decoded by prepare_sources
    failed,     \* its failures
    written     \* how many of the outputs are written

inputVars == <<metadata, files, changes>>
vars == <<inputVars, directory, output, pc, rows, verified, absent, heap, images, failed,
          written>>

Row == [id : Ids, kind : Kinds]

Running == {"start", "scan", "verify", "mkdir", "prepare", "write"}

TypeOK ==
    /\ metadata \in Metadata
    /\ files \subseteq Ids
    /\ changes \in 0 .. MaxChanges
    /\ directory \in BOOLEAN
    /\ output \in [Files -> [by : Runs, ids : SUBSET Ids] \cup {NotYet}]
    /\ pc \in [Runs -> Running \cup {"done", "refused", "raised", "killed"}]
    /\ rows \in [Runs -> Seq(Row)] /\ verified \in [Runs -> Seq(Row)]
    /\ absent \in [Runs -> SUBSET Ids] /\ heap \in [Runs -> SUBSET Ids]
    /\ images \in [Runs -> SUBSET Ids] /\ failed \in [Runs -> SUBSET Ids]
    /\ written \in [Runs -> 0 .. 7]

Init ==
    /\ metadata \in Metadata
    /\ files \in SUBSET Ids
    /\ changes = 0
    /\ directory = FALSE
    /\ output = [f \in Files |-> NotYet]
    /\ pc = [p \in Runs |-> "start"]
    /\ rows = [p \in Runs |-> <<>>] /\ verified = [p \in Runs |-> <<>>]
    /\ absent = [p \in Runs |-> {}] /\ heap = [p \in Runs |-> {}]
    /\ images = [p \in Runs |-> {}] /\ failed = [p \in Runs |-> {}]
    /\ written = [p \in Runs |-> 0]
-----------------------------------------------------------------------------
\* Only the control state of the run changes.
Goto(p, step) ==
    /\ pc' = [pc EXCEPT ![p] = step]
    /\ UNCHANGED <<inputVars, directory, output, rows, verified, absent, heap, images,
                   failed, written>>

\* The check that no destination exists is hours before it is made.
Start(p) ==
    /\ pc[p] = "start"
    /\ Goto(p, IF directory THEN "refused" ELSE "scan")

Full(h) == Cardinality(h) = Count

Worst(h) == CHOOSE i \in h : \A j \in h : j <= i

\* Slip: whatever comes later replaces the worst.
EntersAlways(i, h) == TRUE

\* Only these rows are worth probing the file system.
Enters(i, h) == ~Full(h) \/ i < Worst(h)

Inserted(i, h) == (IF Full(h) THEN h \ {Worst(h)} ELSE h) \cup {i}

\* What a row does to a sample h, the file system being what it is.
Eligible(row) == row.kind = "eligible" /\ row.id \notin Excluded

Considered(row, h) == row.id \notin h /\ Eligible(row) /\ Enters(row.id, h)

ScanRow(p) ==
    /\ pc[p] = "scan"
    /\ Len(rows[p]) < Len(metadata)
    /\ LET row == metadata[Len(rows[p]) + 1] IN
       /\ rows' = [rows EXCEPT ![p] = Append(@, row)]
       /\ pc' = [pc EXCEPT ![p] = IF row.kind = "malformed" THEN "raised" ELSE "scan"]
       /\ heap' = [heap EXCEPT ![p] =
                      IF Considered(row, @) /\ row.id \in files THEN Inserted(row.id, @) ELSE @]
       /\ absent' = [absent EXCEPT ![p] =
                        IF Considered(row, heap[p]) /\ row.id \notin files
                        THEN @ \cup {row.id} ELSE @]
    /\ UNCHANGED <<inputVars, directory, output, verified, images, failed, written>>

\* LOCAL_TRAIN_SHORTFALL, or the second pass.
EndScan(p) ==
    /\ pc[p] = "scan"
    /\ Len(rows[p]) >= Len(metadata)
    /\ Goto(p, IF Full(heap[p]) THEN "verify" ELSE "raised")

VerifyRow(p) ==
    /\ pc[p] = "verify"
    /\ Len(verified[p]) < Len(metadata)
    /\ verified' = [verified EXCEPT ![p] = Append(@, metadata[Len(@) + 1])]
    /\ UNCHANGED <<inputVars, directory, output, pc, rows, absent, heap, images, failed, written>>

Occurrences(i, read) == Cardinality({k \in DOMAIN read : read[k].id = i})

\* Slip: the second pass looks for changes only.
IsUnchanged(p) == verified[p] = rows[p]

\* Neither METADATA_CHANGED nor DUPLICATE_SOURCE_ID.
IsVerified(p) ==
    /\ verified[p] = rows[p]
    /\ \A i \in heap[p] : Occurrences(i, verified[p]) <= 1

EndVerify(p) ==
    /\ pc[p] = "verify"
    /\ Len(verified[p]) >= Len(metadata)
    /\ Goto(p, IF IsVerified(p) THEN "mkdir" ELSE "raised")

\* Slip: mkdir with exist_ok.
MayUse == TRUE

\* mkdir fails where somebody was faster.
MayMake == ~directory

MakeDirectory(p) ==
    /\ pc[p] = "mkdir"
    /\ pc' = [pc EXCEPT ![p] = IF MayMake THEN "write" ELSE "raised"]
    /\ directory' = TRUE
    /\ UNCHANGED <<inputVars, output, rows, verified, absent, heap, images, failed, written>>

\* One source of prepare_sources, in the order of its pool: a file that is gone
\* ends the run (see Preparation), one that does not decode is a failure.
PrepareSource(p, i) ==
    /\ pc[p] = "prepare"
    /\ i \in heap[p] \ (images[p] \cup failed[p])
    /\ pc' = [pc EXCEPT ![p] = IF i \in files THEN "prepare" ELSE "raised"]
    /\ images' = [images EXCEPT ![p] = IF i \in files \ Corrupt THEN @ \cup {i} ELSE @]
    /\ failed' = [failed EXCEPT ![p] = IF i \in files \cap Corrupt THEN @ \cup {i} ELSE @]
    /\ UNCHANGED <<inputVars, directory, output, rows, verified, absent, heap, written>>

EndPrepare(p) ==
    /\ pc[p] = "prepare"
    /\ heap[p] = images[p] \cup failed[p]
    /\ Goto(p, "write")

\* Slip: exact copies of evaluation images are kept.
AcceptedCopies(p) == images[p]

\* EVALUATION_EXACT_COPY is a failure like any other.
Accepted(p) == images[p] \ Copies

Content(p, f) ==
    IF f \in {"private-metadata", "selected-ids"} THEN heap[p]
    ELSE IF f = "failures" THEN failed[p] \cup (images[p] \ Accepted(p))
    ELSE Accepted(p)

\* Slip: the report comes first.
NextOutputManifestFirst(n) ==
    IF n = 2 THEN "manifest" ELSE IF n < 2 THEN Outputs[n + 1] ELSE Outputs[n]

\* The output after n of them.
NextOutput(n) == Outputs[n + 1]

\* write_json and write_jsonl replace a file as a whole.
WriteOutput(p) ==
    /\ pc[p] = "write"
    /\ written[p] < 7
    /\ LET f == NextOutput(written[p]) IN
       output' = [output EXCEPT ![f] = [by |-> p, ids |-> Content(p, f)]]
    /\ written' = [written EXCEPT ![p] = @ + 1]
    /\ pc' = [pc EXCEPT ![p] = IF written'[p] = 2 THEN "prepare"
                               ELSE IF written'[p] = 7 THEN "done" ELSE "write"]
    /\ UNCHANGED <<inputVars, directory, rows, verified, absent, heap, images, failed>>

Kill(p) ==
    /\ pc[p] \in Running
    /\ Goto(p, "killed")

Step(p) ==
    \/ Start(p) \/ ScanRow(p) \/ EndScan(p) \/ VerifyRow(p) \/ EndVerify(p)
    \/ MakeDirectory(p) \/ EndPrepare(p) \/ WriteOutput(p) \/ Kill(p)
    \/ \E i \in Ids : PrepareSource(p, i)

\* Others replace the metadata file, or put or take away an image.
Disturb ==
    /\ changes < MaxChanges
    /\ changes' = changes + 1
    /\ \/ metadata' \in Metadata /\ UNCHANGED files
       \/ \E i \in Ids : files' \in {files \cup {i}, files \ {i}} /\ UNCHANGED metadata
    /\ UNCHANGED <<directory, output, pc, rows, verified, absent, heap, images, failed, written>>

\* Every run has ended.
Ended ==
    /\ \A p \in Runs : pc[p] \notin Running
    /\ UNCHANGED vars

Next == Disturb \/ Ended \/ \E p \in Runs : Step(p)

Spec == Init /\ [][Next]_vars
-----------------------------------------------------------------------------
Candidates(p) ==
    {i \in Ids : \E k \in DOMAIN rows[p] : rows[p][k].id = i /\ Eligible(rows[p][k])}

\* The bounded heap holds the best of all rows read, however they are ordered,
\* repeated and interleaved with changes of the file system: an eligible id that
\* is not sampled had no file when it was probed or is worse than a full sample
\* ("Sample local train JPEGs"; test_sample_is_order_independent_and_ingestable).
SampleIsLowest ==
    \A p \in Runs :
        /\ heap[p] \subseteq Candidates(p) /\ Cardinality(heap[p]) <= Count
        /\ \A j \in Candidates(p) \ heap[p] :
              \/ j \in absent[p]
              \/ Full(heap[p]) /\ \A i \in heap[p] : i < j

\* What is decoded was listed once, in a file that was the same twice: a repeated
\* id is refused even where the other row was ineligible or had left the heap.
SampledOnce ==
    \A p \in Runs : pc[p] \in {"mkdir", "prepare", "write", "done"} =>
        /\ Cardinality(heap[p]) = Count
        /\ \A i \in heap[p] : \E k \in DOMAIN rows[p] :
              /\ Eligible(rows[p][k]) /\ rows[p][k].id = i
              /\ \A l \in DOMAIN rows[p] : rows[p][l].id = i => l = k

\* No directory holds the files of two runs ("Existing output directories are
\* refused to protect reproducibility"), although the check and the mkdir are far
\* apart and a killed run leaves its directory behind.
OneRunPerDestination ==
    \A f, g \in Files : output[f] # NotYet /\ output[g] # NotYet => output[f].by = output[g].by

\* A manifest tells of a finished directory: all files are there and agree, every
\* sampled id is accounted for once, and nothing accepted is an evaluation image,
\* neither by id nor by content.
ManifestIsTrue ==
    output["manifest"] # NotYet =>
        LET accepted == output["manifest"].ids
            IdsIn(f) == output[f].ids
        IN
        /\ \A f \in Files : output[f] # NotYet
        /\ \A f \in {"sources", "rights", "images"} : IdsIn(f) = accepted
        /\ IdsIn("selected-ids") = accepted \cup IdsIn("failures")
        /\ accepted \cap IdsIn("failures") = {}
        /\ accepted \cap (Excluded \cup Copies) = {}
================================================================================
