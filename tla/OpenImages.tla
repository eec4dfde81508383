------------------------------- MODULE OpenImages -------------------------------
(***************************************************************************)
(* The command prepare (open_images.py): the evaluation sample that is     *)
(* downloaded from Open Images.  One thread, no shared state: operators    *)
(* only.  An image id is its rank, the hash of seed and id; `outcome` is   *)
(* what the download of an id yields: [available, bytes, supported].       *)
(***************************************************************************)
EXTENDS Integers, SequencesExt

\* OpenImagesRow.from_csv: rows of another split, licence or without any URL are none.
IsEligible(row) ==
    row.subset = "validation" /\ row.licensed /\ (row.original_url \/ row.thumbnail_url)

\* The sample after one more row: the best `count` ids, repetitions included.
Sampled(sample, id, count) ==
    LET better == SelectSeq(sample, LAMBDA other : other <= id)
        worse  == SelectSeq(sample, LAMBDA other : other > id)
        bigger == better \o <<id>> \o worse
    IN IF Len(sample) < count THEN bigger
       ELSE IF Last(sample) > id THEN Front(bigger) ELSE sample

\* Of rows with the same id the last one counts.
Latest(metadata_rows, id) == Last(SelectSeq(metadata_rows, LAMBDA row : row.id = id))

deterministic_sample(metadata_rows, count) ==
    LET ids == FoldLeft(LAMBDA sample, row : Sampled(sample, row.id, count),
                        <<>>, metadata_rows)
    IN [k \in DOMAIN ids |-> Latest(metadata_rows, ids[k])]

\* Why a candidate is no source: a reason, or "".  A pinned record is
\* [id, provenance, raw_sha256].
Refusal(row, pinned, outcome) ==
    LET pins == SelectSeq(pinned, LAMBDA record : record.id = row.id) IN
    IF pins # <<>> /\ pins[1].provenance # row.provenance THEN "PIN_PROVENANCE_MISMATCH"
    ELSE IF ~outcome[row.id].available THEN "DOWNLOAD_FAILED"
    ELSE IF pins # <<>> /\ pins[1].raw_sha256 # outcome[row.id].bytes
    THEN "PIN_HASH_MISMATCH" ELSE ""

\* One candidate: nothing more once there are enough, or once _image_suffix has
\* raised; a media type that is no image is no failure of its row alone.
Download(state, row, pinned, outcome, count) ==
    LET refusal == Refusal(row, pinned, outcome) IN
    IF Len(state.sources) = count \/ state.raised THEN state
    ELSE IF refusal # ""
    THEN [state EXCEPT !.failures = Append(@, [id |-> row.id, reason |-> refusal])]
    ELSE IF ~outcome[row.id].supported THEN [state EXCEPT !.raised = TRUE]
    ELSE [state EXCEPT !.sources = Append(@, row.id)]

\* download_sample: which error is raised, if any; the sources written to images/;
\* whether their private metadata and the failures are on disk.
download_sample(metadata_rows, count, pinned, outcome) ==
    LET eligible   == SelectSeq(metadata_rows, IsEligible)
        pins       == [k \in DOMAIN pinned |-> pinned[k].id]
        candidates == IF pinned = <<>> THEN deterministic_sample(eligible, count * 20)
                      ELSE [k \in DOMAIN pins |-> Latest(eligible, pins[k])]
        nothing    == [sources |-> <<>>, failures |-> <<>>, raised |-> FALSE]
        all        == FoldLeft(LAMBDA state, row : Download(state, row, pinned, outcome, count),
                               nothing, candidates)
        result(status, state) ==
            [status |-> status, sources |-> state.sources, failures |-> state.failures,
             reported |-> status \in {"OK", "SHORTFALL"}]
    IN
    IF eligible = <<>> THEN result("METADATA_EMPTY", nothing)
    ELSE IF pinned # <<>> /\ (Len(pins) # count \/ ~IsInjective(pins))
    THEN result("PIN_COUNT", nothing)
    ELSE IF ~(Range(pins) \subseteq {eligible[k].id : k \in DOMAIN eligible})
    THEN result("PIN_MISSING", nothing)
    ELSE IF all.raised THEN result("CONTENT_TYPE", all)
    ELSE result(IF Len(all.sources) = count THEN "OK" ELSE "SHORTFALL", all)
================================================================================
