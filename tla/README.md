# Pixelogue, specified

Pixelogue is a command-line program that lets vision-language models hold
multi-turn conversations about images, has two blind judges rate every turn, and
keeps the conversations that pass as training data.  This directory holds TLA+
specifications of its coordination code, the TLC instances that check them, and
TLAPS proofs about them.  Paths below are relative to `src/pixelogue/` unless
they name a document; `PROJECT.json` maps every definition to the lines it
stands for.

- [Inventory](#inventory)
- [Modules](#modules)
- [How the modules correspond to the code](#how-the-modules-correspond-to-the-code)
- [Runs](#runs)
- [What the runs found](#what-the-runs-found)
- [Fairness](#fairness)
- [Proofs](#proofs)
- [Not modelled](#not-modelled)
- [Plan](#plan)

## Inventory

The program is a set of commands over files and one directory per run.  A
`synthesize` command is one process: a main thread that writes the output, a
pool of worker threads with one image each, an SQLite database and a directory
of content-addressed artifacts, and two or three inference servers behind HTTP.

| Component | State it keeps | Operations | Talks to |
|---|---|---|---|
| Batch run (`cli.synthesize`, `pipeline.synthesize_batch`, `progress.py`) | output file, summary file, deque of futures, progress counters | submit, take the oldest future, write and flush a row, summarise, drain, close | workers (futures), output readers |
| Conversation machine (`pipeline.synthesize_image` and the methods under it) | durable: `turn_commit`, `conversation_commit`, `conversation-stops`; local: the turns so far | resume, extract evidence, select, ask, fit, extract requirements, answer, rate, repair, commit, finish, report a failure | model calls, run store |
| Model calls (`pipeline._invoke`, `serving.py`) | `budget` row, `model_call` rows | look up, reserve, post (with transport retries), decode, record, settle or release, structured retry | inference servers, run store |
| Turn evaluation (`evaluation.py`, aggregates in `contracts.py`, `pipeline._rate_turn` and `_rate_holistic`) | the results collected for one answer: inventories, checks, votes | question fit, claims, computation, set, one rubric item after another, aggregate, repair | conversation machine, rules, requirements |
| Run store (`store.py`) | database, artifact files, lock | open, `initialize_run`, `write_artifact`, transaction, `verify`, `backup`, `restore` | everything durable |
| Re-rating (`pipeline.rate_existing`) | the turns rated so far | rate stored turns again, stop at the first that fails, finish | turn evaluation, `rate-existing` |
| Requirement ledger (`ledger.py`) | requirements in force | reconcile two inventories; introduce, retain, override, revoke, expire | detailed evaluation |
| Rules (`rules.py`) | none | read numbers, exact arithmetic, complete sets, compare two inventories | detailed evaluation |
| Planner (`planner.py`, quotas in `config.py`) | none | exact quotas, schedules, planned turn counts, task candidates | batch run, conversation machine |
| Local training sample (`local_train.py`) | bounded heap, two digests, a new directory with seven files | scan, verify, make the directory, prepare, write | image preparation, other users of the files |
| Source download (`open_images.py`) | images and two report files | filter, sample or look up pins, download one by one | Open Images over HTTP |
| Diagnosis (`doctor.py`) | none | place servers on idle devices, tell whether a run can start | nvidia-smi, servers |
| Image preparation (`operations.prepare_sources`, `images.py`) | prepared images, visual groups, splits | canonicalise in a pool, group, spread the evaluation-only mark, split | selection, export |
| Selection, audit, export (`selection.py`, `export.py`) | frozen pool, manifest, four output files | freeze, solve, audit, bind, export | training data |
| Others: command line, contracts and configuration, prompts, capability probes, fixtures, profile reports | none, or plain files | | |

Where it is hard:

- **Concurrency.** Workers share the budget row, the ledger rows and the mutex of
  one `RunStore`; they finish in any order while rows must come out in input
  order; an exception at the head of the queue unwinds the main thread while the
  other workers are still using the store.
- **Crashes and restarts.** Every command may be killed anywhere and given
  again.  What is durable is written in steps: file, registration, row that
  refers to it, row of output.  A restart truncates the output and rebuilds it.
- **Failure in the middle.** A reservation is taken before a call and must be
  settled or released on every path out of it; a response that cannot be decoded
  is itself recorded; reporting a failure may fail.
- **Retries in retries.** Transport attempts inside structured attempts inside
  one answer repair inside restarts, each with its own rule for what is
  remembered from the last one.
- **Changed surroundings.** A manifest, a schedule, a configuration or a
  directory that is not the one the earlier process had; a metadata file that is
  replaced between two passes over it.
- **Two judges.** Every question about a turn has two blind answers of three
  values each, some are overruled by exact checks, and the outcome of dozens of
  such pairs has to be one of four, of which "failed" is to mean something else
  than "cannot tell".

What makes each component correct:

- *Batch run*: the output is one a serial loop could have written; rows never
  contradict each other over restarts; success, summary and progress line agree
  with the output; nothing uses the store after it is closed; it ends.
- *Conversation machine*: accepted turns are contiguous, of one generator, each
  generated from exactly the turns before it; what is certified is what was
  accepted; a verdict, once durable, is the verdict for good; it ends.
- *Turn evaluation and re-rating*: nothing is accepted that a judge did not see or
  did not agree to; nothing is rejected because judges disagree; a rating is about
  the answer it is attached to; a re-rated conversation is sound although no
  contract is validated on the way; it ends.
- *Rules, requirements, planner, placement*: equal to a reference definition.
- *Model calls*: limits hold; the reservations add up; nothing recorded is
  uncovered; a row never changes; an answer on record is not paid for twice.
- *Run store*: what is registered is readable after any crash; a backup is
  consistent and stays so; a run has one configuration.
- *Image preparation*: each source is reported once and in order, whatever thread
  was first; visual groups are the components of the copy relation; no copies are
  parted by purpose or split.
- *Local training sample*: the sample is the best of what was read; each source is
  listed once; a directory is of one run; a manifest tells of a finished one.
- *Selection, audit, export*: what is bound to an audit keeps its policy, whatever
  the solver answered; only certified training conversations of an audited
  selection reach the training file; no file of a bundle is older than its
  manifest, and the bundle is whole where training file and manifest are of one
  export.

## Modules

| Module | What it is |
|---|---|
| `Evaluation` | operators: `consensus`, `FitAggregate`, `aggregate_rating`, `TurnStatus` |
| `Rules` | operators: complete sets, numbers as they are written, exact arithmetic, the two verifications |
| `Requirements` | operators: `reconcile_inventories` and the ledger's `apply` |
| `Rubric` | operators: which catalog items apply, to which subjects, and what becomes of two votes; extends `Evaluation` and `Rules` |
| `Review` | one turn from its question to its status, and `rate_existing` over a whole conversation; extends `Rubric`, instantiates `Requirements` |
| `ReviewProofs` | its theorems |
| `ConversationLedger` | abstract: what the store and the caller are promised about one conversation |
| `Synthesis` | one conversation of a run over restarts; implements `ConversationLedger`, uses `Evaluation` |
| `SynthesisProofs` | its theorems |
| `ModelCalls` | workers calling models against one budget and one ledger of answers |
| `ModelCallsProofs` | its theorems |
| `RunReport` | abstract: what the output file promises its readers |
| `Batch` | main thread, window of futures, files, over restarts; implements `RunReport` |
| `BatchProofs` | its theorems |
| `RunStore` | the run directory, its backup, the restored directory, commands killed anywhere |
| `RunStoreProofs` | its theorems |
| `Selection` | operators: the constraints given to the solver, the conditions the auditor recomputes |
| `TrainingExport` | the commands freeze-pool, select, audit, export and the files between them; uses `Selection` |
| `TrainingExportProofs` | its theorems |
| `Preparation` | the ingest command: pool of threads, ordering, visual groups, purposes, splits |
| `PreparationProofs` | its theorems |
| `LocalTrain` | the command prepare-local-train: two runs, one destination, changing inputs |
| `LocalTrainProofs` | its theorems |
| `Planner`, `Placement`, `OpenImages` | operators: quotas and schedules; servers on devices; the downloaded sample |
| `MCRules` | reference definitions for `Rules`, `Requirements` and `Rubric`, as assumptions TLC evaluates |
| `MCPlans` | the same for `Planner`, `Placement` and `OpenImages` |
| `MCReview`, `MCLocalTrain` | instances of `Review` and `LocalTrain`; they extend `MCRules` and `MCPlans`, so that their runs evaluate those |
| `MCSynthesis`, `MCModelCalls`, `MCBatch`, `MCRunStore`, `MCTrainingExport`, `MCPreparation` | instances for TLC: symmetry sets, function-valued constants |

The modules cut the system along the interfaces of the code and each treats its
neighbour as an adversary: in `Batch` a worker decides anything a conversation
may decide or raises, in `Synthesis` a model call returns anything or raises,
in `ModelCalls` a server answers anything, and in all of them the process may
die between any two steps.  So a property of one holds under every behaviour of
the others.  `Review` refines the same way what `Synthesis` leaves open: there a
rating is any aggregate the code can give, here it is derived from votes that may
be anything.  The two abstract modules state the same interfaces from outside:
`ConversationLedger` (verdicts settle once) is what `Batch` assumes of a job, and
`RunReport` is what a reader of the output may assume of a batch.

## How the modules correspond to the code

**Synthesis** (`pipeline.py`).  Durable rows are `turnCommits`,
`conversationCommit` and `stops`; the locals of `synthesize_image` are `job`,
`turns`, `draft` and `result`; `returned` is history, all conversations any
process handed to its caller.  One action per stage of the turn loop, each with
all that stage does before the next model call: `LookupConversation`, `Resume`
(with the prefix conflict check), `ExtractEvidence`, `SelectInstruction`,
`AskQuestion`, `FitQuestion`, `ExtractRequirements`, `AnswerQuestion`,
`RateTurn`, `RepairAnswer`, `CommitTurn`, then `Finish`, `Persist`, `Return`, or
`RecordFailure`.  `CallRaises`, `BudgetRefused` and `Crash` may come instead of
almost any of them.  Each `Start` may see another image record and another
generator, which is what a changed manifest amounts to.  Texts are members of
small sets: two questions are the same element exactly when
`repeated_public_question` says so, and `PromptEchoes` are the texts
`is_private_prompt_echo` recognises.  A history hash is the sequence it is the
hash of.  A turn's artifact and its commit row are one step, since only the row
makes the artifact visible (`RunStore` splits them).  The code's branch that
turns a stopped loop with a quality candidate into REJECTED at the end of the
loop cannot be reached and has no action.

**ModelCalls** (`pipeline._invoke`, `serving.invoke`, `_request`, `_record`, the
budget methods of `store.py`).  A request is the prompt, the structured attempt
and the feedback of the attempt before; a row is keyed by it.  Each worker goes
through `Lookup`, `Reserve`, `Post`, `Decode`, `Record`, `Finalize` or `Release`,
and `Accept` or `Raise`.  A capability probe is a worker with prompts that
bypass the cache.  Several workers with the same prompt are real: requests for
two turns can be identical to the byte.  `Exit` and `EndProcess` end a process
with or without its `finally` blocks.  The few bytecodes between the settling
transaction and the assignment that remembers it are not split.

**Batch** (`cli.synthesize`, `synthesize_batch`, `_synthesize_job`,
`progress.py`).  A job is its position in the manifest.  The main thread goes
through `Fill`, then `Take`, `Await`, `Write`, `Flush`, `Tally`, `Summarise`,
`Record`, `Refill` for each row, and `Drain`, `Final`, `Close` at the end,
whatever ended the loop: success, the exception of a job, Ctrl-C.  `buffered` is
the row between `stream.write` and `stream.flush`; a kill loses it, closing the
file writes it.  The generator is closed, and so its executor drained, before
the `finally` of the caller runs (the reference count of the generator reaches
zero as the loop is unwound).  With one worker the code uses a plain loop, which
is the same as a window of one future, except that Ctrl-C then interrupts the job
itself; `Interrupt` makes that difference.  Worker threads are the actions
`Begin`, `Decide`, `Return`, `Raise` of each job.

**RunStore** (`store.py`).  A payload is its own SHA-256 identity.  A file is
absent, torn or whole; a temporary file is named by payload and process.
`write_artifact` is `BeginWrite`, `WriteBytes`, `Replace`, `Register`, one step
for each effect on disk; `Commit` is any row that refers to an artifact; `Backup`
and `Restore` copy database and files step by step.  Commands run one at a time:
the lock on the directory refuses a second one, which then changes nothing.
`Sound` is what `verify` (the `replay` command) checks.  A process may be killed;
the power is not cut, so what was written stays written.

**TrainingExport** (`cli.py` from freeze-pool to export, `make_frozen_pool`,
`selection.py`, `export.py`) over **Selection**.  Each command is a process that
reads whole files and replaces whole files, each file by one `os.replace`; the
steps are those replacements: `FreezePool`, `Select`, `Audit` then `Bind` (report,
then manifest), `Export` then `WritePart` for each of the four files, with `Kill`
between any two.  Commands run one at a time, in any order and with any policy;
`Rewrite` stands for every way the conversations file may be another one at the
next command (another run, `rate-existing`, images prepared again).  A pool is its
own hash, and `bound` is the digest of a `MET` report over exactly this manifest.
The solver is external and not trusted: `Select` may write any subset of the
candidates it was shown, also one that breaks every constraint.  A command that
refuses writes nothing (or, for `select`, an empty selection) and is no step.
Files edited by hand, and identifiers that occur twice in a conversations file,
are left out.

**Preparation** (`prepare_sources`, `images.py`).  A source is its position in
the order of source identifiers, and its image goes by the same number.  What
comes of a source (pixels, a failure, an exception that is no
`ExternalInputError`), its source groups and which images are near are fields of
the manifest.  The loop around `wait(..., FIRST_COMPLETED)` is `Wait` and
`Collect`, one step for each future in the returned set, in any order, with
threads going on in between; `Raise` and `Unwound` are the way out by
`future.result()`.  One worker takes the plain loop in the code, which does what a
pool of one does.  `Link` is one look-up in `by_pixel` or `by_source_group`, `Join`
one pair at or above the threshold.  `roots` is what `find` returns for each image:
path compression changes no answer of `find` and is left out, and which of two
roots stays depends on the order of two hashes, so it may be either.  The embedder
runs and its vectors are checked in one step, `Embed`, which may end the command;
in the code part of that check comes after the first linking loop, with the same
outcome.  `assign_split` is an unknown function of the group.

**Evaluation** is a direct translation, used by `Synthesis` and `Review`.

**Review** (`_question_fit`, `_extract_requirements`, `_rate_turn`,
`_rate_holistic`, `_repair_answer`, `rate_existing`).  The fields of a turn that
the rating reads are `turn`; what the rating collects is in `fits`,
`inventories`, `computation`, `set_check`, `asks` and `items`, the locals of
`_rate_turn`.  One action per pair of calls, since the two judges are asked one
after the other and neither sees the other's answer: `FitQuestion`,
`ExtractRequirements`, `InventoryClaims`, `CheckComputation`, `CheckCompleteSet`,
`RateItem` for each item and subject, `RateHolistic`; then `Aggregate`,
`RepairAnswer`, and for `rate_existing` `NextTurn` and `Conclude`.  The two results
of a pair are chosen independently, so every disagreement occurs.  `CallRaises`
may come instead of any of them.  A claim is a span of one answer: the code binds
spans to the answer, so none of them can fall outside and the branch of
`_claim_union` for that has no action.  Reasons, identifiers and the
`rating-decisions` artifacts are left out.  `StopBefore` ends a synthesised turn
that never got an answer; what happens then is in `Synthesis`.

**Rubric** is `applicable_rubric_items` over the catalog, the subjects of each
item, and the four special cases in which extraction or an exact check overrules
the votes (`ItemVerdict`).  `MCRules` holds the catalog of
`resources/rubric_catalog.yaml` item by item and checks that each predicate in it
is known and each item but the witness item can be asked; the runs use eight
items, one of each kind the operators tell apart.

**Rules** keeps numbers as sequences of characters, since reading them is what the
code is about, and fractions as numerator and denominator.  An operation that
raises in the code has the result `None`.  Python's `Fraction` is external.
**Requirements** abstracts a quotation to a value and the normalisation of its
outer punctuation and courtesy to a function `Canonical`.  The identifier of a
requirement is the hash of its entry, which the turn that introduced it is not
part of (`requirement_id`): what a later turn introduces again is a duplicate as
long as it is carried (`LedgerForgets` in `MCRules`).

**LocalTrain** (`prepare_local_train`).  An image id is its rank, so the order of
the sample is the order of the numbers.  A row is one step of the pass that reads
it, and others may replace the metadata file, or add or remove an image, between
any two steps (`Disturb`): a pass that is under way then goes on in the new file,
as a reader of a file rewritten in place does.  The check for an existing
destination and the `mkdir` are two actions (`Start`, `MakeDirectory`), hours
apart in a run over the full metadata.  `prepare_sources` is one step per source
(its pool is `Preparation`), and each of the seven files is replaced as a whole.
A killed run leaves its directory, and any later run given the same destination
is refused.

**Planner** takes what a hash decides (a position, an order) as a parameter and
weights as integers, which gives the quotas of fractions with a common
denominator.  **Placement** translates the search over groups of devices;
`gpu_memory_utilization` is in percent, and whether the last server on a device
fits exactly, which in the code depends on the rounding of binary fractions, is a
field of the server that may be either.  **OpenImages** is `download_sample` with
the outcome of the download of each id as input.

## Runs

| Run | Instance | States | What it shows |
|---|---|---|---|
| `synthesis` | 3 questions and 1 echo, 1 answer, 2 generators, 3 planned turns, 3 processes, both modes, with and without prefix retention | 1.07 M | the accepted turns, the certified conversation and the stored verdict stay consistent over crashes and changed schedules; `ConversationLedger` is implemented; it answers or ends with a diagnosed abort |
| `review` | one turn with every outcome of two judges, and 3 stored conversations of 1 to 3 turns; 3 settings, 8 rubric items | 817 K | acceptance and rejection have their grounds, a repair inherits nothing, a re-rated conversation is sound, every review ends; the assumptions of `MCRules` |
| `calls` | a serial run that Ctrl-C may reach, or 2 workers; a shared prompt and a probe, 2 structured and 2 transport attempts, one process end | 1.69 M | limits, accounts and rows; nothing on record is paid for again; every call ends |
| `batch_pool` | 3 images, 1 or 2 workers, 2 processes, both modes, a summary every 2 rows | 443 K | output, summary, progress line, exit; implements `RunReport`; ends |
| `store_safety` | 2 payloads, 2 configurations, 2 process ids, 5 commands | 769 K | durable state readable, backups sound, one configuration |
| `training_export` | 3 conversations in 4 conversation files, 5 policies, 8 commands, kills | 118 K | audited, certified training data only; no file older than the manifest |
| `preparation` | 5 sources, 2 threads, 1,368 manifests | 201 K | order, groups, purposes, splits; ends |
| `local_train` | 2 runs, a sample of 2 out of 4 ids, 8 metadata files, any set of image files, 1 disturbance, kills | 760 K | the sample, the destination and the manifest; the assumptions of `MCPlans` |
| `repaired_echo`, `rerated_stop`, `backup_overwritten`, `quota_disagreement` | as above | | one statement of the documents each, refuted (next section) |

Bounds.  `MaxStarts`, `MaxExits` and `MaxCommands` bound how often something is
started or ends; the last process of `Synthesis` and `Batch` is left alive so that
the liveness properties say something.  Three planned turns are the least with a
turn that is neither first nor last, and with minimum two they allow a stop
before, at and after the retained length; three processes allow a crash, a
resume and a second resume of what the first resume committed.  Two workers and
a shared prompt are enough for every pairwise race on the budget and the rows;
the limit of 3 requests and 5 tokens is reached by two calls with a retry.  Three
images and two workers let the later result come first, with one more job to
submit.  Five commands are run, backup, run again, restore, open the restored
directory.  The summary interval is 100 in the code and 2 here, to reach a row
that refreshes it and one that does not.  Eight commands are freeze, select,
audit, export, a rewrite in the middle and an export again over the first bundle;
the four conversation files differ by a conversation that lost its certificate,
one that is missing and images whose group and purpose changed; the policies
include a quota of zero and evaluation-only sources allowed.  Five sources
and two threads refill the pool three times, the last time with one job left, and
allow chains of copies over copies of another kind; the manifests combine any
pixels and failures of the middle sources, some with exceptions, with three
declarations of groups, four sets of near pairs and two choices of the
evaluation-only source.

In `synthesis` a process may find another generator than the one before it.  The
image record is one: a second takes the state graph to 7.9 million states, beyond
a run of some minutes.  `LookupConversation` is all that compares two image
records, and refuses another one exactly as it refuses another generator; the
proofs are about any set of images.  In `review` a ballot is two yes, two no, or one no beside
one "cannot tell", which is one of each consensus; an inventory of claims finds the
claim, misses it while sure to be complete, or reports an error, which the schema
of a claim inventory lets a model do; the requirement lists agree literally, agree
after normalisation, differ or are incomplete; the calculation has a right, a wrong
and an unsure extraction, the set has the same members in two orders, a duplicate
and no extraction.  Of three stored conversations one is shorter than the minimum,
one meets it with a requirement from its first turn, and one repeats a question in
its last turn.  In `local_train` the metadata files contain both orders of the same
rows, a repetition, a repetition of an id that has left the heap, an ineligible row
of a sampled id, an evaluation image, a malformed row and too few rows; one exact
copy and one file that does not decode are among the ids.

Symmetry is used where only safety is checked: workers in `calls` (whose `CallsEnd`
is a safety property, see below), payloads, configurations and process ids in the
runs of `RunStore`, runs in `local_train`.

Deadlock is checked in `review`, `rerated_stop` and `local_train`, where `Ended` is
the only step a finished instance may take.  In the other runs every command is
allowed to end for good; that none of them waits for ever is what
`EventuallyAnswered`, `CallsEnd`, `BatchEnds` and `PreparationEnds` check.

The type invariant of a module with proofs is its theorem `TypeCorrect` and needs
no run; that of `Review` is checked by `review` as well.  Assumptions of `MCRules` and
`MCPlans` are evaluated by TLC before the first state; among them are five that
say what a reader may not expect: `UndeclaredIsUnread`, `FewerImagesMayStarve`,
`PlacementIsGreedy`, `FreeMemoryIsCountedTwice` and the second half of
`SampleIgnoresOrder`.

`PROJECT.json` lists a mutant for each property of each passing run: the model
with one definition changed to a slip somebody could make in that code (the
definitions preceded by "Slip"), under which TLC finds the property violated.

## What the runs found

1. **A repaired answer is not checked for a prompt echo** (`repaired_echo`,
   `NoEchoCommitted`).  In detailed evaluation the answer of `_repair_answer`
   replaces the checked one and can be committed.  In holistic evaluation, where
   there is no repair, it cannot (`AcceptedHasGrounds`).
2. **A refused backup has already replaced the database of the earlier one**
   (`backup_overwritten`, `BackupStaysConsistent`).  `BACKUP_EXISTS` is raised
   after the database was copied; the database then refers to files that the
   backup does not hold.  A backup into a new destination is always sound
   (`BackupConsistent`).
3. **A re-rated stop becomes a failure** (`rerated_stop`, `StopKeepsItsKind`).
   After its loop `rate_existing` sets every detailed conversation that stopped
   before its last stored turn to REJECTED, also when the judges disagreed or an
   error was reported; at the last turn the same stop keeps its kind.  The
   documents reserve REJECTED for a definite failure.  What the turns themselves
   say is right (`RejectionHasGround`).
4. **Solver and auditor disagree on languages without a share**
   (`quota_disagreement`, `AuditMatchesSolver`).  The solver constrains the
   languages of the policy, the auditor compares the whole count: with a quota of
   0, or a language the policy does not name, it refuses selections that meet all
   constraints.  The other way round they never disagree: what the audit accepts
   meets the constraints (`BoundKeepsPolicy`, lemma `AuditSound`).

Smaller observations, met while modelling, with no run of their own.

Model calls and store:

- One reservation covers all transport attempts of a call, so
  `budget.request_count` bounds the HTTP attempts only up to that factor.
- A response recorded as INVALID keeps its row, and a later good answer to the
  identical request is not recorded: the process that got it uses it, any later
  one asks and pays again.  No document promises otherwise, and `RowsImmutable`
  permits it.
- Structured retries bypass the ledger by design: after a restart they are sent and
  paid for again.  `PaidOnce` is about requests that may be answered from the
  ledger; the repetition stays within `BudgetBound` and `CallsEnd`.
- `RecordedTokensCovered` is stated for two workers and `PaidOnce` for one: a
  serial run can be interrupted by Ctrl-C between recording and settling, and two
  workers may ask the same question at the same time and both pay.
- After a kill during `write_artifact` its temporary file stays, and a process with
  the same process id that produces the same artifact fails with
  `FileExistsError` (the error of `BeginWrite`).  No leftover ever becomes an
  artifact (`DurableReadable`).
- Detailed evaluation writes no `conversation_commit`: a conversation that stopped
  is tried again by the next process.

Evaluation and re-rating:

- `C_COMPUTATION` is UNKNOWN when the two extractions differ, also where both
  judges voted NOT_MET: the exact check overrules an agreed failure, while for
  `C_SET_COMPLETE` the code keeps it.
- docs/pipeline/generation-and-evaluation.md:154 (and the Japanese edition) says of
  a required gate "Any `NOT_MET` gives a clear failure".  It does not: `consensus`
  makes one MET and one NOT_MET an UNKNOWN, and the turn is ABSTAINED.  Lines 113
  and 160 of that document ("Missing evidence or disagreement causes abstention",
  "insufficient evidence or evaluator disagreement"), README.md:10 of the
  repository and docs/workflow.md:34 ("Disagreement ... distinct from a clear
  failure") describe what the code does, and `RejectionHasGround` states it.
  Sentence and code agree only where both judges say NOT_MET.
- The schema of a claim inventory admits the coverage ERROR, and a model that
  sends it turns the conversation into an ERROR without any error of the program.
- A holistic conversation that is shorter than it was planned can become a
  QUALITY_CANDIDATE when it is rated again, since the plan is not looked at.
- Conversations synthesised in holistic mode have no requirements; rated again in
  detailed mode they are judged without any.
- The requirements of a turn are those both judges list for it.  Nothing in
  `src/` calls `RequirementLedger.apply`, so a requirement of an earlier turn only
  ends when a judge no longer lists it, and `introduced_turn` is always the
  current turn.
- One `ExecutionError` ends `rate-existing` without any output.
- `parse_numeric_lexeme` refuses every number when neither separator is declared
  (both are None, hence equal).

Planner, placement, downloads, local training sample:

- Quotas that give each language a conversation for `target_dialogues` may give one
  of them none when fewer images are at hand (`FewerImagesMayStarve`).
- The placement is greedy and may call a machine not ready that could serve all
  models; and it compares free memory with each server alone, so that servers which
  share a device may need more than is free.
- `_image_suffix` raises for a media type that is no image, which ends the whole
  download, while an image that cannot be had is only reported.  A row that
  occurs twice in the metadata is sampled twice.
- A killed or failed prepare-local-train leaves its directory, and giving the
  command again is refused.  The digest of the validation manifest in the report
  is computed at the end of the run, those of the references after their content
  was read, so that they may be of other bytes than those used.

Synthesis, preparation, export:

- When the schedule gave an image another generator after a partial run,
  `record_failed_image` builds a conversation its own contract refuses, and the
  `ValidationError` ends the batch (`validationAbort` in `Synthesis`).
  docs/recovery-and-ci.md asks the operator to keep the manifest as it was.
- The run row is looked up by the name of the directory, which the documented
  restore changes, so a restored run takes any configuration; docs/recovery-and-ci.md:37
  says of the restored run "A changed configuration hash is rejected".  For the same reason
  it continues none of the old conversations (their identifiers contain the run
  id) and only shares the recorded model calls and the budget.  A directory that
  keeps its name has one configuration (`RunOfOneConfiguration`).
- A path that does not exist raises `FileNotFoundError` in `_safe_image_path`, which
  is no `ExternalInputError`: ingest ends without output, where
  docs/pipeline/data-and-ingestion.md promises a row in `failures.jsonl`.
- docs/pipeline/generation-and-evaluation.md:50 says "After each image, the command
  atomically rewrites `conversations.jsonl` and its summary".  The rows are appended
  to a file truncated at the start, and the summary is written after the first row,
  after every 100th and on exit, as docs/recovery-and-ci.md:74 has it and `Batch`
  models it (`RowsStable`, `SummaryOnExit`).
- docs/pipeline/selection-and-export.md:109 says "The public dialogue, ratings,
  provenance, and audited selection must all point to the same immutable inputs".
  The code does not enforce it: `export` matches conversations with the audited
  pool by identifier only, so a conversation that was rated or prepared anew, with
  another group for instance, is exported as it is now.  `TrainingIsAudited`
  therefore takes the constraints from the audited pool and status and purpose from
  the exported rows, and no property compares the two.
- An export that is killed leaves newer files, the training file first, beside the
  manifest of the export before it, until it is repeated (`ManifestLast` says what
  can be relied on).  A reader can only tell by comparing the two.
- The profile that forbids an export is that of the configuration file given to
  `export`, not that of the run the conversations are from.
- docs/workflow.md lets only conversations of training images become candidates;
  `make_frozen_pool` keeps all certified ones, and the policy filters.
- An evaluation-only source that fails to decode marks nothing, and joins nothing:
  its copies are grouped as if it were not in the manifest.

## Fairness

- `Synthesis!FairSpec`: weak fairness of `Work` (the worker is sequential code and
  each of its model calls has a timeout) and of `Start` (the operator gives the
  command again, as docs/recovery-and-ci.md describes).  Nothing is assumed of
  `CallRaises`, `BudgetRefused` and `Crash`; they are bounded by the number of
  starts.
- `ModelCalls`, `Review` and `LocalTrain` need none.  `CallsEnd` and `ReviewEnds`
  are variant arguments: there is always a step to take and each step lowers a
  value that cannot fall for ever, so that any scheduler that goes on ends the
  call or the review.
- `Batch!FairSpec`: weak fairness of the main thread and of each worker thread;
  none of starts, kills and interrupts.
- `Preparation!Spec`: weak fairness of each thread (reading and decoding an image
  ends) and of the command as a whole (its coordinator is sequential code).

No strong fairness is used.

## Proofs

The theorems hold for all values of the constants under the named assumptions of
the modules:

- counts are natural numbers, limits positive where the configuration demands it,
  and `None` is no ordinary value (`CountsAssumption`, `SettingsAssumption`,
  `BatchAssumption`, `NoneAssumption`, `StoreAssumption`, `ExportAssumption`,
  `PreparationAssumption`, `LocalTrainAssumption`, `CallsAssumption`, which also
  takes the set of possible prompts to be finite: a prompt is bounded by the
  context of the models);
- `Rubric!CatalogAssumption`: what `resources/rubric_catalog.yaml` says of the six
  items that the code or a property names; `MCRules` evaluates it for the whole
  catalog of that file as well;
- `Review!JudgesAssumption`: what the contracts and the binding of spans leave of
  an answer of a judge (an inventory is a finite set of claims about the answer it
  was asked for, a vote is one of the verdicts), and nothing about how judges
  relate;
- `Review!ConversationsAssumption`: a stored conversation is a finite sequence of
  turns with finitely many requirements each.

Each proof finds an inductive invariant, shows with one lemma per action (or, for
`Batch` and `RunStore`, one per conjunct with a step per action) that steps keep it,
and reads the properties off it.  TLC checked each invariant on the instance of the
run before it was proved.

Sums and concatenations are recursive in the community modules, and induction
theorems that take an operator are out of reach.  What is needed of them is proved
from the recursion itself, with induction stated over sets: a subset of the numbers
up to n that has the first and with each the next has them all, by the least number
outside it (`Reaches` in `ReviewProofs`), and a property of finite subsets that fails
fails for a smallest one (`HasSmallest` in `ModelCallsProofs`).
So `SumFunction` may be changed at one point, and `FlattenSeq`, `SetToSeq` and
`Filtered` have the elements they should, in their order where it matters.

- **SynthesisProofs**: `SynthesisInv` is `TypeOK`, `HistoryFaithful` and what the
  locals have to do with the store: during the loop `turns` is exactly the
  accepted prefix (`LoopMirrorsStore`), a conversation under construction is made
  of that prefix and at most one turn that stopped it (`ResultAccounted`), and
  what is committed or returned is accounted for in the same way.
  `CertifiedIsCommitted` alone is not inductive: it says nothing of the
  conversation still on its way to the store.  Theorems: `TypeCorrect`,
  `HistoryHolds`, `CertifiedHolds`, `SettledHolds`, and `Refinement`: every step
  is a step of `ConversationLedger` or leaves it alone.  `OutcomeInv` builds on
  them: the question in hand differs from the accepted ones from the moment it is
  checked to the moment its turn is saved, what is to be returned is what is in the
  store, and a candidate cut short comes after the artifact of its stop.  From it
  `QuestionsHold`, `ResultHolds` and `StopHolds`.
- **ModelCallsProofs**: `BudgetInv` is `TypeOK` with `BudgetBound`, where
  `TypeOK` includes what each local holds at each step.  Three invariants stand on
  it.  `AccountInv`: what is reserved is the sum of what workers hold and what
  killed processes left.  `CoverInv`: the tokens of all rows are within what was
  spent and what is due, where a call that has recorded its answer and not settled
  yet owes the row's tokens and holds at least as many; that an answer claims no
  more than was asked for is what carries it.  `SerialInv`: in a serial run a call
  past its look-up has found no good answer, and no other worker can have written
  one since.  Theorems: `TypeCorrect`, `BudgetHolds`, `RowsNeverChange`,
  `ReservationsHold`, `RowsPaidFor`, `PaysOnce`, and `EveryStepShrinks`, the half of
  `CallsEnd` that says that each step leaves a call fewer steps.
- **ReviewProofs**: `ReviewInv` says of each local of `_rate_turn` what it holds
  where: the place fits the mode and the family (`PlaceOK`), the turn follows the
  transcript and is repaired at most once (`TurnOK`), claims are of the answer in
  hand and an exact check is made before the rubric is planned (`FoundOK`), each
  question of the plan is decided or still to be asked (`AsksOK`), each turn with a
  status deserves it (`RatedOK`), and the transcript is that of the turns rated so
  far (`SynthesizeOK`, `RateOK`).  `AsksOK` is why acceptance has its grounds: no
  property of the votes alone says that every claim and requirement was asked about;
  that takes the elements of the plan (`PlanAsks`) and, through `aggregate_rating`,
  that an aggregate of PASS means PASS for every gate in it.  `EveryReviewEnds`
  orders turns, repairs, places and questions left lexicographically, one lemma per
  action.  Theorems: all properties of `review`.
- **BatchProofs**: `BatchInv` is `TypeOK`, `SummaryOnExit` and five parts: a done
  future holds the verdict in the store or an error (`FuturesTruthful`), the rows
  are in order and true (`RowsTruthful`), the deque holds exactly the submitted
  jobs whose row is not written (`DequeInOrder`), it is no longer than the window
  and what ended tells where jobs stand (`WindowHeld`), and counted rows, file and
  progress line differ by what the place in the loop says (`CountsKept`).
  Theorems: all properties of `batch_pool` but `BatchEnds`.
- **RunStoreProofs**: `StoreInv` adds to the properties that no file is ever torn,
  that a copy under way holds nothing its source does not, for backup and restore,
  and that the process at work has the configuration of its run.  Theorems:
  `TypeCorrect`, `DurableHolds`, `BackupHolds`, `ConfigurationHolds`.
- **TrainingExportProofs**: `ExportInv` is `TypeOK` and: what is
  bound or about to be bound was audited (`ManifestAudited`), what any export was
  to write was audited and certified (`ExportsAudited`), the files before the
  current one are of the running export (`WritingInOrder`), and no file is older
  than one written after it (`NewestFirst`, from which `ManifestLast` follows).  The lemma
  `AuditSound` carries it: a report that says `MET` implies every constraint of
  the solver.  Theorems: `TypeCorrect` and the three properties of `training_export`.
- **PreparationProofs**: `PreparationInv` is `TypeOK` and: results are where they
  belong and a job is pending as long as one is left (`PoolInv`), the two lists
  hold what was passed, in order (`OrderInv`), no set closed under copies is cut
  by the roots (`RootsSound`), and each key looked up (`KeysJoined`) and each pair
  joined (`NearJoined`) has one root.  Soundness and completeness together give
  that roots are components when the loops end, with no induction over paths: a
  component is defined as what every closed set around an image contains.
  Theorems: all properties of `preparation` but `PreparationEnds`.
- **LocalTrainProofs**: two invariants.  `DestinationInv` is `TypeOK` and: one run
  at most has ever been inside the directory, since only its `mkdir` lets it in
  (`OneInside`), what a run has written follows from where it is (`InOrder`), the
  files are exactly the first outputs of the run inside, with the contents it holds
  (`OutputsTrue`), and after `prepare_sources` every sampled id is an image or a
  failure (`SourcesAccounted`).  `SampleInv` says of each run that its sample is
  finite, within `Count`, made of candidates and better than all others that had a
  file (`SampleOf`), full once the first pass has ended and free of repetitions once
  the second has.  The lemma `InsertionKeepsBest` carries it; that a finite set of
  numbers has a greatest member is proved there from the library's well-founded
  ordering of subsets.  Theorems: `TypeCorrect` and all properties of `local_train`.

`SettledHolds` has no run: that a committed conversation and its turns never change
again is part of what `ConversationLedger` promises, and follows from `Refinement`.

Only model-checked: liveness under fairness (`EventuallyAnswered`, `BatchEnds`,
`PreparationEnds`) and the half of `CallsEnd` that says that a call always has a
step to take, which is about ENABLED: both are out of this prover's reach.  Also the
comparisons of `MCRules` and `MCPlans`, which are about recursive functions on
numbers, texts and schedules for all inputs within bounds.  Every safety invariant
and every other action property that a passing run checks is a theorem.

## Not modelled

- Text, prompts, JSON repair, schema layout, images: data that only reaches the
  models through a small number of decisions.
- Failures of local storage outside model calls and `write_artifact`, which end the
  process like a kill; loss of power; a second Ctrl-C while the first is handled.
- The limits on list lengths in the contracts of inventories, and identifiers that
  are hashes of what the models compare directly.
- The HTTP download of one image with its fallback and limits, decoding and
  embeddings, nvidia-smi and the profile reports: third-party libraries, GPU work
  or read-only reports, without shared state to get wrong.
- Capability probes and fixtures: sequences of independent model calls, and canned
  answers.

## Plan

Done, in this order: `Evaluation`, `ConversationLedger`, `Synthesis`,
`ModelCalls`, `RunReport`, `Batch`, `RunStore`, `Selection`, `TrainingExport`,
`Preparation`, with their instances and proofs; then `Rules`, `Requirements`,
`Rubric`, `Review`, `LocalTrain`, `Planner`, `Placement`, `OpenImages`, with their
instances and the proofs about `LocalTrain`; then the proofs about `Review`, and
those about sums and outcomes in `ModelCalls` and `Synthesis`.

Next:

1. **Composition**: each outcome of `Review` is one that `Synthesis` allows at the
   same place, as a theorem over the two; and from `Batch` to `TrainingExport`, that
   a conversation in the training file is one the run store has certified.
2. **Operators**: what the audit, the quotas and the placement promise, where their
   definitions are no recursion over data.
