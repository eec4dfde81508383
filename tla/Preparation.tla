------------------------------ MODULE Preparation ------------------------------
(***************************************************************************)
(* The ingest command (operations.prepare_sources, images.py): a pool of   *)
(* threads turns each source of a manifest into an image or a failure, the *)
(* coordinator puts the results in source order, joins copies to visual    *)
(* groups and gives each image its purpose and its split.                  *)
(*                                                                         *)
(* Sources are numbered in the order of their identifiers, and an image    *)
(* goes by the number of its source (one source yields one image id).      *)
(* Decoding is a field of the manifest: what comes of a source does not    *)
(* depend on when it is read.                                              *)
(***************************************************************************)
EXTENDS Integers, Sequences, FiniteSets

CONSTANTS
    N,          \* how many sources the manifest has
    Workers,    \* size of the pool
    Manifests,  \* records with the fields view, purpose, declared, near
    Pixels,     \* pixel hashes
    SourceGroups,
    NotYet,
    assign_split(_)  \* the split of a training group: a hash, unknown

Index == 1 .. N
Splits == {"train", "development", "test"}
Purposes == {"training", "evaluation"}

\* What comes of a source: an image with these pixels, a failure that is kept, or
\* an exception that is none of ExternalInputError (a missing file is one).
Outcomes == Pixels \cup {"failure", "exception"}

\* What makes two images copies of each other: equal values of by_pixel, of
\* by_source_group.
Key == ({"pixel"} \X Pixels) \cup ({"group"} \X SourceGroups)

Keys(content, i) ==
    {<<"pixel", content.view[i]>>} \cup {<<"group", g>> : g \in content.declared[i]}

ASSUME PreparationAssumption ==
    /\ N \in Nat /\ Workers \in Nat \ {0}
    /\ "failure" \notin Pixels /\ "exception" \notin Pixels
    /\ \A content \in Manifests :
          /\ content.view \in [Index -> Outcomes]
          /\ content.purpose \in [Index -> Purposes]
          /\ content.declared \in [Index -> SUBSET SourceGroups]
          /\ content.near \subseteq (Index \X Index)
    /\ \A group \in SUBSET Index : assign_split(group) \in Splits

VARIABLES
    manifest,
    next,        \* iterator over the jobs: the next source to submit
    pending,     \* submitted and not yet collected
    finished,    \* those of them a thread is done with
    completed,   \* what wait returned and the loop has yet to collect
    results,     \* at each index the source whose result is there, or 0
    at,          \* cursor of the loops over sources and images
    images,      \* accepted, in the order of the results
    failures,
    keys,        \* keys of the image at the cursor that were not looked up yet
    representative,  \* by_pixel and by_source_group; 0: absent
    pairs,       \* near pairs not yet joined
    roots,       \* root of each image in the disjoint sets
    prepared,    \* the prepared data set: NotYet, or a record
    pc

poolVars == <<next, pending, finished, completed, results>>
groupVars == <<keys, representative, pairs, roots>>
vars == <<manifest, poolVars, at, images, failures, groupVars, prepared, pc>>

Accepted == {i \in Index : manifest.view[i] \in Pixels}
Seen == {images[k] : k \in DOMAIN images}

TypeOK ==
    /\ manifest \in Manifests
    /\ next \in 1 .. N + 1
    /\ pending \subseteq Index /\ Cardinality(pending) <= Workers
    /\ finished \subseteq pending /\ completed \subseteq finished
    /\ results \in [Index -> 0 .. N]
    /\ at \in 1 .. N + 1
    /\ images \in Seq(Index) /\ failures \in Seq(Index)
    /\ keys \subseteq Key
    /\ representative \in [Key -> 0 .. N]
    /\ pairs \subseteq manifest.near
    /\ roots \in [Index -> Index]
    /\ IF pc = "done"
         THEN prepared \in [images : Seq(Index), failures : Seq(Index),
                            group : [Index -> SUBSET Index],
                            purpose : [Index -> Purposes],
                            split : [Index -> Splits \cup {"evaluation"}]]
         ELSE prepared = NotYet
    /\ pc \in {"wait", "collect", "unwind", "order", "embed", "link", "near",
               "done", "failed"}

Init ==
    /\ manifest \in Manifests
    /\ pending = {i \in Index : i <= Workers}
    /\ next = IF Workers < N THEN Workers + 1 ELSE N + 1
    /\ finished = {} /\ completed = {}
    /\ results = [i \in Index |-> 0]
    /\ at = 1
    /\ images = <<>> /\ failures = <<>>
    /\ keys = {} /\ representative = [key \in Key |-> 0]
    /\ pairs = {} /\ roots = [i \in Index |-> i]
    /\ prepared = NotYet
    /\ pc = "wait"
-----------------------------------------------------------------------------
\* A thread is done with its source.
Process(i) ==
    /\ i \in pending \ finished
    /\ finished' = finished \cup {i}
    /\ UNCHANGED <<manifest, next, pending, completed, results, at, images, failures,
                   groupVars, prepared, pc>>

\* Slip: waits until every thread has something.
AwaitedAll == Cardinality(finished) = Workers

\* wait(..., FIRST_COMPLETED) returns all that are done by then.
Awaited == finished # {}

Wait ==
    /\ pc = "wait" /\ pending # {}
    /\ Awaited
    /\ completed' = finished
    /\ pc' = "collect"
    /\ UNCHANGED <<manifest, next, pending, finished, results, at, images, failures,
                   groupVars, prepared>>

\* Slip: where the results are appended, as in a serial loop.
PlaceNext(i) == Cardinality({j \in Index : results[j] # 0}) + 1

Place(i) == i

\* One job for each that was collected.
Refill == {i \in {next} : i <= N}

AfterCollect(left) == IF left = {} THEN "wait" ELSE "collect"

Collect(i) ==
    /\ pc = "collect" /\ i \in completed
    /\ manifest.view[i] # "exception"
    /\ results' = [results EXCEPT ![Place(i)] = i]
    /\ pending' = (pending \ {i}) \cup Refill
    /\ next' = IF next <= N THEN next + 1 ELSE next
    /\ finished' = finished \ {i}
    /\ completed' = completed \ {i}
    /\ pc' = AfterCollect(completed')
    /\ UNCHANGED <<manifest, at, images, failures, groupVars, prepared>>

\* future.result() raises: the pool is left, which waits for its threads.
Raise(i) ==
    /\ pc = "collect" /\ i \in completed
    /\ manifest.view[i] = "exception"
    /\ pending' = pending \ {i}
    /\ finished' = finished \ {i}
    /\ completed' = {}
    /\ pc' = "unwind"
    /\ UNCHANGED <<manifest, next, results, at, images, failures, groupVars, prepared>>

Unwound ==
    /\ pc = "unwind" /\ pending = finished
    /\ pc' = "failed"
    /\ UNCHANGED <<manifest, poolVars, at, images, failures, groupVars, prepared>>

Collected ==
    /\ pc = "wait" /\ pending = {}
    /\ pc' = "order"
    /\ UNCHANGED <<manifest, poolVars, at, images, failures, groupVars, prepared>>

\* for index in range(len(ordered)): images to one list, failures to another.
Order ==
    /\ pc = "order" /\ at <= N
    /\ IF manifest.view[results[at]] \in Pixels
         THEN images' = Append(images, results[at]) /\ UNCHANGED failures
         ELSE failures' = Append(failures, results[at]) /\ UNCHANGED images
    /\ at' = at + 1
    /\ UNCHANGED <<manifest, poolVars, groupVars, prepared, pc>>

Ordered ==
    /\ pc = "order" /\ at = N + 1
    /\ at' = 1
    /\ pc' = "embed"
    /\ UNCHANGED <<manifest, poolVars, images, failures, groupVars, prepared>>

KeysAt(position) ==
    IF position <= Len(images) THEN Keys(manifest, images[position]) ELSE {}

\* The embedder runs over the images (or there is none, and no near pairs); a
\* vector that is empty, zero, not finite or too long ends the command.
Embed ==
    /\ pc = "embed"
    /\ \/ /\ pc' = "link"
          /\ keys' = KeysAt(1)
          /\ pairs' = {pair \in manifest.near : {pair[1], pair[2]} \subseteq Seen}
       \/ pc' = "failed" /\ UNCHANGED <<keys, pairs>>
    /\ UNCHANGED <<manifest, poolVars, at, images, failures, representative, roots,
                   prepared>>

\* Slip: the image alone goes over, not the set it was in.
MergedOne(left, right, root) == [roots EXCEPT ![left] = root, ![right] = root]

\* _DisjointSet.union: one of the two roots becomes that of both sets.  It is the
\* smaller identifier, which is a hash: either.
Merged(left, right, root) ==
    [i \in Index |-> IF roots[i] \in {roots[left], roots[right]} THEN root ELSE roots[i]]

Union(left, right) ==
    \E root \in {roots[left], roots[right]} : roots' = Merged(left, right, root)

\* group_visual_sources, first loop: the image joins the one that had the key
\* first, or has it first itself.  (Its pixels are looked up before its source
\* groups; the order makes no difference and is left open.)
Link(key) ==
    /\ pc = "link" /\ key \in keys
    /\ IF representative[key] # 0
         THEN Union(images[at], representative[key]) /\ UNCHANGED representative
         ELSE representative' = [representative EXCEPT ![key] = images[at]]
              /\ UNCHANGED roots
    /\ keys' = keys \ {key}
    /\ UNCHANGED <<manifest, poolVars, at, images, failures, pairs, prepared, pc>>

NextImage ==
    /\ pc = "link" /\ keys = {} /\ at <= Len(images)
    /\ at' = at + 1
    /\ keys' = KeysAt(at + 1)
    /\ UNCHANGED <<manifest, poolVars, images, failures, representative, pairs, roots,
                   prepared, pc>>

Linked ==
    /\ pc = "link" /\ at = Len(images) + 1
    /\ pc' = "near"
    /\ UNCHANGED <<manifest, poolVars, at, images, failures, groupVars, prepared>>

\* Second loop, over the pairs whose cosine reaches the threshold; the others
\* change nothing.  The order is that of the identifiers: any.
Join(pair) ==
    /\ pc = "near" /\ pair \in pairs
    /\ Union(pair[1], pair[2])
    /\ pairs' = pairs \ {pair}
    /\ UNCHANGED <<manifest, poolVars, at, images, failures, keys, representative,
                   prepared, pc>>

\* The group identifier is the hash of its sorted members: the set itself.
Group(i) == {j \in Seen : roots[j] = roots[i]}

\* Slip: peers that come earlier in the manifest.
PurposeOfEarlier(i) ==
    IF \E peer \in {j \in Seen : j <= i} : manifest.purpose[peer] = "evaluation"
                         /\ Group(peer) = Group(i)
      THEN "evaluation" ELSE manifest.purpose[i]

Purpose(i) ==
    IF \E peer \in Seen : manifest.purpose[peer] = "evaluation"
                         /\ Group(peer) = Group(i)
      THEN "evaluation" ELSE manifest.purpose[i]

Split(i) == IF Purpose(i) = "evaluation" THEN "evaluation" ELSE assign_split(Group(i))

\* (The functions are of use for the images only.)
Prepare ==
    /\ pc = "near" /\ pairs = {}
    /\ prepared' = [images |-> images, failures |-> failures,
                    group |-> [i \in Index |-> Group(i)],
                    purpose |-> [i \in Index |-> Purpose(i)],
                    split |-> [i \in Index |-> Split(i)]]
    /\ pc' = "done"
    /\ UNCHANGED <<manifest, poolVars, at, images, failures, groupVars>>

Next ==
    \/ \E i \in Index : Process(i) \/ Collect(i) \/ Raise(i)
    \/ Wait \/ Unwound \/ Collected \/ Order \/ Ordered \/ Embed
    \/ \E key \in keys : Link(key)
    \/ NextImage \/ Linked
    \/ \E pair \in pairs : Join(pair)
    \/ Prepare

\* Threads that were given a source come to an end, and so does the coordinator.
Fairness ==
    /\ \A i \in Index : WF_vars(Process(i))
    /\ WF_vars(Next)

Spec == Init /\ [][Next]_vars /\ Fairness
-----------------------------------------------------------------------------
\* Two images are copies of each other: equal pixels, a common source group, or
\* embeddings that are near enough.
Copies(a, b) ==
    \/ Keys(manifest, a) \cap Keys(manifest, b) # {}
    \/ <<a, b>> \in manifest.near \/ <<b, a>> \in manifest.near

\* A set of accepted images that no copy leaves.
Closed(set) == \A a \in set : \A b \in Accepted : Copies(a, b) => b \in set

Increasing(s) == \A k, l \in DOMAIN s : k < l => s[k] < s[l]

Elements(s) == {s[k] : k \in DOMAIN s}

\* Whatever order the threads finish in, each source is reported once, as an image
\* or as a failure, in source order ("results retain source order", prepare_sources).
EachSourceReported ==
    prepared # NotYet =>
        /\ Increasing(prepared.images) /\ Increasing(prepared.failures)
        /\ Elements(prepared.images) = Accepted
        /\ Elements(prepared.failures) = Index \ Accepted

\* The visual group of an image is what can be reached from it over copies, in
\* whatever order pairs are joined ("Group exact, declared, and SSCD-near sources").
GroupsAreComponents ==
    prepared # NotYet =>
        \A a, b \in Accepted :
            b \in prepared.group[a] <=>
                \A set \in SUBSET Accepted : a \in set /\ Closed(set) => b \in set

\* No copies end on different sides of the training boundary or in different
\* splits, and no evaluation-only image or copy of one, direct or over others, is
\* left for training (docs/data.md, "If any member of a visual group is evaluation-only").
NoCopyCrossesSplits ==
    prepared # NotYet =>
        /\ \A a, b \in Accepted :
              Copies(a, b) => /\ prepared.purpose[a] = prepared.purpose[b]
                              /\ prepared.split[a] = prepared.split[b]
        /\ \A a \in Accepted :
              /\ manifest.purpose[a] = "evaluation" => prepared.purpose[a] = "evaluation"
              /\ prepared.split[a] = "evaluation" <=> prepared.purpose[a] = "evaluation"

\* However threads and exceptions fall, the command comes to an end.
PreparationEnds == <>(pc \in {"done", "failed"})
================================================================================
