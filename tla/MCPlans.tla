--------------------------------- MODULE MCPlans ---------------------------------
(***************************************************************************)
(* The operators of Planner, Placement and OpenImages against reference    *)
(* definitions, over bounded inputs.  TLC evaluates the ASSUMEs before     *)
(* each run of a module that extends this one.                             *)
(***************************************************************************)
EXTENDS Planner, Placement, OpenImages

SmallWeights == UNION {[1 .. n -> 1 .. 4] : n \in 1 .. 3}

\* Quotas exhaust the total, each is its ideal rounded down or up, a heavier name
\* never gets less, and of equal names the first gets more.
ASSUME QuotasAreExact ==
    \A weights \in SmallWeights, total \in 0 .. 9 :
        LET quotas == allocate_quotas(total, weights)
            sum    == SumFunction(weights)
        IN
        /\ SumFunction(quotas) = total
        /\ \A i \in DOMAIN weights :
              /\ quotas[i] * sum > total * weights[i] - sum
              /\ quotas[i] * sum < total * weights[i] + sum
              /\ \A j \in DOMAIN weights :
                    /\ weights[i] > weights[j] => quotas[i] >= quotas[j]
                    /\ weights[i] = weights[j] /\ i < j => quotas[i] - quotas[j] \in {0, 1}

\* A configuration whose quotas are all positive may still leave a language out of
\* a run: a schedule is made for the images at hand, not for target_dialogues.
ASSUME FewerImagesMayStarve ==
    \E weights \in SmallWeights, target \in 1 .. 9, images_at_hand \in 1 .. 9 :
        /\ images_at_hand < target
        /\ LanguagesAreValid(target, weights)
        /\ ~LanguagesAreValid(images_at_hand, weights)

\* Every position falls to one role, to each as many as its weight says; the
\* choices of a turn count are between the minimum and the maximum.
ASSUME PositionsAreShared ==
    /\ \A weights \in SmallWeights : \A i \in DOMAIN weights :
          Cardinality({p \in 0 .. SumFunction(weights) - 1 :
                           allocated_role(p, weights) = i}) = weights[i]
    /\ {planned_turn_count(p) : p \in 0 .. 10} = 2 .. 6

\* The tasks offered are supported ones, no task twice, as many as the limit lets,
\* and whatever the order a scope serves as many eligible tasks as any other, or one
\* more.
ASSUME CandidatesAreSupported ==
    LET needs == <<{"text"}, {"chart"}, {}, {"text", "chart"}>>
        tasks == [i \in 1 .. 4 |-> [id |-> i, family |-> "f", required_capabilities |-> needs[i]]]
    IN
    \A capabilities \in SUBSET {"text", "chart"}, limit \in 1 .. 4, up \in BOOLEAN,
       scopes \in {<<>>, <<"left">>, <<"left", "right">>} :
        LET rank    == [id \in 1 .. 4 |-> IF up THEN id ELSE 4 - id]
            offered == instruction_candidates(tasks, capabilities, scopes, rank, limit)
            fitting == {i \in 1 .. 4 : needs[i] \subseteq capabilities}
            ids     == {offered[k].task_id : k \in DOMAIN offered}
            in(scope) == Cardinality({k \in DOMAIN offered : offered[k].visible_scope = scope})
        IN
        /\ ids \subseteq fitting /\ Cardinality(ids) = Len(offered)
        /\ Len(offered) = limit \/ ids = fitting
        /\ limit = 4 /\ Len(scopes) = 2 => in("left") - in("right") \in {0, 1}
-----------------------------------------------------------------------------
Gpu(index, total) == [index |-> index, total |-> total, free |-> total, idle |-> TRUE]

SmallServers ==
    [size : {1, 2}, share : {40, 50, 90}, weights : {10, 30}, last : BOOLEAN]

SmallMachines ==
    {{Gpu(1, a), Gpu(2, b)} : a, b \in {40, 100}}
        \cup {{Gpu(1, 100), [Gpu(2, 100) EXCEPT !.idle = FALSE]},
              {[Gpu(1, 100) EXCEPT !.free = 95], Gpu(2, 40)}}

\* What the servers placed take of a device, by a field of the server.
Taken(servers, groups, i, of(_)) ==
    MapThenSumSet(LAMBDA k : IF i \in groups[k] THEN of(servers[k]) ELSE 0, DOMAIN servers)

ShareOf(server) == server.share

\* A placement never uses a busy device, nor more of a device than there is, and
\* gives a server as many devices as it asks for, each large enough for its shard.
ASSUME PlacementIsSound ==
    \A gpus \in SmallMachines, s, t \in SmallServers :
        LET servers == <<s, t>>
            groups  == allocate_required_gpus(servers, gpus)
        IN
        /\ Len(groups) = 2
        /\ \A gpu \in gpus :
              /\ Taken(servers, groups, gpu.index, ShareOf) <= 100
              /\ \A k \in 1 .. 2 : gpu.index \in groups[k] =>
                    gpu.idle /\ Share(gpu, servers[k]) * servers[k].size >= servers[k].weights
        /\ \A k \in 1 .. 2 : groups[k] = {} \/ Cardinality(groups[k]) = servers[k].size

\* Two limits of the diagnosis.  It is greedy: it may call a machine not ready that
\* could serve all models.  And free memory is compared with each server's share
\* alone: servers that share a device may take more than is free.
ASSUME PlacementIsGreedy ==
    \E gpus \in SmallMachines, s, t \in SmallServers :
        /\ ~Ready(<<s, t>>, gpus)
        /\ \E g, h \in SUBSET {gpu \in gpus : gpu.idle} :
              /\ Cardinality(g) = s.size /\ Cardinality(h) = t.size /\ g \cap h = {}
              /\ LET whole == [i \in {gpu.index : gpu \in gpus} |-> 100] IN
                 Hosts(g, s, whole) /\ Hosts(h, t, whole)

ASSUME FreeMemoryIsCountedTwice ==
    \E gpus \in SmallMachines, s, t \in SmallServers :
        /\ Ready(<<s, t>>, gpus)
        /\ \E gpu \in gpus :
              LET of(server) == Share(gpu, server) IN
              Taken(<<s, t>>, allocate_required_gpus(<<s, t>>, gpus), gpu.index, of) > gpu.free
-----------------------------------------------------------------------------
ValidationRow(id, provenance) ==
    [id |-> id, provenance |-> provenance, subset |-> "validation", licensed |-> TRUE,
     original_url |-> TRUE, thumbnail_url |-> TRUE]

SmallRows == UNION {[1 .. n -> {ValidationRow(i, "author") : i \in 1 .. 3}] : n \in 0 .. 4}

SmallOutcomes == [available : BOOLEAN, bytes : {"b"}, supported : BOOLEAN]

\* Whatever the order of the rows the sample is the lowest ids.  An id that is
\* listed twice is sampled twice.
ASSUME SampleIgnoresOrder ==
    \A listed \in SmallRows, count \in 1 .. 3 :
        LET sample == deterministic_sample(listed, count) IN
        /\ Len(sample) = IF Len(listed) < count THEN Len(listed) ELSE count
        /\ \A k \in 1 .. Len(sample) - 1 : sample[k].id <= sample[k + 1].id
        /\ \A i \in 1 .. 3 : Cardinality({k \in DOMAIN sample : sample[k].id < i})
               = LET all == Cardinality({k \in DOMAIN listed : listed[k].id < i}) IN
                 IF all < count THEN all ELSE count

\* Without pins: the sources are the first candidates that can be had, never one
\* more than asked for, and each candidate passed over is reported.
ASSUME ReplacementIsOrderly ==
    \A outcome \in [1 .. 3 -> SmallOutcomes], count \in 1 .. 2 :
        LET listed == <<ValidationRow(2, "author"), ValidationRow(3, "author"),
                        ValidationRow(1, "author")>>
            result == download_sample(listed, count, <<>>, outcome)
            tried  == Range(result.sources) \cup {result.failures[k].id : k \in DOMAIN result.failures}
        IN
        /\ result.status = "OK" <=> Len(result.sources) = count
        /\ \A i \in tried : 1 .. i \subseteq tried
        /\ \A i \in tried : i \in Range(result.sources) <=> outcome[i].available
        /\ result.status = "CONTENT_TYPE" =>
              outcome[Cardinality(tried) + 1].available
              /\ ~outcome[Cardinality(tried) + 1].supported

\* With pins: all of them, byte for byte and with their provenance, or an error.
ASSUME PinsAreKept ==
    \A outcome \in [1 .. 2 -> [available : BOOLEAN, bytes : {"b", "c"}, supported : BOOLEAN]],
       author \in {"author", "somebody"} :
        LET pinned == <<[id |-> 2, provenance |-> "author", raw_sha256 |-> "b"],
                        [id |-> 1, provenance |-> "author", raw_sha256 |-> "b"]>>
            result == download_sample(<<ValidationRow(1, author), ValidationRow(2, "author")>>,
                                      2, pinned, outcome)
        IN result.status = "OK" <=>
              /\ author = "author"
              /\ \A i \in 1 .. 2 : outcome[i] = [available |-> TRUE, bytes |-> "b",
                                                 supported |-> TRUE]
================================================================================
