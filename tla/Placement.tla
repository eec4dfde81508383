-------------------------------- MODULE Placement --------------------------------
(***************************************************************************)
(* Whether the machine can serve the models of a configuration (doctor.py: *)
(* _allocate_required_gpus and the verdict of diagnose).  Operators only.  *)
(* A device is [index, total, free, idle], a server stands for the roles   *)
(* that name one endpoint: [size, share, weights, last], its tensor        *)
(* parallel size, the share of each device's memory it takes (percent),    *)
(* the estimated size of its weights, and whether the binary fractions of  *)
(* the code let it have exactly what other servers left of a device.       *)
(***************************************************************************)
EXTENDS Integers, FiniteSets, SequencesExt

\* The memory a server takes of a device.
Share(gpu, server) == (gpu.total * server.share) \div 100

PerShard(server) == (server.weights + server.size - 1) \div server.size

\* Can every device of the group host a shard?
Hosts(group, server, remaining) ==
    \A gpu \in group :
        /\ \/ remaining[gpu.index] > server.share
           \/ remaining[gpu.index] = server.share /\ (server.last \/ server.share = 100)
        /\ gpu.free >= Share(gpu, server)
        /\ Share(gpu, server) >= PerShard(server)

EligibleGroups(gpus, server, remaining) ==
    {group \in kSubset(server.size, {gpu \in gpus : gpu.idle}) : Hosts(group, server, remaining)}

Left(group, remaining) == MapThenSumSet(LAMBDA gpu : remaining[gpu.index], group)

\* Tuples of indices in ascending order, compared as Python does.
IndexBefore(g, h) ==
    LET lowest == CHOOSE i \in {x.index : x \in (g \ h) \cup (h \ g)} :
                      \A x \in (g \ h) \cup (h \ g) : i <= x.index
    IN g # h /\ lowest \in {x.index : x \in g}

\* The fullest group first, then the lowest indices.
Preferred(groups, remaining) ==
    CHOOSE g \in groups : \A h \in groups :
        \/ Left(g, remaining) < Left(h, remaining)
        \/ Left(g, remaining) = Left(h, remaining) /\ (g = h \/ IndexBefore(g, h))

\* One server after another, the largest model first; a server without a group
\* gets none, and the next is tried all the same.
Place(state, server, gpus) ==
    LET groups == EligibleGroups(gpus, server, state.remaining) IN
    IF groups = {}
    THEN [state EXCEPT !.allocations = Append(@, {})]
    ELSE LET chosen == {gpu.index : gpu \in Preferred(groups, state.remaining)} IN
         [remaining |-> [i \in DOMAIN state.remaining |->
                            IF i \in chosen THEN state.remaining[i] - server.share
                                            ELSE state.remaining[i]],
          allocations |-> Append(state.allocations, chosen)]

\* Servers come sorted by size of the model, largest first.
allocate_required_gpus(servers, gpus) ==
    FoldLeft(LAMBDA state, server : Place(state, server, gpus),
             [remaining |-> [i \in {gpu.index : gpu \in gpus} |-> 100],
              allocations |-> <<>>],
             servers).allocations

\* diagnose without server checks, revisions being pinned.
Ready(servers, gpus) == {} \notin Range(allocate_required_gpus(servers, gpus))
================================================================================
