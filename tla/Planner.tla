--------------------------------- MODULE Planner ---------------------------------
(***************************************************************************)
(* Deterministic planning (config.allocate_quotas, planner.py): how many   *)
(* conversations each language and generator gets, in which order, how     *)
(* many turns a conversation has and which tasks are offered.  Operators   *)
(* only.  Names are numbered in the order sorted() gives them, and what a  *)
(* hash decides is a parameter: a position or an order.                    *)
(***************************************************************************)
EXTENDS Integers, FiniteSets, SequencesExt

\* allocate_quotas: largest remainders.  A weight is an integer: fractions with a
\* common denominator give the same ideals.
IdealFloor(total, weights, i) == (total * weights[i]) \div SumFunction(weights)

IdealRest(total, weights, i) == (total * weights[i]) % SumFunction(weights)

\* Does i get its share of what the floors leave before j does?
Before(total, weights, i, j) ==
    \/ IdealRest(total, weights, i) > IdealRest(total, weights, j)
    \/ IdealRest(total, weights, i) = IdealRest(total, weights, j) /\ i < j

allocate_quotas(total, weights) ==
    LET floors    == [i \in DOMAIN weights |-> IdealFloor(total, weights, i)]
        remainder == total - SumFunction(floors)
        place(i)  == Cardinality({j \in DOMAIN weights : Before(total, weights, j, i)})
    IN [i \in DOMAIN weights |-> IF place(i) < remainder THEN floors[i] + 1 ELSE floors[i]]

\* DataConfig.validate_languages
LanguagesAreValid(total, weights) ==
    \A i \in DOMAIN weights : allocate_quotas(total, weights)[i] > 0

\* exact_schedule: some order of as many occurrences as the quotas say.
IsExactSchedule(schedule, total, weights) ==
    /\ Len(schedule) = total
    /\ \A i \in DOMAIN weights :
          Cardinality({k \in DOMAIN schedule : schedule[k] = i})
              = allocate_quotas(total, weights)[i]

\* allocated_role: the role at a position below the sum of the weights.
allocated_role(position, allocation) ==
    CHOOSE i \in DOMAIN allocation :
        /\ position < SumFunction([j \in 1 .. i |-> allocation[j]])
        /\ position >= SumFunction([j \in 1 .. i - 1 |-> allocation[j]])

\* planned_turn_count: the choice at a position.
TurnChoices == <<2, 2, 2, 2, 3, 3, 3, 3, 4, 5, 6>>

planned_turn_count(position) == TurnChoices[position + 1]

\* instruction_candidates: the tasks that the capabilities support, each with the
\* next of the scopes in turn, in the order of a hash, the `rank` of each task.
SupportedTasks(tasks, capabilities) ==
    SelectSeq(tasks, LAMBDA task : task.required_capabilities \subseteq capabilities)

instruction_candidates(tasks, capabilities, scopes, rank, limit) ==
    LET eligible == SupportedTasks(tasks, capabilities)
        from     == IF scopes = <<>> THEN <<"the visible image">> ELSE scopes
        all      == [k \in DOMAIN eligible |->
                        [task_id |-> eligible[k].id, family |-> eligible[k].family,
                         visible_scope |-> from[((k - 1) % Len(from)) + 1]]]
        sorted   == SortSeq(all, LAMBDA c, d : rank[c.task_id] < rank[d.task_id])
    IN SubSeq(sorted, 1, IF Len(sorted) < limit THEN Len(sorted) ELSE limit)
================================================================================
