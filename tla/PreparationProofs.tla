--------------------------- MODULE PreparationProofs ---------------------------
(***************************************************************************)
(* For any number of sources and workers and any manifests: each source is *)
(* reported once and in order, the visual groups are the components of the *)
(* copy relation, and no copies are parted by a split.                     *)
(***************************************************************************)
EXTENDS Preparation, FiniteSetTheorems, TLAPS

\* Results are where they belong, and jobs are pending as long as some are left.
PoolInv ==
    /\ \A i \in Index : results[i] \in {0, i}
    /\ \A i \in Index : results[i] = i => manifest.view[i] # "exception"
    /\ pc \in {"wait", "collect"} =>
          /\ \A i \in Index : i < next => i \in pending \/ results[i] = i
          /\ next <= N => pending # {}
          /\ pending \subseteq 1 .. (next - 1)
    /\ pc \in {"order", "embed", "link", "near", "done"} =>
          \A i \in Index : results[i] = i

\* `sequence` holds the members of `set` that are below `bound`, in order.
Lists(sequence, set, bound) ==
    Increasing(sequence) /\ Elements(sequence) = {i \in set : i < bound}

\* How far the two lists have come.
Reached ==
    CASE pc \in {"wait", "collect", "unwind"} -> 1
      [] pc = "order" -> at
      [] OTHER -> N + 1

OrderInv ==
    pc # "failed" =>
        /\ Lists(images, Accepted, Reached)
        /\ Lists(failures, Index \ Accepted, Reached)
        /\ Len(images) + Len(failures) = Reached - 1
        /\ pc \in {"wait", "collect", "embed"} => at = 1

\* Sound: no set that copies do not leave parts what the roots join.
RootsSound ==
    \A set \in SUBSET Accepted : Closed(set) =>
        \A i, j \in Index : roots[i] = roots[j] => (i \in set <=> j \in set)

\* The keys of an image that were looked up.
LookedUp(k) ==
    IF pc = "near" \/ k < at THEN Keys(manifest, images[k])
    ELSE IF k = at THEN Keys(manifest, images[k]) \ keys ELSE {}

\* Complete: what has been looked up or joined has one root.
KeysJoined ==
    /\ \A key \in Key : representative[key] # 0 =>
          representative[key] \in Accepted /\ key \in Keys(manifest, representative[key])
    /\ \A k \in 1 .. Len(images) : \A key \in LookedUp(k) :
          representative[key] # 0 /\ roots[images[k]] = roots[representative[key]]

NearJoined ==
    /\ \A pair \in pairs : pair[1] \in Accepted /\ pair[2] \in Accepted
    /\ \A pair \in manifest.near :
          pair[1] \in Accepted /\ pair[2] \in Accepted =>
              pair \in pairs \/ roots[pair[1]] = roots[pair[2]]

GroupInv ==
    /\ pc \in {"wait", "collect", "order", "embed"} =>
          roots = [i \in Index |-> i] /\ representative = [key \in Key |-> 0]
    /\ pc = "link" => keys \subseteq KeysAt(at)
    /\ pc = "link" /\ keys # {} => at <= Len(images)
    /\ pc \in {"link", "near"} => RootsSound /\ KeysJoined /\ NearJoined

Reports == EachSourceReported /\ GroupsAreComponents /\ NoCopyCrossesSplits

PreparationInv == TypeOK /\ PoolInv /\ OrderInv /\ GroupInv /\ Reports

-----------------------------------------------------------------------------
LEMMA ManifestFacts ==
    ASSUME TypeOK
    PROVE  /\ manifest.view \in [Index -> Outcomes]
           /\ manifest.purpose \in [Index -> Purposes]
           /\ manifest.declared \in [Index -> SUBSET SourceGroups]
           /\ manifest.near \subseteq (Index \X Index)
  BY PreparationAssumption DEF TypeOK

LEMMA KeysTyped ==
    ASSUME TypeOK, NEW i \in Accepted
    PROVE  i \in Index /\ Keys(manifest, i) \subseteq Key
  <1>1. manifest.view[i] \in Pixels /\ i \in Index
    BY DEF Accepted
  <1>2. manifest.declared[i] \subseteq SourceGroups
    BY <1>1, ManifestFacts
  <1> QED  BY <1>1, <1>2 DEF Keys, Key

\* What Append does to a list in order.
LEMMA AppendFacts ==
    ASSUME NEW s \in Seq(Index), NEW x \in Index
    PROVE  /\ Append(s, x) \in Seq(Index)
           /\ Elements(Append(s, x)) = Elements(s) \cup {x}
           /\ Increasing(s) /\ (\A y \in Elements(s) : y < x) => Increasing(Append(s, x))
  <1> DEFINE t == Append(s, x)
             n == Len(s)
  <1>1. /\ t \in Seq(Index) /\ n \in Nat /\ Len(t) = n + 1
        /\ DOMAIN s = 1 .. n /\ DOMAIN t = 1 .. (n + 1)
        /\ \A k \in 1 .. n : t[k] = s[k] /\ s[k] \in Index
        /\ t[n + 1] = x
    OBVIOUS
  <1> HIDE DEF t, n
  <1>2. Elements(t) = Elements(s) \cup {x}
    <2>1. Elements(t) \subseteq Elements(s) \cup {x}
      <3> SUFFICES ASSUME NEW k \in 1 .. (n + 1) PROVE t[k] \in Elements(s) \cup {x}
        BY <1>1 DEF Elements
      <3>1. k = n + 1 \/ k \in 1 .. n
        BY <1>1
      <3> QED  BY <3>1, <1>1 DEF Elements
    <2>2. Elements(s) \subseteq Elements(t)
      <3> SUFFICES ASSUME NEW k \in 1 .. n PROVE s[k] \in Elements(t)
        BY <1>1 DEF Elements
      <3>1. k \in 1 .. (n + 1) /\ t[k] = s[k]
        BY <1>1
      <3> QED  BY <3>1, <1>1 DEF Elements
    <2>3. x \in Elements(t)
      <3>1. n + 1 \in 1 .. (n + 1)
        BY <1>1
      <3> QED  BY <3>1, <1>1 DEF Elements
    <2> QED  BY <2>1, <2>2, <2>3
  <1>3. ASSUME Increasing(s), \A y \in Elements(s) : y < x PROVE Increasing(t)
    <2> SUFFICES ASSUME NEW k \in 1 .. (n + 1), NEW l \in 1 .. (n + 1), k < l
                 PROVE  t[k] < t[l]
      BY <1>1 DEF Increasing
    <2>1. k \in 1 .. n /\ t[k] = s[k] /\ s[k] \in Elements(s)
      BY <1>1 DEF Elements
    <2>2. CASE l = n + 1
      BY <2>1, <2>2, <1>1, <1>3
    <2>3. CASE l \in 1 .. n
      BY <2>1, <2>3, <1>1, <1>3 DEF Increasing
    <2> QED  BY <2>2, <2>3, <1>1
  <1> QED  BY <1>1, <1>2, <1>3 DEF t

\* A union keeps roots among the images.
LEMMA UnionTyped ==
    ASSUME roots \in [Index -> Index], NEW l \in Index, NEW r \in Index, Union(l, r)
    PROVE  roots' \in [Index -> Index]
  BY DEF Union, Merged

\* The window does not grow.
LEMMA WindowKept ==
    ASSUME TypeOK, NEW i \in pending
    PROVE  /\ Cardinality((pending \ {i}) \cup Refill) <= Workers
           /\ Cardinality(pending \ {i}) <= Workers
           /\ (pending \ {i}) \cup Refill \subseteq Index
  <1>1. N \in Nat /\ pending \subseteq 1 .. N /\ Workers \in Nat /\ Cardinality(pending) <= Workers
    BY PreparationAssumption DEF TypeOK, Index
  <1>2. IsFiniteSet(pending)
    <2>1. IsFiniteSet(1 .. N)
      BY <1>1, FS_Interval
    <2> QED  BY <1>1, <2>1, FS_Subset
  <1>3. IsFiniteSet(pending \ {i}) /\ Cardinality(pending \ {i}) = Cardinality(pending) - 1
    BY <1>2, FS_RemoveElement
  <1>4. Cardinality(pending) \in Nat /\ Cardinality(pending \ {i}) \in Nat
    BY <1>2, <1>3, FS_CardinalityType
  <1>5. (pending \ {i}) \cup Refill \in {pending \ {i}, (pending \ {i}) \cup {next}}
    BY DEF Refill
  <1>6. Cardinality((pending \ {i}) \cup {next}) <= Cardinality(pending \ {i}) + 1
    BY <1>3, <1>4, FS_AddElement
  <1>7. Refill \subseteq Index
    BY DEF Refill, TypeOK, Index
  <1>8. Cardinality((pending \ {i}) \cup {next}) \in Nat
    BY <1>3, FS_AddElement, FS_CardinalityType
  <1>9. Cardinality((pending \ {i}) \cup Refill) <= Workers
    <2>1. CASE (pending \ {i}) \cup Refill = pending \ {i}
      BY <2>1, <1>1, <1>3, <1>4
    <2>2. CASE (pending \ {i}) \cup Refill = (pending \ {i}) \cup {next}
      BY <2>2, <1>1, <1>3, <1>4, <1>6, <1>8
    <2> QED  BY <1>5, <2>1, <2>2
  <1> QED  BY <1>1, <1>3, <1>4, <1>7, <1>9 DEF Index

LEMMA TypeInit == Init => TypeOK
  <1> SUFFICES ASSUME Init PROVE TypeOK
    OBVIOUS
  <1>1. N \in Nat /\ Workers \in Nat \ {0}
    BY PreparationAssumption
  <1>2. pending \subseteq 1 .. Workers /\ pending \subseteq Index
    BY DEF Init, Index
  <1>3. IsFiniteSet(1 .. Workers) /\ Cardinality(1 .. Workers) = Workers
    BY <1>1, FS_Interval
  <1>4. Cardinality(pending) <= Workers
    BY <1>2, <1>3, FS_Subset
  <1>5. next \in 1 .. N + 1 /\ 1 \in 1 .. N + 1
    BY <1>1 DEF Init
  <1>6. results \in [Index -> 0 .. N] /\ representative \in [Key -> 0 .. N]
    BY <1>1 DEF Init
  <1>7. images \in Seq(Index) /\ failures \in Seq(Index)
    BY DEF Init
  <1>8. roots \in [Index -> Index] /\ pairs \subseteq manifest.near /\ keys \subseteq Key
    BY DEF Init
  <1>9. finished \subseteq pending /\ completed \subseteq finished /\ manifest \in Manifests
    BY DEF Init
  <1>10. pc = "wait" /\ prepared = NotYet /\ at = 1
    BY DEF Init
  <1> QED  BY <1>2, <1>4, <1>5, <1>6, <1>7, <1>8, <1>9, <1>10 DEF TypeOK

\* The types of a prepared data set.
LEMMA RecordTyped ==
    ASSUME TypeOK, Prepare
    PROVE  prepared' \in [images : Seq(Index), failures : Seq(Index),
                          group : [Index -> SUBSET Index],
                          purpose : [Index -> Purposes],
                          split : [Index -> Splits \cup {"evaluation"}]]
  <1> DEFINE group == [i \in Index |-> Group(i)]
             purpose == [i \in Index |-> Purpose(i)]
             split == [i \in Index |-> Split(i)]
  <1>1. Seen \subseteq Index
    BY DEF TypeOK, Seen
  <1>2. \A i \in Index : Group(i) \in SUBSET Index
    BY <1>1 DEF Group
  <1>3. group \in [Index -> SUBSET Index]
    BY <1>2
  <1>4. \A i \in Index : Purpose(i) \in Purposes
    BY ManifestFacts DEF Purpose, Purposes
  <1>5. purpose \in [Index -> Purposes]
    BY <1>4
  <1>6. \A i \in Index : Split(i) \in Splits \cup {"evaluation"}
    BY <1>2, PreparationAssumption DEF Split
  <1>7. split \in [Index -> Splits \cup {"evaluation"}]
    BY <1>6
  <1>8. images \in Seq(Index) /\ failures \in Seq(Index)
    BY DEF TypeOK
  <1>9. prepared' = [images |-> images, failures |-> failures, group |-> group,
                     purpose |-> purpose, split |-> split]
    BY DEF Prepare
  <1> HIDE DEF group, purpose, split
  <1> QED  BY <1>3, <1>5, <1>7, <1>8, <1>9

LEMMA TypeStep == PreparationInv /\ [Next]_vars => TypeOK'
  <1> SUFFICES ASSUME PreparationInv, [Next]_vars PROVE TypeOK'
    OBVIOUS
  <1>0. TypeOK /\ PoolInv /\ GroupInv /\ OrderInv
    BY DEF PreparationInv
  <1>n. N \in Nat
    BY PreparationAssumption
  <1>1. ASSUME NEW i \in Index, Process(i) PROVE TypeOK'
    BY <1>0, <1>1 DEF TypeOK, Process, groupVars
  <1>2. ASSUME NEW i \in Index, Collect(i) PROVE TypeOK'
    <2>1. i \in pending /\ pending' = (pending \ {i}) \cup Refill
      BY <1>0, <1>2 DEF TypeOK, Collect
    <2>2. Cardinality(pending') <= Workers /\ pending' \subseteq Index
      BY <1>0, <2>1, WindowKept
    <2>3. next' \in 1 .. N + 1
      BY <1>0, <1>2, <1>n DEF TypeOK, Collect
    <2>4. results' \in [Index -> 0 .. N]
      BY <1>0, <1>2, <1>n DEF TypeOK, Collect, Place, Index
    <2>5. finished' \subseteq pending' /\ completed' \subseteq finished'
      BY <1>0, <1>2 DEF TypeOK, Collect
    <2>6. pc \in {"collect"} /\ pc' \in {"wait", "collect"}
      BY <1>2 DEF Collect, AfterCollect
    <2>7. UNCHANGED <<manifest, at, images, failures, keys, representative, pairs, roots,
                      prepared>>
      BY <1>2 DEF Collect, groupVars
    <2> QED  BY <1>0, <2>2, <2>3, <2>4, <2>5, <2>6, <2>7 DEF TypeOK
  <1>3. ASSUME NEW i \in Index, Raise(i) PROVE TypeOK'
    <2>1. i \in pending /\ pending' = pending \ {i}
      BY <1>0, <1>3 DEF TypeOK, Raise
    <2>2. Cardinality(pending') <= Workers
      BY <1>0, <2>1, WindowKept
    <2> QED  BY <1>0, <1>3, <2>1, <2>2 DEF TypeOK, Raise, groupVars
  <1>4. CASE Wait
    BY <1>0, <1>4 DEF TypeOK, Wait, groupVars
  <1>5. CASE Unwound
    BY <1>0, <1>5 DEF TypeOK, Unwound, poolVars, groupVars
  <1>6. CASE Collected
    BY <1>0, <1>6 DEF TypeOK, Collected, poolVars, groupVars
  <1>7. CASE Order
    <2>1. at \in Index /\ results[at] \in Index
      BY <1>0, <1>7, <1>n DEF TypeOK, PoolInv, Order, Index
    <2>2. images' \in Seq(Index) /\ failures' \in Seq(Index)
      BY <1>0, <1>7, <2>1, AppendFacts DEF TypeOK, Order
    <2>3. at' \in 1 .. N + 1
      BY <1>0, <1>7, <1>n DEF TypeOK, Order
    <2>4. UNCHANGED <<manifest, next, pending, finished, completed, results, keys,
                      representative, pairs, roots, prepared, pc>> /\ pc = "order"
      BY <1>7 DEF Order, poolVars, groupVars
    <2> QED  BY <1>0, <2>2, <2>3, <2>4 DEF TypeOK
  <1>8. CASE Ordered
    BY <1>0, <1>8, <1>n DEF TypeOK, Ordered, poolVars, groupVars
  <1>9. CASE Embed
    <2>1. keys' \subseteq Key /\ pairs' \subseteq manifest.near
      <3>1. KeysAt(1) \subseteq Key
        <4>1. CASE 1 <= Len(images)
          <5>1. images[1] \in Elements(images)
            BY <4>1, <1>0 DEF Elements, TypeOK
          <5>2. images[1] \in Accepted
            BY <5>1, <1>0, <1>9 DEF OrderInv, Lists, Embed
          <5> QED  BY <5>2, <1>0, KeysTyped DEF KeysAt
        <4>2. CASE ~(1 <= Len(images))
          BY <4>2 DEF KeysAt
        <4> QED  BY <4>1, <4>2
      <3> QED  BY <3>1, <1>0, <1>9 DEF Embed, TypeOK
    <2>2. UNCHANGED <<manifest, next, pending, finished, completed, results, at, images,
                      failures, representative, roots, prepared>>
          /\ pc = "embed" /\ pc' \in {"link", "failed"}
      BY <1>9 DEF Embed, poolVars
    <2> QED  BY <1>0, <2>1, <2>2 DEF TypeOK
  <1>10. ASSUME NEW key \in keys, Link(key) PROVE TypeOK'
    <2>1. images[at] \in Index /\ key \in Key
      <3>1. at \in 1 .. Len(images)
        BY <1>0, <1>10, <1>n DEF GroupInv, Link, TypeOK
      <3> QED  BY <3>1, <1>0 DEF TypeOK
    <2>2. roots' \in [Index -> Index]
      <3>1. CASE representative[key] # 0
        <4>1. representative[key] \in Index
          BY <3>1, <2>1, <1>0, <1>n DEF TypeOK, Index
        <4> QED  BY <3>1, <4>1, <2>1, <1>0, <1>10, UnionTyped DEF Link, TypeOK
      <3>2. CASE representative[key] = 0
        BY <3>2, <1>0, <1>10 DEF Link, TypeOK
      <3> QED  BY <3>1, <3>2
    <2>3. representative' \in [Key -> 0 .. N]
      <3>1. representative \in [Key -> 0 .. N] /\ images[at] \in 0 .. N
        <4>1. representative \in [Key -> 0 .. N]
          BY <1>0 DEF TypeOK
        <4> QED  BY <4>1, <2>1, <1>n DEF Index
      <3>2. representative' \in {representative, [representative EXCEPT ![key] = images[at]]}
        BY <1>10 DEF Link
      <3> QED  BY <3>1, <3>2, <2>1
    <2>4. UNCHANGED <<manifest, next, pending, finished, completed, results, at, images,
                      failures, pairs, prepared, pc>> /\ keys' \subseteq keys
      BY <1>10 DEF Link, poolVars
    <2> QED  BY <1>0, <2>2, <2>3, <2>4 DEF TypeOK
  <1>11. CASE NextImage
    <2>1. Len(images) \in Nat /\ at \in 1 .. Len(images)
      BY <1>0, <1>11, <1>n DEF NextImage, TypeOK
    <2>2. keys' \subseteq Key
      <3>1. CASE at + 1 <= Len(images)
        <4>1. images[at + 1] \in Elements(images)
          BY <3>1, <2>1, <1>0 DEF Elements, TypeOK
        <4>2. images[at + 1] \in Accepted
          BY <4>1, <1>0, <1>11 DEF OrderInv, Lists, NextImage
        <4> QED  BY <3>1, <4>2, <1>0, <1>11, KeysTyped DEF KeysAt, NextImage
      <3>2. CASE ~(at + 1 <= Len(images))
        BY <3>2, <1>11 DEF KeysAt, NextImage
      <3> QED  BY <3>1, <3>2
    <2>3. at' \in 1 .. N + 1
      <3>1. Len(images) + Len(failures) = N
        BY <1>0, <1>11, <1>n DEF OrderInv, Reached, NextImage
      <3>2. Len(failures) \in Nat
        BY <1>0 DEF TypeOK
      <3> QED  BY <3>1, <3>2, <2>1, <1>n, <1>11 DEF NextImage
    <2>4. UNCHANGED <<manifest, next, pending, finished, completed, results, images,
                      failures, representative, pairs, roots, prepared, pc>>
      BY <1>11 DEF NextImage, poolVars
    <2> QED  BY <1>0, <2>2, <2>3, <2>4 DEF TypeOK
  <1>12. CASE Linked
    BY <1>0, <1>12 DEF TypeOK, Linked, poolVars, groupVars
  <1>13. ASSUME NEW pair \in pairs, Join(pair) PROVE TypeOK'
    <2>1. pair[1] \in Index /\ pair[2] \in Index
      BY <1>0, ManifestFacts DEF TypeOK
    <2>2. roots' \in [Index -> Index]
      BY <1>0, <1>13, <2>1, UnionTyped DEF TypeOK, Join
    <2>3. UNCHANGED <<manifest, next, pending, finished, completed, results, at, images,
                      failures, keys, representative, prepared, pc>> /\ pairs' \subseteq pairs
      BY <1>13 DEF Join, poolVars
    <2> QED  BY <1>0, <2>2, <2>3 DEF TypeOK
  <1>14. CASE Prepare
    <2>1. UNCHANGED <<manifest, next, pending, finished, completed, results, at, images,
                      failures, keys, representative, pairs, roots>> /\ pc' = "done"
      BY <1>14 DEF Prepare, poolVars, groupVars
    <2> QED  BY <1>0, <1>14, <2>1, RecordTyped DEF TypeOK
  <1>15. CASE UNCHANGED vars
    BY <1>0, <1>15 DEF TypeOK, vars, poolVars, groupVars
  <1> QED
    BY <1>1, <1>2, <1>3, <1>4, <1>5, <1>6, <1>7, <1>8, <1>9, <1>10, <1>11, <1>12, <1>13,
       <1>14, <1>15 DEF Next

LEMMA PoolInit == Init => PoolInv
  <1> SUFFICES ASSUME Init PROVE PoolInv
    OBVIOUS
  <1>1. N \in Nat /\ Workers \in Nat \ {0}
    BY PreparationAssumption
  <1>2. pc = "wait" /\ results = [i \in Index |-> 0] /\ pending = {i \in Index : i <= Workers}
        /\ next = IF Workers < N THEN Workers + 1 ELSE N + 1
    BY DEF Init
  <1>3. \A i \in Index : i < next => i \in pending
    BY <1>1, <1>2 DEF Index
  <1>4. next <= N => 1 \in pending
    BY <1>1, <1>2 DEF Index
  <1>5. pending \subseteq 1 .. (next - 1)
    BY <1>1, <1>2 DEF Index
  <1>6. \A i \in Index : results[i] = 0 /\ i # 0
    BY <1>1, <1>2 DEF Index
  <1> QED  BY <1>2, <1>3, <1>4, <1>5, <1>6 DEF PoolInv

LEMMA PoolStep == PreparationInv /\ [Next]_vars => PoolInv'
  <1> SUFFICES ASSUME PreparationInv, [Next]_vars PROVE PoolInv'
    OBVIOUS
  <1>0. TypeOK /\ PoolInv
    BY DEF PreparationInv
  <1>n. N \in Nat /\ Index = 1 .. N
    BY PreparationAssumption DEF Index
  <1>1. ASSUME NEW i \in Index, Process(i) PROVE PoolInv'
    BY <1>0, <1>1 DEF PoolInv, Process
  <1>2. ASSUME NEW i \in Index, Collect(i) PROVE PoolInv'
    <2>1. i \in pending /\ i < next /\ next \in 1 .. N + 1
      BY <1>0, <1>2, <1>n DEF TypeOK, PoolInv, Collect
    <2>2. results \in [Index -> 0 .. N] /\ results' = [results EXCEPT ![i] = i]
      BY <1>0, <1>2 DEF TypeOK, Collect, Place
    <2>3. manifest' = manifest /\ manifest.view[i] # "exception"
      BY <1>2 DEF Collect
    <2>4. \A j \in Index : results'[j] = IF j = i THEN i ELSE results[j]
      BY <2>2
    <2>5. pc = "collect" /\ pc' \in {"wait", "collect"}
      BY <1>2 DEF Collect, AfterCollect
    <2>6. /\ pending' = (pending \ {i}) \cup {j \in {next} : j <= N}
          /\ next' = IF next <= N THEN next + 1 ELSE next
      BY <1>2 DEF Collect, Refill
    <2>7. /\ \A j \in Index : j < next => j \in pending \/ results[j] = j
          /\ pending \subseteq 1 .. (next - 1)
          /\ \A j \in Index : results[j] \in {0, j}
          /\ \A j \in Index : results[j] = j => manifest.view[j] # "exception"
      BY <1>0, <2>5 DEF PoolInv
    <2>8. \A j \in Index : j < next' => j \in pending' \/ results'[j] = j
      <3> SUFFICES ASSUME NEW j \in Index, j < next', j # i
                   PROVE  j \in pending' \/ results'[j] = j
        BY <2>4
      <3>1. CASE j < next
        BY <3>1, <2>4, <2>6, <2>7
      <3>2. CASE ~(j < next)
        <4>1. next <= N /\ j = next
          BY <3>2, <2>1, <2>6, <1>n
        <4> QED  BY <4>1, <2>6
      <3> QED  BY <3>1, <3>2
    <2>9. next' <= N => pending' # {}
      <3> SUFFICES ASSUME next' <= N PROVE next \in pending'
        OBVIOUS
      <3>1. next <= N
        BY <2>1, <2>6, <1>n
      <3> QED  BY <3>1, <2>6
    <2>10. pending' \subseteq 1 .. (next' - 1)
      <3> SUFFICES ASSUME NEW j \in pending' PROVE j \in 1 .. (next' - 1)
        OBVIOUS
      <3>1. CASE j \in pending
        BY <3>1, <2>1, <2>6, <2>7, <1>n
      <3>2. CASE j = next /\ next <= N
        BY <3>2, <2>1, <2>6, <1>n
      <3> QED  BY <3>1, <3>2, <2>6
    <2>11. /\ \A j \in Index : results'[j] \in {0, j}
           /\ \A j \in Index : results'[j] = j => manifest'.view[j] # "exception"
      BY <2>3, <2>4, <2>7
    <2> QED  BY <2>5, <2>8, <2>9, <2>10, <2>11 DEF PoolInv
  <1>3. ASSUME NEW i \in Index, Raise(i) PROVE PoolInv'
    BY <1>0, <1>3 DEF PoolInv, Raise
  <1>4. CASE Wait
    BY <1>0, <1>4 DEF PoolInv, Wait
  <1>5. CASE Unwound
    BY <1>0, <1>5 DEF PoolInv, Unwound, poolVars
  <1>6. CASE Collected
    <2>1. next = N + 1
      BY <1>0, <1>6, <1>n DEF PoolInv, TypeOK, Collected
    <2>2. \A i \in Index : i < next
      BY <2>1, <1>n
    <2> QED  BY <1>0, <1>6, <2>2 DEF PoolInv, Collected, poolVars
  <1>7. CASE Order \/ Ordered \/ Embed \/ NextImage \/ Linked \/ Prepare
    BY <1>0, <1>7 DEF PoolInv, Order, Ordered, Embed, NextImage, Linked, Prepare, poolVars
  <1>8. ASSUME NEW key \in keys, Link(key) PROVE PoolInv'
    BY <1>0, <1>8 DEF PoolInv, Link, poolVars
  <1>9. ASSUME NEW pair \in pairs, Join(pair) PROVE PoolInv'
    BY <1>0, <1>9 DEF PoolInv, Join, poolVars
  <1>10. CASE UNCHANGED vars
    BY <1>0, <1>10 DEF PoolInv, vars, poolVars
  <1> QED
    BY <1>1, <1>2, <1>3, <1>4, <1>5, <1>6, <1>7, <1>8, <1>9, <1>10 DEF Next

LEMMA OrderInit == Init => OrderInv
  <1> SUFFICES ASSUME Init PROVE OrderInv
    OBVIOUS
  <1>1. images = <<>> /\ failures = <<>> /\ pc = "wait" /\ at = 1
    BY DEF Init
  <1>2. Elements(<<>>) = {} /\ Increasing(<<>>) /\ Len(<<>>) = 0
    BY DEF Elements, Increasing
  <1>3. {i \in Accepted : i < 1} = {} /\ {i \in Index \ Accepted : i < 1} = {}
    BY PreparationAssumption DEF Accepted, Index
  <1> QED  BY <1>1, <1>2, <1>3 DEF OrderInv, Lists, Reached

LEMMA OrderStep == PreparationInv /\ [Next]_vars => OrderInv'
  <1> SUFFICES ASSUME PreparationInv, [Next]_vars PROVE OrderInv'
    OBVIOUS
  <1>0. TypeOK /\ PoolInv /\ OrderInv
    BY DEF PreparationInv
  <1>n. N \in Nat /\ Index = 1 .. N /\ Accepted \subseteq Index
    BY PreparationAssumption DEF Index, Accepted
  \* What leaves the lists alone and does not come further.
  <1>f. ASSUME UNCHANGED <<manifest, images, failures, at>>, Reached' = Reached,
               pc # "failed",
               pc' \in {"wait", "collect", "embed"} =>
                   pc \in {"wait", "collect", "embed"}
        PROVE  OrderInv'
    BY <1>0, <1>f DEF OrderInv, Lists, Accepted, Increasing, Elements
  <1>1. ASSUME NEW i \in Index, Process(i) PROVE OrderInv'
    BY <1>0, <1>1, <1>f DEF Process, Reached, OrderInv
  <1>2. ASSUME NEW i \in Index, Collect(i) PROVE OrderInv'
    BY <1>2, <1>f DEF Collect, Reached, AfterCollect
  <1>3. ASSUME NEW i \in Index, Raise(i) PROVE OrderInv'
    BY <1>3, <1>f DEF Raise, Reached
  <1>4. CASE Wait
    BY <1>4, <1>f DEF Wait, Reached
  <1>5. CASE Unwound
    BY <1>5 DEF Unwound, OrderInv
  <1>6. CASE Collected
    <2>1. at = 1
      BY <1>0, <1>6 DEF OrderInv, Collected
    <2> QED  BY <1>6, <1>f, <2>1 DEF Collected, Reached
  <1>7. CASE Order
    <2>1. at \in Index /\ results[at] = at /\ at \in Nat
      BY <1>0, <1>7, <1>n DEF TypeOK, PoolInv, Order
    <2>0. \A i \in Index : i < at + 1 <=> i < at \/ i = at
      BY <2>1, <1>n
    <2>2. manifest' = manifest /\ pc = "order" /\ pc' = "order" /\ at' = at + 1
      BY <1>7 DEF Order
    <2>3. /\ Lists(images, Accepted, at) /\ Lists(failures, Index \ Accepted, at)
          /\ Len(images) + Len(failures) = at - 1
      BY <1>0, <2>2 DEF OrderInv, Reached
    <2>4. images \in Seq(Index) /\ failures \in Seq(Index)
      BY <1>0 DEF TypeOK
    <2>5. ASSUME NEW s \in Seq(Index), NEW set \in SUBSET Index, Lists(s, set, at), at \in set
          PROVE  Lists(Append(s, at), set, at + 1) /\ Len(Append(s, at)) = Len(s) + 1
      <3>1. \A y \in Elements(s) : y < at
        BY <2>5 DEF Lists
      <3>2. Increasing(Append(s, at)) /\ Elements(Append(s, at)) = Elements(s) \cup {at}
        BY <2>1, <2>5, <3>1, AppendFacts DEF Lists
      <3>3. {i \in set : i < at + 1} = {i \in set : i < at} \cup {at}
        BY <2>0, <2>5
      <3> QED  BY <2>1, <2>5, <3>2, <3>3 DEF Lists
    <2>6. ASSUME NEW s, NEW set \in SUBSET Index, Lists(s, set, at), at \notin set
          PROVE  Lists(s, set, at + 1)
      <3>1. {i \in set : i < at + 1} = {i \in set : i < at}
        BY <2>0, <2>6
      <3> QED  BY <2>6, <3>1 DEF Lists
    <2>7. Len(images) \in Nat /\ Len(failures) \in Nat
      BY <2>4
    <2>8. /\ Lists(images', Accepted, at + 1) /\ Lists(failures', Index \ Accepted, at + 1)
          /\ Len(images') + Len(failures') = at
      <3>1. CASE at \in Accepted
        <4>1. images' = Append(images, at) /\ failures' = failures
          BY <1>7, <2>1, <3>1 DEF Order, Accepted
        <4>2. Lists(images', Accepted, at + 1) /\ Len(images') = Len(images) + 1
          BY <3>1, <4>1, <2>3, <2>4, <2>5, <1>n
        <4>3. Lists(failures', Index \ Accepted, at + 1)
          BY <3>1, <4>1, <2>3, <2>6
        <4> QED  BY <4>1, <4>2, <4>3, <2>1, <2>3, <2>7
      <3>2. CASE at \notin Accepted
        <4>1. failures' = Append(failures, at) /\ images' = images
          BY <1>7, <2>1, <3>2 DEF Order, Accepted
        <4>2. Lists(failures', Index \ Accepted, at + 1) /\ Len(failures') = Len(failures) + 1
          BY <3>2, <4>1, <2>1, <2>3, <2>4, <2>5
        <4>3. Lists(images', Accepted, at + 1)
          BY <3>2, <4>1, <2>3, <2>6, <1>n
        <4> QED  BY <4>1, <4>2, <4>3, <2>1, <2>3, <2>7
      <3> QED  BY <3>1, <3>2
    <2>9. Accepted' = Accepted /\ Reached' = at + 1 /\ (at + 1) - 1 = at
      BY <2>1, <2>2 DEF Accepted, Reached
    <2> QED  BY <2>2, <2>8, <2>9 DEF OrderInv, Lists, Elements, Increasing
  <1>8. CASE Ordered
    <2>1. Reached = N + 1 /\ Reached' = N + 1 /\ at' = 1 /\ pc' = "embed" /\ pc = "order"
      BY <1>8 DEF Ordered, Reached
    <2>2. UNCHANGED <<manifest, images, failures>>
      BY <1>8 DEF Ordered
    <2> QED  BY <1>0, <2>1, <2>2 DEF OrderInv, Lists, Accepted, Increasing, Elements
  <1>9. CASE Embed
    <2>1. CASE pc' = "failed"
      BY <2>1 DEF OrderInv
    <2>2. CASE pc' = "link"
      BY <1>9, <2>2, <1>f DEF Embed, Reached
    <2> QED  BY <1>9, <2>1, <2>2 DEF Embed
  <1>10. ASSUME NEW key \in keys, Link(key) PROVE OrderInv'
    BY <1>10, <1>f DEF Link, Reached
  <1>11. CASE NextImage
    <2>1. Reached = N + 1 /\ Reached' = N + 1 /\ pc = "link" /\ pc' = "link"
      BY <1>11 DEF NextImage, Reached
    <2>2. UNCHANGED <<manifest, images, failures>>
      BY <1>11 DEF NextImage
    <2> QED  BY <1>0, <2>1, <2>2 DEF OrderInv, Lists, Accepted, Increasing, Elements
  <1>12. CASE Linked
    BY <1>12, <1>f DEF Linked, Reached
  <1>13. ASSUME NEW pair \in pairs, Join(pair) PROVE OrderInv'
    BY <1>13, <1>f DEF Join, Reached
  <1>14. CASE Prepare
    BY <1>14, <1>f DEF Prepare, Reached
  <1>15. CASE UNCHANGED vars
    <2>1. CASE pc = "failed"
      BY <2>1, <1>15 DEF vars, OrderInv
    <2>2. CASE pc # "failed"
      BY <2>2, <1>15, <1>f DEF vars, Reached
    <2> QED  BY <2>1, <2>2
  <1> QED
    BY <1>1, <1>2, <1>3, <1>4, <1>5, <1>6, <1>7, <1>8, <1>9, <1>10, <1>11, <1>12, <1>13,
       <1>14, <1>15 DEF Next

\* Copies are copies of each other.
LEMMA CopiesSymmetric == ASSUME NEW a, NEW b, Copies(a, b) PROVE Copies(b, a)
  BY DEF Copies

\* Joining two copies keeps the roots sound.
LEMMA UnionSound ==
    ASSUME RootsSound, NEW l \in Accepted, NEW r \in Accepted, Copies(l, r),
           roots \in [Index -> Index], Union(l, r), manifest' = manifest
    PROVE  RootsSound'
  <1>1. PICK root \in {roots[l], roots[r]} : roots' = Merged(l, r, root)
    BY DEF Union
  <1>2. Accepted' = Accepted /\ \A set : Closed(set)' <=> Closed(set)
    BY DEF Accepted, Closed, Copies, Keys
  <1> SUFFICES ASSUME NEW set \in SUBSET Accepted, Closed(set),
                      NEW i \in Index, NEW j \in Index, roots'[i] = roots'[j]
               PROVE  i \in set <=> j \in set
    BY <1>2 DEF RootsSound
  <1>3. Copies(r, l)
    BY CopiesSymmetric
  <1>4. l \in set <=> r \in set
    BY <1>3 DEF Closed
  <1>5. l \in Index /\ r \in Index
    BY DEF Accepted
  <1>6. \A x, y \in Index : roots[x] = roots[y] => (x \in set <=> y \in set)
    BY DEF RootsSound
  <1>7. ASSUME NEW x \in Index, roots'[x] # roots[x] PROVE roots[x] \in {roots[l], roots[r]}
    BY <1>1, <1>7 DEF Merged
  <1>8. \A x \in Index : roots[x] \in {roots[l], roots[r]} => (x \in set <=> l \in set)
    BY <1>4, <1>5, <1>6
  <1>9. \A x \in Index : IF roots[x] \in {roots[l], roots[r]} THEN roots'[x] = root
                                                            ELSE roots'[x] = roots[x]
    BY <1>1 DEF Merged
  <1>10. CASE roots[i] \in {roots[l], roots[r]} /\ roots[j] \in {roots[l], roots[r]}
    BY <1>8, <1>10
  <1>11. CASE roots[i] \notin {roots[l], roots[r]} /\ roots[j] \notin {roots[l], roots[r]}
    BY <1>6, <1>9, <1>11
  <1>12. CASE roots[i] \in {roots[l], roots[r]} /\ roots[j] \notin {roots[l], roots[r]}
    BY <1>1, <1>9, <1>12
  <1>13. CASE roots[i] \notin {roots[l], roots[r]} /\ roots[j] \in {roots[l], roots[r]}
    BY <1>1, <1>9, <1>13
  <1> QED  BY <1>10, <1>11, <1>12, <1>13

\* A union joins the two and parts nobody.
LEMMA UnionJoins ==
    ASSUME roots \in [Index -> Index], NEW l \in Index, NEW r \in Index, Union(l, r)
    PROVE  /\ roots'[l] = roots'[r]
           /\ \A x, y \in Index : roots[x] = roots[y] => roots'[x] = roots'[y]
  <1>1. PICK root \in {roots[l], roots[r]} : roots' = Merged(l, r, root)
    BY DEF Union
  <1> QED  BY <1>1 DEF Merged

\* When everything was looked up and joined, copies have one root.
LEMMA CopiesJoined ==
    ASSUME TypeOK, OrderInv, KeysJoined, NearJoined, pc = "near", pairs = {},
           NEW a \in Accepted, NEW b \in Accepted, Copies(a, b)
    PROVE  roots[a] = roots[b]
  <1>1. \A x \in Accepted : \E k \in 1 .. Len(images) : images[k] = x
    <2>1. Elements(images) = {i \in Accepted : i < N + 1}
      BY DEF OrderInv, Lists, Reached
    <2>2. \A x \in Accepted : x < N + 1
      BY PreparationAssumption DEF Accepted, Index
    <2>3. DOMAIN images = 1 .. Len(images)
      BY DEF TypeOK
    <2> QED  BY <2>1, <2>2, <2>3 DEF Elements
  <1>2. ASSUME NEW key \in Keys(manifest, a), key \in Keys(manifest, b)
        PROVE  roots[a] = roots[b]
    <2>1. PICK k \in 1 .. Len(images) : images[k] = a
      BY <1>1
    <2>2. PICK l \in 1 .. Len(images) : images[l] = b
      BY <1>1
    <2>3. key \in LookedUp(k) /\ key \in LookedUp(l)
      BY <1>2, <2>1, <2>2 DEF LookedUp
    <2> QED  BY <2>1, <2>2, <2>3 DEF KeysJoined
  <1>3. CASE <<a, b>> \in manifest.near \/ <<b, a>> \in manifest.near
    BY <1>3 DEF NearJoined
  <1> QED  BY <1>2, <1>3 DEF Copies

LEMMA SeenAccepted ==
    ASSUME TypeOK, OrderInv, pc \in {"embed", "link", "near", "done"} PROVE Seen = Accepted
  <1>1. Elements(images) = {i \in Accepted : i < N + 1}
    BY DEF OrderInv, Lists, Reached
  <1>2. \A x \in Accepted : x < N + 1
    BY PreparationAssumption DEF Accepted, Index
  <1> QED  BY <1>1, <1>2 DEF Elements, Seen

LEMMA GroupInit == Init => GroupInv
  BY DEF Init, GroupInv

\* Until images are linked, each is its own root.
LEMMA RootsStart ==
    ASSUME roots = [i \in Index |-> i] PROVE RootsSound
  BY DEF RootsSound

LEMMA GroupStep == PreparationInv /\ [Next]_vars => GroupInv'
  <1> SUFFICES ASSUME PreparationInv, [Next]_vars PROVE GroupInv'
    OBVIOUS
  <1>0. TypeOK /\ PoolInv /\ OrderInv /\ GroupInv
    BY DEF PreparationInv
  <1>n. N \in Nat /\ Index = 1 .. N /\ Accepted \subseteq Index
    BY PreparationAssumption DEF Index, Accepted
  <1>t. Len(images) \in Nat /\ at \in 1 .. N + 1 /\ roots \in [Index -> Index]
    BY <1>0 DEF TypeOK
  \* Before the images are linked, and after.
  <1>e. ASSUME UNCHANGED <<roots, representative>>,
               pc \in {"wait", "collect", "order", "embed"},
               pc' \notin {"link", "near"}
        PROVE  GroupInv'
    BY <1>0, <1>e DEF GroupInv
  <1>l. ASSUME pc' \notin {"wait", "collect", "order", "embed", "link", "near"}
        PROVE  GroupInv'
    BY <1>l DEF GroupInv
  <1>1. ASSUME NEW i \in Index, Process(i) PROVE GroupInv'
    <2>1. UNCHANGED <<manifest, at, images, keys, representative, pairs, roots, pc>>
      BY <1>1 DEF Process, groupVars
    <2> QED
      BY <1>0, <2>1 DEF GroupInv, RootsSound, KeysJoined, NearJoined, LookedUp, Accepted,
                        Closed, Copies, Keys, KeysAt
  <1>2. ASSUME NEW i \in Index, Collect(i) PROVE GroupInv'
    BY <1>2, <1>e DEF Collect, AfterCollect, groupVars
  <1>3. ASSUME NEW i \in Index, Raise(i) PROVE GroupInv'
    BY <1>3, <1>l DEF Raise
  <1>4. CASE Wait \/ Collected \/ Order \/ Ordered
    BY <1>4, <1>e DEF Wait, Collected, Order, Ordered, groupVars
  <1>5. CASE Unwound
    BY <1>5, <1>l DEF Unwound
  <1>9. CASE Embed
    <2>1. CASE pc' = "failed"
      BY <2>1, <1>l
    <2>2. CASE pc' = "link"
      <3>1. /\ UNCHANGED <<manifest, at, images, roots, representative>>
            /\ keys' = KeysAt(1)
            /\ pairs' = {pair \in manifest.near : {pair[1], pair[2]} \subseteq Seen}
            /\ pc = "embed"
        BY <1>9, <2>2 DEF Embed
      <3>2. /\ roots = [i \in Index |-> i] /\ representative = [key \in Key |-> 0]
            /\ at = 1 /\ Seen = Accepted
        BY <1>0, <3>1, SeenAccepted DEF GroupInv, OrderInv
      <3>3. RootsSound'
        BY <3>1, <3>2, RootsStart DEF RootsSound, Accepted, Closed, Copies, Keys
      <3>4. KeysJoined'
        <4>1. \A k \in 1 .. Len(images) : LookedUp(k)' = {}
          <5> SUFFICES ASSUME NEW k \in 1 .. Len(images) PROVE LookedUp(k)' = {}
            OBVIOUS
          <5>1. k = 1 => keys' = Keys(manifest, images[k])
            BY <1>t, <3>1 DEF KeysAt
          <5>2. ~(k < 1)
            OBVIOUS
          <5> QED  BY <5>1, <5>2, <2>2, <3>1, <3>2 DEF LookedUp, Keys
        <4> QED  BY <4>1, <3>1, <3>2 DEF KeysJoined
      <3>5. NearJoined'
        BY <3>1, <3>2 DEF NearJoined, Accepted
      <3>6. keys' \subseteq KeysAt(at)' /\ (keys' # {} => at' <= Len(images'))
        BY <3>1, <3>2 DEF KeysAt, Keys
      <3> QED  BY <2>2, <3>3, <3>4, <3>5, <3>6 DEF GroupInv
    <2> QED  BY <1>9, <2>1, <2>2 DEF Embed
  <1>10. ASSUME NEW key \in keys, Link(key) PROVE GroupInv'
    <2>1. /\ UNCHANGED <<manifest, at, images, pairs, pc>> /\ pc = "link"
          /\ keys' = keys \ {key}
      BY <1>10 DEF Link
    <2>2. /\ at \in 1 .. Len(images) /\ keys \subseteq KeysAt(at)
          /\ RootsSound /\ KeysJoined /\ NearJoined
      BY <1>0, <1>10, <1>t, <2>1 DEF GroupInv
    <2> DEFINE image == images[at]
    <2>3. image \in Accepted /\ key \in Keys(manifest, image)
      <3>1. image \in Elements(images)
        BY <2>2, <1>0 DEF Elements, TypeOK
      <3>2. image \in Accepted
        BY <3>1, <1>0, <2>1 DEF OrderInv, Lists
      <3>3. KeysAt(at) = Keys(manifest, images[at])
        BY <2>2 DEF KeysAt
      <3> QED  BY <3>2, <3>3, <2>2
    <2>4. key \in Key /\ image \in Index /\ image # 0 /\ representative \in [Key -> 0 .. N]
      <3>1. key \in Key
        BY <2>3, <1>0, KeysTyped
      <3>2. image \in Index /\ image # 0
        <4> HIDE DEF image
        <4> QED  BY <2>3, <1>n
      <3>3. representative \in [Key -> 0 .. N]
        BY <1>0 DEF TypeOK
      <3> QED  BY <3>1, <3>2, <3>3
    <2>5. /\ Accepted' = Accepted
          /\ \A i : Keys(manifest', i) = Keys(manifest, i)
      BY <2>1 DEF Accepted
    <2>6. \A k \in 1 .. Len(images) : \A other \in LookedUp(k)' :
              other \in LookedUp(k) \/ (k = at /\ other = key)
      BY <2>1 DEF LookedUp
    <2>7. keys' \subseteq KeysAt(at)' /\ (keys' # {} => at' <= Len(images'))
      BY <2>1, <2>2 DEF KeysAt
    <2>8. \A k \in 1 .. Len(images) : images[k] \in Accepted /\ images[k] \in Index
      <3> SUFFICES ASSUME NEW k \in 1 .. Len(images)
                   PROVE  images[k] \in Accepted /\ images[k] \in Index
        OBVIOUS
      <3>1. images[k] \in Elements(images)
        BY <1>0 DEF Elements, TypeOK
      <3> QED  BY <3>1, <1>0, <1>n, <2>1 DEF OrderInv, Lists
    <2>9. CASE representative[key] # 0
      <3> DEFINE first == representative[key]
      <3>1. Union(image, first) /\ representative' = representative
        BY <1>10, <2>9 DEF Link
      <3>2. first \in Accepted /\ key \in Keys(manifest, first) /\ first \in Index
        BY <2>2, <2>4, <2>9, <1>n DEF KeysJoined
      <3>3. Copies(image, first)
        BY <2>3, <3>2 DEF Copies
      <3>4. RootsSound'
        BY <2>1, <2>2, <2>3, <3>1, <3>2, <3>3, <1>t, UnionSound
      <3>5. /\ roots'[image] = roots'[first]
            /\ \A x, y \in Index : roots[x] = roots[y] => roots'[x] = roots'[y]
        BY <2>4, <3>1, <3>2, <1>t, UnionJoins
      <3>6. \A other \in Key : representative[other] # 0 =>
                representative[other] \in Accepted /\ other \in Keys(manifest, representative[other])
        BY <2>2 DEF KeysJoined
      <3>7. ASSUME NEW k \in 1 .. Len(images), NEW other \in LookedUp(k)'
            PROVE  representative[other] # 0 /\ roots'[images[k]] = roots'[representative[other]]
        <4>1. CASE k = at /\ other = key
          BY <4>1, <2>9, <3>5
        <4>2. CASE other \in LookedUp(k)
          <5>1. representative[other] # 0 /\ roots[images[k]] = roots[representative[other]]
            BY <4>2, <2>2 DEF KeysJoined
          <5>2. other \in Key
            <6>1. other \in Keys(manifest, images[k])
              BY <4>2 DEF LookedUp
            <6> QED  BY <6>1, <2>8, <1>0, KeysTyped
          <5>3. representative[other] \in Index
            BY <5>1, <5>2, <3>6, <1>n
          <5> QED  BY <5>1, <5>3, <2>8, <3>5
        <4> QED  BY <4>1, <4>2, <2>6, <3>7
      <3>8. KeysJoined'
        BY <2>1, <2>5, <3>1, <3>6, <3>7 DEF KeysJoined
      <3>9. NearJoined'
        BY <2>1, <2>2, <2>5, <3>5, <1>n DEF NearJoined
      <3> QED  BY <2>1, <2>7, <3>4, <3>8, <3>9 DEF GroupInv
    <2>10. CASE representative[key] = 0
      <3>1. /\ roots' = roots
            /\ \A other \in Key : representative'[other] =
                  IF other = key THEN image ELSE representative[other]
        BY <1>10, <2>4, <2>10 DEF Link
      <3>2. RootsSound'
        BY <2>1, <2>2, <3>1 DEF RootsSound, Accepted, Closed, Copies, Keys
      <3>3. \A other \in Key : representative'[other] # 0 =>
                representative'[other] \in Accepted
                /\ other \in Keys(manifest, representative'[other])
        BY <2>2, <2>3, <3>1 DEF KeysJoined
      <3>4. ASSUME NEW k \in 1 .. Len(images), NEW other \in LookedUp(k)'
            PROVE  representative'[other] # 0 /\ roots'[images[k]] = roots'[representative'[other]]
        <4>1. CASE k = at /\ other = key
          BY <4>1, <2>4, <3>1
        <4>2. CASE other \in LookedUp(k)
          <5>1. representative[other] # 0 /\ roots[images[k]] = roots[representative[other]]
            BY <4>2, <2>2 DEF KeysJoined
          <5>2. other \in Key
            <6>1. other \in Keys(manifest, images[k])
              BY <4>2 DEF LookedUp
            <6> QED  BY <6>1, <2>8, <1>0, KeysTyped
          <5>3. other # key
            BY <5>1, <2>10
          <5> QED  BY <5>1, <5>2, <5>3, <3>1
        <4> QED  BY <4>1, <4>2, <2>6, <3>4
      <3>5. KeysJoined'
        BY <2>1, <2>5, <3>3, <3>4 DEF KeysJoined
      <3>6. NearJoined'
        BY <2>1, <2>2, <2>5, <3>1 DEF NearJoined
      <3> QED  BY <2>1, <2>7, <3>2, <3>5, <3>6 DEF GroupInv
    <2> QED  BY <2>9, <2>10
  <1>11. CASE NextImage
    <2>1. /\ UNCHANGED <<manifest, images, pairs, pc, roots, representative>> /\ pc = "link"
          /\ keys = {} /\ at <= Len(images) /\ at' = at + 1 /\ keys' = KeysAt(at + 1)
      BY <1>11 DEF NextImage
    <2>2. RootsSound /\ KeysJoined /\ NearJoined
      BY <1>0, <2>1 DEF GroupInv
    <2>3. \A k \in 1 .. Len(images) : LookedUp(k)' = LookedUp(k)
      <3> SUFFICES ASSUME NEW k \in 1 .. Len(images) PROVE LookedUp(k)' = LookedUp(k)
        OBVIOUS
      <3>1. CASE k < at
        BY <3>1, <2>1, <1>t DEF LookedUp, Keys
      <3>2. CASE k = at
        <4>1. k < at' /\ ~(k < at)
          BY <3>2, <2>1, <1>t
        <4> QED  BY <3>2, <4>1, <2>1 DEF LookedUp, Keys
      <3>3. CASE k = at + 1
        <4>1. ~(k < at) /\ k # at /\ ~(k < at') /\ k = at' /\ k <= Len(images)
          BY <3>3, <2>1, <1>t
        <4>2. keys' = Keys(manifest, images[k])
          BY <4>1, <2>1 DEF KeysAt
        <4> QED  BY <4>1, <4>2, <2>1 DEF LookedUp, Keys
      <3>4. CASE k > at + 1
        <4>1. ~(k < at) /\ k # at /\ ~(k < at') /\ k # at'
          BY <3>4, <2>1, <1>t
        <4> QED  BY <4>1, <2>1 DEF LookedUp
      <3> QED  BY <3>1, <3>2, <3>3, <3>4, <1>t
    <2>4. RootsSound' /\ NearJoined'
      BY <2>1, <2>2 DEF RootsSound, NearJoined, Accepted, Closed, Copies, Keys
    <2>5. KeysJoined'
      BY <2>1, <2>2, <2>3 DEF KeysJoined, Accepted, Keys
    <2>6. keys' \subseteq KeysAt(at)' /\ (keys' # {} => at' <= Len(images'))
      BY <2>1 DEF KeysAt, Keys
    <2> QED  BY <2>1, <2>4, <2>5, <2>6 DEF GroupInv
  <1>12. CASE Linked
    <2>1. /\ UNCHANGED <<manifest, at, images, keys, pairs, roots, representative>>
          /\ pc = "link" /\ pc' = "near" /\ at = Len(images) + 1
      BY <1>12 DEF Linked, groupVars
    <2>2. RootsSound /\ KeysJoined /\ NearJoined
      BY <1>0, <2>1 DEF GroupInv
    <2>3. \A k \in 1 .. Len(images) : k < at
      BY <2>1, <1>t
    <2>4. \A k \in 1 .. Len(images) : LookedUp(k)' = LookedUp(k)
      BY <2>1, <2>3 DEF LookedUp, Keys
    <2>5. RootsSound' /\ NearJoined'
      BY <2>1, <2>2 DEF RootsSound, NearJoined, Accepted, Closed, Copies, Keys
    <2>6. KeysJoined'
      BY <2>1, <2>2, <2>4 DEF KeysJoined, Accepted, Keys
    <2> QED  BY <2>1, <2>5, <2>6 DEF GroupInv
  <1>13. ASSUME NEW pair \in pairs, Join(pair) PROVE GroupInv'
    <2>1. /\ UNCHANGED <<manifest, at, images, keys, representative, pc>> /\ pc = "near"
          /\ pairs' = pairs \ {pair} /\ Union(pair[1], pair[2])
      BY <1>13 DEF Join
    <2>2. RootsSound /\ KeysJoined /\ NearJoined
      BY <1>0, <2>1 DEF GroupInv
    <2>3. pair[1] \in Accepted /\ pair[2] \in Accepted /\ pair = <<pair[1], pair[2]>>
          /\ pair \in manifest.near
      BY <1>0, <2>2, ManifestFacts DEF NearJoined, TypeOK
    <2>4. Copies(pair[1], pair[2])
      BY <2>3 DEF Copies
    <2>5. RootsSound'
      BY <2>1, <2>2, <2>3, <2>4, <1>t, UnionSound
    <2>6. /\ roots'[pair[1]] = roots'[pair[2]]
          /\ \A x, y \in Index : roots[x] = roots[y] => roots'[x] = roots'[y]
      BY <2>1, <2>3, <1>n, <1>t, UnionJoins
    <2>7. KeysJoined'
      <3>1. \A key \in Key : representative[key] # 0 =>
                representative[key] \in Accepted /\ key \in Keys(manifest, representative[key])
        BY <2>2 DEF KeysJoined
      <3>2. ASSUME NEW k \in 1 .. Len(images), NEW key \in LookedUp(k)
            PROVE  representative[key] # 0 /\ roots'[images[k]] = roots'[representative[key]]
        <4>1. images[k] \in Accepted
          <5>1. images[k] \in Elements(images)
            BY <1>0 DEF Elements, TypeOK
          <5> QED  BY <5>1, <1>0, <2>1 DEF OrderInv, Lists
        <4>2. key \in Key
          <5>1. key \in Keys(manifest, images[k])
            BY <3>2 DEF LookedUp
          <5> QED  BY <5>1, <4>1, <1>0, KeysTyped
        <4>3. representative[key] # 0 /\ roots[images[k]] = roots[representative[key]]
          BY <3>2, <2>2 DEF KeysJoined
        <4> QED  BY <4>1, <4>2, <4>3, <3>1, <2>6, <1>n
      <3>3. \A k : LookedUp(k)' = LookedUp(k)
        BY <2>1 DEF LookedUp, Keys
      <3> QED  BY <2>1, <3>1, <3>2, <3>3 DEF KeysJoined, Accepted, Keys
    <2>8. NearJoined'
      BY <2>1, <2>2, <2>6, <1>n DEF NearJoined, Accepted
    <2> QED  BY <2>1, <2>5, <2>7, <2>8 DEF GroupInv
  <1>14. CASE Prepare
    BY <1>14, <1>l DEF Prepare
  <1>15. CASE UNCHANGED vars
    <2>1. UNCHANGED <<manifest, at, images, keys, representative, pairs, roots, pc>>
      BY <1>15 DEF vars, groupVars
    <2> QED
      BY <1>0, <2>1 DEF GroupInv, RootsSound, KeysJoined, NearJoined, LookedUp, Accepted,
                        Closed, Copies, Keys, KeysAt
  <1> QED
    BY <1>1, <1>2, <1>3, <1>4, <1>5, <1>9, <1>10, <1>11, <1>12, <1>13, <1>14, <1>15 DEF Next

LEMMA ReportsInit == Init => Reports
  BY DEF Init, Reports, EachSourceReported, GroupsAreComponents, NoCopyCrossesSplits

\* The group of an image: what copies reach, and no more.
LEMMA GroupMeans ==
    ASSUME TypeOK, OrderInv, GroupInv, pc = "near", pairs = {},
           NEW a \in Accepted, NEW b \in Accepted
    PROVE  b \in Group(a) <=> \A set \in SUBSET Accepted : a \in set /\ Closed(set) => b \in set
  <1>1. RootsSound /\ KeysJoined /\ NearJoined /\ Seen = Accepted
    BY SeenAccepted DEF GroupInv
  <1>2. a \in Index /\ b \in Index
    BY DEF Accepted
  <1>3. ASSUME b \in Group(a), NEW set \in SUBSET Accepted, a \in set, Closed(set)
        PROVE  b \in set
    BY <1>1, <1>2, <1>3 DEF Group, RootsSound
  <1>4. ASSUME \A set \in SUBSET Accepted : a \in set /\ Closed(set) => b \in set
        PROVE  b \in Group(a)
    <2>1. Group(a) \in SUBSET Accepted /\ a \in Group(a)
      BY <1>1 DEF Group
    <2>2. Closed(Group(a))
      <3> SUFFICES ASSUME NEW x \in Group(a), NEW y \in Accepted, Copies(x, y)
                   PROVE  y \in Group(a)
        BY DEF Closed
      <3>1. roots[x] = roots[y]
        BY <1>1, <2>1, CopiesJoined
      <3> QED  BY <1>1, <3>1 DEF Group
    <2> QED  BY <1>4, <2>1, <2>2
  <1> QED  BY <1>3, <1>4

\* Copies have one group, and with it one purpose and one split.
LEMMA CopiesTogether ==
    ASSUME TypeOK, OrderInv, GroupInv, pc = "near", pairs = {},
           NEW a \in Accepted, NEW b \in Accepted, Copies(a, b)
    PROVE  Purpose(a) = Purpose(b) /\ Split(a) = Split(b)
  <1>1. KeysJoined /\ NearJoined /\ Seen = Accepted
    BY SeenAccepted DEF GroupInv
  <1>2. Group(a) = Group(b)
    BY <1>1, CopiesJoined DEF Group
  <1>3. \A i \in Accepted : manifest.purpose[i] \in {"training", "evaluation"}
    BY ManifestFacts DEF Accepted, Purposes
  <1>4. Purpose(a) = Purpose(b)
    BY <1>1, <1>2, <1>3 DEF Purpose
  <1> QED  BY <1>2, <1>4 DEF Split

LEMMA ReportsStep == PreparationInv /\ [Next]_vars => Reports'
  <1> SUFFICES ASSUME PreparationInv, [Next]_vars PROVE Reports'
    OBVIOUS
  <1>0. TypeOK /\ OrderInv /\ GroupInv /\ Reports
    BY DEF PreparationInv
  <1>1. CASE ~Prepare
    <2>1. UNCHANGED <<manifest, prepared>>
      BY <1>1 DEF Next, Process, Collect, Raise, Wait, Unwound, Collected, Order, Ordered,
                  Embed, Link, NextImage, Linked, Join, vars
    <2> QED
      BY <1>0, <2>1 DEF Reports, EachSourceReported, GroupsAreComponents,
                        NoCopyCrossesSplits, Accepted, Closed, Copies, Keys
  <1>2. CASE Prepare
    <2>1. pc = "near" /\ pairs = {} /\ manifest' = manifest
      BY <1>2 DEF Prepare
    <2>2. /\ prepared'.images = images /\ prepared'.failures = failures
          /\ \A i \in Index : /\ prepared'.group[i] = Group(i)
                              /\ prepared'.purpose[i] = Purpose(i)
                              /\ prepared'.split[i] = Split(i)
      BY <1>2 DEF Prepare
    <2>3. Seen = Accepted /\ Accepted \subseteq Index
      BY <1>0, <2>1, SeenAccepted DEF Accepted
    <2>4. EachSourceReported'
      <3>1. Lists(images, Accepted, N + 1) /\ Lists(failures, Index \ Accepted, N + 1)
        BY <1>0, <2>1 DEF OrderInv, Reached
      <3>2. {i \in Accepted : i < N + 1} = Accepted
            /\ {i \in Index \ Accepted : i < N + 1} = Index \ Accepted
        <4>1. \A i \in Index : i < N + 1
          BY PreparationAssumption DEF Index
        <4> QED  BY <2>3, <4>1
      <3> QED
        BY <2>1, <2>2, <3>1, <3>2 DEF EachSourceReported, Lists, Accepted, Increasing, Elements
    <2>5. GroupsAreComponents'
      <3>1. Accepted' = Accepted /\ \A set : Closed(set)' <=> Closed(set)
        BY <2>1 DEF Accepted, Closed, Copies, Keys
      <3>2. \A a, b \in Accepted :
                b \in Group(a) <=>
                    \A set \in SUBSET Accepted : a \in set /\ Closed(set) => b \in set
        BY <1>0, <2>1, GroupMeans
      <3>3. \A a \in Accepted : prepared'.group[a] = Group(a)
        BY <2>2, <2>3
      <3> QED  BY <3>1, <3>2, <3>3 DEF GroupsAreComponents
    <2>6. NoCopyCrossesSplits'
      <3>1. Accepted' = Accepted /\ \A a, b : Copies(a, b)' <=> Copies(a, b)
        BY <2>1 DEF Accepted, Copies, Keys
      <3>2. \A a, b \in Accepted : Copies(a, b) => Purpose(a) = Purpose(b) /\ Split(a) = Split(b)
        BY <1>0, <2>1, CopiesTogether
      <3>3. \A a \in Accepted : manifest.purpose[a] = "evaluation" => Purpose(a) = "evaluation"
        BY DEF Purpose
      <3>4. \A a \in Accepted : Split(a) = "evaluation" <=> Purpose(a) = "evaluation"
        <4>1. \A a \in Accepted : assign_split(Group(a)) \in Splits
          <5>1. \A a \in Accepted : Group(a) \in SUBSET Index
            BY <2>3 DEF Group
          <5> QED  BY <5>1, PreparationAssumption
        <4> QED  BY <4>1 DEF Split, Splits
      <3>5. \A a \in Accepted : prepared'.purpose[a] = Purpose(a) /\ prepared'.split[a] = Split(a)
        BY <2>2, <2>3
      <3> QED  BY <2>1, <3>1, <3>2, <3>3, <3>4, <3>5 DEF NoCopyCrossesSplits
    <2> QED  BY <2>4, <2>5, <2>6 DEF Reports
  <1> QED  BY <1>1, <1>2

LEMMA PreparationHolds == Spec => []PreparationInv
  <1>1. Init => PreparationInv
    BY TypeInit, PoolInit, OrderInit, GroupInit, ReportsInit DEF PreparationInv
  <1>2. PreparationInv /\ [Next]_vars => PreparationInv'
    BY TypeStep, PoolStep, OrderStep, GroupStep, ReportsStep DEF PreparationInv
  <1> QED  BY <1>1, <1>2, PTL DEF Spec
-----------------------------------------------------------------------------
\* The state keeps its types, and the pool its bound.
THEOREM TypeCorrect == Spec => []TypeOK
  <1>1. PreparationInv => TypeOK
    BY DEF PreparationInv
  <1> QED  BY <1>1, PreparationHolds, PTL

\* Each source is reported once and in source order, whatever thread was first.
THEOREM SourcesReported == Spec => []EachSourceReported
  <1>1. PreparationInv => EachSourceReported
    BY DEF PreparationInv, Reports
  <1> QED  BY <1>1, PreparationHolds, PTL

\* The disjoint sets of the code compute the components of the copy relation.
THEOREM GroupsHold == Spec => []GroupsAreComponents
  <1>1. PreparationInv => GroupsAreComponents
    BY DEF PreparationInv, Reports
  <1> QED  BY <1>1, PreparationHolds, PTL

\* No copies are parted by purpose or split.
THEOREM CopiesStayTogether == Spec => []NoCopyCrossesSplits
  <1>1. PreparationInv => NoCopyCrossesSplits
    BY DEF PreparationInv, Reports
  <1> QED  BY <1>1, PreparationHolds, PTL
================================================================================
