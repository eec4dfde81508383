-------------------------- MODULE TrainingExportProofs --------------------------
(***************************************************************************)
(* For all conversation files, policies and solver answers: what is bound  *)
(* to an audit keeps its policy, what reaches the training file was        *)
(* audited, and the manifest of a bundle comes last.                       *)
(***************************************************************************)
EXTENDS TrainingExport, TLAPS

\* The audit accepts only what the solver was asked for, in a pool that marks
\* every candidate as of training or evaluation purpose.
LEMMA AuditSound ==
    ASSUME NEW frozen, NEW manifest, NEW policy, AuditMet(frozen, manifest, policy),
           \A c \in DOMAIN frozen : frozen[c].purpose \in {"training", "evaluation"}
    PROVE  Constraints(manifest.pool, manifest.selected, policy)
  <1> DEFINE chosen == manifest.selected
  <1>1. chosen \cap DOMAIN frozen = chosen /\ manifest.pool = frozen
    BY DEF AuditMet
  <1>2. /\ Cardinality(chosen) = policy.target_count
        /\ Counts(frozen, chosen, "language") = policy.language_quotas
        /\ FamilyMinimums(frozen, chosen, policy)
        /\ EachMaximum(frozen, chosen, policy)
        /\ policy.allow_evaluation_sources \/
              \A c \in chosen : frozen[c].purpose # "evaluation"
    BY <1>1 DEF AuditMet
  <1>3. \A language \in DOMAIN policy.language_quotas :
            Count(frozen, chosen, "language", language) = policy.language_quotas[language]
    BY <1>2 DEF Counts
  <1>4. \A c \in chosen : policy.allow_evaluation_sources \/ frozen[c].purpose = "training"
    BY <1>1, <1>2
  <1> QED  BY <1>1, <1>2, <1>3, <1>4 DEF Constraints

\* The audit of what an export or a manifest names.
Audited(frozen, chosen) ==
    \E audit \in audits :
        /\ audit.pool = frozen /\ audit.selected = chosen
        /\ Constraints(audit.pool, audit.selected, audit.policy)

\* From the audit to its digest, and as long as the manifest carries it.
ManifestAudited ==
    selection # None /\ (selection.bound \/ pc = "bind") =>
        Audited(selection.pool, selection.selected)

ExportAudited(export) ==
    /\ Audited(export.pool, export.selected)
    /\ DOMAIN export.rows = export.selected
    /\ \A c \in export.selected :
          /\ export.rows[c].status = "QUALITY_CANDIDATE"
          /\ export.rows[c].candidate.purpose = "training"

ExportsAudited == \A n \in 1 .. Len(exports) : ExportAudited(exports[n])

\* The files before the next one are of the export that is running.
WrittenBefore(part) ==
    CASE part = "training" -> {}
      [] part = "ratings" -> {"training"}
      [] part = "provenance" -> {"training", "ratings"}
      [] OTHER -> {"training", "ratings", "provenance"}

WritingInOrder ==
    pc \in Part => \A part \in WrittenBefore(pc) : bundle[part] = Len(exports)

\* No file is older than one that is written after it.
NewestFirst ==
    /\ bundle["selection"] <= bundle["provenance"]
    /\ bundle["provenance"] <= bundle["ratings"]
    /\ bundle["ratings"] <= bundle["training"]

ExportInv ==
    /\ TypeOK
    /\ ManifestAudited
    /\ ExportsAudited
    /\ WritingInOrder
    /\ NewestFirst

\* A frozen pool marks every candidate.
LEMMA PurposesMarked ==
    ASSUME NEW frozen \in Pools
    PROVE  \A c \in DOMAIN frozen : frozen[c].purpose \in {"training", "evaluation"}
  <1>1. PICK content \in Contents : frozen = Frozen(content)
    BY DEF Pools
  <1> QED  BY <1>1, ExportAssumption DEF Frozen

LEMMA PoolFrozen == ASSUME TypeOK PROVE Frozen(conversations) \in Pools
  BY DEF TypeOK, Pools

LEMMA PoolIds == ASSUME NEW frozen \in Pools PROVE DOMAIN frozen \subseteq Ids
  <1>1. PICK content \in Contents : frozen = Frozen(content)
    BY DEF Pools
  <1> QED  BY <1>1 DEF Frozen, Ids

LEMMA SelectionFields ==
    ASSUME TypeOK, selection # None
    PROVE  /\ selection.pool \in Pools /\ selection.selected \in SUBSET Ids
           /\ selection.bound \in BOOLEAN
           /\ selection = [pool |-> selection.pool, selected |-> selection.selected,
                           bound |-> selection.bound]
  BY DEF TypeOK

\* What an export appends.
LEMMA ExportFacts ==
    ASSUME TypeOK, NEW profile, Export(profile)
    PROVE  /\ exports' \in Seq([pool : Pools, selected : SUBSET Ids, rows : AllRows])
           /\ Len(exports') = Len(exports) + 1
           /\ \A n \in 1 .. Len(exports) : exports'[n] = exports[n]
           /\ exports'[Len(exports')].pool = selection.pool
           /\ exports'[Len(exports')].selected = selection.selected
           /\ exports'[Len(exports')].rows = Rows(conversations, selection.selected)
           /\ bundle' \in [Part -> 0 .. Len(exports')]
  <1> DEFINE new == [pool |-> selection.pool, selected |-> selection.selected,
                     rows |-> Rows(conversations, selection.selected)]
             Entries == [pool : Pools, selected : SUBSET Ids, rows : AllRows]
  <1>1. selection.pool \in Pools /\ selection.selected \in SUBSET Ids
    BY SelectionFields DEF Export
  <1>2. Rows(conversations, selection.selected) \in AllRows
    BY DEF TypeOK, Export, AllRows
  <1>3. new \in Entries
    BY <1>1, <1>2
  <1>4. exports' = Append(exports, new) /\ exports \in Seq(Entries) /\ bundle' = bundle
    BY DEF Export, TypeOK
  <1> HIDE DEF new, Entries
  <1>5. /\ exports' \in Seq(Entries) /\ Len(exports') = Len(exports) + 1
        /\ \A n \in 1 .. Len(exports) : exports'[n] = exports[n]
        /\ exports'[Len(exports')] = new
    BY <1>3, <1>4
  <1>6. bundle' \in [Part -> 0 .. Len(exports')]
    <2>1. Len(exports) \in Nat
      BY <1>4
    <2>2. 0 .. Len(exports) \subseteq 0 .. Len(exports')
      BY <2>1, <1>5
    <2> QED  BY <1>4, <2>2 DEF TypeOK
  <1> QED  BY <1>5, <1>6 DEF new, Entries

LEMMA TypeStep == ExportInv /\ [Next]_vars => TypeOK'
  <1> SUFFICES ASSUME TypeOK, [Next]_vars PROVE TypeOK'
    BY DEF ExportInv
  <1>1. CASE Rewrite
    BY <1>1 DEF TypeOK, Rewrite, Command
  <1>2. CASE FreezePool
    BY <1>2, PoolFrozen DEF TypeOK, FreezePool, Command
  <1>3. ASSUME NEW policy \in Policies, Select(policy) PROVE TypeOK'
    <2>1. PICK chosen \in Solved(policy) : selection' = Unbound(pool, chosen)
      BY <1>3 DEF Select
    <2>2. pool \in Pools
      BY <1>3 DEF Select, TypeOK
    <2>3. chosen \in SUBSET Ids
      BY <2>2, PoolIds DEF Solved
    <2>4. /\ selection' \in [pool : Pools, selected : SUBSET Ids, bound : BOOLEAN]
      BY <2>1, <2>2, <2>3 DEF Unbound
    <2> QED  BY <1>3, <2>4 DEF TypeOK, Select, Command
  <1>4. ASSUME NEW policy \in Policies, Audit(policy) PROVE TypeOK'
    <2>1. [pool |-> selection.pool, selected |-> selection.selected, policy |-> policy]
             \in [pool : Pools, selected : SUBSET Ids, policy : Policies]
      BY <1>4, SelectionFields DEF Audit
    <2>2. audits' \subseteq [pool : Pools, selected : SUBSET Ids, policy : Policies]
      BY <1>4, <2>1 DEF Audit, TypeOK
    <2> QED  BY <1>4, <2>2 DEF TypeOK, Audit, Command
  <1>5. CASE Bind
    <2>1. selection' \in [pool : Pools, selected : SUBSET Ids, bound : BOOLEAN]
      BY <1>5, SelectionFields DEF Bind, TypeOK
    <2> QED  BY <1>5, <2>1 DEF TypeOK, Bind
  <1>6. ASSUME NEW profile, Export(profile) PROVE TypeOK'
    BY <1>6, ExportFacts DEF TypeOK, Export, Command, Part
  <1>7. CASE WritePart
    <2>1. Len(exports) \in 0 .. Len(exports)
      BY DEF TypeOK
    <2>2. bundle' \in [Part -> 0 .. Len(exports)]
      BY <1>7, <2>1 DEF WritePart, TypeOK
    <2>3. pc' \in {"idle", "bind"} \cup Part /\ pc' # "bind"
      BY <1>7 DEF WritePart, NextPart, Part
    <2> QED  BY <1>7, <2>2, <2>3 DEF TypeOK, WritePart
  <1>8. CASE Kill
    BY <1>8 DEF TypeOK, Kill
  <1>9. CASE UNCHANGED vars
    BY <1>9 DEF TypeOK, vars
  <1> QED  BY <1>1, <1>2, <1>3, <1>4, <1>5, <1>6, <1>7, <1>8, <1>9 DEF Next

\* What was audited stays audited.
LEMMA AuditedStays ==
    ASSUME audits \subseteq audits', NEW frozen, NEW chosen, Audited(frozen, chosen)
    PROVE  Audited(frozen, chosen)'
  BY DEF Audited

LEMMA AuditsGrow == [Next]_vars => audits \subseteq audits'
  BY DEF Next, vars, Rewrite, FreezePool, Select, Audit, Bind, Export, WritePart, Kill

LEMMA ManifestStep == ExportInv /\ [Next]_vars => ManifestAudited'
  <1> SUFFICES ASSUME ExportInv, [Next]_vars,
                      selection' # None, selection'.bound \/ pc' = "bind"
               PROVE  Audited(selection.pool, selection.selected)'
    BY DEF ManifestAudited
  <1>1. TypeOK /\ ManifestAudited /\ audits \subseteq audits'
    BY AuditsGrow DEF ExportInv
  <1>2. ASSUME NEW policy \in Policies, Select(policy)
        PROVE  Audited(selection.pool, selection.selected)'
    BY <1>2 DEF Select, Command, Unbound
  <1>3. ASSUME NEW policy \in Policies, Audit(policy)
        PROVE  Audited(selection.pool, selection.selected)'
    <2>1. pool \in Pools
      BY <1>1, <1>3 DEF Audit, TypeOK
    <2>2. Constraints(selection.pool, selection.selected, policy)
      BY <1>3, <2>1, PurposesMarked, AuditSound DEF Audit
    <2> DEFINE new == [pool |-> selection.pool, selected |-> selection.selected,
                       policy |-> policy]
    <2>3. new \in audits' /\ selection' = selection
      BY <1>3 DEF Audit
    <2>4. /\ new.pool = selection.pool /\ new.selected = selection.selected
          /\ Constraints(new.pool, new.selected, new.policy)
      BY <2>2
    <2> HIDE DEF new
    <2> QED  BY <2>3, <2>4 DEF Audited
  <1>4. CASE Bind
    <2>1. /\ selection # None /\ selection'.pool = selection.pool
          /\ selection'.selected = selection.selected
      BY <1>1, <1>4, SelectionFields DEF Bind, TypeOK
    <2>2. Audited(selection.pool, selection.selected)
      BY <1>1, <1>4, <2>1 DEF Bind, ManifestAudited
    <2> QED  BY <1>1, <2>1, <2>2, AuditedStays
  <1>5. CASE UNCHANGED selection /\ (pc' # "bind" \/ pc' = pc)
    <2>1. Audited(selection.pool, selection.selected)
      BY <1>1, <1>5 DEF ManifestAudited
    <2> QED  BY <1>1, <1>5, <2>1, AuditedStays
  <1>6. CASE Rewrite \/ FreezePool \/ Kill \/ UNCHANGED vars
    BY <1>5, <1>6 DEF Rewrite, FreezePool, Kill, vars
  <1>7. ASSUME NEW profile, Export(profile) PROVE Audited(selection.pool, selection.selected)'
    BY <1>5, <1>7 DEF Export
  <1>8. CASE WritePart
    BY <1>5, <1>8 DEF WritePart, NextPart
  <1> QED  BY <1>2, <1>3, <1>4, <1>6, <1>7, <1>8 DEF Next

LEMMA ExportsStep == ExportInv /\ [Next]_vars => ExportsAudited'
  <1> SUFFICES ASSUME ExportInv, [Next]_vars, NEW n \in 1 .. Len(exports')
               PROVE  ExportAudited(exports[n])'
    BY DEF ExportsAudited
  <1>1. TypeOK /\ ManifestAudited /\ ExportsAudited /\ audits \subseteq audits'
    BY AuditsGrow DEF ExportInv
  <1>2. ASSUME n \in 1 .. Len(exports), exports'[n] = exports[n]
        PROVE  ExportAudited(exports[n])'
    <2>1. ExportAudited(exports[n])
      BY <1>1, <1>2 DEF ExportsAudited
    <2>2. Audited(exports[n].pool, exports[n].selected)
      BY <2>1 DEF ExportAudited
    <2>3. Audited(exports[n].pool, exports[n].selected)'
      BY <1>1, <1>2, <2>2, AuditedStays
    <2> QED  BY <1>2, <2>1, <2>3 DEF ExportAudited
  <1>3. ASSUME NEW profile, Export(profile) PROVE ExportAudited(exports[n])'
    <2>1. Len(exports) \in Nat /\ Len(exports') = Len(exports) + 1
      BY <1>1, <1>3, ExportFacts DEF TypeOK
    <2>2. CASE n \in 1 .. Len(exports)
      BY <1>1, <1>2, <1>3, <2>2, ExportFacts
    <2>3. CASE n = Len(exports')
      <3>1. /\ exports'[n].pool = selection.pool /\ exports'[n].selected = selection.selected
            /\ exports'[n].rows = Rows(conversations, selection.selected)
        BY <1>1, <1>3, <2>3, ExportFacts
      <3>2. Audited(selection.pool, selection.selected)
        BY <1>1, <1>3 DEF Export, MayExport, ManifestAudited
      <3>3. Audited(exports[n].pool, exports[n].selected)'
        BY <1>1, <3>1, <3>2, AuditedStays
      <3>4. \A c \in selection.selected :
               /\ conversations[c].status = "QUALITY_CANDIDATE"
               /\ conversations[c].candidate.purpose = "training"
        BY <1>3 DEF Export, Exportable, Accepted
      <3> QED  BY <3>1, <3>3, <3>4 DEF ExportAudited, Rows
    <2> QED  BY <2>1, <2>2, <2>3
  <1>4. CASE UNCHANGED exports
    BY <1>2, <1>4
  <1> QED
    BY <1>3, <1>4 DEF Next, Rewrite, FreezePool, Select, Audit, Bind, WritePart, Kill, vars

LEMMA OrderStep == ExportInv /\ [Next]_vars => (WritingInOrder /\ NewestFirst)'
  <1> SUFFICES ASSUME ExportInv, [Next]_vars PROVE (WritingInOrder /\ NewestFirst)'
    OBVIOUS
  <1>1. TypeOK /\ WritingInOrder /\ NewestFirst
    BY DEF ExportInv
  <1>2. ASSUME NEW profile, Export(profile) PROVE (WritingInOrder /\ NewestFirst)'
    BY <1>1, <1>2 DEF Export, WritingInOrder, NewestFirst, WrittenBefore
  <1>3. CASE WritePart
    <2>1. /\ exports' = exports /\ pc \in Part /\ pc' = NextPart(pc)
          /\ bundle' = [bundle EXCEPT ![pc] = Len(exports)]
          /\ bundle \in [Part -> 0 .. Len(exports)] /\ Len(exports) \in Nat
          /\ \A part \in WrittenBefore(pc) : bundle[part] = Len(exports)
      BY <1>1, <1>3 DEF WritePart, TypeOK, WritingInOrder
    <2>2. /\ bundle["selection"] <= bundle["provenance"]
          /\ bundle["provenance"] <= bundle["ratings"]
          /\ bundle["ratings"] <= bundle["training"]
      BY <1>1 DEF NewestFirst
    <2>3. CASE pc = "training"
      BY <2>1, <2>2, <2>3 DEF WritingInOrder, NewestFirst, WrittenBefore, NextPart, Part
    <2>4. CASE pc = "ratings"
      BY <2>1, <2>2, <2>4 DEF WritingInOrder, NewestFirst, WrittenBefore, NextPart, Part
    <2>5. CASE pc = "provenance"
      BY <2>1, <2>2, <2>5 DEF WritingInOrder, NewestFirst, WrittenBefore, NextPart, Part
    <2>6. CASE pc = "selection"
      BY <2>1, <2>2, <2>6 DEF WritingInOrder, NewestFirst, WrittenBefore, NextPart, Part
    <2> QED  BY <2>1, <2>3, <2>4, <2>5, <2>6 DEF Part
  <1>4. CASE /\ UNCHANGED <<exports, bundle>>
             /\ pc' \notin Part \/ pc' = pc
    BY <1>1, <1>4 DEF WritingInOrder, NewestFirst
  <1>5. CASE Rewrite \/ FreezePool \/ Bind \/ Kill \/ UNCHANGED vars
    BY <1>4, <1>5 DEF Rewrite, FreezePool, Bind, Kill, vars, Part
  <1>6. ASSUME NEW policy \in Policies, Select(policy) \/ Audit(policy)
        PROVE  (WritingInOrder /\ NewestFirst)'
    BY <1>4, <1>6 DEF Select, Audit, Part
  <1> QED  BY <1>2, <1>3, <1>5, <1>6 DEF Next

LEMMA InitInv == Init => ExportInv
  <1> SUFFICES ASSUME Init PROVE ExportInv
    OBVIOUS
  <1>1. TypeOK
    BY DEF Init, TypeOK
  <1> QED
    BY <1>1 DEF Init, ExportInv, ManifestAudited, ExportsAudited, WritingInOrder,
                NewestFirst, Part

LEMMA InvHolds == Spec => []ExportInv
  <1>1. ExportInv /\ [Next]_vars => ExportInv'
    BY TypeStep, ManifestStep, ExportsStep, OrderStep DEF ExportInv
  <1> QED  BY InitInv, <1>1, PTL DEF Spec

\* The files and the running command have the types of TypeOK.
THEOREM TypeCorrect == Spec => []TypeOK
  <1>1. ExportInv => TypeOK
    BY DEF ExportInv
  <1> QED  BY <1>1, InvHolds, PTL

\* A manifest that carries the digest of an audit keeps the policy of that audit,
\* whatever the solver answered (audit_selection, bind_audit).
THEOREM BoundHolds == Spec => []BoundKeepsPolicy
  <1>1. ExportInv => BoundKeepsPolicy
    BY DEF ExportInv, ManifestAudited, Audited, BoundKeepsPolicy
  <1> QED  BY <1>1, InvHolds, PTL

\* Only audited, certified conversations of training purpose are in the training
\* file (export_bundle, training_record).
THEOREM TrainingHolds == Spec => []TrainingIsAudited
  <1>1. ExportInv => TrainingIsAudited
    <2> SUFFICES ASSUME ExportInv, bundle["training"] # 0 PROVE TrainingIsAudited
      BY DEF TrainingIsAudited
    <2>1. bundle["training"] \in 1 .. Len(exports)
      BY DEF ExportInv, TypeOK, Part
    <2>2. ExportAudited(exports[bundle["training"]])
      BY <2>1 DEF ExportInv, ExportsAudited
    <2> QED  BY <2>2 DEF ExportAudited, Audited, TrainingIsAudited
  <1> QED  BY <1>1, InvHolds, PTL

\* No file of a bundle is older than its manifest, and a bundle whose first file
\* and manifest are of one export is all of that export, whichever exports were
\* killed (export_bundle writes the manifest last).
THEOREM ManifestIsLast == Spec => []ManifestLast
  <1>1. ExportInv => ManifestLast
    <2> SUFFICES ASSUME ExportInv PROVE ManifestLast
      OBVIOUS
    <2>1. \A part \in Part : bundle[part] \in Nat
      BY DEF ExportInv, TypeOK
    <2>2. NewestFirst
      BY DEF ExportInv
    <2> QED  BY <2>1, <2>2 DEF NewestFirst, ManifestLast, Part
  <1> QED  BY <1>1, InvHolds, PTL
=================================================================================
