----------------------------- MODULE TrainingExport -----------------------------
(***************************************************************************)
(* From conversations to training data: the commands freeze-pool, select,  *)
(* audit and export (cli.py, operations.make_frozen_pool, selection.py,    *)
(* export.py), each a process that reads some files and replaces others,   *)
(* one file at a time, and may be killed between two.                      *)
(*                                                                         *)
(* The operator runs one command at a time, in any order, with any of the  *)
(* policies; between commands the conversations file may be written again  *)
(* (another run, rate-existing).  The solver is external and not trusted.  *)
(* A command that refuses changes nothing and is no step here.             *)
(***************************************************************************)
EXTENDS Selection, Sequences

CONSTANTS
    Contents,     \* what the conversations file may hold: functions from
                  \* identifiers to conversations
    Policies,
    MaxCommands,  \* bound: how many commands are run
    None

\* The files of a bundle.
Part == {"training", "ratings", "provenance", "selection"}

ASSUME ExportAssumption ==
    /\ MaxCommands \in Nat
    /\ \A content \in Contents : \A c \in DOMAIN content :
          content[c].candidate.purpose \in {"training", "evaluation"}

VARIABLES
    conversations,  \* the conversations file
    pool,           \* the frozen pool file, or None
    selection,      \* the selection manifest file, or None
    audits,         \* history: what audits found MET, with the policy
    exports,        \* history: what each export that was begun was to write
    bundle,         \* which export each file of the destination is of; 0: no file
    commands,
    pc              \* what the running command does next

vars == <<conversations, pool, selection, audits, exports, bundle, commands, pc>>

Accepted(conversation) == conversation.status = "QUALITY_CANDIDATE"

\* make_frozen_pool: evaluation-only images stay in the pool.
Frozen(content) ==
    [c \in {d \in DOMAIN content : Accepted(content[d])} |-> content[c].candidate]

Pools == {Frozen(content) : content \in Contents}

Ids == UNION {DOMAIN content : content \in Contents}

ASSUME NoneAssumption == None \notin Pools \cup [pool : Pools, selected : SUBSET Ids, bound : BOOLEAN]

\* What an export was to write.
Rows(content, chosen) == [c \in chosen |-> content[c]]

AllRows == UNION {{Rows(content, chosen) : chosen \in SUBSET DOMAIN content} :
                     content \in Contents}

TypeOK ==
    /\ conversations \in Contents
    /\ pool \in Pools \cup {None}
    /\ selection \in [pool : Pools, selected : SUBSET Ids, bound : BOOLEAN] \cup {None}
    /\ audits \subseteq [pool : Pools, selected : SUBSET Ids, policy : Policies]
    /\ exports \in Seq([pool : Pools, selected : SUBSET Ids,
                        rows : AllRows])
    /\ bundle \in [Part -> 0 .. Len(exports)]
    /\ commands \in Nat
    /\ pc \in {"idle", "bind"} \cup Part
    /\ pc = "bind" => selection # None

\* A manifest; `bound` when it carries the digest of an audit.
Unbound(frozen, chosen) == [pool |-> frozen, selected |-> chosen, bound |-> FALSE]

Init ==
    /\ conversations \in Contents
    /\ pool = None /\ selection = None
    /\ audits = {} /\ exports = <<>>
    /\ bundle = [part \in Part |-> 0]
    /\ commands = 0 /\ pc = "idle"

Command ==
    /\ pc = "idle"
    /\ commands < MaxCommands
    /\ commands' = commands + 1
-----------------------------------------------------------------------------
\* The conversations are generated on, or rated again.
Rewrite ==
    /\ Command
    /\ conversations' \in Contents \ {conversations}
    /\ UNCHANGED <<pool, selection, audits, exports, bundle, pc>>

FreezePool ==
    /\ Command
    /\ pool' = Frozen(conversations)
    /\ UNCHANGED <<conversations, selection, audits, exports, bundle, pc>>

\* The solver answers with candidates of the pool it was shown, or with none.
Solved(policy) ==
    SUBSET {c \in DOMAIN pool :
               policy.allow_evaluation_sources \/ pool[c].purpose = "training"}

\* select writes its manifest also when the solver found nothing.
Select(policy) ==
    /\ pool # None
    /\ Command
    /\ \E chosen \in Solved(policy) : selection' = Unbound(pool, chosen)
    /\ UNCHANGED <<conversations, pool, audits, exports, bundle, pc>>

\* audit recomputes the conditions and refuses what does not meet them; it
\* writes its report ...
Audit(policy) ==
    /\ pool # None /\ selection # None
    /\ Command
    /\ AuditMet(pool, selection, policy)
    /\ audits' = audits \cup {[pool |-> selection.pool, selected |-> selection.selected,
                               policy |-> policy]}
    /\ pc' = "bind"
    /\ UNCHANGED <<conversations, pool, selection, exports, bundle>>

\* ... and then the manifest with the digest that binds the two.
Bind ==
    /\ pc = "bind"
    /\ selection' = [selection EXCEPT !.bound = TRUE]
    /\ pc' = "idle"
    /\ UNCHANGED <<conversations, pool, audits, exports, bundle, commands>>

\* export_bundle: the profile of the configuration file that was given, and a
\* manifest bound to its audit.
MayExport(profile) == profile = "standard" /\ selection.bound

\* Slip: only the manifest vouches for a conversation.
ExportableSelected(c) == TRUE

\* training_record
Exportable(c) ==
    Accepted(conversations[c]) /\ conversations[c].candidate.purpose = "training"

\* Slip: the manifest goes first, to announce the bundle.
NextPartManifestFirst(part) ==
    CASE part = "training" -> "selection"
      [] part = "selection" -> "ratings"
      [] part = "ratings" -> "provenance"
      [] OTHER -> "idle"

\* The order of the four files.
NextPart(part) ==
    CASE part = "training" -> "ratings"
      [] part = "ratings" -> "provenance"
      [] part = "provenance" -> "selection"
      [] OTHER -> "idle"

\* export reads conversations and manifest, checks both, makes the rows ...
Export(profile) ==
    /\ selection # None
    /\ MayExport(profile)
    /\ selection.selected \subseteq DOMAIN conversations
    /\ \A c \in selection.selected : Exportable(c)
    /\ Command
    /\ exports' = Append(exports,
                         [pool |-> selection.pool, selected |-> selection.selected,
                          rows |-> Rows(conversations, selection.selected)])
    /\ pc' = "training"
    /\ UNCHANGED <<conversations, pool, selection, audits, bundle>>

\* ... and replaces file after file.
WritePart ==
    /\ pc \in Part
    /\ bundle' = [bundle EXCEPT ![pc] = Len(exports)]
    /\ pc' = NextPart(pc)
    /\ UNCHANGED <<conversations, pool, selection, audits, exports, commands>>

\* The process dies.
Kill ==
    /\ pc # "idle"
    /\ pc' = "idle"
    /\ UNCHANGED <<conversations, pool, selection, audits, exports, bundle, commands>>

Next ==
    \/ Rewrite \/ FreezePool
    \/ \E policy \in Policies : Select(policy) \/ Audit(policy)
    \/ Bind
    \/ \E profile \in {"standard", "pilot"} : Export(profile)
    \/ WritePart \/ Kill

Spec == Init /\ [][Next]_vars
-----------------------------------------------------------------------------
\* Whatever the solver answered, and with whatever files the commands were run,
\* a manifest that is bound to an audit keeps the policy of that audit in the
\* pool it names (selection.py, "CP-SAT selection and independent integer audit").
BoundKeepsPolicy ==
    selection # None /\ selection.bound =>
        \E audit \in audits :
            /\ audit.pool = selection.pool /\ audit.selected = selection.selected
            /\ Constraints(audit.pool, audit.selected, audit.policy)

\* The training file, whole or not yet accompanied by the others, holds just the
\* conversations of an audited selection, each certified and of training purpose
\* in the file it was taken from, also when its policy allowed evaluation-only
\* sources ("Convert one fully accepted training conversation").
TrainingIsAudited ==
    bundle["training"] # 0 =>
        LET export == exports[bundle["training"]] IN
        /\ \E audit \in audits :
              /\ audit.pool = export.pool /\ audit.selected = export.selected
              /\ Constraints(audit.pool, audit.selected, audit.policy)
        /\ DOMAIN export.rows = export.selected
        /\ \A c \in export.selected :
              /\ export.rows[c].status = "QUALITY_CANDIDATE"
              /\ export.rows[c].candidate.purpose = "training"

\* However exports were killed and repeated, no file is older than the manifest
\* beside it; and where the first file and the manifest are of one export, so is
\* the whole bundle.  (The other files may be newer than the manifest, after an
\* export that was killed.)
ManifestLast ==
    /\ \A part \in Part : bundle["selection"] <= bundle[part]
    /\ bundle["training"] = bundle["selection"] =>
          \A part \in Part : bundle[part] = bundle["selection"]

\* The audit recomputes what the solver was asked for
\* (tests/test_selection_and_export.py, test_cp_sat_selection_matches_independent_audit).
AuditMatchesSolver ==
    selection # None /\ selection.pool = pool =>
        \A policy \in Policies :
            Constraints(pool, selection.selected, policy) => AuditMet(pool, selection, policy)
=================================================================================
