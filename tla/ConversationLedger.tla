--------------------------- MODULE ConversationLedger ---------------------------
(***************************************************************************)
(* What one conversation of a run promises to whoever reads the run's      *)
(* output and its store, however often the process dies in between:        *)
(*                                                                         *)
(*  - accepted turns are only ever appended, each one generated from       *)
(*    exactly the accepted turns before it, all by one generator;          *)
(*  - a durable verdict, once given, is final and closes the ledger;       *)
(*  - nothing is announced as a quality candidate except the accepted      *)
(*    turns themselves, at least MinTurns of them.                         *)
(*                                                                         *)
(* This is the abstract specification that Synthesis implements.           *)
(***************************************************************************)
EXTENDS Integers, Sequences

CONSTANTS
    Turn,       \* the records a turn may be
    Image,      \* image records
    Generator,  \* generation models
    NoVerdict,  \* the absence of a durable verdict
    MinTurns, MaxTurns

VARIABLES
    durable,    \* do verdicts become durable (holistic evaluation)?
    accepted,   \* the accepted turns
    verdict,    \* NoVerdict or the final conversation
    announced   \* every conversation handed to the caller so far

ledgerVars == <<durable, accepted, verdict, announced>>

Statuses == {"QUALITY_CANDIDATE", "REJECTED", "ABSTAINED", "ERROR"}

\* The public messages of a sequence of turns.
Messages(turns) ==
    [i \in DOMAIN turns |-> <<turns[i].question, turns[i].answer>>]

\* t is what may follow `turns`: accepted, generated from exactly their public
\* messages, by their generator.
Extends(turns, t) ==
    /\ t \in Turn
    /\ t.status = "COMMITTED"
    /\ t.index = Len(turns) + 1
    /\ t.history = Messages(turns)
    /\ \A i \in DOMAIN turns : turns[i].generator = t.generator

\* The turns of a conversation are the accepted ones, followed by at most one
\* turn that was not accepted.
Accounts(turns) ==
    \/ turns = accepted
    \/ /\ Len(turns) = Len(accepted) + 1
       /\ SubSeq(turns, 1, Len(accepted)) = accepted
       /\ turns[Len(turns)].status # "COMMITTED"

Justified(c) ==
    /\ c.status \in Statuses
    /\ c.image \in Image
    /\ c.generator \in Generator
    /\ Accounts(c.turns)
    /\ \A i \in DOMAIN c.turns : c.turns[i].generator = c.generator
    /\ c.status = "QUALITY_CANDIDATE" =>
        /\ c.turns = accepted
        /\ Len(accepted) \in MinTurns .. MaxTurns

Init ==
    /\ durable \in BOOLEAN
    /\ accepted = <<>>
    /\ verdict = NoVerdict
    /\ announced = {}

Accept(t) ==
    /\ verdict = NoVerdict
    /\ Extends(accepted, t)
    /\ accepted' = Append(accepted, t)
    /\ UNCHANGED <<durable, verdict, announced>>

Settle(c) ==
    /\ durable
    /\ verdict = NoVerdict
    /\ c # NoVerdict
    /\ Justified(c)
    /\ verdict' = c
    /\ UNCHANGED <<durable, accepted, announced>>

\* With durable verdicts only the verdict is announced; an operational error
\* may be announced at any time and settles nothing.
Announce(c) ==
    /\ \/ /\ c.status = "ERROR"
          /\ Justified(c)
       \/ durable /\ c = verdict
       \/ ~durable /\ Justified(c)
    /\ announced' = announced \cup {c}
    /\ UNCHANGED <<durable, accepted, verdict>>

\* The quantifiers range over what the step writes.
Next ==
    \/ /\ Len(accepted') > 0
       /\ Accept(accepted'[Len(accepted')])
    \/ Settle(verdict')
    \/ \E c \in announced' : Announce(c)

Spec == Init /\ [][Next]_ledgerVars
=================================================================================
