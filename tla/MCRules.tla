--------------------------------- MODULE MCRules ---------------------------------
(***************************************************************************)
(* The operators of Rules, Requirements and Rubric against reference       *)
(* definitions, over bounded inputs.  TLC evaluates the ASSUMEs before     *)
(* each run of a module that extends this one.                             *)
(***************************************************************************)
EXTENDS Review

\* Numbers: what is written is read, and nothing is read that nobody writes.

\* The decimal digits of a number.
Decimal[n \in Nat] ==
    IF n < 10 THEN <<Digits[n + 1]>> ELSE Append(Decimal[n \div 10], Digits[(n % 10) + 1])

\* Thousands separated, as far as the inputs below need it.
Thousands(digits) ==
    IF Len(digits) <= 3 THEN digits
    ELSE SubSeq(digits, 1, Len(digits) - 3) \o <<",">>
             \o SubSeq(digits, Len(digits) - 2, Len(digits))

Read(text) == parse_numeric_lexeme(text, ".", ",")

\* Every number with two decimals is read back exactly, grouped or not, with sign.
ASSUME NumbersAreReadBack ==
    \A n \in (0 .. 130) \cup (99990 .. 100110) :
        LET whole    == Decimal[n \div 100]
            fraction == <<".", Digits[((n \div 10) % 10) + 1], Digits[(n % 10) + 1]>>
        IN \A written \in {whole \o fraction, Thousands(whole) \o fraction} :
              /\ SameFraction(Read(written), [num |-> n, den |-> 100])
              /\ SameFraction(Read(<<"-">> \o written), [num |-> -n, den |-> 100])

\* A separator is never guessed: a text is read only if it is digits grouped in
\* the one way Thousands groups them, or not at all, then at most one fraction.
ASSUME NoNumberIsGuessed ==
    \A length \in 1 .. 5 : \A text \in [1 .. length -> {"1", ",", "."}] :
        Read(text) # None =>
            \E d \in 1 .. 5, f \in 0 .. 4 :
                LET digits   == [i \in 1 .. d |-> "1"]
                    fraction == IF f = 0 THEN <<>> ELSE <<".">> \o [i \in 1 .. f |-> "1"]
                IN text \in {digits \o fraction, Thousands(digits) \o fraction}

\* A separator must be declared: without any, no number is read, plain ones included.
ASSUME UndeclaredIsUnread == parse_numeric_lexeme(<<"7">>, None, None) = None

\* Arithmetic: the operations undo each other and keep denominators positive.
ASSUME ArithmeticIsExact ==
    LET fractions == [num : -2 .. 2, den : {1, 10}] IN
    \A x, y \in fractions :
        /\ SameFraction(Minus(Plus(x, y), y), x)
        /\ SameFraction(Plus(x, y), Plus(y, x))
        /\ y.num # 0 => SameFraction(Over(Times(x, y), y), x) /\ Over(x, y).den > 0

\* Units: a result with a unit has it from an operand, and a sum or difference
\* of different units does not exist.
ASSUME UnitsAgree ==
    \A operation \in {"add", "subtract", "multiply", "divide"}, u, v \in {"g", "cm", None} :
        LET one    == [num |-> 1, den |-> 1]
            result == exact_calculate(operation, <<one, one>>, <<u, v>>)
        IN result # None =>
              /\ result.unit \in {u, v, None}
              /\ operation \in {"add", "subtract"} => u = v /\ result.unit = u
              /\ result.unit = None => u = v

\* Sets: a complete set is one and the same bag of members.
ASSUME CompleteIsSameBag ==
    LET lists == UNION {[1 .. n -> {"cup", "plate"}] : n \in 0 .. 3} IN
    \A expected, observed \in lists, explicit \in BOOLEAN :
        LET result == compare_complete_set(expected, observed, explicit) IN
        /\ result # None => (result.verdict = "MET" <=> ToBag(expected) = ToBag(observed))
        /\ result = None <=> ~IsInjective(expected) \/ (expected = <<>> /\ ~explicit)

\* Requirements: what is agreed depends on neither the judges' order nor the
\* order of their lists, and is agreed only if both list it.
ASSUME AgreementIsSymmetric ==
    \A index \in DOMAIN RequirementInventories :
      \A first, second \in RequirementInventories[index] :
        LET agreed == Public!reconcile_inventories(first, second, index) IN
        /\ agreed = Public!reconcile_inventories(second, first, index)
        /\ agreed # None =>
              \A r \in agreed, inventory \in {first, second} :
                  \E i \in DOMAIN inventory.requirements :
                      Public!Requirement(Public!CanonicalSpec(inventory.requirements[i]),
                                         index) = r

\* The ledger: whatever the events, what is active afterwards was carried or
\* introduced by them, each identity once; what was for an earlier turn only is
\* gone and may come again, what persists may not be introduced a second time.
ASSUME LedgerForgets ==
    LET specs == [kind : {"content"}, quote : {"in French", "briefly"},
                  lifetime : {"persistent", "current_turn"}, source : {1}]
        of(index) == {Public!Requirement(spec, index) : spec \in specs}
        events == [action : {"introduce", "retain", "revoke", "override"},
                   requirement : of(2), previous : specs]
    IN
    \A active \in SUBSET of(1) :
        /\ \A e, f \in events :
              LET result == Public!apply(active, 2, <<e, f>>) IN
              result # None =>
                  /\ result \subseteq active \cup {e.requirement, f.requirement}
                  /\ \A r \in result : r.lifetime = "persistent" \/ r.introduced_turn = 2
                  /\ \A r, s \in result :
                        Public!requirement_id(r) = Public!requirement_id(s) => r = s
        /\ \A e \in events : e.action = "introduce" =>
              (Public!apply(active, 2, <<e>>) = None
                 <=> \E r \in active : r.lifetime = "persistent"
                        /\ Public!requirement_id(r) = Public!requirement_id(e.requirement))
-----------------------------------------------------------------------------
Item(id, predicate, use) == [template_id |-> id, applies_when |-> predicate, default_use |-> use]

Gate(id, predicate) == Item(id, predicate, "gate")

\* resources/rubric_catalog.yaml
FullCatalog ==
    <<Gate("F_Q_CLEAR", "always"), Gate("F_A_CLEAR", "natural_language_answer"),
      Gate("F_FORMAT", "public_format_constraint"),
      Item("F_REDUNDANCY", "natural_language_answer", "annotate"),
      Gate("R_CORE", "always"), Gate("R_REQUIREMENT", "each_public_requirement"),
      Item("R_FOCUS", "always", "annotate"), Gate("V_LINEAGE", "always"),
      Gate("I_REFERENT", "always"), Gate("I_TASK_SUPPORT", "always"),
      Gate("C_CLAIM", "each_factual_claim"), Gate("C_COVERAGE", "always"),
      Gate("C_COMPUTATION", "has_computation"), Gate("H_CONSISTENCY", "has_history"),
      Gate("H_BINDING", "has_history_binding"),
      Gate("H_WITNESS", "designated_strong_dependency_turn"),
      Gate("U_NO_OVERCLAIM", "always"), Gate("U_LIMIT", "limitation_profile"),
      Gate("U_FALSE_PREMISE", "false_premise_profile"), Gate("S_POLICY", "always"),
      Gate("S_PII", "always"), Gate("S_INJECTION", "always"), Gate("L_Q_TARGET", "always"),
      Gate("L_A_TARGET", "answer_has_non_exempt_natural_language"),
      Gate("I_CONTEXT_FIT", "always"), Gate("C_SET_COMPLETE", "exhaustive_request"),
      Gate("H_TURN_PROGRESS", "later_turn"), Gate("F_PUBLIC_NATURAL", "always")>>

Full == INSTANCE Rubric WITH Catalog <- FullCatalog

Ids(chosen) == {chosen[i].template_id : i \in DOMAIN chosen}

\* The whole catalog: every predicate in it is one the code knows, no item is
\* without a subject, and only the witness item is never asked.
ASSUME CatalogIsCovered ==
    LET requirement == [kind |-> "format"]
        contexts ==
            {RubricContext(index, profile, prose, rs, found, computed, {}, exhaustive) :
                index \in 1 .. 2, profile \in {"normal", "limitation", "false_premise"},
                prose \in BOOLEAN, computed \in BOOLEAN, exhaustive \in BOOLEAN,
                rs \in SUBSET {requirement}, found \in SUBSET {"span"}}
            \cup {RubricContext(2, "normal", TRUE, {requirement}, {}, FALSE,
                                {requirement}, FALSE)}
    IN
    /\ Full!CatalogAssumption
    /\ UNION {Ids(Full!applicable_rubric_items(c)) : c \in contexts}
           = Ids(FullCatalog) \ {"H_WITNESS"}
    /\ \A c \in contexts :
          LET chosen == Full!applicable_rubric_items(c) IN
          /\ \A i \in DOMAIN chosen : Full!Subjects(chosen[i], c) # {}
          /\ ~c.has_natural_language_answer =>
                Ids(chosen) \cap {"F_A_CLEAR", "F_REDUNDANCY", "L_A_TARGET"} = {}
================================================================================
