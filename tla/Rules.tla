--------------------------------- MODULE Rules ---------------------------------
(***************************************************************************)
(* The deterministic checks of rules.py: complete sets and counts, numbers *)
(* with a declared punctuation, exact arithmetic with units.  Operators    *)
(* only.  A text is a sequence of characters, digits of any script and the *)
(* Unicode minus already being ASCII ones; an inventory is what one judge  *)
(* extracted.                                                              *)
(***************************************************************************)
EXTENDS Integers, Sequences, SequencesExt

CONSTANT None  \* no check, no unit, no separator; what a rule raises instead

-----------------------------------------------------------------------------
\* Sets and counts

Duplicates(s) == {s[i] : i \in {j \in DOMAIN s : \E k \in 1 .. j - 1 : s[k] = s[j]}}

\* compare_complete_set; an ambiguous expected scope is no scope.
compare_complete_set(expected, observed, empty_scope_is_explicit) ==
    LET missing    == Range(expected) \ Range(observed)
        unexpected == Range(observed) \ Range(expected)
    IN
    IF \/ expected = <<>> /\ ~empty_scope_is_explicit
       \/ "" \in Range(expected) \cup Range(observed)
       \/ Duplicates(expected) # {}
    THEN None
    ELSE [verdict |-> IF missing \cup unexpected \cup Duplicates(observed) = {}
                      THEN "MET" ELSE "NOT_MET",
          missing |-> missing, unexpected |-> unexpected,
          duplicates |-> Duplicates(observed)]

\* SetInventory.validate_coverage: what a judge can send.  Counts are a set of
\* records [scope, expected, reported].
IsSetInventory(inv) ==
    LET members == inv.expected_members # <<>> \/ inv.reported_members # <<>> IN
    /\ inv.coverage # "MET" =>
          ~members /\ ~inv.empty_scope_is_explicit /\ inv.counts = {}
    /\ inv.mode = "count" =>
          /\ ~members /\ ~inv.empty_scope_is_explicit
          /\ inv.coverage = "MET" => inv.counts # {}
          /\ \A c, d \in inv.counts : c.scope = d.scope => c = d
    /\ inv.mode = "members" =>
          /\ inv.counts = {}
          /\ inv.coverage = "MET" =>
                (inv.expected_members = <<>> <=> inv.empty_scope_is_explicit)

\* The extraction without its reason; the order of members is none of it.
SetBinding(inv) ==
    [mode |-> inv.mode, counts |-> inv.counts,
     expected |-> ToBag(inv.expected_members), reported |-> ToBag(inv.reported_members),
     explicit |-> inv.empty_scope_is_explicit]

CountCheck(counts) ==
    LET missing    == {c.scope : c \in {d \in counts : d.reported < d.expected}}
        unexpected == {c.scope : c \in {d \in counts : d.reported > d.expected}}
    IN [verdict |-> IF missing \cup unexpected = {} THEN "MET" ELSE "NOT_MET",
        missing |-> missing, unexpected |-> unexpected, duplicates |-> {}]

\* verify_set_inventories: a check only where both judges extracted the same.
verify_set_inventories(first, second) ==
    IF \/ {first.coverage, second.coverage} # {"MET"}
       \/ SetBinding(first) # SetBinding(second)
    THEN None
    ELSE IF first.mode = "count" THEN CountCheck(first.counts)
    ELSE compare_complete_set(first.expected_members, first.reported_members,
                              first.empty_scope_is_explicit)
-----------------------------------------------------------------------------
\* Numbers

Digits == <<"0", "1", "2", "3", "4", "5", "6", "7", "8", "9">>

AllDigits(s) == s # <<>> /\ Range(s) \subseteq Range(Digits)

DigitValue(c) == (CHOOSE i \in DOMAIN Digits : Digits[i] = c) - 1

\* The number a non-empty sequence of digits denotes.
Numeral(s) == FoldLeft(LAMBDA n, c : 10 * n + DigitValue(c), 0, s)

\* str.split: the parts of s between the separators in it.
Split(s, separator) ==
    LET at   == SetToSortSeq({i \in DOMAIN s : s[i] = separator}, <)
        ends == <<0>> \o at \o <<Len(s) + 1>>
    IN [k \in 1 .. Len(at) + 1 |-> SubSeq(s, ends[k] + 1, ends[k + 1] - 1)]

\* Well-formed groups of digits: one to three, then three each.
Grouped(groups) ==
    /\ Len(groups[1]) \in 1 .. 3
    /\ \A i \in 2 .. Len(groups) : Len(groups[i]) = 3
    /\ \A i \in DOMAIN groups : AllDigits(groups[i])

Unsigned(text) == IF text # <<>> /\ text[1] \in {"+", "-"} THEN Tail(text) ELSE text

\* parse_numeric_lexeme: a fraction, or None where the code raises.
parse_numeric_lexeme(text, decimal_separator, group_separator) ==
    LET parts    == IF decimal_separator = None THEN <<Unsigned(text)>>
                    ELSE Split(Unsigned(text), decimal_separator)
        groups   == Split(parts[1], group_separator)
        whole    == FlattenSeq(groups)
        fraction == IF Len(parts) = 2 THEN parts[2] ELSE <<>>
        sign     == IF text # <<>> /\ text[1] = "-" THEN -1 ELSE 1
    IN
    IF \/ decimal_separator = group_separator
       \/ Len(parts) > 2 \/ <<>> \in Range(parts)
       \/ group_separator # None /\ Len(groups) > 1 /\ ~Grouped(groups)
       \/ ~AllDigits(whole)
       \/ fraction # <<>> /\ ~AllDigits(fraction)
    THEN None
    ELSE [num |-> sign * Numeral(whole \o fraction), den |-> 10 ^ Len(fraction)]
-----------------------------------------------------------------------------
\* Exact arithmetic

SameFraction(x, y) == x.num * y.den = y.num * x.den

Plus(x, y)  == [num |-> x.num * y.den + y.num * x.den, den |-> x.den * y.den]
Minus(x, y) == [num |-> x.num * y.den - y.num * x.den, den |-> x.den * y.den]
Times(x, y) == [num |-> x.num * y.num, den |-> x.den * y.den]

Over(x, y) ==
    IF y.num > 0 THEN [num |-> x.num * y.den, den |-> x.den * y.num]
                 ELSE [num |-> -(x.num * y.den), den |-> x.den * (-y.num)]

\* exact_calculate: value and unit, or None where the code raises.
exact_calculate(operation, values, units) ==
    LET two == Len(values) = 2 IN
    CASE \/ values = <<>>
         \/ "" \in Range(units) -> None
      [] operation = "add" /\ Len(values) >= 2 /\ Cardinality(Range(units)) = 1 ->
            [value |-> FoldLeft(Plus, [num |-> 0, den |-> 1], values), unit |-> units[1]]
      [] operation = "subtract" /\ two /\ units[1] = units[2] ->
            [value |-> Minus(values[1], values[2]), unit |-> units[1]]
      [] operation = "multiply" /\ two /\ None \in Range(units) ->
            [value |-> Times(values[1], values[2]),
             unit |-> IF units[1] # None THEN units[1] ELSE units[2]]
      [] operation = "divide" /\ two /\ values[2].num # 0 /\ units[2] = None ->
            [value |-> Over(values[1], values[2]), unit |-> units[1]]
      [] /\ operation = "divide" /\ two /\ values[2].num # 0
         /\ units[2] # None /\ units[1] = units[2] ->
            [value |-> Over(values[1], values[2]), unit |-> None]
      [] OTHER -> None

Parsed(number) ==
    parse_numeric_lexeme(number.value, number.decimal_separator, number.group_separator)

\* An extracted expression whose result the rules cannot refute.
IsExact(expression) ==
    LET operands == expression.operands
        values   == [i \in DOMAIN operands |-> Parsed(operands[i])]
        reported == expression.reported_result
        expected == exact_calculate(expression.operation, values,
                                    [i \in DOMAIN operands |-> operands[i].unit])
    IN
    /\ None \notin Range(values)
    /\ expected # None
    /\ Parsed(reported) # None
    /\ SameFraction(Parsed(reported), expected.value)
    /\ reported.unit = expected.unit

Expression(inv) == [operation |-> inv.operation, operands |-> inv.operands,
                    reported_result |-> inv.reported_result]

\* verify_computation_inventories: an extraction the judges do not share is no
\* failure; a shared one that is malformed or wrong is.
verify_computation_inventories(first, second) ==
    IF \/ {first.coverage, second.coverage} # {"MET"}
       \/ Expression(first) # Expression(second)
    THEN [verdict |-> "UNKNOWN", typed_rule_inputs |-> None]
    ELSE [verdict |-> IF IsExact(Expression(first)) THEN "MET" ELSE "NOT_MET",
          typed_rule_inputs |-> Expression(first)]
================================================================================
