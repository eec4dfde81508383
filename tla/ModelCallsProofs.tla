--------------------------- MODULE ModelCallsProofs ---------------------------
(***************************************************************************)
(* For every number of workers, prompts, attempts and every budget:        *)
(* ModelCalls keeps its types and never exceeds the budget; a row of the   *)
(* ledger never changes; reservations are accounted for and completed rows *)
(* paid for; a serial run pays once; every step of a call shortens it.     *)
(*                                                                         *)
(* The budget is not inductive alone: Finalize adds the reported tokens of *)
(* a reply, and only LocalsOK says that a reply this far is within its     *)
(* reservation.  One lemma per action that touches budget, ledger or       *)
(* locals.  The two sums rest on a small library of their own, below.      *)
(***************************************************************************)
EXTENDS ModelCalls, FiniteSetTheorems, TLAPS

BudgetInv == TypeOK /\ BudgetBound

\* A decoded completion is within its reservation, or has a problem.
LEMMA DecodingBounds ==
    ASSUME NEW answer \in Reply, NEW limit \in Nat
    PROVE  /\ Decoding(answer, limit) \in Retryable \cup Fatal \cup {None}
           /\ Decoding(answer, limit) = None => answer.tokens <= limit
  <1>1. answer.tokens \in Nat
    BY CallsAssumption DEF Reply
  <1>2. Decoding(answer, limit) \in Retryable \cup Fatal \cup {None}
    BY DEF Decoding, Retryable, Fatal
  <1>3. ASSUME Decoding(answer, limit) = None PROVE answer.tokens <= limit
    BY <1>1, <1>3, NoneAssumption DEF Decoding
  <1> QED BY <1>2, <1>3

\* Inserting a row keeps the ledger's type and every row it has.
LEMMA InsertedRow ==
    ASSUME NEW r \in Request, NEW row \in Row, calls \in [Request -> Row \cup {None}]
    PROVE  /\ Inserted(r, row) \in [Request -> Row \cup {None}]
           /\ \A q \in Request : calls[q] # None => Inserted(r, row)[q] = calls[q]
  BY DEF Inserted

LEMMA InitBudget == Init => BudgetInv
  BY CallsAssumption
     DEF Init, BudgetInv, TypeOK, LocalsOK, BudgetBound, Steps

LEMMA StartCallBudget ==
    ASSUME BudgetInv, NEW w \in Workers, StartCall(w), UNCHANGED active
    PROVE  BudgetInv'
  <1>1. PICK p \in Prompts :
           request' = [request EXCEPT ![w] = [prompt |-> p, attempt |-> 0, feedback |-> None]]
    BY DEF StartCall
  <1>2. [prompt |-> p, attempt |-> 0, feedback |-> None] \in Request
    BY CallsAssumption DEF Request
  <1>3. TypeOK'
    BY <1>1, <1>2 DEF BudgetInv, TypeOK, LocalsOK, StartCall, Goto, Steps, budgetVars, historyVars, max_tokens
  <1>4. BudgetBound'
    BY DEF BudgetInv, BudgetBound, StartCall, budgetVars
  <1> QED BY <1>3, <1>4 DEF BudgetInv

LEMMA LookupBudget ==
    ASSUME BudgetInv, NEW w \in Workers, Lookup(w), UNCHANGED active
    PROVE  BudgetInv'
  <1>1. request[w] \in Request
    BY DEF BudgetInv, TypeOK, LocalsOK, Lookup
  <1>2. CASE Saved(request[w])
    <2>1. calls[request[w]] \in Row
      BY <1>1, <1>2 DEF BudgetInv, TypeOK, Saved
    <2>2. calls[request[w]].reply \in Reply
      BY <2>1 DEF Row
    <2> QED
      BY <1>2, <2>2
         DEF BudgetInv, TypeOK, LocalsOK, BudgetBound, Lookup, Goto, Steps, budgetVars,
             historyVars, max_tokens
  <1>3. CASE ~Saved(request[w])
    BY <1>3
       DEF BudgetInv, TypeOK, LocalsOK, BudgetBound, Lookup, Goto, Steps, budgetVars,
           historyVars, max_tokens
  <1> QED BY <1>2, <1>3

\* A request's token bound is a positive number.
LEMMA MaxTokensType ==
    ASSUME TypeOK, NEW w \in Workers, request[w] \in Request
    PROVE  max_tokens(w) \in Nat \ {0}
  BY CallsAssumption DEF max_tokens, Request

LEMMA ReserveBudget ==
    ASSUME BudgetInv, NEW w \in Workers, Reserve(w), UNCHANGED active
    PROVE  BudgetInv'
  <1>1. request[w] \in Request
    BY DEF BudgetInv, TypeOK, LocalsOK, Reserve
  <1>2. max_tokens(w) \in Nat
    BY <1>1, MaxTokensType DEF BudgetInv
  <1>3. CASE Fits(max_tokens(w))
    <2>1. TypeOK'
      BY <1>2, <1>3
         DEF BudgetInv, TypeOK, LocalsOK, Reserve, Goto, Steps, historyVars, max_tokens
    <2>2. BudgetBound'
      BY <1>2, <1>3, CallsAssumption DEF BudgetInv, TypeOK, BudgetBound, Reserve, Fits
    <2> QED BY <2>1, <2>2 DEF BudgetInv
  <1>4. CASE ~Fits(max_tokens(w))
    <2>1. TypeOK'
      BY <1>4, CallsAssumption
         DEF BudgetInv, TypeOK, LocalsOK, Reserve, Done, Goto, Steps, historyVars, max_tokens
    <2>2. BudgetBound'
      BY <1>4 DEF BudgetInv, BudgetBound, Reserve
    <2> QED BY <2>1, <2>2 DEF BudgetInv
  <1> QED BY <1>3, <1>4

LEMMA PostBudget ==
    ASSUME BudgetInv, NEW w \in Workers, Post(w), UNCHANGED active
    PROVE  BudgetInv'
  <1>1. BudgetBound'
    BY DEF BudgetInv, BudgetBound, Post, budgetVars
  <1>2. CASE \E answer \in Reply :
                /\ reply' = [reply EXCEPT ![w] = answer]
                /\ Goto(w, "decode")
                /\ UNCHANGED <<tries, error>>
    BY <1>1, <1>2
       DEF BudgetInv, TypeOK, LocalsOK, Post, Goto, Steps, budgetVars, max_tokens
  <1>3. CASE /\ AttemptsLeft(tries[w])
             /\ tries' = [tries EXCEPT ![w] = @ + 1]
             /\ UNCHANGED <<pc, reply, error>>
    <2>1. tries' \in [Workers -> 0 .. TransportAttempts - 1]
      BY <1>3, CallsAssumption DEF BudgetInv, TypeOK, AttemptsLeft
    <2> QED
      BY <1>1, <1>3, <2>1
         DEF BudgetInv, TypeOK, LocalsOK, Post, Steps, budgetVars, max_tokens
  <1>4. CASE /\ Fail(w, "transport") \/ Fail(w, "rejected")
             /\ UNCHANGED <<tries, reply>>
    BY <1>1, <1>4
       DEF BudgetInv, TypeOK, LocalsOK, Post, Fail, Fatal, Goto, Steps, budgetVars, max_tokens
  <1> QED BY <1>2, <1>3, <1>4 DEF Post

LEMMA DecodeBudget ==
    ASSUME BudgetInv, NEW w \in Workers, Decode(w), UNCHANGED active
    PROVE  BudgetInv'
  <1> DEFINE problem == Decoding(reply[w], max_tokens(w))
  <1>1. request[w] \in Request /\ reply[w] \in Reply
    BY DEF BudgetInv, TypeOK, LocalsOK, Decode
  <1>2. max_tokens(w) \in Nat
    BY <1>1, MaxTokensType DEF BudgetInv
  <1>3. /\ problem \in Retryable \cup Fatal \cup {None}
        /\ problem = None => reply[w].tokens <= max_tokens(w)
    BY <1>1, <1>2, DecodingBounds
  <1>4. BudgetBound'
    BY DEF BudgetInv, BudgetBound, Decode, budgetVars
  <1> HIDE DEF problem
  <1>5. CASE problem = None
    <2>1. Goto(w, "record") /\ UNCHANGED error
      BY <1>5 DEF Decode, problem
    <2> QED
      BY <1>3, <1>4, <1>5, <2>1
         DEF BudgetInv, TypeOK, LocalsOK, Decode, Goto, Steps, budgetVars, historyVars, max_tokens
  <1>6. CASE problem # None
    <2>1. Fail(w, problem)
      BY <1>6 DEF Decode, problem
    <2> QED
      BY <1>3, <1>4, <2>1
         DEF BudgetInv, TypeOK, LocalsOK, Decode, Fail, Goto, Steps, budgetVars, historyVars,
             max_tokens
  <1> QED BY <1>5, <1>6

\* Both kinds of row are written the same way.
LEMMA RecordBudget ==
    ASSUME BudgetInv, NEW w \in Workers, Record(w) \/ RecordInvalid(w), UNCHANGED active
    PROVE  BudgetInv'
  <1>1. request[w] \in Request /\ reply[w] \in Reply
    BY DEF BudgetInv, TypeOK, LocalsOK, Record, RecordInvalid
  <1>2. \A status \in {"COMPLETE", "INVALID"} :
            [status |-> status, reply |-> reply[w]] \in Row
    BY <1>1 DEF Row
  <1>3. calls' \in [Request -> Row \cup {None}]
    BY <1>1, <1>2, InsertedRow DEF BudgetInv, TypeOK, Record, RecordInvalid
  <1>4. BudgetBound'
    BY DEF BudgetInv, BudgetBound, Record, RecordInvalid, budgetVars
  <1> QED
    BY <1>3, <1>4
       DEF BudgetInv, TypeOK, LocalsOK, Record, RecordInvalid, Goto, Steps, budgetVars,
           historyVars, max_tokens

\* The reported tokens take the place of at least as many reserved ones.
LEMMA FinalizeBudget ==
    ASSUME BudgetInv, NEW w \in Workers, Finalize(w), UNCHANGED active
    PROVE  BudgetInv'
  <1>1. /\ request[w] \in Request /\ reply[w] \in Reply
        /\ reply[w].tokens <= max_tokens(w)
    BY DEF BudgetInv, TypeOK, LocalsOK, Finalize
  <1>2. max_tokens(w) \in Nat
    BY <1>1, MaxTokensType DEF BudgetInv
  <1>3. reply[w].tokens \in Nat
    BY <1>1, CallsAssumption DEF Reply
  <1>4. TypeOK'
    BY <1>2, <1>3
       DEF BudgetInv, TypeOK, LocalsOK, Finalize, Goto, Steps, historyVars, max_tokens
  <1>5. outputTokens' + reserved' <= outputTokens + reserved
    BY <1>1, <1>2, <1>3 DEF BudgetInv, TypeOK, Finalize
  <1>6. BudgetBound'
    BY <1>4, <1>5, CallsAssumption DEF BudgetInv, TypeOK, BudgetBound, Finalize
  <1> QED BY <1>4, <1>6 DEF BudgetInv

LEMMA ReleaseBudget ==
    ASSUME BudgetInv, NEW w \in Workers, Release(w), UNCHANGED active
    PROVE  BudgetInv'
  <1>1. request[w] \in Request
    BY DEF BudgetInv, TypeOK, LocalsOK, Release
  <1>2. max_tokens(w) \in Nat
    BY <1>1, MaxTokensType DEF BudgetInv
  <1>3. CASE reserved < max_tokens(w)
    BY <1>3, CallsAssumption
       DEF BudgetInv, TypeOK, LocalsOK, BudgetBound, Release, Done, Goto, Steps, historyVars,
           max_tokens
  <1>4. CASE ~(reserved < max_tokens(w))
    <2>1. TypeOK'
      BY <1>2, <1>4
         DEF BudgetInv, TypeOK, LocalsOK, Release, Goto, Steps, historyVars, max_tokens
    <2>2. BudgetBound'
      BY <1>2, <1>4, CallsAssumption DEF BudgetInv, TypeOK, BudgetBound, Release
    <2> QED BY <2>1, <2>2 DEF BudgetInv
  <1> QED BY <1>3, <1>4

LEMMA AcceptBudget ==
    ASSUME BudgetInv, NEW w \in Workers, Accept(w), UNCHANGED active
    PROVE  BudgetInv'
  <1>1. BudgetBound'
    BY DEF BudgetInv, BudgetBound, Accept, budgetVars
  <1> QED
    BY <1>1, CallsAssumption
       DEF BudgetInv, TypeOK, LocalsOK, Accept, Done, Goto, Steps, Retryable, budgetVars,
           historyVars, max_tokens

LEMMA RaiseBudget ==
    ASSUME BudgetInv, NEW w \in Workers, Raise(w), UNCHANGED active
    PROVE  BudgetInv'
  <1>1. BudgetBound'
    BY DEF BudgetInv, BudgetBound, Raise, budgetVars
  <1>2. request[w] \in Request
    BY DEF BudgetInv, TypeOK, LocalsOK, Raise
  <1>3. CASE AsksAgain(w)
    <2> DEFINE next == NextRequest(request[w], error[w])
    <2>1. request[w].attempt + 1 \in 0 .. StructuredAttempts - 1
      BY <1>2, <1>3, CallsAssumption DEF AsksAgain, Request
    <2>2. next \in Request
      BY <1>2, <1>3, <2>1 DEF AsksAgain, NextRequest, Request
    <2> QED
      BY <1>1, <1>3, <2>2, CallsAssumption
         DEF BudgetInv, TypeOK, LocalsOK, Raise, Goto, Steps, budgetVars, historyVars, max_tokens
  <1>4. CASE ~AsksAgain(w)
    BY <1>1, <1>4, CallsAssumption
       DEF BudgetInv, TypeOK, LocalsOK, Raise, Done, Goto, Steps, budgetVars, historyVars,
           max_tokens
  <1> QED BY <1>3, <1>4

\* Whatever ends the process, the budget rows stay as they are.
LEMMA ExitBudget ==
    ASSUME BudgetInv, Exit, UNCHANGED active
    PROVE  BudgetInv'
  <1>1. \A p \in Prompts : Cardinality({w \in Holders : request[w].prompt = p}) \in Nat
    <2> TAKE p \in Prompts
    <2>1. {w \in Holders : request[w].prompt = p} \subseteq Workers
      BY DEF Holders
    <2> QED BY <2>1, CallsAssumption, FS_Subset, FS_CardinalityType
  <1>2. lost' \in [Prompts -> Nat]
    BY <1>1 DEF BudgetInv, TypeOK, Exit
  <1> QED
    BY <1>2, CallsAssumption
       DEF BudgetInv, TypeOK, LocalsOK, BudgetBound, Exit, Steps, budgetVars

LEMMA InterruptBudget ==
    ASSUME BudgetInv, NEW w \in Workers, Interrupt(w), UNCHANGED active
    PROVE  BudgetInv'
  BY DEF BudgetInv, TypeOK, LocalsOK, BudgetBound, Interrupt, Fail, Fatal, Goto, Steps,
         budgetVars, historyVars, max_tokens

LEMMA StepBudget == BudgetInv /\ [Next]_vars => BudgetInv'
  <1> SUFFICES ASSUME BudgetInv, [Next]_vars PROVE BudgetInv'
    OBVIOUS
  <1>1. ASSUME EndProcess, UNCHANGED active
        PROVE  BudgetInv'
    BY <1>1, ExitBudget DEF EndProcess
  <1>2. ASSUME NEW w \in active, StartCall(w) \/ Work(w) \/ Interrupt(w), UNCHANGED active
        PROVE  BudgetInv'
    <2> w \in Workers
      BY DEF BudgetInv, TypeOK
    <2>1. CASE RaiseInterrupt(w)
      BY <1>2, <2>1, ExitBudget DEF RaiseInterrupt
    <2> QED
      BY <1>2, <2>1, StartCallBudget, LookupBudget, ReserveBudget, PostBudget, DecodeBudget,
         RecordBudget, FinalizeBudget, ReleaseBudget, AcceptBudget, RaiseBudget,
         InterruptBudget
         DEF Work
  <1>3. CASE UNCHANGED vars
    BY <1>3 DEF vars, budgetVars, historyVars, BudgetInv, TypeOK, LocalsOK, BudgetBound,
                max_tokens
  <1> QED BY <1>1, <1>2, <1>3 DEF Next

\* Types, and the locals each step relies on, for every instance.
THEOREM TypeCorrect == Spec => []TypeOK
  <1>1. BudgetInv => TypeOK
    BY DEF BudgetInv
  <1> QED BY <1>1, InitBudget, StepBudget, PTL DEF Spec

\* Any number of workers, interleaved in any way, with any number of process
\* ends, stays within the configured request and output-token budget.
THEOREM BudgetHolds == Spec => []BudgetBound
  <1>1. BudgetInv => BudgetBound
    BY DEF BudgetInv
  <1> QED BY <1>1, InitBudget, StepBudget, PTL DEF Spec

\* No step replaces or removes a row: a replay answers as the first one did.
THEOREM RowsNeverChange == Spec => RowsImmutable
  <1>1. BudgetInv /\ [Next]_vars =>
            [\A r \in Request : calls[r] # None => calls'[r] = calls[r]]_vars
    <2> SUFFICES ASSUME BudgetInv, Next
                 PROVE  \A r \in Request : calls[r] # None => calls'[r] = calls[r]
      OBVIOUS
    <2>1. CASE UNCHANGED calls
      BY <2>1
    <2>2. ASSUME NEW w \in active, Record(w) \/ RecordInvalid(w)
          PROVE  \A r \in Request : calls[r] # None => calls'[r] = calls[r]
      <3> w \in Workers
        BY DEF BudgetInv, TypeOK
      <3>1. request[w] \in Request /\ reply[w] \in Reply
        BY <2>2 DEF BudgetInv, TypeOK, LocalsOK, Record, RecordInvalid
      <3>2. \A status \in {"COMPLETE", "INVALID"} :
                [status |-> status, reply |-> reply[w]] \in Row
        BY <3>1 DEF Row
      <3> QED
        BY <2>2, <3>1, <3>2, InsertedRow DEF BudgetInv, TypeOK, Record, RecordInvalid
    <2> QED
      BY <2>1, <2>2
         DEF Next, EndProcess, Exit, StartCall, Work, Interrupt, Lookup, Reserve, Post,
             Decode, Finalize, Release, Accept, Raise, RaiseInterrupt
  <1> QED BY <1>1, InitBudget, StepBudget, PTL DEF Spec, RowsImmutable
-----------------------------------------------------------------------------
(***************************************************************************)
(* Sums over finite sets, from the recursion SumFunctionOnSet is defined   *)
(* by: that it has a solution and only one, that any element may come      *)
(* last, and what follows for a sum of which one term changes.             *)
(***************************************************************************)

\* Sets of subsets of a finite set, of which there is at least one.
FamilyOver(S, family) ==
    IsFiniteSet(S) /\ family \in SUBSET (SUBSET S) /\ family # {}

HasSmallest(family) == \E T \in family : \A U \in family : U \subseteq T => U = T

\* Such a family has a member with no other member inside it: what induction
\* over finite sets rests on here.
LEMMA SmallestSet ==
    ASSUME NEW S, NEW family, FamilyOver(S, family)
    PROVE  HasSmallest(family)
  <1> USE DEF FamilyOver
  <1> DEFINE R == StrictSubsetOrdering(S)
  <1>1. IsWellFoundedOn(R, FiniteSubsetsOf(S))
    BY FS_StrictSubsetOrderingWellFounded
  <1>2. family \subseteq FiniteSubsetsOf(S)
    <2>1. \A T \in SUBSET S : IsFiniteSet(T)
      BY FS_Subset
    <2> QED BY <2>1 DEF FiniteSubsetsOf
  <1>3. PICK T \in family : \A U \in family : ~(<<U, T>> \in R)
    BY <1>1, <1>2, WFMin
  <1>4. \A U \in family : U \subseteq T => U = T
    BY <1>3 DEF StrictSubsetOrdering
  <1> QED BY <1>4 DEF HasSmallest

\* What can be summed: finitely many numbers.
Summable(f, S) == IsFiniteSet(S) /\ \A x \in S : f[x] \in Int

\* The recursion SumFunctionOnSet is defined by, on the subsets of S.
Chosen(s) == CHOOSE x \in s : TRUE

Sums(f, s, g) == IF s = {} THEN 0 ELSE f[Chosen(s)] + g[s \ {Chosen(s)}]

IsSumOver(f, S, g) == g = [s \in SUBSET S |-> Sums(f, s, g)]

LEMMA ChosenIn ==
    ASSUME NEW s, s # {}
    PROVE  Chosen(s) \in s
  BY DEF Chosen

LEMMA SumByRecursion ==
    ASSUME NEW f, NEW S
    PROVE  SumFunctionOnSet(f, S) = (CHOOSE g : IsSumOver(f, S, g))[S]
  BY DEF SumFunctionOnSet, FoldFunctionOnSet, MapThenFoldSet, IsSumOver, Sums, Chosen

\* A typed solution of the recursion on the subsets of S.
HasSums(f, S) == \E g \in [SUBSET S -> Int] : IsSumOver(f, S, g)

\* A solution for the subsets of at most n elements.
SolvesUpTo(n, f, S, g) ==
    \A s \in SUBSET S :
        Cardinality(s) <= n => g[s] \in Int /\ g[s] = Sums(f, s, g)

LEMMA SumExists ==
    ASSUME NEW S, NEW f, Summable(f, S)
    PROVE  HasSums(f, S)
  <1> DEFINE N    == Cardinality(S)
             good == {n \in 0 .. N : \E g : SolvesUpTo(n, f, S, g)}
             bad  == {0 .. n : n \in (0 .. N) \ good}
  <1>1. N \in Nat /\ \A s \in SUBSET S : IsFiniteSet(s) /\ Cardinality(s) \in 0 .. N
    BY FS_Subset, FS_CardinalityType DEF Summable
  <1>2. 0 \in good
    <2> DEFINE g == [s \in SUBSET S |-> 0]
    <2>1. ASSUME NEW s \in SUBSET S, Cardinality(s) <= 0
          PROVE  g[s] \in Int /\ g[s] = Sums(f, s, g)
      <3>1. Cardinality(s) = 0 /\ IsFiniteSet(s)
        BY <1>1, <2>1
      <3>2. s = {}
        BY <3>1, FS_EmptySet
      <3> QED BY <3>2 DEF Sums
    <2> HIDE DEF g
    <2>2. SolvesUpTo(0, f, S, g)
      BY <2>1 DEF SolvesUpTo
    <2> QED BY <1>1, <2>2
  <1>3. ASSUME NEW n \in 0 .. N, n \in good, n + 1 \in 0 .. N
        PROVE  n + 1 \in good
    <2>1. PICK g : SolvesUpTo(n, f, S, g)
      BY <1>3
    <2> DEFINE h == [s \in SUBSET S |-> IF Cardinality(s) <= n THEN g[s] ELSE Sums(f, s, g)]
    <2>2. ASSUME NEW s \in SUBSET S, Cardinality(s) <= n + 1
          PROVE  h[s] \in Int /\ h[s] = Sums(f, s, h)
      <3>1. CASE s = {}
        <4>1. Cardinality(s) <= n
          BY <1>3, <3>1, FS_EmptySet
        <4>2. h[s] = g[s]
          BY <4>1
        <4> QED BY <2>1, <3>1, <4>1, <4>2 DEF Sums, SolvesUpTo
      <3>2. CASE s # {}
        <4> DEFINE c == Chosen(s)
        <4>1. c \in s /\ c \in S
          BY <3>2, ChosenIn
        <4> HIDE DEF c
        <4>2. s \ {c} \in SUBSET S /\ Cardinality(s \ {c}) = Cardinality(s) - 1
          BY <1>1, <4>1, FS_RemoveElement
        <4>3. Cardinality(s \ {c}) <= n
          BY <1>1, <1>3, <2>2, <4>2
        <4>4. h[s \ {c}] = g[s \ {c}] /\ g[s \ {c}] \in Int
          BY <2>1, <4>2, <4>3 DEF SolvesUpTo
        <4>5. Sums(f, s, h) = f[c] + g[s \ {c}] /\ Sums(f, s, g) = f[c] + g[s \ {c}]
          BY <3>2, <4>4 DEF Sums, c
        <4>6. h[s] = f[c] + g[s \ {c}]
          BY <2>1, <4>5 DEF SolvesUpTo
        <4>7. f[c] \in Int
          BY <4>1 DEF Summable
        <4> QED BY <4>4, <4>5, <4>6, <4>7
      <3> QED BY <3>1, <3>2
    <2> HIDE DEF h
    <2>3. SolvesUpTo(n + 1, f, S, h)
      BY <2>2 DEF SolvesUpTo
    <2> QED BY <1>3, <2>3
  <1> HIDE DEF good
  <1>4. N \in good
    <2> SUFFICES ASSUME N \notin good PROVE FALSE
      OBVIOUS
    <2>1. FamilyOver(0 .. N, bad)
      <3>1. IsFiniteSet(0 .. N)
        BY <1>1, FS_Interval
      <3>2. N \in (0 .. N) \ good
        BY <1>1
      <3>3. 0 .. N \in bad
        BY <3>2
      <3>4. bad \in SUBSET (SUBSET (0 .. N))
        BY <1>1
      <3> HIDE DEF bad
      <3> QED BY <3>1, <3>3, <3>4 DEF FamilyOver
    <2>2. HasSmallest(bad)
      BY <2>1, SmallestSet
    <2>3. PICK n \in (0 .. N) \ good : \A m \in (0 .. N) \ good :
              0 .. m \subseteq 0 .. n => 0 .. m = 0 .. n
      <3>1. \A m \in (0 .. N) \ good : 0 .. m \in bad
        OBVIOUS
      <3>2. \A T \in bad : \E n \in (0 .. N) \ good : T = 0 .. n
        OBVIOUS
      <3> HIDE DEF bad
      <3>3. PICK T \in bad : \A U \in bad : U \subseteq T => U = T
        BY <2>2 DEF HasSmallest
      <3>4. PICK n \in (0 .. N) \ good : T = 0 .. n
        BY <3>2
      <3> QED BY <3>1, <3>3, <3>4
    <2>4. n # 0 /\ n - 1 \in 0 .. N
      BY <1>1, <1>2, <2>3
    <2>5. n - 1 \in good
      <3>1. 0 .. (n - 1) \subseteq 0 .. n /\ 0 .. (n - 1) # 0 .. n
        BY <1>1, <2>3, <2>4
      <3> QED BY <2>3, <2>4, <3>1
    <2> QED BY <1>1, <1>3, <2>3, <2>4, <2>5
  <1>5. PICK g : SolvesUpTo(N, f, S, g)
    BY <1>4 DEF good
  <1> DEFINE h == [s \in SUBSET S |-> g[s]]
  <1>6. ASSUME NEW s \in SUBSET S
        PROVE  h[s] \in Int /\ h[s] = Sums(f, s, h)
    <2>1. g[s] \in Int /\ g[s] = Sums(f, s, g)
      BY <1>1, <1>5 DEF SolvesUpTo
    <2>2. s \ {Chosen(s)} \in SUBSET S
      OBVIOUS
    <2>3. Sums(f, s, g) = Sums(f, s, h)
      BY <2>2 DEF Sums
    <2> QED BY <2>1, <2>3
  <1>7. h \in [SUBSET S -> Int]
    BY <1>6
  <1>8. h = [s \in SUBSET S |-> h[s]]
    OBVIOUS
  <1> HIDE DEF h
  <1>9. IsSumOver(f, S, h)
    BY <1>6, <1>8 DEF IsSumOver
  <1> QED BY <1>7, <1>9 DEF HasSums

\* The recursion for two functions that agree on s, unfolded at a subset of s.
LEMMA SumUnique ==
    ASSUME NEW S, NEW T, NEW f, NEW e, NEW g, NEW h,
           IsSumOver(f, S, g), IsSumOver(e, T, h),
           NEW s, IsFiniteSet(s), s \subseteq S, s \subseteq T, \A x \in s : f[x] = e[x]
    PROVE  g[s] = h[s]
  <1> DEFINE bad == {t \in SUBSET s : g[t] # h[t]}
  <1> SUFFICES ASSUME bad # {} PROVE FALSE
    OBVIOUS
  <1>1. FamilyOver(s, bad)
    BY DEF FamilyOver
  <1>2. HasSmallest(bad)
    BY <1>1, SmallestSet
  <1>3. PICK t \in SUBSET s :
            g[t] # h[t] /\ \A u \in SUBSET s : g[u] # h[u] /\ u \subseteq t => u = t
    BY <1>2 DEF HasSmallest
  <1>4. \A u \in SUBSET s : g[u] = Sums(f, u, g) /\ h[u] = Sums(e, u, h)
    BY DEF IsSumOver
  <1>5. t # {}
    BY <1>3, <1>4 DEF Sums
  <1> DEFINE c == Chosen(t)
  <1>6. c \in t /\ c \in s
    BY <1>5, ChosenIn
  <1> HIDE DEF c
  <1>7. g[t \ {c}] = h[t \ {c}]
    <2>1. t \ {c} \subseteq t /\ t \ {c} # t /\ t \ {c} \in SUBSET s
      BY <1>6
    <2> QED BY <1>3, <2>1
  <1>8. g[t] = f[c] + g[t \ {c}] /\ h[t] = e[c] + h[t \ {c}]
    BY <1>4, <1>5 DEF Sums, c
  <1> QED BY <1>3, <1>6, <1>7, <1>8

\* What the recursion computes on S it computes on every subset of S.
GivesSums(f, S, g) ==
    /\ IsSumOver(f, S, g)
    /\ \A T \in SUBSET S : SumFunctionOnSet(f, T) = g[T] /\ g[T] \in Int

HasValues(f, S) == \E g : GivesSums(f, S, g)

LEMMA SummableSubset ==
    ASSUME NEW S, NEW f, Summable(f, S), NEW T \in SUBSET S
    PROVE  Summable(f, T)
  BY FS_Subset DEF Summable

LEMMA SumValue ==
    ASSUME NEW S, NEW f, Summable(f, S)
    PROVE  HasValues(f, S)
  <1>1. HasSums(f, S)
    BY SumExists
  <1>2. PICK g \in [SUBSET S -> Int] : IsSumOver(f, S, g)
    BY <1>1 DEF HasSums
  <1>3. ASSUME NEW T \in SUBSET S PROVE SumFunctionOnSet(f, T) = g[T] /\ g[T] \in Int
    <2> DEFINE h == CHOOSE h : IsSumOver(f, T, h)
    <2>1. Summable(f, T) /\ IsFiniteSet(T)
      BY SummableSubset, FS_Subset DEF Summable
    <2>2. HasSums(f, T)
      BY <2>1, SumExists
    <2>3. \E k : IsSumOver(f, T, k)
      BY <2>2 DEF HasSums
    <2>4. IsSumOver(f, T, h)
      BY <2>3
    <2>5. SumFunctionOnSet(f, T) = h[T]
      BY SumByRecursion
    <2> HIDE DEF h
    <2>6. g[T] = h[T]
      BY <1>2, <2>1, <2>4, SumUnique
    <2> QED BY <1>2, <2>5, <2>6
  <1>4. GivesSums(f, S, g)
    BY <1>2, <1>3 DEF GivesSums
  <1> QED BY <1>4 DEF HasValues

LEMMA SumType ==
    ASSUME NEW S, NEW f, Summable(f, S)
    PROVE  SumFunctionOnSet(f, S) \in Int
  <1>1. HasValues(f, S)
    BY SumValue
  <1>2. S \in SUBSET S
    OBVIOUS
  <1> QED BY <1>1, <1>2 DEF HasValues, GivesSums

LEMMA SumEmpty ==
    ASSUME NEW f
    PROVE  SumFunctionOnSet(f, {}) = 0
  <1>1. Summable(f, {})
    BY FS_EmptySet DEF Summable
  <1>2. HasValues(f, {})
    BY <1>1, SumValue
  <1>3. {} \in SUBSET {}
    OBVIOUS
  <1> QED BY <1>2, <1>3 DEF HasValues, GivesSums, IsSumOver, Sums

LEMMA SumUnfold ==
    ASSUME NEW S, NEW f, Summable(f, S), S # {}
    PROVE  SumFunctionOnSet(f, S) = f[Chosen(S)] + SumFunctionOnSet(f, S \ {Chosen(S)})
  <1>1. HasValues(f, S)
    BY SumValue
  <1>2. PICK g : GivesSums(f, S, g)
    BY <1>1 DEF HasValues
  <1>3. S \in SUBSET S /\ S \ {Chosen(S)} \in SUBSET S
    OBVIOUS
  <1>4. g[S] = Sums(f, S, g)
    BY <1>2, <1>3 DEF GivesSums, IsSumOver
  <1> QED BY <1>2, <1>3, <1>4 DEF GivesSums, Sums

\* The sum depends on the values in the set only.
LEMMA SumSame ==
    ASSUME NEW S, NEW f, NEW e, Summable(f, S), \A x \in S : f[x] = e[x]
    PROVE  SumFunctionOnSet(f, S) = SumFunctionOnSet(e, S)
  <1>1. Summable(e, S) /\ IsFiniteSet(S)
    BY DEF Summable
  <1>2. HasValues(f, S) /\ HasValues(e, S)
    BY <1>1, SumValue
  <1>3. PICK g : GivesSums(f, S, g)
    BY <1>2 DEF HasValues
  <1>4. PICK h : GivesSums(e, S, h)
    BY <1>2 DEF HasValues
  <1>5. g[S] = h[S]
    BY <1>1, <1>3, <1>4, SumUnique DEF GivesSums
  <1>6. SumFunctionOnSet(f, S) = g[S] /\ SumFunctionOnSet(e, S) = h[S]
    <2>1. S \in SUBSET S
      OBVIOUS
    <2> QED BY <1>3, <1>4, <2>1 DEF GivesSums
  <1> QED BY <1>5, <1>6

\* Any element may be the one that is added last.
LEMMA SumRemove ==
    ASSUME NEW S, NEW f, Summable(f, S), NEW x \in S
    PROVE  SumFunctionOnSet(f, S) = f[x] + SumFunctionOnSet(f, S \ {x})
  <1> DEFINE total(T) == SumFunctionOnSet(f, T)
             wrong(T) == \E y \in T : total(T) # f[y] + total(T \ {y})
             bad      == {T \in SUBSET S : wrong(T)}
  <1> SUFFICES ASSUME bad # {} PROVE FALSE
    OBVIOUS
  <1>1. FamilyOver(S, bad)
    BY DEF FamilyOver, Summable
  <1>2. HasSmallest(bad)
    BY <1>1, SmallestSet
  <1> HIDE DEF wrong
  <1>3. PICK T \in SUBSET S :
            wrong(T) /\ \A U \in SUBSET S : wrong(U) /\ U \subseteq T => U = T
    BY <1>2 DEF HasSmallest
  <1> HIDE DEF total
  <1>4. PICK y \in T : total(T) # f[y] + total(T \ {y})
    BY <1>3 DEF wrong
  <1> DEFINE c == Chosen(T)
  <1>5. c \in T
    BY <1>4, ChosenIn
  <1>6. total(T) = f[c] + total(T \ {c})
    <2>1. Summable(f, T) /\ T # {}
      BY <1>4, SummableSubset
    <2> QED BY <2>1, SumUnfold DEF total
  <1> HIDE DEF c
  <1>7. c # y
    BY <1>4, <1>6
  <1>8. /\ total(T \ {c}) = f[y] + total((T \ {c}) \ {y})
        /\ total(T \ {y}) = f[c] + total((T \ {y}) \ {c})
    <2>1. /\ T \ {c} \in SUBSET S /\ T \ {c} \subseteq T /\ T \ {c} # T /\ y \in T \ {c}
          /\ T \ {y} \in SUBSET S /\ T \ {y} \subseteq T /\ T \ {y} # T /\ c \in T \ {y}
      BY <1>4, <1>5, <1>7
    <2>2. ~wrong(T \ {c}) /\ ~wrong(T \ {y})
      BY <1>3, <2>1
    <2> QED BY <2>1, <2>2 DEF wrong
  <1>9. (T \ {c}) \ {y} = (T \ {y}) \ {c} /\ (T \ {c}) \ {y} \in SUBSET S
    OBVIOUS
  <1>10. total((T \ {c}) \ {y}) \in Int
    BY <1>9, SummableSubset, SumType DEF total
  <1>11. f[c] \in Int /\ f[y] \in Int
    BY <1>4, <1>5 DEF Summable
  <1>12. total((T \ {c}) \ {y}) = total((T \ {y}) \ {c})
    BY <1>9
  <1> QED BY <1>4, <1>6, <1>8, <1>10, <1>11, <1>12

\* The sum after one value has changed.
LEMMA SumUpdate ==
    ASSUME NEW S, NEW f, NEW e, NEW x \in S, Summable(f, S), Summable(e, S),
           \A y \in S : y # x => e[y] = f[y]
    PROVE  SumFunctionOnSet(e, S) = SumFunctionOnSet(f, S) - f[x] + e[x]
  <1>1. /\ SumFunctionOnSet(f, S) = f[x] + SumFunctionOnSet(f, S \ {x})
        /\ SumFunctionOnSet(e, S) = e[x] + SumFunctionOnSet(e, S \ {x})
    BY SumRemove
  <1>2. S \ {x} \in SUBSET S
    OBVIOUS
  <1>3. Summable(f, S \ {x})
    BY <1>2, SummableSubset
  <1>4. SumFunctionOnSet(f, S \ {x}) = SumFunctionOnSet(e, S \ {x})
    BY <1>3, SumSame
  <1>5. SumFunctionOnSet(f, S \ {x}) \in Int
    BY <1>3, SumType
  <1>6. f[x] \in Int /\ e[x] \in Int
    BY DEF Summable
  <1> QED BY <1>1, <1>4, <1>5, <1>6

\* Larger values have a larger sum.
LEMMA SumMonotone ==
    ASSUME NEW S, NEW f, NEW e, Summable(f, S), Summable(e, S),
           \A x \in S : f[x] <= e[x]
    PROVE  SumFunctionOnSet(f, S) <= SumFunctionOnSet(e, S)
  <1> DEFINE right(T) == SumFunctionOnSet(f, T) <= SumFunctionOnSet(e, T)
             bad      == {T \in SUBSET S : ~right(T)}
  <1> HIDE DEF right
  <1> SUFFICES ASSUME bad # {} PROVE FALSE
    BY DEF right
  <1>1. FamilyOver(S, bad)
    BY DEF FamilyOver, Summable
  <1>2. HasSmallest(bad)
    BY <1>1, SmallestSet
  <1>3. PICK T \in SUBSET S :
            ~right(T) /\ \A U \in SUBSET S : ~right(U) /\ U \subseteq T => U = T
    BY <1>2 DEF HasSmallest
  <1>4. T # {}
    <2>1. SumFunctionOnSet(f, {}) = 0 /\ SumFunctionOnSet(e, {}) = 0
      BY SumEmpty
    <2>2. right({})
      BY <2>1 DEF right
    <2> QED BY <1>3, <2>2
  <1>5. PICK x \in T : TRUE
    BY <1>4
  <1>6. T \ {x} \in SUBSET S /\ T \ {x} \subseteq T /\ T \ {x} # T /\ x \in S
    BY <1>5
  <1>7. Summable(f, T) /\ Summable(e, T) /\ Summable(f, T \ {x}) /\ Summable(e, T \ {x})
    BY <1>6, SummableSubset
  <1>8. /\ SumFunctionOnSet(f, T) = f[x] + SumFunctionOnSet(f, T \ {x})
        /\ SumFunctionOnSet(e, T) = e[x] + SumFunctionOnSet(e, T \ {x})
    BY <1>5, <1>7, SumRemove
  <1>9. SumFunctionOnSet(f, T \ {x}) <= SumFunctionOnSet(e, T \ {x})
    <2>1. right(T \ {x})
      BY <1>3, <1>6
    <2> QED BY <2>1 DEF right
  <1>10. SumFunctionOnSet(f, T \ {x}) \in Int /\ SumFunctionOnSet(e, T \ {x}) \in Int
    BY <1>7, SumType
  <1>11. f[x] \in Int /\ e[x] \in Int /\ f[x] <= e[x]
    BY <1>6 DEF Summable
  <1>12. right(T)
    BY <1>8, <1>9, <1>10, <1>11 DEF right
  <1> QED BY <1>3, <1>12

\* A total that grows by f[x] with each element x is the sum.
LEMMA SumIs ==
    ASSUME NEW S, NEW f, Summable(f, S), NEW total, total[{}] = 0,
           \A T \in SUBSET S : \A x \in S \ T : total[T \cup {x}] = total[T] + f[x]
    PROVE  total[S] = SumFunctionOnSet(f, S)
  <1> DEFINE right(T) == total[T] = SumFunctionOnSet(f, T)
             bad      == {T \in SUBSET S : ~right(T)}
  <1> HIDE DEF right
  <1> SUFFICES ASSUME bad # {} PROVE FALSE
    BY DEF right
  <1>1. FamilyOver(S, bad)
    BY DEF FamilyOver, Summable
  <1>2. HasSmallest(bad)
    BY <1>1, SmallestSet
  <1>3. PICK T \in SUBSET S :
            ~right(T) /\ \A U \in SUBSET S : ~right(U) /\ U \subseteq T => U = T
    BY <1>2 DEF HasSmallest
  <1>4. T # {}
    <2>1. SumFunctionOnSet(f, {}) = 0
      BY SumEmpty
    <2>2. right({})
      BY <2>1 DEF right
    <2> QED BY <1>3, <2>2
  <1>5. PICK x \in T : TRUE
    BY <1>4
  <1>6. /\ T \ {x} \in SUBSET S /\ T \ {x} \subseteq T /\ T \ {x} # T
        /\ x \in S \ (T \ {x}) /\ (T \ {x}) \cup {x} = T
    BY <1>5
  <1>7. Summable(f, T) /\ Summable(f, T \ {x})
    BY <1>6, SummableSubset
  <1>8. SumFunctionOnSet(f, T) = f[x] + SumFunctionOnSet(f, T \ {x})
    BY <1>5, <1>7, SumRemove
  <1>9. total[T \ {x}] = SumFunctionOnSet(f, T \ {x})
    <2>1. right(T \ {x})
      BY <1>3, <1>6
    <2> QED BY <2>1 DEF right
  <1>10. total[T] = total[T \ {x}] + f[x]
    BY <1>6
  <1>11. f[x] \in Int /\ SumFunctionOnSet(f, T \ {x}) \in Int
    BY <1>6, <1>7, SumType DEF Summable
  <1>12. right(T)
    BY <1>8, <1>9, <1>10, <1>11 DEF right
  <1> QED BY <1>3, <1>12

LEMMA SumOfZeros ==
    ASSUME NEW S, IsFiniteSet(S), NEW f, \A x \in S : f[x] = 0
    PROVE  SumFunctionOnSet(f, S) = 0
  <1> DEFINE total == [T \in SUBSET S |-> 0]
  <1>1. total[{}] = 0 /\ total[S] = 0 /\ Summable(f, S)
    BY DEF Summable
  <1>2. \A T \in SUBSET S : \A x \in S \ T : total[T \cup {x}] = total[T] + f[x]
    OBVIOUS
  <1> HIDE DEF total
  <1> QED BY <1>1, <1>2, SumIs

-----------------------------------------------------------------------------
(***************************************************************************)
(* What is reserved, term by term: each worker's reservation and, by       *)
(* prompt, those of dead processes.                                        *)
(***************************************************************************)
Held == [w \in Workers |-> held(w)]

LostTokens == [p \in Prompts |-> lost[p] * MaxTokens[p]]

AccountInv == BudgetInv /\ ReservationsAccounted

\* The two sums of ReservationsAccounted by their names.
LEMMA Accounted ==
    ReservationsAccounted <=>
        reserved = SumFunctionOnSet(Held, Workers) + SumFunctionOnSet(LostTokens, Prompts)
  BY DEF ReservationsAccounted, SumFunction, Held, LostTokens

HeldOK ==
    /\ \A w \in Workers : Held[w] \in Nat
    /\ \A p \in Prompts : LostTokens[p] \in Nat
    /\ Summable(Held, Workers) /\ Summable(LostTokens, Prompts)

LEMMA HeldType == TypeOK => HeldOK
  <1> SUFFICES ASSUME TypeOK PROVE HeldOK
    OBVIOUS
  <1>1. ASSUME NEW w \in Workers PROVE Held[w] \in Nat
    <2>1. CASE w \in Holders
      <3>1. request[w] \in Request
        BY <2>1 DEF Holders, Reserving, TypeOK, LocalsOK
      <3>2. max_tokens(w) \in Nat
        BY <3>1, MaxTokensType
      <3> QED BY <2>1, <3>2 DEF Held, held
    <2>2. CASE w \notin Holders
      BY <2>2 DEF Held, held
    <2> QED BY <2>1, <2>2
  <1>2. ASSUME NEW p \in Prompts PROVE LostTokens[p] \in Nat
    <2>1. lost[p] \in Nat /\ MaxTokens[p] \in Nat
      BY CallsAssumption DEF TypeOK
    <2>2. lost[p] * MaxTokens[p] \in Nat
      BY <2>1
    <2> QED BY <2>2 DEF LostTokens
  <1>3. Summable(Held, Workers) /\ Summable(LostTokens, Prompts)
    BY <1>1, <1>2, CallsAssumption DEF Summable
  <1> QED BY <1>1, <1>2, <1>3 DEF HeldOK

\* Reservations are no debts, and one is no more than all of them.
LEMMA HeldIsReserved ==
    ASSUME AccountInv, NEW w \in Workers
    PROVE  Held[w] <= reserved
  <1> DEFINE rest == [v \in Workers |-> IF v = w THEN 0 ELSE Held[v]]
             none == [v \in Workers |-> 0]
             noTokens == [p \in Prompts |-> 0]
  <1>1. HeldOK /\ IsFiniteSet(Workers) /\ IsFiniteSet(Prompts)
    BY HeldType, CallsAssumption DEF AccountInv, BudgetInv
  <1> USE DEF HeldOK
  <1>2. /\ Summable(rest, Workers) /\ Summable(none, Workers)
        /\ Summable(noTokens, Prompts)
    BY <1>1 DEF Summable
  <1>3. SumFunctionOnSet(none, Workers) = 0 /\ SumFunctionOnSet(noTokens, Prompts) = 0
    BY <1>1, SumOfZeros
  <1>4. rest[w] = 0 /\ \A v \in Workers : v # w => rest[v] = Held[v]
    OBVIOUS
  <1>5. \A v \in Workers : none[v] <= rest[v]
    BY <1>1
  <1>6. \A p \in Prompts : noTokens[p] <= LostTokens[p]
    BY <1>1
  <1> HIDE DEF rest, none, noTokens
  <1>7. SumFunctionOnSet(rest, Workers) = SumFunctionOnSet(Held, Workers) - Held[w] + rest[w]
    <2>1. Summable(Held, Workers) /\ Summable(rest, Workers)
      BY <1>1, <1>2
    <2> HIDE DEF HeldOK
    <2> QED BY <1>4, <2>1, SumUpdate
  <1>8. SumFunctionOnSet(none, Workers) <= SumFunctionOnSet(rest, Workers)
    BY <1>2, <1>5, SumMonotone
  <1>9. SumFunctionOnSet(noTokens, Prompts) <= SumFunctionOnSet(LostTokens, Prompts)
    BY <1>1, <1>2, <1>6, SumMonotone
  <1>10. reserved = SumFunctionOnSet(Held, Workers) + SumFunctionOnSet(LostTokens, Prompts)
    BY Accounted DEF AccountInv
  <1>11. /\ SumFunctionOnSet(Held, Workers) \in Int /\ Held[w] \in Int
         /\ SumFunctionOnSet(LostTokens, Prompts) \in Int
    BY <1>1, SumType
  <1> QED BY <1>3, <1>4, <1>7, <1>8, <1>9, <1>10, <1>11

\* A step of one worker changes one term.
LEMMA OneHolder ==
    ASSUME AccountInv, TypeOK', NEW w \in Workers, UNCHANGED lost,
           \A v \in Workers : v # w => pc'[v] = pc[v] /\ request'[v] = request[v],
           reserved' = reserved - Held[w] + Held'[w]
    PROVE  ReservationsAccounted'
  <1>1. Summable(Held, Workers) /\ Held[w] \in Nat
    BY HeldType DEF AccountInv, BudgetInv, HeldOK
  <1>2. Summable(Held', Workers) /\ Held'[w] \in Nat
    <2>1. HeldOK'
      BY HeldType, PTL
    <2> QED BY <2>1 DEF HeldOK
  <1>3. \A v \in Workers : v # w => Held'[v] = Held[v]
    BY DEF Held, held, Holders, max_tokens
  <1>4. SumFunctionOnSet(Held', Workers) = SumFunctionOnSet(Held, Workers) - Held[w] + Held'[w]
    BY <1>1, <1>2, <1>3, SumUpdate
  <1>5. LostTokens' = LostTokens
    BY DEF LostTokens
  <1>6. reserved = SumFunctionOnSet(Held, Workers) + SumFunctionOnSet(LostTokens, Prompts)
    BY Accounted DEF AccountInv
  <1>7. SumFunctionOnSet(Held, Workers) \in Int /\ SumFunctionOnSet(LostTokens, Prompts) \in Int
    BY <1>1, HeldType, SumType DEF AccountInv, BudgetInv, HeldOK
  <1>8. reserved' = SumFunctionOnSet(Held', Workers) + SumFunctionOnSet(LostTokens', Prompts)
    BY <1>1, <1>2, <1>4, <1>5, <1>6, <1>7
  <1> QED BY <1>8 DEF ReservationsAccounted, SumFunction, Held, LostTokens

\* What w holds, by where it is.
LEMMA HeldValue ==
    ASSUME NEW w \in Workers
    PROVE  /\ pc[w] \in Reserving => Held[w] = MaxTokens[request[w].prompt]
           /\ pc[w] \notin Reserving => Held[w] = 0
           /\ pc'[w] \in Reserving => Held'[w] = MaxTokens[request'[w].prompt]
           /\ pc'[w] \notin Reserving => Held'[w] = 0
  BY DEF Held, held, Holders, max_tokens

\* What a step of w may do to the reservation: nothing, while it goes on holding
\* its own or holds none; take one; give it back.
Settles(w) ==
    \/ /\ pc[w] \notin Reserving /\ pc'[w] \notin Reserving /\ reserved' = reserved
    \/ /\ pc[w] \in Reserving /\ pc'[w] \in Reserving
       /\ request'[w] = request[w] /\ reserved' = reserved
    \/ /\ pc[w] \notin Reserving /\ pc'[w] \in Reserving
       /\ request'[w] = request[w] /\ reserved' = reserved + max_tokens(w)
    \/ /\ pc[w] \in Reserving /\ pc'[w] \notin Reserving
       /\ reserved' = reserved - max_tokens(w)

LEMMA WorkerFrame ==
    ASSUME TypeOK, NEW w \in Workers,
           \/ StartCall(w) \/ Lookup(w) \/ Reserve(w) \/ Post(w) \/ Decode(w) \/ Record(w)
           \/ Finalize(w) \/ Release(w) \/ RecordInvalid(w) \/ Accept(w) \/ Raise(w)
           \/ Interrupt(w)
    PROVE  /\ UNCHANGED lost
           /\ \A v \in Workers : v # w => /\ pc'[v] = pc[v] /\ request'[v] = request[v]
                                          /\ tries'[v] = tries[v] /\ reply'[v] = reply[v]
                                          /\ error'[v] = error[v]
  <1> USE DEF TypeOK, Goto, Done, Fail, historyVars, budgetVars
  <1>1. CASE StartCall(w) \/ Lookup(w) \/ Reserve(w)
    BY <1>1 DEF StartCall, Lookup, Reserve
  <1>2. CASE Post(w) \/ Decode(w) \/ Record(w)
    BY <1>2 DEF Post, Decode, Record
  <1>3. CASE Finalize(w) \/ Release(w) \/ RecordInvalid(w)
    BY <1>3 DEF Finalize, Release, RecordInvalid
  <1>4. CASE Accept(w) \/ Raise(w) \/ Interrupt(w)
    BY <1>4 DEF Accept, Raise, Interrupt
  <1> QED BY <1>1, <1>2, <1>3, <1>4

LEMMA WorkerSettles ==
    ASSUME AccountInv, NEW w \in Workers,
           \/ StartCall(w) \/ Lookup(w) \/ Reserve(w) \/ Post(w) \/ Decode(w) \/ Record(w)
           \/ Finalize(w) \/ Release(w) \/ RecordInvalid(w) \/ Accept(w) \/ Raise(w)
           \/ Interrupt(w)
    PROVE  Settles(w)
  <1>0. TypeOK
    BY DEF AccountInv, BudgetInv
  <1> USE <1>0 DEF TypeOK, Settles, Goto, Done, Fail, Reserving, historyVars, budgetVars
  <1>1. CASE StartCall(w) \/ Lookup(w) \/ RecordInvalid(w) \/ Accept(w) \/ Raise(w)
    BY <1>1 DEF StartCall, Lookup, RecordInvalid, Accept, Raise
  <1>2. CASE Post(w) \/ Decode(w) \/ Record(w) \/ Interrupt(w)
    BY <1>2 DEF Post, Decode, Record, Interrupt
  <1>3. CASE Reserve(w)
    BY <1>3 DEF Reserve
  <1>4. CASE Finalize(w)
    BY <1>4 DEF Finalize
  <1>5. CASE Release(w)
    <2>1. Held[w] <= reserved /\ Held[w] = max_tokens(w)
      BY <1>5, HeldIsReserved, HeldValue DEF Release, max_tokens
    <2>2. max_tokens(w) \in Nat
      BY <1>5, MaxTokensType DEF LocalsOK, Release
    <2>3. ~(reserved < max_tokens(w))
      BY <2>1, <2>2
    <2> QED BY <1>5, <2>3 DEF Release
  <1> QED BY <1>1, <1>2, <1>3, <1>4, <1>5

LEMMA WorkerAccount ==
    ASSUME AccountInv, TypeOK', NEW w \in Workers,
           \/ StartCall(w) \/ Lookup(w) \/ Reserve(w) \/ Post(w) \/ Decode(w) \/ Record(w)
           \/ Finalize(w) \/ Release(w) \/ RecordInvalid(w) \/ Accept(w) \/ Raise(w)
           \/ Interrupt(w)
    PROVE  ReservationsAccounted'
  <1>1. /\ UNCHANGED lost
        /\ \A v \in Workers : v # w => pc'[v] = pc[v] /\ request'[v] = request[v]
    BY WorkerFrame DEF AccountInv, BudgetInv
  <1>2. Settles(w)
    BY WorkerSettles
  <1>3. Held[w] \in Nat /\ Held'[w] \in Nat /\ reserved \in Int
    <2>1. HeldOK /\ HeldOK'
      BY HeldType, PTL DEF AccountInv, BudgetInv
    <2> QED BY <2>1 DEF HeldOK, AccountInv, BudgetInv, TypeOK
  <1>4. reserved' = reserved - Held[w] + Held'[w]
    BY <1>2, <1>3, HeldValue DEF Settles, max_tokens
  <1> QED BY <1>1, <1>4, OneHolder

LEMMA Distributes ==
    ASSUME NEW a \in Int, NEW b \in Int, NEW c \in Int
    PROVE  (a + b) * c = a * c + b * c
  OBVIOUS

\* The reservations of the workers, counted by prompt, are the reservations.
LEMMA LostAtExit ==
    ASSUME AccountInv, Exit
    PROVE  SumFunctionOnSet(LostTokens', Prompts) =
               SumFunctionOnSet(LostTokens, Prompts) + SumFunctionOnSet(Held, Workers)
  <1> DEFINE holding(T, p) == {w \in T : w \in Holders /\ request[w].prompt = p}
             dead(T)  == [p \in Prompts |-> (lost[p] + Cardinality(holding(T, p))) * MaxTokens[p]]
             total    == [T \in SUBSET Workers |->
                             SumFunctionOnSet(dead(T), Prompts)
                                 - SumFunctionOnSet(LostTokens, Prompts)]
  <1>1. /\ TypeOK /\ IsFiniteSet(Workers) /\ IsFiniteSet(Prompts)
        /\ \A p \in Prompts : lost[p] \in Nat /\ MaxTokens[p] \in Nat
    BY CallsAssumption DEF AccountInv, BudgetInv, TypeOK
  <1>2. Summable(Held, Workers) /\ Summable(LostTokens, Prompts)
    BY <1>1, HeldType DEF HeldOK
  <1>3. \A T \in SUBSET Workers, p \in Prompts :
            IsFiniteSet(holding(T, p)) /\ Cardinality(holding(T, p)) \in Nat
    <2> SUFFICES ASSUME NEW T \in SUBSET Workers, NEW p \in Prompts
                 PROVE  IsFiniteSet(holding(T, p)) /\ Cardinality(holding(T, p)) \in Nat
      OBVIOUS
    <2>1. holding(T, p) \in SUBSET Workers
      OBVIOUS
    <2> QED BY <1>1, <2>1, FS_Subset, FS_CardinalityType
  <1>4. \A T \in SUBSET Workers : Summable(dead(T), Prompts)
    <2> SUFFICES ASSUME NEW T \in SUBSET Workers, NEW p \in Prompts
                 PROVE  dead(T)[p] \in Int
      BY <1>1 DEF Summable
    <2>1. lost[p] \in Int /\ MaxTokens[p] \in Int
      BY <1>1
    <2> HIDE DEF holding
    <2>2. Cardinality(holding(T, p)) \in Int
      BY <1>3
    <2> QED BY <2>1, <2>2
  <1>5. total[{}] = 0
    <2>1. {} \in SUBSET Workers
      OBVIOUS
    <2>2. \A p \in Prompts : holding({}, p) = {}
      OBVIOUS
    <2>3. \A p \in Prompts : dead({})[p] = LostTokens[p]
      <3> SUFFICES ASSUME NEW p \in Prompts PROVE dead({})[p] = LostTokens[p]
        OBVIOUS
      <3>1. Cardinality(holding({}, p)) = 0
        BY <2>2, FS_EmptySet
      <3> HIDE DEF holding
      <3>2. lost[p] + Cardinality(holding({}, p)) = lost[p]
        BY <1>1, <3>1
      <3> QED BY <3>2 DEF LostTokens
    <2>4. Summable(dead({}), Prompts)
      BY <1>4, <2>1
    <2> HIDE DEF dead
    <2>5. SumFunctionOnSet(dead({}), Prompts) = SumFunctionOnSet(LostTokens, Prompts)
      BY <2>3, <2>4, SumSame
    <2>6. SumFunctionOnSet(LostTokens, Prompts) \in Int
      BY <1>2, SumType
    <2> QED BY <2>1, <2>5, <2>6
  <1>6. ASSUME NEW T \in SUBSET Workers, NEW w \in Workers \ T
        PROVE  total[T \cup {w}] = total[T] + Held[w]
    <2>1. T \cup {w} \in SUBSET Workers
      OBVIOUS
    <2>2. Summable(dead(T), Prompts) /\ Summable(dead(T \cup {w}), Prompts)
      BY <1>4, <2>1
    <2>3. /\ SumFunctionOnSet(dead(T), Prompts) \in Int
          /\ SumFunctionOnSet(LostTokens, Prompts) \in Int
      BY <1>2, <2>2, SumType
    <2>4. CASE w \notin Holders
      <3>1. \A p \in Prompts : holding(T \cup {w}, p) = holding(T, p)
        BY <2>4
      <3> HIDE DEF holding
      <3>2. \A p \in Prompts : dead(T)[p] = dead(T \cup {w})[p]
        BY <3>1
      <3>3. SumFunctionOnSet(dead(T), Prompts) = SumFunctionOnSet(dead(T \cup {w}), Prompts)
        <4> HIDE DEF dead
        <4> QED BY <2>2, <3>2, SumSame
      <3>4. Held[w] = 0
        BY <2>4 DEF Held, held
      <3> HIDE DEF dead
      <3> QED BY <2>1, <2>3, <3>3, <3>4
    <2>5. CASE w \in Holders
      <3> DEFINE q == request[w].prompt
      <3>1. q \in Prompts /\ Held[w] = MaxTokens[q]
        <4>1. request[w] \in Request
          BY <1>1, <2>5 DEF TypeOK, LocalsOK, Holders, Reserving
        <4> QED BY <2>5, <4>1 DEF Held, held, max_tokens, Request
      <3>2. /\ holding(T \cup {w}, q) = holding(T, q) \cup {w} /\ w \notin holding(T, q)
            /\ \A p \in Prompts : p # q => holding(T \cup {w}, p) = holding(T, p)
        BY <2>5
      <3>3. Cardinality(holding(T \cup {w}, q)) = Cardinality(holding(T, q)) + 1
        <4>1. IsFiniteSet(holding(T, q))
          BY <1>3, <3>1
        <4> HIDE DEF holding, q
        <4> QED BY <3>2, <4>1, FS_AddElement
      <3>4. /\ Cardinality(holding(T, q)) \in Int /\ MaxTokens[q] \in Int /\ lost[q] \in Int
            /\ MaxTokens[q] \in Nat
        BY <1>1, <1>3, <3>1
      <3> HIDE DEF holding, q
      <3>5. dead(T \cup {w})[q] = dead(T)[q] + MaxTokens[q]
        <4> DEFINE n == lost[q] + Cardinality(holding(T, q))
        <4>1. n \in Int /\ lost[q] + Cardinality(holding(T \cup {w}, q)) = n + 1
          BY <3>3, <3>4
        <4>2. /\ dead(T)[q] = n * MaxTokens[q]
              /\ dead(T \cup {w})[q] = (lost[q] + Cardinality(holding(T \cup {w}, q))) * MaxTokens[q]
          BY <3>1
        <4> HIDE DEF n
        <4>3. (n + 1) * MaxTokens[q] = n * MaxTokens[q] + 1 * MaxTokens[q]
          BY <3>4, <4>1, Distributes
        <4>4. 1 * MaxTokens[q] = MaxTokens[q]
          BY <3>4
        <4> HIDE DEF dead
        <4> QED BY <4>1, <4>2, <4>3, <4>4
      <3>6. \A p \in Prompts : p # q => dead(T \cup {w})[p] = dead(T)[p]
        BY <3>2
      <3> HIDE DEF dead
      <3>7. SumFunctionOnSet(dead(T \cup {w}), Prompts) =
                SumFunctionOnSet(dead(T), Prompts) - dead(T)[q] + dead(T \cup {w})[q]
        BY <2>2, <3>1, <3>6, SumUpdate
      <3>8. dead(T)[q] \in Int
        BY <2>2, <3>1 DEF Summable
      <3>9. SumFunctionOnSet(dead(T \cup {w}), Prompts) =
                SumFunctionOnSet(dead(T), Prompts) + Held[w]
        BY <2>3, <3>1, <3>4, <3>5, <3>7, <3>8
      <3> QED BY <2>1, <2>3, <3>1, <3>4, <3>9
    <2> QED BY <2>4, <2>5
  <1>7. dead(Workers) = LostTokens'
    <2>1. \A p \in Prompts : holding(Workers, p) = {w \in Holders : request[w].prompt = p}
      BY DEF Holders
    <2>2. \A p \in Prompts : lost'[p] = lost[p] + Cardinality(holding(Workers, p))
      BY <2>1 DEF Exit
    <2> HIDE DEF holding
    <2> QED BY <2>2 DEF LostTokens
  <1>8. total[Workers] = SumFunctionOnSet(Held, Workers)
    <2> HIDE DEF total
    <2> QED BY <1>2, <1>5, <1>6, SumIs
  <1>9. total[Workers] = SumFunctionOnSet(dead(Workers), Prompts)
                             - SumFunctionOnSet(LostTokens, Prompts)
    OBVIOUS
  <1>10. Summable(dead(Workers), Prompts)
    BY <1>4
  <1> HIDE DEF total, dead
  <1>11. /\ SumFunctionOnSet(dead(Workers), Prompts) \in Int
         /\ SumFunctionOnSet(LostTokens, Prompts) \in Int
    BY <1>2, <1>10, SumType
  <1> QED BY <1>7, <1>8, <1>9, <1>11

LEMMA ExitAccount ==
    ASSUME AccountInv, Exit
    PROVE  ReservationsAccounted'
  <1>1. SumFunctionOnSet(LostTokens', Prompts) =
            SumFunctionOnSet(LostTokens, Prompts) + SumFunctionOnSet(Held, Workers)
    BY LostAtExit
  <1>2. \A w \in Workers : Held'[w] = 0
    <2> SUFFICES ASSUME NEW w \in Workers PROVE Held'[w] = 0
      OBVIOUS
    <2>1. pc'[w] \notin Reserving
      BY DEF Exit, Reserving
    <2> QED BY <2>1, HeldValue
  <1>3. SumFunctionOnSet(Held', Workers) = 0
    BY <1>2, SumOfZeros, CallsAssumption
  <1>4. reserved' = reserved
    BY DEF Exit, budgetVars
  <1>5. reserved = SumFunctionOnSet(Held, Workers) + SumFunctionOnSet(LostTokens, Prompts)
    BY Accounted DEF AccountInv
  <1>6. SumFunctionOnSet(Held, Workers) \in Int /\ SumFunctionOnSet(LostTokens, Prompts) \in Int
    BY HeldType, SumType DEF AccountInv, BudgetInv, HeldOK
  <1>7. reserved' = SumFunctionOnSet(Held', Workers) + SumFunctionOnSet(LostTokens', Prompts)
    BY <1>1, <1>3, <1>4, <1>5, <1>6
  <1> QED BY <1>7 DEF ReservationsAccounted, SumFunction, Held, LostTokens

LEMMA InitAccount == Init => AccountInv
  <1> SUFFICES ASSUME Init PROVE AccountInv
    OBVIOUS
  <1>1. BudgetInv
    BY InitBudget
  <1>2. /\ \A w \in Workers : Held[w] = 0
        /\ \A p \in Prompts : LostTokens[p] = 0
    <2>1. \A w \in Workers : Held[w] = 0
      BY DEF Init, Held, held, Holders, Reserving
    <2>2. ASSUME NEW p \in Prompts PROVE LostTokens[p] = 0
      <3>1. lost[p] = 0 /\ MaxTokens[p] \in Int
        BY CallsAssumption DEF Init
      <3> QED BY <3>1 DEF LostTokens
    <2> QED BY <2>1, <2>2
  <1>3. SumFunctionOnSet(Held, Workers) = 0 /\ SumFunctionOnSet(LostTokens, Prompts) = 0
    BY <1>2, SumOfZeros, CallsAssumption
  <1>4. reserved = 0
    BY DEF Init
  <1>5. ReservationsAccounted
    BY <1>3, <1>4, Accounted
  <1> QED BY <1>1, <1>5 DEF AccountInv

LEMMA StepAccount == AccountInv /\ [Next]_vars => AccountInv'
  <1> SUFFICES ASSUME AccountInv, [Next]_vars PROVE AccountInv'
    OBVIOUS
  <1>1. BudgetInv' /\ TypeOK'
    BY StepBudget DEF AccountInv, BudgetInv
  <1>2. CASE EndProcess
    BY <1>1, <1>2, ExitAccount DEF EndProcess, AccountInv
  <1>3. ASSUME NEW w \in active, StartCall(w) \/ Work(w) \/ Interrupt(w)
        PROVE  AccountInv'
    <2> w \in Workers
      BY DEF AccountInv, BudgetInv, TypeOK
    <2>1. CASE RaiseInterrupt(w)
      BY <1>1, <2>1, ExitAccount DEF RaiseInterrupt, AccountInv
    <2>2. CASE ~RaiseInterrupt(w)
      BY <1>1, <1>3, <2>2, WorkerAccount DEF Work, AccountInv
    <2> QED BY <2>1, <2>2
  <1>4. CASE UNCHANGED vars
    <2>1. ReservationsAccounted'
      BY <1>4 DEF AccountInv, ReservationsAccounted, held, Holders, max_tokens, vars, budgetVars,
                  historyVars
    <2> QED BY <1>1, <2>1 DEF AccountInv
  <1> QED BY <1>2, <1>3, <1>4 DEF Next

\* Every reserved token belongs to a call in flight or to one whose process died,
\* for any number of workers and any number of crashes.
THEOREM ReservationsHold == Spec => []ReservationsAccounted
  <1>1. AccountInv => ReservationsAccounted
    BY DEF AccountInv
  <1> QED BY <1>1, InitAccount, StepAccount, PTL DEF Spec


-----------------------------------------------------------------------------
(***************************************************************************)
(* What completed rows say was produced, against what is spent.  Between   *)
(* record and finalize a row's tokens are due: still reserved, not yet     *)
(* spent.                                                                  *)
(***************************************************************************)
due(w) == IF pc[w] = "finalize" THEN reply[w].tokens ELSE 0

Due == [w \in Workers |-> due(w)]

Rows == [r \in Request |-> RowTokens(r)]

Pooled == Cardinality(active) > 1

Covered ==
    SumFunctionOnSet(Rows, Request) <=
        outputTokens + SumFunctionOnSet(Due, Workers) + SumFunctionOnSet(LostTokens, Prompts)

CoverInv == AccountInv /\ (Pooled => Covered)

LEMMA RequestFinite == IsFiniteSet(Request)
  <1> DEFINE attempts  == 0 .. StructuredAttempts - 1
             feedbacks == Retryable \cup {None}
             triples   == (Prompts \X attempts) \X feedbacks
             body      == [t \in triples |->
                              [prompt |-> t[1][1], attempt |-> t[1][2], feedback |-> t[2]]]
  <1>1. IsFiniteSet(attempts)
    BY CallsAssumption, FS_Interval
  <1>2. IsFiniteSet(feedbacks)
    <2>1. feedbacks = (({} \cup {"schema"}) \cup {"truncated"}) \cup {"unusable"} \cup {None}
      BY DEF Retryable
    <2> QED BY <2>1, FS_EmptySet, FS_AddElement
  <1>3. IsFiniteSet(triples)
    <2> HIDE DEF attempts, feedbacks
    <2>1. IsFiniteSet(Prompts \X attempts)
      BY <1>1, CallsAssumption, FS_Product
    <2> QED BY <1>2, <2>1, FS_Product
  <1>4. body \in Surjection(triples, Request)
    <2>1. body \in [triples -> Request]
      BY DEF Request
    <2>2. ASSUME NEW r \in Request PROVE \E t \in triples : body[t] = r
      <3> DEFINE t == <<<<r.prompt, r.attempt>>, r.feedback>>
      <3>1. t \in triples
        BY DEF Request
      <3>2. body[t] = r
        BY <3>1 DEF Request
      <3> QED BY <3>1, <3>2
    <2> HIDE DEF body, triples
    <2> QED BY <2>1, <2>2 DEF Surjection
  <1> QED BY <1>3, <1>4, FS_Surjection

CoverOK ==
    /\ \A w \in Workers : Due[w] \in Nat /\ Due[w] <= Held[w]
    /\ \A r \in Request : Rows[r] \in Nat
    /\ Summable(Due, Workers) /\ Summable(Rows, Request)

\* Tokens that are due are within the reservation of the call.
LEMMA CoverType == TypeOK => CoverOK
  <1> SUFFICES ASSUME TypeOK PROVE CoverOK
    OBVIOUS
  <1>1. ASSUME NEW w \in Workers PROVE Due[w] \in Nat /\ Due[w] <= Held[w]
    <2>1. Held[w] \in Nat
      BY HeldType DEF HeldOK
    <2>2. CASE pc[w] = "finalize"
      <3>1. reply[w] \in Reply /\ reply[w].tokens <= max_tokens(w) /\ pc[w] \in Reserving
        BY <2>2 DEF TypeOK, LocalsOK, Reserving
      <3>2. reply[w].tokens \in Nat
        BY <3>1, CallsAssumption DEF Reply
      <3>3. Held[w] = max_tokens(w) /\ Due[w] = reply[w].tokens
        BY <2>2, <3>1 DEF Held, held, Holders, Due, due
      <3> QED BY <3>1, <3>2, <3>3
    <2>3. CASE pc[w] # "finalize"
      BY <2>1, <2>3 DEF Due, due
    <2> QED BY <2>2, <2>3
  <1>2. ASSUME NEW r \in Request PROVE Rows[r] \in Nat
    <2>1. CASE calls[r] # None /\ calls[r].status = "COMPLETE"
      <3>1. calls[r] \in Row
        BY <2>1 DEF TypeOK
      <3>2. calls[r].reply.tokens \in Nat
        BY <3>1, CallsAssumption DEF Row, Reply
      <3> QED BY <2>1, <3>2 DEF Rows, RowTokens
    <2>2. CASE ~(calls[r] # None /\ calls[r].status = "COMPLETE")
      BY <2>2 DEF Rows, RowTokens
    <2> QED BY <2>1, <2>2
  <1>3. Summable(Due, Workers) /\ Summable(Rows, Request)
    BY <1>1, <1>2, CallsAssumption, RequestFinite DEF Summable
  <1> QED BY <1>1, <1>2, <1>3 DEF CoverOK

LEMMA CoverImplies == CoverInv => RecordedTokensCovered
  <1> SUFFICES ASSUME CoverInv, Pooled PROVE SumFunctionOnSet(Rows, Request) <= outputTokens + reserved
    BY DEF RecordedTokensCovered, Pooled, Rows, SumFunction
  <1>0. TypeOK
    BY DEF CoverInv, AccountInv, BudgetInv
  <1>1. HeldOK /\ CoverOK
    BY <1>0, HeldType, CoverType
  <1>2. SumFunctionOnSet(Due, Workers) <= SumFunctionOnSet(Held, Workers)
    BY <1>1, SumMonotone DEF HeldOK, CoverOK
  <1>3. reserved = SumFunctionOnSet(Held, Workers) + SumFunctionOnSet(LostTokens, Prompts)
    BY Accounted DEF CoverInv, AccountInv
  <1>4. /\ SumFunctionOnSet(Held, Workers) \in Int /\ SumFunctionOnSet(LostTokens, Prompts) \in Int
        /\ SumFunctionOnSet(Due, Workers) \in Int /\ SumFunctionOnSet(Rows, Request) \in Int
        /\ outputTokens \in Int
    BY <1>0, <1>1, SumType DEF HeldOK, CoverOK, TypeOK
  <1>5. Covered
    BY DEF CoverInv
  <1> QED BY <1>2, <1>3, <1>4, <1>5 DEF Covered

LEMMA InitCover == Init => CoverInv
  <1> SUFFICES ASSUME Init PROVE CoverInv
    OBVIOUS
  <1>1. AccountInv
    BY InitAccount
  <1>2. /\ \A w \in Workers : Due[w] = 0
        /\ \A p \in Prompts : LostTokens[p] = 0
        /\ \A r \in Request : Rows[r] = 0
    <2>1. /\ \A w \in Workers : Due[w] = 0
          /\ \A r \in Request : Rows[r] = 0
      BY DEF Init, Due, due, Rows, RowTokens
    <2>2. ASSUME NEW p \in Prompts PROVE LostTokens[p] = 0
      <3>1. lost[p] = 0 /\ MaxTokens[p] \in Int
        BY CallsAssumption DEF Init
      <3> QED BY <3>1 DEF LostTokens
    <2> QED BY <2>1, <2>2
  <1>3. /\ SumFunctionOnSet(Due, Workers) = 0 /\ SumFunctionOnSet(LostTokens, Prompts) = 0
        /\ SumFunctionOnSet(Rows, Request) = 0
    BY <1>2, SumOfZeros, CallsAssumption, RequestFinite
  <1>4. outputTokens = 0
    BY DEF Init
  <1> QED BY <1>1, <1>3, <1>4 DEF CoverInv, Covered

\* A step that changes neither rows nor what is spent or due.
LEMMA SameCover ==
    ASSUME CoverInv, Pooled, UNCHANGED <<lost, outputTokens>>,
           \A w \in Workers : Due'[w] = Due[w],
           \A r \in Request : Rows'[r] = Rows[r]
    PROVE  Covered'
  <1>1. /\ LostTokens' = LostTokens
        /\ Due' = Due /\ Rows' = Rows
    BY DEF LostTokens, Due, Rows
  <1> QED BY <1>1 DEF CoverInv, Covered

\* The tokens of a completed row are due until they are spent.
LEMMA RecordCover ==
    ASSUME CoverInv, TypeOK', Pooled, NEW w \in Workers, Record(w)
    PROVE  Covered'
  <1> DEFINE r == request[w]
             row == [status |-> "COMPLETE", reply |-> reply[w]]
  <1>0. TypeOK
    BY DEF CoverInv, AccountInv, BudgetInv
  <1>1. CoverOK /\ CoverOK' /\ HeldOK
    BY <1>0, CoverType, HeldType, PTL
  <1>2. r \in Request /\ reply[w] \in Reply /\ reply[w].tokens \in Nat
    BY <1>0, CallsAssumption DEF Record, TypeOK, LocalsOK, Reply
  <1>3. /\ UNCHANGED <<lost, outputTokens>>
        /\ calls' = Inserted(r, row) /\ pc' = [pc EXCEPT ![w] = "finalize"] /\ reply' = reply
    BY DEF Record, Goto, budgetVars, historyVars
  <1>4. LostTokens' = LostTokens
    BY <1>3 DEF LostTokens
  <1>5. Due[w] = 0 /\ Due'[w] = reply[w].tokens
    BY <1>0, <1>3 DEF Due, due, Record, TypeOK
  <1>6. \A v \in Workers : v # w => Due'[v] = Due[v]
    BY <1>0, <1>3 DEF Due, due, TypeOK
  <1>7. SumFunctionOnSet(Due', Workers) =
            SumFunctionOnSet(Due, Workers) - Due[w] + Due'[w]
    <2>1. Summable(Due, Workers) /\ Summable(Due', Workers)
      BY <1>1 DEF CoverOK
    <2> QED BY <1>6, <2>1, SumUpdate
  <1>8. \A q \in Request : q # r => Rows'[q] = Rows[q]
    BY <1>0, <1>3 DEF Rows, RowTokens, Inserted, TypeOK
  <1>9. Rows'[r] - Rows[r] <= reply[w].tokens
    <2>1. Rows[r] \in Nat
      BY <1>1, <1>2 DEF CoverOK
    <2>2. CASE calls[r] = None
      <3>1. calls'[r] = row
        BY <1>0, <1>2, <1>3, <2>2 DEF Inserted, TypeOK
      <3>2. Rows'[r] = reply[w].tokens \/ Rows'[r] = 0
        BY <1>2, <3>1 DEF Rows, RowTokens
      <3> QED BY <1>2, <2>1, <3>2
    <2>3. CASE calls[r] # None
      <3>1. calls' = calls
        BY <1>3, <2>3 DEF Inserted
      <3>2. Rows'[r] = Rows[r]
        BY <1>2, <3>1 DEF Rows, RowTokens
      <3> QED BY <1>2, <2>1, <3>2
    <2> QED BY <2>2, <2>3
  <1> HIDE DEF r, row
  <1>10. SumFunctionOnSet(Rows', Request) =
             SumFunctionOnSet(Rows, Request) - Rows[r] + Rows'[r]
    <2>1. Summable(Rows, Request) /\ Summable(Rows', Request)
      BY <1>1 DEF CoverOK
    <2> QED BY <1>2, <1>8, <2>1, SumUpdate
  <1>11. /\ Rows[r] \in Int /\ Rows'[r] \in Int
         /\ SumFunctionOnSet(Rows, Request) \in Int /\ SumFunctionOnSet(Due, Workers) \in Int
         /\ SumFunctionOnSet(LostTokens, Prompts) \in Int /\ outputTokens \in Int
    BY <1>0, <1>1, <1>2, SumType DEF CoverOK, HeldOK, TypeOK
  <1>12. Covered /\ outputTokens' = outputTokens
    BY <1>3 DEF CoverInv
  <1> QED BY <1>2, <1>4, <1>5, <1>7, <1>9, <1>10, <1>11, <1>12 DEF Covered

\* Finalize spends what was due.
LEMMA FinalizeCover ==
    ASSUME CoverInv, TypeOK', Pooled, NEW w \in Workers, Finalize(w)
    PROVE  Covered'
  <1>0. TypeOK
    BY DEF CoverInv, AccountInv, BudgetInv
  <1>1. CoverOK /\ CoverOK' /\ HeldOK
    BY <1>0, CoverType, HeldType, PTL
  <1>2. reply[w] \in Reply /\ reply[w].tokens \in Nat
    BY <1>0, CallsAssumption DEF Finalize, TypeOK, LocalsOK, Reply
  <1>3. /\ UNCHANGED lost /\ calls' = calls /\ reply' = reply
        /\ pc' = [pc EXCEPT ![w] = "accept"]
        /\ outputTokens' = outputTokens + reply[w].tokens
    BY DEF Finalize, Goto, historyVars
  <1>4. LostTokens' = LostTokens /\ Rows' = Rows
    BY <1>3 DEF LostTokens, Rows, RowTokens
  <1>5. Due[w] = reply[w].tokens /\ Due'[w] = 0
    BY <1>0, <1>3 DEF Due, due, Finalize, TypeOK
  <1>6. \A v \in Workers : v # w => Due'[v] = Due[v]
    BY <1>0, <1>3 DEF Due, due, TypeOK
  <1>7. SumFunctionOnSet(Due', Workers) =
            SumFunctionOnSet(Due, Workers) - Due[w] + Due'[w]
    <2>1. Summable(Due, Workers) /\ Summable(Due', Workers)
      BY <1>1 DEF CoverOK
    <2> QED BY <1>6, <2>1, SumUpdate
  <1>8. /\ SumFunctionOnSet(Rows, Request) \in Int /\ SumFunctionOnSet(Due, Workers) \in Int
        /\ SumFunctionOnSet(LostTokens, Prompts) \in Int /\ outputTokens \in Int
    BY <1>0, <1>1, SumType DEF CoverOK, HeldOK, TypeOK
  <1>9. Covered
    BY DEF CoverInv
  <1> QED BY <1>2, <1>3, <1>4, <1>5, <1>7, <1>8, <1>9 DEF Covered

\* With the process, what was due is lost; it was reserved.
LEMMA ExitCover ==
    ASSUME CoverInv, TypeOK', Pooled, Exit
    PROVE  Covered'
  <1>0. TypeOK
    BY DEF CoverInv, AccountInv, BudgetInv
  <1>1. CoverOK /\ HeldOK /\ HeldOK'
    BY <1>0, CoverType, HeldType, PTL
  <1>2. SumFunctionOnSet(LostTokens', Prompts) =
            SumFunctionOnSet(LostTokens, Prompts) + SumFunctionOnSet(Held, Workers)
    BY LostAtExit DEF CoverInv
  <1>3. SumFunctionOnSet(Due, Workers) <= SumFunctionOnSet(Held, Workers)
    BY <1>1, SumMonotone DEF HeldOK, CoverOK
  <1>4. \A w \in Workers : Due'[w] = 0
    BY DEF Exit, Due, due
  <1>5. SumFunctionOnSet(Due', Workers) = 0
    BY <1>4, SumOfZeros, CallsAssumption
  <1>6. Rows' = Rows /\ outputTokens' = outputTokens
    BY DEF Exit, Rows, RowTokens, budgetVars
  <1>7. /\ SumFunctionOnSet(Rows, Request) \in Int /\ SumFunctionOnSet(Due, Workers) \in Int
        /\ SumFunctionOnSet(Held, Workers) \in Int
        /\ SumFunctionOnSet(LostTokens, Prompts) \in Int /\ outputTokens \in Int
    BY <1>0, <1>1, SumType DEF CoverOK, HeldOK, TypeOK
  <1>8. Covered
    BY DEF CoverInv
  <1> QED BY <1>2, <1>3, <1>5, <1>6, <1>7, <1>8 DEF Covered

\* No other step of a worker touches what the three sums are made of.  Several
\* workers are never interrupted.
LEMMA OtherCover ==
    ASSUME CoverInv, Pooled, NEW w \in Workers,
           \/ StartCall(w) \/ Lookup(w) \/ Reserve(w) \/ Post(w) \/ Decode(w)
           \/ Release(w) \/ RecordInvalid(w) \/ Accept(w) \/ Raise(w) \/ Interrupt(w)
    PROVE  Covered'
  <1>0. TypeOK
    BY DEF CoverInv, AccountInv, BudgetInv
  <1>1. ~Interrupt(w)
    BY FS_Singleton DEF Interrupt, Pooled
  <1>2. UNCHANGED lost /\ \A v \in Workers : v # w => pc'[v] = pc[v] /\ reply'[v] = reply[v]
    BY <1>0, WorkerFrame
  <1>3. UNCHANGED outputTokens /\ pc[w] # "finalize" /\ pc'[w] # "finalize"
    <2> USE <1>0 DEF TypeOK, Goto, Done, Fail, historyVars, budgetVars
    <2>1. CASE StartCall(w) \/ Lookup(w) \/ Reserve(w) \/ Post(w) \/ Decode(w)
      BY <2>1 DEF StartCall, Lookup, Reserve, Post, Decode
    <2>2. CASE Release(w) \/ RecordInvalid(w) \/ Accept(w) \/ Raise(w)
      BY <2>2 DEF Release, RecordInvalid, Accept, Raise
    <2> QED BY <1>1, <2>1, <2>2
  <1>4. \A v \in Workers : Due'[v] = Due[v]
    BY <1>2, <1>3 DEF Due, due
  <1>5. \A r \in Request : Rows'[r] = Rows[r]
    <2>1. CASE RecordInvalid(w)
      <3> DEFINE row == [status |-> "INVALID", reply |-> reply[w]]
      <3>1. calls' = Inserted(request[w], row)
        BY <2>1 DEF RecordInvalid
      <3>2. ASSUME NEW r \in Request PROVE Rows'[r] = Rows[r]
        <4>1. CASE calls[request[w]] = None /\ r = request[w]
          <5>1. calls'[r] = row
            BY <1>0, <3>1, <4>1 DEF Inserted, TypeOK
          <5> QED BY <4>1, <5>1 DEF Rows, RowTokens
        <4>2. CASE ~(calls[request[w]] = None /\ r = request[w])
          <5>1. calls'[r] = calls[r]
            BY <1>0, <3>1, <4>2 DEF Inserted, TypeOK
          <5> QED BY <5>1 DEF Rows, RowTokens
        <4> QED BY <4>1, <4>2
      <3> QED BY <3>2
    <2>2. CASE ~RecordInvalid(w)
      <3>1. calls' = calls
        BY <1>1, <2>2 DEF StartCall, Lookup, Reserve, Post, Decode, Release, Accept, Raise
      <3> QED BY <3>1 DEF Rows, RowTokens
    <2> QED BY <2>1, <2>2
  <1> QED BY <1>2, <1>3, <1>4, <1>5, SameCover

LEMMA StepCover == CoverInv /\ [Next]_vars => CoverInv'
  <1> SUFFICES ASSUME CoverInv, [Next]_vars PROVE CoverInv'
    OBVIOUS
  <1>1. AccountInv'
    BY StepAccount DEF CoverInv
  <1>2. TypeOK'
    BY <1>1 DEF AccountInv, BudgetInv
  <1>3. active' = active
    BY DEF Next, vars
  <1> SUFFICES ASSUME Pooled PROVE Covered'
    BY <1>1, <1>3 DEF CoverInv, Pooled
  <1>4. CASE EndProcess
    BY <1>2, <1>4, ExitCover DEF EndProcess
  <1>5. ASSUME NEW w \in active, StartCall(w) \/ Work(w) \/ Interrupt(w)
        PROVE  Covered'
    <2> w \in Workers
      BY DEF CoverInv, AccountInv, BudgetInv, TypeOK
    <2>1. CASE RaiseInterrupt(w)
      BY <1>2, <2>1, ExitCover DEF RaiseInterrupt
    <2>2. CASE Record(w)
      BY <1>2, <2>2, RecordCover
    <2>3. CASE Finalize(w)
      BY <1>2, <2>3, FinalizeCover
    <2> QED BY <1>5, <2>1, <2>2, <2>3, OtherCover DEF Work
  <1>6. CASE UNCHANGED vars
    <2>1. /\ UNCHANGED <<lost, outputTokens>>
          /\ \A w \in Workers : Due'[w] = Due[w]
          /\ \A r \in Request : Rows'[r] = Rows[r]
      BY <1>6 DEF vars, budgetVars, historyVars, Due, due, Rows, RowTokens
    <2> QED BY <2>1, SameCover
  <1> QED BY <1>4, <1>5, <1>6 DEF Next

\* With pooled workers, every completion a replay may use is paid for, also by a
\* process that died between recording and finalizing it.
THEOREM RowsPaidFor == Spec => []RecordedTokensCovered
  BY InitCover, StepCover, CoverImplies, PTL DEF Spec

-----------------------------------------------------------------------------
(***************************************************************************)
(* Serial runs: between Lookup and Reserve nobody else can answer the      *)
(* request, so a worker about to reserve has no answer it could use.       *)
(***************************************************************************)
Unanswered(r) == calls[r] = None \/ calls[r].status # "COMPLETE"

SerialInv ==
    /\ TypeOK
    /\ \A w \in Workers :
          active = {w} /\ pc[w] = "reserve" /\ ~BypassesCache(request[w])
              => Unanswered(request[w])

LEMMA InitSerial == Init => SerialInv
  BY InitBudget DEF BudgetInv, SerialInv, Init

LEMMA StepSerial == BudgetInv /\ SerialInv /\ [Next]_vars => SerialInv'
  <1> SUFFICES ASSUME BudgetInv, SerialInv, [Next]_vars PROVE SerialInv'
    OBVIOUS
  <1>1. TypeOK'
    BY StepBudget DEF BudgetInv
  <1>2. active' = active
    BY DEF Next, vars
  <1>3. SUFFICES ASSUME NEW w \in Workers, active = {w}, pc'[w] = "reserve",
                        ~BypassesCache(request'[w])
                 PROVE  Unanswered(request[w])'
    BY <1>1, <1>2 DEF SerialInv, BypassesCache
  <1>4. CASE UNCHANGED vars
    BY <1>3, <1>4 DEF vars, SerialInv, Unanswered
  <1>5. CASE Lookup(w)
    <2>1. ~Saved(request[w])
      BY <1>3, <1>5 DEF Lookup, Goto, SerialInv, TypeOK
    <2>2. UNCHANGED <<calls, request>>
      BY <1>5 DEF Lookup
    <2> QED BY <1>3, <2>1, <2>2 DEF Saved, Unanswered
  <1>6. CASE EndProcess \/ RaiseInterrupt(w)
    BY <1>3, <1>6 DEF EndProcess, RaiseInterrupt, Exit
  <1>7. CASE \/ StartCall(w) \/ Reserve(w) \/ Post(w) \/ Decode(w) \/ Record(w)
             \/ Finalize(w) \/ Release(w) \/ RecordInvalid(w) \/ Accept(w) \/ Raise(w)
             \/ Interrupt(w)
    <2> USE DEF SerialInv, TypeOK, Goto, Done, Fail
    <2>1. CASE StartCall(w) \/ Reserve(w) \/ Post(w) \/ Decode(w) \/ Record(w)
      BY <1>3, <2>1 DEF StartCall, Reserve, Post, Decode, Record
    <2>2. CASE \/ Finalize(w) \/ Release(w) \/ RecordInvalid(w) \/ Accept(w) \/ Raise(w)
               \/ Interrupt(w)
      BY <1>3, <2>2 DEF Finalize, Release, RecordInvalid, Accept, Raise, Interrupt
    <2> QED BY <1>7, <2>1, <2>2
  <1> QED BY <1>3, <1>4, <1>5, <1>6, <1>7 DEF Next, Work

\* A serial run never reserves for a request whose answer the ledger has, in
\* whichever process it got it, unless it asks for another answer on purpose.
THEOREM PaysOnce == Spec => PaidOnce
  <1>1. BudgetInv /\ SerialInv /\ [Next]_vars =>
            [\A w \in Workers :
                active = {w} /\ requestCount' > requestCount /\ ~BypassesCache(request[w])
                   => calls[request[w]] = None \/ calls[request[w]].status # "COMPLETE"]_vars
    <2> SUFFICES ASSUME BudgetInv, SerialInv, Next,
                        NEW w \in Workers, active = {w}, requestCount' > requestCount,
                        ~BypassesCache(request[w])
                 PROVE  Unanswered(request[w])
      BY DEF Unanswered
    <2>1. requestCount' # requestCount
      BY DEF BudgetInv, TypeOK
    <2>2. ~EndProcess
      BY <2>1 DEF EndProcess, Exit, budgetVars
    <2>3. Reserve(w)
      BY <2>1, <2>2
         DEF Next, Work, StartCall, Interrupt, Lookup, Post, Decode, Record, Finalize, Release,
             RecordInvalid, Accept, Raise, RaiseInterrupt, Exit, budgetVars
    <2> QED BY <2>3 DEF SerialInv, Reserve
  <1> QED BY <1>1, InitBudget, InitSerial, StepBudget, StepSerial, PTL DEF Spec, PaidOnce

-----------------------------------------------------------------------------
(***************************************************************************)
(* The variant of a call, per attempt: StepsLeft orders the steps of one,  *)
(* and a further attempt costs one more whole attempt.                     *)
(***************************************************************************)
LEMMA StepsShrink ==
    ASSUME TypeOK, NEW w \in Workers, InCall(w), InCall(w)',
           \/ Lookup(w) \/ Reserve(w) \/ Post(w) \/ Decode(w) \/ Record(w)
           \/ Finalize(w) \/ Release(w) \/ RecordInvalid(w) \/ Accept(w) \/ Interrupt(w)
    PROVE  StepsLeft(w)' \in Int /\ StepsLeft(w) \in Int /\ StepsLeft(w)' < StepsLeft(w)
  <1>1. tries[w] \in 0 .. TransportAttempts - 1 /\ TransportAttempts \in Int
    BY CallsAssumption DEF TypeOK
  <1> USE <1>1 DEF TypeOK, Goto, Done, Fail, InCall, StepsLeft
  <1>2. CASE Lookup(w) \/ Reserve(w)
    BY <1>2 DEF Lookup, Reserve
  <1>3. CASE Post(w)
    BY <1>3 DEF Post
  <1>4. CASE Decode(w) \/ Record(w) \/ Finalize(w)
    BY <1>4 DEF Decode, Record, Finalize
  <1>5. CASE Release(w) \/ RecordInvalid(w) \/ Accept(w)
    BY <1>5 DEF Release, RecordInvalid, Accept
  <1>6. CASE Interrupt(w)
    <2>1. pc'[w] = "release" /\ pc[w] \in {"post", "decode", "record", "finalize"}
      BY <1>6 DEF Interrupt
    <2>2. StepsLeft(w)' = 3
      BY <2>1
    <2>3. /\ pc[w] = "post" => StepsLeft(w) = 6 + TransportAttempts - tries[w]
          /\ pc[w] = "decode" => StepsLeft(w) = 6
          /\ pc[w] = "record" => StepsLeft(w) = 5
          /\ pc[w] = "finalize" => StepsLeft(w) = 4
      OBVIOUS
    <2> HIDE DEF StepsLeft
    <2> QED BY <2>1, <2>2, <2>3
  <1> QED BY <1>2, <1>3, <1>4, <1>5, <1>6

LEMMA AttemptShrinks ==
    ASSUME TypeOK, NEW w \in Workers, InCall(w), InCall(w)', request'[w] = request[w],
           \/ Lookup(w) \/ Reserve(w) \/ Post(w) \/ Decode(w) \/ Record(w)
           \/ Finalize(w) \/ Release(w) \/ RecordInvalid(w) \/ Accept(w) \/ Interrupt(w)
    PROVE  Variant(w)' < Variant(w)
  <1> DEFINE rest == (StructuredAttempts - request[w].attempt) * (8 + TransportAttempts)
  <1>1. rest \in Int
    <2>1. request[w].attempt \in Int
      BY DEF TypeOK, LocalsOK, InCall, Request
    <2>2. /\ StructuredAttempts - request[w].attempt \in Int
          /\ 8 + TransportAttempts \in Int
      BY <2>1, CallsAssumption
    <2> QED BY <2>2
  <1>2. Variant(w) = rest + StepsLeft(w) /\ Variant(w)' = rest + StepsLeft(w)'
    BY DEF Variant
  <1> HIDE DEF rest
  <1>3. StepsLeft(w)' \in Int /\ StepsLeft(w) \in Int /\ StepsLeft(w)' < StepsLeft(w)
    BY StepsShrink
  <1> QED BY <1>1, <1>2, <1>3

\* A further attempt starts over, with one fewer to come.
LEMMA RaiseShrinks ==
    ASSUME TypeOK, NEW w \in Workers, InCall(w), InCall(w)', Raise(w)
    PROVE  Variant(w)' < Variant(w)
  <1> DEFINE left == StructuredAttempts - request[w].attempt - 1
             cost == 8 + TransportAttempts
  <1>1. request[w].attempt \in Int /\ pc[w] = "raise" /\ request[w] \in Request
    BY DEF Raise, TypeOK, LocalsOK, Request
  <1>2. left \in Int /\ cost \in Int
    BY <1>1, CallsAssumption
  <1>3. AsksAgain(w) /\ pc'[w] = "lookup" /\ request'[w] = NextRequest(request[w], error[w])
    BY DEF Raise, Goto, Done, InCall, TypeOK
  <1>4. request'[w].attempt = request[w].attempt + 1
    BY <1>3 DEF NextRequest
  <1>5. StepsLeft(w) = 1 /\ StepsLeft(w)' = cost
    BY <1>1, <1>3 DEF StepsLeft
  <1>6. /\ StructuredAttempts - request[w].attempt = left + 1
        /\ StructuredAttempts - request'[w].attempt = left
    BY <1>1, <1>4, CallsAssumption
  <1> HIDE DEF left, cost
  <1>7. Variant(w) = (left + 1) * cost + 1 /\ Variant(w)' = left * cost + cost
    BY <1>5, <1>6 DEF Variant, cost
  <1>8. (left + 1) * cost = left * cost + 1 * cost
    BY <1>2, Distributes
  <1>9. left * cost \in Int /\ 1 * cost = cost
    BY <1>2
  <1> QED BY <1>2, <1>7, <1>8, <1>9

\* Each step of a call ends it, or leaves it fewer steps, for any number of
\* attempts: no cycle of retries, attempts and replays goes on for ever.
THEOREM EveryStepShrinks == Spec => CallsShrink
  <1>1. BudgetInv /\ [Next]_vars =>
            [\A w \in Workers :
                InCall(w) /\ InCall(w)' /\ UNCHANGED exits =>
                    Variant(w)' < Variant(w)
                        \/ UNCHANGED <<pc[w], request[w], tries[w], reply[w], error[w]>>]_vars
    <2> SUFFICES ASSUME BudgetInv, Next, NEW w \in Workers, InCall(w), InCall(w)',
                        UNCHANGED exits
                 PROVE  Variant(w)' < Variant(w)
                            \/ UNCHANGED <<pc[w], request[w], tries[w], reply[w], error[w]>>
      OBVIOUS
    <2> USE DEF BudgetInv
    <2>1. ~Exit
      BY DEF Exit, TypeOK
    <2>2. PICK v \in active :
            \/ StartCall(v) \/ Lookup(v) \/ Reserve(v) \/ Post(v) \/ Decode(v) \/ Record(v)
            \/ Finalize(v) \/ Release(v) \/ RecordInvalid(v) \/ Accept(v) \/ Raise(v)
            \/ Interrupt(v)
      BY <2>1 DEF Next, EndProcess, Work, RaiseInterrupt
    <2>3. v \in Workers
      BY DEF TypeOK
    <2>4. CASE v # w
      BY <2>2, <2>3, <2>4, WorkerFrame
    <2>5. CASE v = w
      <3>1. ~StartCall(w)
        BY DEF StartCall, InCall
      <3>2. CASE Raise(w)
        BY <3>2, RaiseShrinks
      <3>3. CASE ~Raise(w)
        <4>1. request'[w] = request[w]
          BY <2>2, <2>5, <3>1, <3>3
             DEF Lookup, Reserve, Post, Decode, Record, Finalize, Release, RecordInvalid, Accept,
                 Interrupt, Done, Goto, InCall, TypeOK
        <4> QED BY <2>2, <2>5, <3>1, <3>3, <4>1, AttemptShrinks
      <3> QED BY <3>2, <3>3
    <2> QED BY <2>4, <2>5
  <1> QED BY <1>1, InitBudget, StepBudget, PTL DEF Spec, CallsShrink
===============================================================================
