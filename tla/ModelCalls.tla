------------------------------ MODULE ModelCalls ------------------------------
(***************************************************************************)
(* Model calls of the concurrent image workers of one run: the attempts of *)
(* SynthesisCoordinator._invoke (pipeline.py) around VllmClient.invoke     *)
(* (serving.py), with the budget and model_call rows of RunStore           *)
(* (store.py), which outlive the process.                                  *)
(*                                                                         *)
(* Workers share the store; every store operation is one transaction, and  *)
(* workers interleave between them.  Equal requests of two workers are one *)
(* element of Prompts: requirement extraction sends no image, so two       *)
(* images whose first questions agree send the same request.               *)
(***************************************************************************)
EXTENDS Integers, FiniteSets, Functions

CONSTANTS
    Workers,             \* threads synthesize_batch may have
    Prompts,             \* stage, payload and images of a call
    Probes,              \* the prompts called with bypass_cache (second judges)
    MaxTokens,           \* max_tokens by prompt
    ReplyKinds,          \* what a completion may be
    TokenCounts,         \* completion_tokens a server may report
    StructuredAttempts,  \* runtime.structured_output_max_attempts
    TransportAttempts,   \* runtime.transport_max_attempts
    RequestLimit,        \* runtime.max_total_requests
    TokenLimit,          \* runtime.max_total_output_tokens
    MaxExits,            \* bound: how often the process ends and is started again
    None

ASSUME CallsAssumption ==
    /\ IsFiniteSet(Workers)
    /\ IsFiniteSet(Prompts)     \* bounded by the context length of the models
    /\ Probes \subseteq Prompts
    /\ MaxTokens \in [Prompts -> Nat \ {0}]
    /\ TokenCounts \subseteq Nat
    /\ StructuredAttempts \in 1 .. 3
    /\ TransportAttempts \in 1 .. 3
    /\ RequestLimit \in Nat \ {0}
    /\ TokenLimit \in Nat \ {0}
    /\ ReplyKinds \subseteq {"good", "unusable", "schema", "truncated"}

ASSUME NoneAssumption == None \notin {"schema", "truncated", "usage"}

VARIABLES
    active,        \* runtime.max_concurrent_images: the threads this run has
    requestCount,  \* durable: budget.request_count
    outputTokens,  \* durable: budget.output_tokens
    reserved,      \* durable: budget.reserved_output_tokens
    calls,         \* durable: the model_call row of each request
    pc,            \* where each worker is
    request,       \* the request it is about
    tries,         \* transport attempts made for it
    reply,         \* the completion it received
    error,         \* the error it will raise
    httpPosts,     \* history: POSTs sent, over all processes
    lost,          \* history: by prompt, the reservations whose process died
    exits          \* how often the process ended

budgetVars == <<requestCount, outputTokens, reserved>>
historyVars == <<httpPosts, lost, exits>>
vars == <<active, budgetVars, calls, pc, request, tries, reply, error, historyVars>>

\* Errors after which _invoke asks once more, with another body.
Retryable == {"schema", "truncated", "unusable"}

\* Errors that end the call; an interrupt ends the process with it.
Fatal == {"transport", "rejected", "usage", "interrupt"}

\* The body of an attempt: later ones differ in seed and feedback.
Request == [prompt : Prompts, attempt : 0 .. StructuredAttempts - 1,
            feedback : Retryable \cup {None}]

Reply == [kind : ReplyKinds, tokens : TokenCounts]

Row == [status : {"COMPLETE", "INVALID"}, reply : Reply]

Steps == {"idle", "lookup", "reserve", "post", "decode", "record", "finalize",
          "release", "recordInvalid", "raise", "accept", "refused"}

\* The steps during which a worker holds a reservation.
Reserving == {"post", "decode", "record", "finalize", "release"}

max_tokens(w) == MaxTokens[request[w].prompt]

BypassesCache(r) == r.prompt \in Probes \/ r.attempt > 0

Holders == {w \in Workers : pc[w] \in Reserving}

\* What the locals of a worker hold at each step; a completion gets as far as
\* the ledger only within its reservation.
LocalsOK ==
    \A w \in Workers :
        /\ pc[w] \notin {"idle", "refused"} => request[w] \in Request
        /\ pc[w] \in {"decode", "record", "finalize", "recordInvalid", "accept"}
              => reply[w] \in Reply
        /\ pc[w] \in {"record", "finalize"} => reply[w].tokens <= max_tokens(w)

TypeOK ==
    /\ active \subseteq Workers
    /\ requestCount \in Nat /\ outputTokens \in Nat /\ reserved \in Int
    /\ calls \in [Request -> Row \cup {None}]
    /\ pc \in [Workers -> Steps]
    /\ request \in [Workers -> Request \cup {None}]
    /\ tries \in [Workers -> 0 .. TransportAttempts - 1]
    /\ reply \in [Workers -> Reply \cup {None}]
    /\ error \in [Workers -> Retryable \cup Fatal \cup {None}]
    /\ httpPosts \in Nat /\ lost \in [Prompts -> Nat] /\ exits \in Nat
    /\ LocalsOK

Init ==
    /\ active \in SUBSET Workers \ {{}}
    /\ requestCount = 0 /\ outputTokens = 0 /\ reserved = 0
    /\ calls = [r \in Request |-> None]
    /\ pc = [w \in Workers |-> "idle"]
    /\ request = [w \in Workers |-> None]
    /\ tries = [w \in Workers |-> 0]
    /\ reply = [w \in Workers |-> None]
    /\ error = [w \in Workers |-> None]
    /\ httpPosts = 0 /\ lost = [p \in Prompts |-> 0] /\ exits = 0
-----------------------------------------------------------------------------
Goto(w, step) == pc' = [pc EXCEPT ![w] = step]

\* The worker's call is over; its locals are gone.
Done(w, step) ==
    /\ Goto(w, step)
    /\ request' = [request EXCEPT ![w] = None]
    /\ tries' = [tries EXCEPT ![w] = 0]
    /\ reply' = [reply EXCEPT ![w] = None]
    /\ error' = [error EXCEPT ![w] = None]

StartCall(w) ==
    /\ pc[w] = "idle"
    /\ \E p \in Prompts :
          request' = [request EXCEPT ![w] =
                         [prompt |-> p, attempt |-> 0, feedback |-> None]]
    /\ Goto(w, "lookup")
    /\ UNCHANGED <<budgetVars, calls, tries, reply, error, historyVars>>

\* Slip: the request is looked up under an identity it is never saved under.
NeverSaved(r) == FALSE

\* completed_model_call finds a row, unless the call bypasses the cache.
Saved(r) ==
    /\ ~BypassesCache(r)
    /\ calls[r] # None
    /\ calls[r].status = "COMPLETE"

\* A saved response was decoded with the same bounds when it was recorded, and
\* decodes again.
Lookup(w) ==
    /\ pc[w] = "lookup"
    /\ IF Saved(request[w])
       THEN Goto(w, "accept") /\ reply' = [reply EXCEPT ![w] = calls[request[w]].reply]
       ELSE Goto(w, "reserve") /\ UNCHANGED reply
    /\ UNCHANGED <<budgetVars, calls, request, tries, error, historyVars>>

\* Slip: only tokens already spent count against the limit.
FitsSpent(n) ==
    requestCount + 1 <= RequestLimit /\ outputTokens + n <= TokenLimit

\* reserve_model_request accepts n more output tokens.
Fits(n) ==
    /\ requestCount + 1 <= RequestLimit
    /\ outputTokens + reserved + n <= TokenLimit

\* An exhausted budget is no ExecutionError: the worker's job ends the batch.
Reserve(w) ==
    /\ pc[w] = "reserve"
    /\ IF Fits(max_tokens(w))
       THEN /\ requestCount' = requestCount + 1
            /\ reserved' = reserved + max_tokens(w)
            /\ Goto(w, "post")
            /\ UNCHANGED <<request, tries, reply, error>>
       ELSE Done(w, "refused") /\ UNCHANGED <<requestCount, reserved>>
    /\ UNCHANGED <<outputTokens, calls, historyVars>>

\* After n + 1 transport attempts, another one may be made.
AttemptsLeft(n) == n + 1 < TransportAttempts

\* Slip: the handler raises without releasing.
FailUnreleased(w, reason) ==
    /\ Goto(w, "raise")
    /\ error' = [error EXCEPT ![w] = reason]

\* The BaseException handler of invoke takes over.
Fail(w, reason) ==
    /\ Goto(w, "release")
    /\ error' = [error EXCEPT ![w] = reason]

\* One POST: answered, to be retried (429, 5xx, timeout, broken connection), or
\* rejected (any other 4xx).
Post(w) ==
    /\ pc[w] = "post"
    /\ httpPosts' = httpPosts + 1
    /\ \/ /\ \E answer \in Reply : reply' = [reply EXCEPT ![w] = answer]
          /\ Goto(w, "decode")
          /\ UNCHANGED <<tries, error>>
       \/ /\ AttemptsLeft(tries[w])
          /\ tries' = [tries EXCEPT ![w] = @ + 1]
          /\ UNCHANGED <<pc, reply, error>>
       \/ /\ ~AttemptsLeft(tries[w])
          /\ Fail(w, "transport")
          /\ UNCHANGED <<tries, reply>>
       \/ /\ Fail(w, "rejected")
          /\ UNCHANGED <<tries, reply>>
    /\ UNCHANGED <<budgetVars, calls, request, lost, exits>>

\* Slip: the reported usage is not compared with the request.
DecodeTrustingUsage(answer, limit) ==
    IF answer.kind \in {"truncated", "schema"} THEN answer.kind ELSE None

\* _decode_typed_response: what is wrong with a completion, in the order of the
\* checks; None if nothing is.
Decoding(answer, limit) ==
    IF answer.kind = "truncated" THEN "truncated"
    ELSE IF answer.tokens > limit THEN "usage"
    ELSE IF answer.kind = "schema" THEN "schema"
    ELSE None

Decode(w) ==
    /\ pc[w] = "decode"
    /\ LET problem == Decoding(reply[w], max_tokens(w)) IN
       IF problem = None
       THEN Goto(w, "record") /\ UNCHANGED error
       ELSE Fail(w, problem)
    /\ UNCHANGED <<budgetVars, calls, request, tries, reply, historyVars>>

\* Slip: INSERT OR REPLACE.
Replaced(r, row) == [calls EXCEPT ![r] = row]

\* _record: INSERT OR IGNORE, keyed by stage and request hash.
Inserted(r, row) == IF calls[r] = None THEN [calls EXCEPT ![r] = row] ELSE calls

Record(w) ==
    /\ pc[w] = "record"
    /\ calls' = Inserted(request[w], [status |-> "COMPLETE", reply |-> reply[w]])
    /\ Goto(w, "finalize")
    /\ UNCHANGED <<budgetVars, request, tries, reply, error, historyVars>>

\* finalize_model_request: measured tokens replace the reservation.
Finalize(w) ==
    /\ pc[w] = "finalize"
    /\ reserved' = reserved - max_tokens(w)
    /\ outputTokens' = outputTokens + reply[w].tokens
    /\ Goto(w, "accept")
    /\ UNCHANGED <<requestCount, calls, request, tries, reply, error, historyVars>>

\* release_model_reservation keeps the request count.  A release of more than
\* is reserved would be an ExternalInputError.
Release(w) ==
    /\ pc[w] = "release"
    /\ IF reserved < max_tokens(w)
       THEN Done(w, "refused") /\ UNCHANGED reserved
       ELSE /\ reserved' = reserved - max_tokens(w)
            /\ Goto(w, IF reply[w] = None THEN "raise" ELSE "recordInvalid")
            /\ UNCHANGED <<request, tries, reply, error>>
    /\ UNCHANGED <<requestCount, outputTokens, calls, historyVars>>

RecordInvalid(w) ==
    /\ pc[w] = "recordInvalid"
    /\ calls' = Inserted(request[w], [status |-> "INVALID", reply |-> reply[w]])
    /\ Goto(w, "raise")
    /\ UNCHANGED <<budgetVars, request, tries, reply, error, historyVars>>

\* The completion is typed; _invoke checks what only the payload can tell (the
\* image it speaks of, quoted spans, sources of requirements).
Accept(w) ==
    /\ pc[w] = "accept"
    /\ IF reply[w].kind = "unusable"
       THEN /\ Goto(w, "raise")
            /\ error' = [error EXCEPT ![w] = "unusable"]
            /\ UNCHANGED <<request, tries, reply>>
       ELSE Done(w, "idle")
    /\ UNCHANGED <<budgetVars, calls, historyVars>>

\* Slip: the retry repeats the request it had.
SameRequest(r, reason) == r

\* The body of the next attempt.
NextRequest(r, reason) ==
    [prompt |-> r.prompt, attempt |-> r.attempt + 1, feedback |-> reason]

AsksAgain(w) ==
    error[w] \in Retryable /\ request[w].attempt + 1 < StructuredAttempts

\* The attempt's error: one more attempt, or the end of the call.
Raise(w) ==
    /\ pc[w] = "raise"
    /\ error[w] # "interrupt"
    /\ IF AsksAgain(w)
       THEN /\ request' = [request EXCEPT ![w] = NextRequest(request[w], error[w])]
            /\ tries' = [tries EXCEPT ![w] = 0]
            /\ reply' = [reply EXCEPT ![w] = None]
            /\ error' = [error EXCEPT ![w] = None]
            /\ Goto(w, "lookup")
       ELSE Done(w, "idle")
    /\ UNCHANGED <<budgetVars, calls, historyVars>>

\* The process ends.  The locals of every worker are gone; what was reserved
\* stays reserved.
Exit ==
    /\ exits' = exits + 1
    /\ lost' = [p \in Prompts |-> lost[p] +
                  Cardinality({w \in Holders : request[w].prompt = p})]
    /\ pc' = [w \in Workers |-> "idle"]
    /\ request' = [w \in Workers |-> None]
    /\ tries' = [w \in Workers |-> 0]
    /\ reply' = [w \in Workers |-> None]
    /\ error' = [w \in Workers |-> None]
    /\ UNCHANGED <<budgetVars, calls, httpPosts>>

\* A crash at any time, or the end of a run whose budget is exhausted; a new
\* process opens the store.
EndProcess ==
    /\ exits < MaxExits
    /\ \E w \in Workers : pc[w] # "idle"
    /\ Exit

\* Ctrl-C reaches the main thread, which is a worker only if it is the one
\* there is.  The handler in invoke still settles the reservation,
Interrupt(w) ==
    /\ active = {w}
    /\ exits < MaxExits
    /\ pc[w] \in {"post", "decode", "record", "finalize"}
    /\ Fail(w, "interrupt")
    /\ UNCHANGED <<budgetVars, calls, request, tries, reply, historyVars>>

\* and then nobody catches it.
RaiseInterrupt(w) == pc[w] = "raise" /\ error[w] = "interrupt" /\ Exit

Work(w) ==
    /\ \/ Lookup(w) \/ Reserve(w) \/ Post(w) \/ Decode(w) \/ Record(w) \/ Finalize(w)
       \/ Release(w) \/ RecordInvalid(w) \/ Accept(w) \/ Raise(w) \/ RaiseInterrupt(w)
    /\ UNCHANGED active

Next ==
    /\ \/ EndProcess
       \/ \E w \in active : StartCall(w) \/ Work(w) \/ Interrupt(w)
    /\ UNCHANGED active

Spec == Init /\ [][Next]_vars
-----------------------------------------------------------------------------
\* However the workers interleave, wherever the process dies and however often
\* it is started again, the run never commits more than its configured budget
\* (reserve_model_request: "one request and its worst-case output budget").
BudgetBound ==
    /\ requestCount <= RequestLimit
    /\ outputTokens + reserved <= TokenLimit

\* What worker w holds of the reserved tokens.
held(w) == IF w \in Holders THEN max_tokens(w) ELSE 0

\* What is reserved is exactly what calls in flight may still produce, plus what
\* calls of dead processes might have produced ("the reservation remains
\* consumed"); in particular no release ever meets too small a reservation.
ReservationsAccounted ==
    reserved = SumFunction([w \in Workers |-> held(w)])
               + SumFunction([p \in Prompts |-> lost[p] * MaxTokens[p]])

\* Tokens of a request's row, as far as it is one a replay uses.
RowTokens(r) ==
    IF calls[r] # None /\ calls[r].status = "COMPLETE" THEN calls[r].reply.tokens ELSE 0

\* With pooled workers every completion the ledger keeps is paid for: its tokens
\* are spent or still reserved, also when the process died between the
\* transactions that record and finalize it.  (In a serial run Ctrl-C may fall
\* between the two and release what is recorded.)
RecordedTokensCovered ==
    Cardinality(active) > 1 =>
        SumFunction([r \in Request |-> RowTokens(r)]) <= outputTokens + reserved

\* A row of the ledger, once written, answers every later replay the same way.
RowsImmutable ==
    [][\A r \in Request : calls[r] # None => calls'[r] = calls[r]]_vars

\* A serial run never pays again for a request it has an answer to, in this
\* process or the next, unless a probe asks for an answer of its own.  (Two
\* workers may send the same request at the same time.)
PaidOnce ==
    [][\A w \in Workers :
          active = {w} /\ requestCount' > requestCount /\ ~BypassesCache(request[w])
             => calls[request[w]] = None \/ calls[request[w]].status # "COMPLETE"]_vars

InCall(w) == pc[w] \notin {"idle", "refused"}

\* How many steps worker w's attempt may still take.
StepsLeft(w) ==
    CASE pc[w] = "lookup"  -> 8 + TransportAttempts
      [] pc[w] = "reserve" -> 7 + TransportAttempts
      [] pc[w] = "post"    -> 6 + TransportAttempts - tries[w]
      [] pc[w] = "decode"  -> 6
      [] pc[w] = "record"  -> 5
      [] pc[w] = "finalize" -> 4
      [] pc[w] = "release" -> 3
      [] pc[w] \in {"recordInvalid", "accept"} -> 2
      [] pc[w] = "raise"   -> 1

\* And its call, with the attempts that are left.
Variant(w) ==
    (StructuredAttempts - request[w].attempt) * (8 + TransportAttempts) + StepsLeft(w)

\* No step of a call leaves it as many steps as it had: each ends the call, with
\* its process or alone, or takes one off.
CallsShrink ==
    [][\A w \in Workers :
          InCall(w) /\ InCall(w)' /\ UNCHANGED exits =>
              Variant(w)' < Variant(w)
                  \/ UNCHANGED <<pc[w], request[w], tries[w], reply[w], error[w]>>]_vars

\* Every call comes to an end, through transport retries, further attempts and
\* replays of answers that are not usable, whatever the other workers do: it can
\* always go on, and each step of it ends the call or leaves it fewer steps.
CallsEnd == [](\A w \in Workers : InCall(w) => ENABLED Work(w)) /\ CallsShrink
=============================================================================
