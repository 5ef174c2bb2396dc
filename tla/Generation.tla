------------------------------- MODULE Generation -------------------------------
(***************************************************************************)
(* One generation the worker asks of the model: the plan of a planning run *)
(* (generatePlanningTurn), the page of a site run                          *)
(* (generateStaticSiteWithReview) or the draft of a file run               *)
(* (generateFileArtifactWithReview).  A generation is one round of attempts*)
(* and, when review is on, further rounds that repair or polish the draft. *)
(* An attempt is one HTTP call whose stream an adapter of ModelProvider    *)
(* reads; the user may cancel at any moment, and a deadline aborts the     *)
(* attempt.  Money is counted in small units: a price is what preflight    *)
(* computes from the prompt and the output limit, a cost what usage says.  *)
(***************************************************************************)
EXTENDS ModelProvider, FiniteSets

CONSTANTS
    MaxAttempts,    \* limits.maxAttempts
    MaxContent,     \* limits.maxOutputChars and maxDeltaEvents, in text chunks
    Cap,            \* limits.maxCostMicros
    Prices, Costs   \* what preflight may compute, what a provider may charge

ASSUME GenerationConstants ==
    /\ MaxAttempts \in Nat \ {0}
    /\ MaxContent \in Nat
    /\ Cap \in Nat \ {0}
    /\ Prices \subseteq Nat
    /\ Costs \subseteq Nat

VARIABLES
    job,        \* what is generated, by which provider, reviewed or not
    cancelled,  \* a cancellation request is in the database
    pc,         \* where the generation stands
    round,      \* 0: the first draft; n: the n-th repair
    attempt,    \* of this round
    script,     \* the chunks the provider has yet to send in this attempt
    truth,      \* the provider's own account of how this answer ends
    adapter,    \* the adapter's state
    content,    \* text chunks of this attempt
    cost,       \* of this attempt, from its usage; 0 before
    limit,      \* what this round may cost
    draft,      \* the last draft a round returned
    review,     \* the last review: of which draft, and whether it passed
    total,      \* attempts and cost of the rounds that returned one
    outcome,    \* what the generation returned
    calls, late,    \* calls made, and those made after the cancellation
    spent,          \* all that usage reported
    shown           \* the attempts whose text the user saw (planning only)

stream == <<script, truth, adapter, content, cost>>
rounds == <<round, limit, draft, review, total>>
ledger == <<calls, late, spent, shown>>
vars == <<job, cancelled, pc, attempt, outcome, stream, rounds, ledger>>

Jobs ==
    [op : {"plan"}, provider : Providers, reviewed : {FALSE}, repairs : {0}]
        \cup [op : {"site", "file"}, provider : Providers, reviewed : BOOLEAN,
              repairs : 0..2]

\* HARD_REPAIR_CAP of the site loop, and the one editorial pass of a file.
MaxRepairs == IF job.op = "file" /\ job.repairs > 1 THEN 1 ELSE job.repairs

\* A draft is named by the round that returned it; round 3 is no draft.
NoDraft == [round |-> 3, ending |-> "none", cost |-> 0]
NoReview == [of |-> 3, passed |-> FALSE]
Drafts == [round : 0..3, ending : Endings \cup {"none"}, cost : Nat]
Reviews == [of : 0..3, passed : BOOLEAN]

Codes == {"cancelled", "invalid_response", "limit_exceeded", "provider_authentication",
          "provider_rate_limited", "provider_unavailable", "refused", "timeout"}

\* failureFromProvider, providerFailure
FailureCode(code) ==
    CASE code = "authentication" -> "provider_authentication"
      [] code = "rate_limited" -> "provider_rate_limited"
      [] code = "timeout" -> "timeout"
      [] code \in {"invalid_request", "invalid_response"} -> "invalid_response"
      [] OTHER -> "provider_unavailable"

Pending == [ok |-> FALSE, code |-> "none", attempts |-> 0, cost |-> 0,
            draft |-> NoDraft, review |-> NoReview]
Failure(code, n, r) == [Pending EXCEPT !.code = code, !.attempts = n, !.review = r]
Success(d, n, c, r) == [ok |-> TRUE, code |-> "none", attempts |-> n, cost |-> c,
                        draft |-> d, review |-> r]

Init ==
    /\ job \in Jobs
    /\ cancelled = FALSE
    /\ pc = "open" /\ round = 0 /\ attempt = 0
    /\ script = <<>> /\ truth = "none" /\ adapter = Listening
    /\ content = 0 /\ cost = 0 /\ limit = Cap
    /\ draft = NoDraft /\ review = NoReview /\ total = [attempts |-> 0, cost |-> 0]
    /\ outcome = Pending
    /\ calls = 0 /\ late = 0 /\ spent = 0 /\ shown = {}

-----------------------------------------------------------------------------
(* How attempts and rounds end *)

Return(o) ==
    /\ pc' = "done"
    /\ outcome' = o
    /\ UNCHANGED <<attempt, round, limit>>

\* The attempts of the earlier rounds forgotten.
RoundFailsAlone(code, n) ==
    /\ Return(IF job.op = "site" /\ round > 0
              THEN Success(draft, n, draft.cost, review)
              ELSE Failure(code, n, review))
    /\ UNCHANGED <<draft, review, total>>

\* fail() of the generator, and what its caller makes of a failed round: a site keeps
\* its last draft, with the cost of that draft's round alone.
RoundFails(code, n) ==
    /\ Return(IF job.op = "site" /\ round > 0
              THEN Success(draft, total.attempts + n, draft.cost, review)
              ELSE Failure(code, total.attempts + n, review))
    /\ UNCHANGED <<draft, review, total>>

NextAttempt ==
    /\ pc' = "check"
    /\ attempt' = attempt + 1
    /\ UNCHANGED <<outcome, rounds>>

\* One attempt too many.
ThrowOnceMore(code) ==
    IF Retryable(code) /\ content = 0 /\ attempt <= MaxAttempts
    THEN NextAttempt
    ELSE RoundFails(FailureCode(code), attempt)

\* The catch block around an attempt.
Throw(code) ==
    IF Retryable(code) /\ content = 0 /\ attempt < MaxAttempts
    THEN NextAttempt
    ELSE RoundFails(FailureCode(code), attempt)

\* One repair at most, whatever is configured.
WantsOneRound(passes) == job.reviewed /\ round < MaxRepairs /\ round = 0

\* Another round is wanted: the site loop polishes once and repairs what fails its
\* review, a file has its one editorial pass.
WantsRound(passes) ==
    /\ job.reviewed
    /\ round < MaxRepairs
    /\ round = 0 \/ (job.op = "site" /\ ~passes)

\* A round returned a draft; passes is what its review would find.
RoundSucceeds(passes) ==
    LET d == [round |-> round, ending |-> truth, cost |-> cost]
        r == IF job.reviewed THEN [of |-> round, passed |-> passes] ELSE NoReview
        t == [attempts |-> total.attempts + attempt, cost |-> total.cost + cost]
    IN  /\ draft' = d /\ review' = r /\ total' = t
        /\ IF ~WantsRound(passes) THEN Return(Success(d, t.attempts, t.cost, r))
           ELSE IF t.cost < Cap
           THEN /\ pc' = "open"
                /\ round' = round + 1
                /\ limit' = Cap - t.cost
                /\ attempt' = 0
                /\ UNCHANGED outcome
           ELSE Return(IF job.op = "site" THEN Success(d, t.attempts, d.cost, r)
                       ELSE Failure("limit_exceeded", t.attempts, r))

-----------------------------------------------------------------------------
(* The steps of a round *)

\* The preflight check, before the first attempt of a round.
Preflight(price) ==
    /\ pc = "open"
    /\ IF price > limit THEN RoundFails("limit_exceeded", 0) ELSE NextAttempt
    /\ UNCHANGED <<job, cancelled, stream, ledger>>

\* The loop's head: isCancelled, then the attempt's variables.
CheckCancelled ==
    /\ pc = "check"
    /\ IF cancelled
       THEN RoundFails("cancelled", attempt - 1) /\ UNCHANGED stream
       ELSE /\ pc' = "send"
            /\ content' = 0 /\ cost' = 0 /\ adapter' = Listening
            /\ UNCHANGED <<attempt, outcome, rounds, script, truth>>
    /\ UNCHANGED <<job, cancelled, ledger>>

\* adapter.stream(): the request leaves.
Send ==
    /\ pc = "send"
    /\ pc' = "wait"
    /\ calls' = calls + 1
    /\ late' = IF cancelled THEN late + 1 ELSE late
    /\ UNCHANGED <<job, cancelled, attempt, outcome, stream, rounds, spent, shown>>

Respond ==
    /\ pc = "wait"
    /\ \/ \E n \in 0..(MaxContent + 1), ending \in Endings :
            /\ pc' = "read"
            /\ script' = StreamOf(job.provider, n, ending)
            /\ truth' = ending
            /\ UNCHANGED <<attempt, outcome, rounds, adapter, content, cost>>
       \/ \E code \in PostStreamThrows : Throw(code) /\ UNCHANGED stream
    /\ UNCHANGED <<job, cancelled, ledger>>

\* One event of the adapter reaches the loop.  An event read after a cancellation ends
\* the generation; a text past the limits does too; onDelta may fail.
TakeEvent(event) ==
    \/ /\ event # "none" /\ cancelled
       /\ RoundFails("cancelled", attempt)
       /\ UNCHANGED <<content, cost, spent, shown>>
    \/ /\ event = "text" /\ ~cancelled /\ content = MaxContent
       /\ RoundFails("limit_exceeded", attempt)
       /\ content' = content + 1
       /\ UNCHANGED <<cost, spent, shown>>
    \/ /\ event = "text" /\ ~cancelled /\ content < MaxContent
       /\ content' = content + 1
       /\ shown' = IF job.op = "plan" THEN shown \cup {attempt} ELSE shown
       /\ \/ UNCHANGED <<pc, attempt, outcome, rounds>>
          \/ job.op = "plan" /\ RoundFails("provider_unavailable", attempt)
       /\ UNCHANGED <<cost, spent>>
    \/ /\ event = "usage" /\ ~cancelled
       /\ \E c \in Costs : cost' = c /\ spent' = spent + c
       /\ UNCHANGED <<pc, attempt, outcome, rounds, content, shown>>
    \/ /\ event = "none" \/ (event = "refusal" /\ ~cancelled)
       /\ UNCHANGED <<pc, attempt, outcome, rounds, content, cost, spent, shown>>

Receive ==
    /\ pc = "read" /\ script # <<>>
    /\ LET r == AdapterReads(job.provider, adapter, Head(script))
       IN  adapter' = r.state /\ TakeEvent(r.event)
    /\ script' = Tail(script)
    /\ UNCHANGED <<job, cancelled, truth, calls, late>>

\* A chunk that announces a failure or cannot be read, and a connection that breaks
\* (which is also what a failing isCancelled looks like).
Fault ==
    /\ pc = "read"
    /\ \/ Throw("unavailable")
       \/ \E chunk \in FaultChunks :
            LET r == AdapterReads(job.provider, adapter, chunk)
            IN  r.throws # "none" /\ Throw(r.throws)
    /\ UNCHANGED <<job, cancelled, stream, ledger>>

\* The timer cleared as soon as the response opens.
DeadlineOfFetch ==
    /\ pc = "wait"
    /\ Throw("timeout")
    /\ UNCHANGED <<job, cancelled, stream, ledger>>

\* The attempt's timer aborts the request or the read.
Deadline ==
    /\ pc \in {"wait", "read"}
    /\ Throw("timeout")
    /\ UNCHANGED <<job, cancelled, stream, ledger>>

\* The stream ends, at its end or before.
StreamEnds ==
    /\ pc = "read"
    /\ IF EndsInvalid(adapter)
       THEN Throw("invalid_response") /\ UNCHANGED <<cost, spent>>
       ELSE IF cancelled
       THEN RoundFails("cancelled", attempt) /\ UNCHANGED <<cost, spent>>
       ELSE /\ IF adapter.refused THEN RoundFails("refused", attempt)
               ELSE pc' = "judge" /\ UNCHANGED <<attempt, outcome, rounds>>
            /\ IF UsageAtEnd(job.provider)
               THEN \E c \in Costs : cost' = c /\ spent' = spent + c
               ELSE UNCHANGED <<cost, spent>>
    /\ UNCHANGED <<job, cancelled, script, truth, adapter, content, calls, late, shown>>

\* The answer is parsed, validated and priced.  A file tries again what it cannot
\* read; a page or a plan fails.
Judge ==
    /\ pc = "judge"
    /\ \/ IF job.op = "file" /\ attempt < MaxAttempts
          THEN NextAttempt
          ELSE RoundFails("invalid_response", attempt)
       \/ RoundFails("limit_exceeded", attempt)
       \/ content > 0 /\ cost <= limit /\ \E passes \in BOOLEAN : RoundSucceeds(passes)
    /\ UNCHANGED <<job, cancelled, stream, ledger>>

\* isCancelled fails at the loop's head: the error leaves the generator.
CheckFails ==
    /\ pc = "check"
    /\ Return(Failure("thrown", 0, NoReview))
    /\ UNCHANGED <<job, cancelled, stream, draft, review, total, ledger>>

\* Another process writes the request to cancel.
Cancel ==
    /\ ~cancelled /\ pc # "done"
    /\ cancelled' = TRUE
    /\ UNCHANGED <<job, pc, attempt, outcome, stream, rounds, ledger>>

Loop == CheckCancelled \/ Send \/ Judge \/ \E price \in Prices : Preflight(price)

Next == Loop \/ Respond \/ Receive \/ Fault \/ Deadline \/ StreamEnds \/ CheckFails \/ Cancel

\* The event loop runs what is ready and fires an expired timer; nothing is assumed
\* of the provider.
Spec == Init /\ [][Next]_vars /\ WF_vars(Loop) /\ WF_vars(Deadline)

-----------------------------------------------------------------------------
(* Properties *)

TypeOK ==
    /\ job \in Jobs /\ cancelled \in BOOLEAN
    /\ pc \in {"open", "check", "send", "wait", "read", "judge", "done"}
    /\ round \in 0..2 /\ attempt \in 0..MaxAttempts
    /\ truth \in Endings \cup {"none"} /\ adapter \in AdapterStates
    /\ content \in 0..(MaxContent + 1) /\ cost \in Nat /\ limit \in 1..Cap
    /\ draft \in Drafts /\ review \in Reviews
    /\ total \in [attempts : Nat, cost : 0..Cap]
    /\ outcome \in [ok : BOOLEAN, code : Codes \cup {"none", "thrown"}, attempts : Nat,
                    cost : Nat, draft : Drafts, review : Reviews]
    /\ calls \in Nat /\ late \in Nat /\ spent \in Nat
    /\ shown \subseteq 1..MaxAttempts

\* The attempts a generation reports, over all its rounds and however it ends, are the
\* HTTP calls it made: runs.provider_attempts is the number of calls.  The cost it
\* reports, all its rounds included, is within the cap.  After the user cancels, at most
\* the call that was about to leave is made.
CallsAreAccounted ==
    /\ pc = "done" /\ outcome.code # "thrown" => outcome.attempts = calls
    /\ outcome.cost <= Cap
    /\ late <= 1

\* What is delivered is a whole answer by the provider's own account, never one it cut
\* short or refused, whatever chunks were lost on the way and whichever adapter read it;
\* and the text the user saw streaming is of one attempt: a retry never adds its text to
\* that of an attempt which failed.
AnswersAreWhole ==
    /\ outcome.ok => outcome.draft.ending = "normal"
    /\ \A a, b \in shown : a = b

\* The review a generation reports is of the draft it delivers, also when a repair
\* failed and an earlier draft is delivered; and a draft that fails its review is
\* delivered only when no repair was left or the repair came to nothing: the loop never
\* stops early.
DeliveredAsReviewed ==
    outcome.ok /\ job.reviewed =>
        /\ outcome.review.of = outcome.draft.round
        /\ \/ outcome.review.passed \/ total.cost >= Cap
           \/ round = MaxRepairs \/ round > outcome.draft.round

\* Every generation ends: a silent provider is cut off by the deadline.
TurnEnds == <>(pc = "done")

\* What docs/production-environment.md says of MODEL_MAX_COST_MICROS and
\* EXECUTION_MODEL_MAX_COST_MICROS: they cap what a run spends.
SpendWithinCap == outcome.ok => spent <= Cap

-----------------------------------------------------------------------------
(* The inductive invariant behind the safety properties. *)

Working == pc # "done"

\* Calls are the attempts of the rounds before and those of this one.
CallsOfRounds ==
    /\ Working => outcome = Pending
    /\ pc \notin {"open", "done"} => attempt >= 1
    /\ pc = "open" => attempt = 0 /\ calls = total.attempts
    /\ pc \in {"check", "send"} => calls + 1 = total.attempts + attempt
    /\ pc \in {"wait", "read", "judge"} => calls = total.attempts + attempt
    /\ pc = "done" /\ outcome.code # "thrown" => outcome.attempts = calls

\* A round may cost what the rounds before it have left.
CostOfRounds ==
    /\ Working => limit + total.cost = Cap
    /\ draft.cost <= total.cost
    /\ outcome.cost <= Cap

\* A cancellation is seen before the next call.
CancelledOnce ==
    /\ late > 0 => cancelled
    /\ pc = "send" => late = 0
    /\ late <= 1

\* The user saw text of no attempt, or of the one that cannot be retried any more.
OneAttemptShown ==
    \/ shown = {}
    \/ /\ job.op = "plan" /\ shown = {attempt}
       /\ pc \in {"read", "judge", "done"} /\ content > 0

Chunks == {"text", "stop", "filtered", "usage", "end_turn", "max_tokens", "message_stop",
           "incomplete", "length"}

\* What is left of the stream is its end, and the adapter knows of what it has read.
AdapterFollows ==
    LET ending == EndingChunks(job.provider, truth)
    IN  /\ pc \in {"send", "wait"} => adapter = Listening
        /\ pc = "read" =>
            /\ truth \in Endings
            /\ script \in Seq(Chunks)
            /\ \A i \in 1..Len(script) :
                script[i] = IF Len(script) - i < Len(ending)
                            THEN ending[Len(ending) - (Len(script) - i)] ELSE "text"
            /\ Len(script) >= Len(ending) => adapter = Listening
            /\ truth = "refused" /\ Len(script) < Len(ending) => adapter.refused
            /\ truth = "cut" =>
                /\ ~adapter.completed
                /\ job.provider = "anthropic" => ~adapter.refused /\ adapter.stop # "end_turn"

\* Rounds follow one another, each with the reviewed draft of the one before.
DraftsOfRounds ==
    /\ pc = "judge" => truth = "normal"
    /\ draft.ending = IF draft = NoDraft THEN "none" ELSE "normal"
    /\ Working =>
        /\ round <= MaxRepairs
        /\ round > 0 => /\ job.reviewed /\ draft.round + 1 = round
                       /\ draft # NoDraft /\ review.of = draft.round
    /\ outcome.ok => outcome.draft.ending = "normal"
    /\ DeliveredAsReviewed

IInv ==
    /\ TypeOK
    /\ CallsOfRounds
    /\ CostOfRounds
    /\ CancelledOnce
    /\ OneAttemptShown
    /\ AdapterFollows
    /\ DraftsOfRounds
=============================================================================
