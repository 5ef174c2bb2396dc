---------------------------- MODULE GenerationProofs ----------------------------
(***************************************************************************)
(* Proofs about Generation, for every number of attempts, length of an     *)
(* answer, cap, price and cost.  The invariant is proved in two halves:    *)
(* Control is about the rounds, the calls and what is returned, Reading    *)
(* about the stream of an attempt and the cancellation.                    *)
(***************************************************************************)
EXTENDS Generation, TLAPS

ControlType ==
    /\ job \in Jobs
    /\ pc \in {"open", "check", "send", "wait", "read", "judge", "done"}
    /\ round \in 0..2 /\ attempt \in 0..MaxAttempts /\ limit \in 1..Cap
    /\ draft \in Drafts /\ review \in Reviews
    /\ total \in [attempts : Nat, cost : 0..Cap]
    /\ outcome \in [ok : BOOLEAN, code : Codes \cup {"none", "thrown"}, attempts : Nat,
                    cost : Nat, draft : Drafts, review : Reviews]
    /\ calls \in Nat

ReadingType ==
    /\ cancelled \in BOOLEAN
    /\ truth \in Endings \cup {"none"} /\ adapter \in AdapterStates
    /\ content \in 0..(MaxContent + 1) /\ cost \in Nat
    /\ late \in Nat /\ spent \in Nat
    /\ shown \subseteq 1..MaxAttempts

Control == ControlType /\ CallsOfRounds /\ CostOfRounds /\ DraftsOfRounds
Reading == ReadingType /\ CancelledOnce /\ OneAttemptShown /\ AdapterFollows

LEMMA Halves == IInv <=> Control /\ Reading
BY DEF IInv, TypeOK, Control, ControlType, Reading, ReadingType

LEMMA HalvesNext == Control' /\ Reading' => IInv'
BY DEF IInv, TypeOK, Control, ControlType, Reading, ReadingType

-----------------------------------------------------------------------------
(* Types of what is returned *)

LEMMA JobTypes ==
    ASSUME NEW j \in Jobs
    PROVE  /\ j.op \in {"plan", "site", "file"} /\ j.provider \in Providers
           /\ j.reviewed \in BOOLEAN /\ j.repairs \in 0..2
           /\ j.op = "plan" => j.reviewed = FALSE
<1>1. CASE j \in [op : {"plan"}, provider : Providers, reviewed : {FALSE}, repairs : {0}]
    <2>1. j.op = "plan" /\ j.provider \in Providers /\ j.repairs = 0
        BY <1>1
    <2>2. j.reviewed = FALSE
        BY <1>1, Zenon
    <2>3. j.reviewed \in BOOLEAN
        BY <2>2, Zenon
    <2>4. 0 \in 0..2 /\ j.repairs \in 0..2
        BY <2>1
    <2> QED
        BY <2>1, <2>2, <2>3, <2>4, Zenon
<1>2. CASE j \in [op : {"site", "file"}, provider : Providers, reviewed : BOOLEAN, repairs : 0..2]
    BY <1>2
<1> QED
    BY <1>1, <1>2 DEF Jobs

LEMMA RepairBound ==
    ASSUME job \in Jobs
    PROVE  /\ MaxRepairs \in 0..2
           /\ job.op = "file" => MaxRepairs <= 1
<1>1. job.repairs \in 0..2
    BY JobTypes
<1> QED
    BY <1>1 DEF MaxRepairs

Outcomes == [ok : BOOLEAN, code : Codes \cup {"none", "thrown"}, attempts : Nat,
             cost : Nat, draft : Drafts, review : Reviews]

LEMMA NothingTypes == NoDraft \in Drafts /\ NoReview \in Reviews /\ Pending \in Outcomes
BY DEF NoDraft, Drafts, NoReview, Reviews, Pending, Outcomes

LEMMA FailureFacts ==
    ASSUME NEW code \in Codes \cup {"thrown"}, NEW n \in Nat, NEW r \in Reviews
    PROVE  /\ Failure(code, n, r) \in Outcomes
           /\ ~Failure(code, n, r).ok /\ Failure(code, n, r).code = code
           /\ Failure(code, n, r).attempts = n /\ Failure(code, n, r).cost = 0
BY NothingTypes DEF Failure, Pending, Outcomes

LEMMA SuccessFacts ==
    ASSUME NEW d \in Drafts, NEW n \in Nat, NEW c \in Nat, NEW r \in Reviews
    PROVE  /\ Success(d, n, c, r) \in Outcomes
           /\ Success(d, n, c, r).ok /\ Success(d, n, c, r).code = "none"
           /\ Success(d, n, c, r).attempts = n /\ Success(d, n, c, r).cost = c
           /\ Success(d, n, c, r).draft = d /\ Success(d, n, c, r).review = r
BY DEF Success, Outcomes

LEMMA FailureCodes ==
    ASSUME NEW code
    PROVE  FailureCode(code) \in Codes
BY DEF FailureCode, Codes

LEMMA ControlTypes ==
    ASSUME ControlType
    PROVE  /\ total.attempts \in Nat /\ total.cost \in 0..Cap /\ draft.cost \in Nat
           /\ draft.round \in 0..3 /\ review.of \in 0..3 /\ review.passed \in BOOLEAN
           /\ attempt \in Nat /\ limit \in Nat /\ Cap \in Nat \ {0}
           /\ MaxAttempts \in Nat \ {0} /\ MaxContent \in Nat
BY GenerationConstants DEF ControlType, Drafts, Reviews

-----------------------------------------------------------------------------
(* How attempts and rounds end *)

\* A step that returns o: what o must be for Control to hold.
LEMMA ReturnKeepsControl ==
    ASSUME Control, Working, NEW o \in Outcomes, Return(o),
           job' = job, calls' = calls,
           draft' \in Drafts, review' \in Reviews,
           total' \in [attempts : Nat, cost : 0..Cap],
           draft'.ending = IF draft' = NoDraft THEN "none" ELSE "normal",
           draft'.cost <= total'.cost,
           o.code # "thrown" => o.attempts = calls,
           o.cost <= Cap,
           o.ok => o.draft.ending = "normal",
           o.ok /\ job.reviewed => /\ o.review.of = o.draft.round
                                  /\ \/ o.review.passed \/ total'.cost >= Cap
                                     \/ round = MaxRepairs \/ round > o.draft.round
    PROVE  Control' /\ pc' = "done" /\ attempt' = attempt
<1>1. /\ pc' = "done" /\ outcome' = o /\ UNCHANGED <<attempt, round, limit>>
      /\ MaxRepairs' = MaxRepairs /\ ~Working'
    BY DEF Return, MaxRepairs, Working
<1>2. ControlType'
    BY <1>1 DEF Control, ControlType, Outcomes
<1>3. CallsOfRounds' /\ CostOfRounds'
    BY <1>1 DEF CallsOfRounds, CostOfRounds, Working
<1>4. DeliveredAsReviewed'
    BY <1>1 DEF DeliveredAsReviewed
<1>5. DraftsOfRounds'
    BY <1>1, <1>4 DEF DraftsOfRounds, Working
<1> QED
    BY <1>1, <1>2, <1>3, <1>5 DEF Control

\* A failed round returns a failure, or for a site the draft it has.
LEMMA RoundFailsKeepsControl ==
    ASSUME Control, Working, NEW code \in Codes, NEW n \in Nat,
           RoundFails(code, n), total.attempts + n = calls, job' = job, calls' = calls
    PROVE  Control' /\ pc' = "done" /\ attempt' = attempt
<1>1. ControlType /\ CostOfRounds /\ DraftsOfRounds /\ UNCHANGED <<draft, review, total>>
    BY DEF Control, RoundFails
<1>2. /\ draft \in Drafts /\ review \in Reviews /\ total \in [attempts : Nat, cost : 0..Cap]
      /\ total.attempts + n \in Nat /\ draft.cost \in Nat /\ draft.cost <= Cap
      /\ draft.cost <= total.cost /\ Cap \in Nat
      /\ draft.ending = IF draft = NoDraft THEN "none" ELSE "normal"
    BY <1>1, ControlTypes DEF ControlType, CostOfRounds, DraftsOfRounds
<1>3. CASE job.op = "site" /\ round > 0
    <2> DEFINE o == Success(draft, total.attempts + n, draft.cost, review)
    <2>1. Return(o)
        BY <1>3 DEF RoundFails
    <2>2. /\ o \in Outcomes /\ o.ok /\ o.attempts = calls /\ o.cost = draft.cost
          /\ o.draft = draft /\ o.review = review
        BY <1>2, SuccessFacts
    <2>3. /\ draft.round + 1 = round /\ review.of = draft.round /\ draft # NoDraft
          /\ draft.round \in 0..3
        BY <1>1, <1>3, ControlTypes DEF DraftsOfRounds
    <2> HIDE DEF o
    <2> QED
        BY <1>1, <1>2, <2>1, <2>2, <2>3, ReturnKeepsControl
<1>4. CASE ~(job.op = "site" /\ round > 0)
    <2> DEFINE o == Failure(code, total.attempts + n, review)
    <2>1. Return(o)
        BY <1>4 DEF RoundFails
    <2>2. o \in Outcomes /\ ~o.ok /\ o.attempts = calls /\ o.cost = 0
        BY <1>2, FailureFacts
    <2> HIDE DEF o
    <2> QED
        BY <1>1, <1>2, <2>1, <2>2, ReturnKeepsControl
<1> QED
    BY <1>3, <1>4

\* The loop goes on with the next attempt.
LEMMA NextAttemptKeepsControl ==
    ASSUME Control, Working, NextAttempt, attempt < MaxAttempts,
           calls = total.attempts + attempt, job' = job, calls' = calls
    PROVE  Control' /\ pc' = "check" /\ attempt' = attempt + 1
<1>1. /\ pc' = "check" /\ attempt' = attempt + 1 /\ Working'
      /\ UNCHANGED <<outcome, round, limit, draft, review, total>>
      /\ MaxRepairs' = MaxRepairs
    BY DEF NextAttempt, rounds, MaxRepairs, Working
<1>2. attempt \in Nat /\ total.attempts \in Nat /\ calls \in Nat /\ MaxAttempts \in Nat
    BY ControlTypes DEF Control, ControlType
<1>3. ControlType'
    BY <1>1, <1>2 DEF Control, ControlType
<1>4. CallsOfRounds' /\ CostOfRounds'
    BY <1>1, <1>2 DEF Control, CallsOfRounds, CostOfRounds
<1>5. DraftsOfRounds'
    BY <1>1 DEF Control, DraftsOfRounds, DeliveredAsReviewed
<1> QED
    BY <1>1, <1>3, <1>4, <1>5 DEF Control

\* An attempt that throws is followed by another only when no text has arrived.
LEMMA ThrowKeepsControl ==
    ASSUME Control, pc \in {"wait", "read"}, NEW code, Throw(code), job' = job, calls' = calls
    PROVE  /\ Control'
           /\ \/ pc' = "done" /\ attempt' = attempt
              \/ pc' = "check" /\ content = 0
<1>1. Working /\ calls = total.attempts + attempt /\ attempt \in Nat
    BY ControlTypes DEF Control, CallsOfRounds, Working
<1>2. CASE Retryable(code) /\ content = 0 /\ attempt < MaxAttempts
    BY <1>1, <1>2, NextAttemptKeepsControl DEF Throw
<1>3. CASE ~(Retryable(code) /\ content = 0 /\ attempt < MaxAttempts)
    <2>1. RoundFails(FailureCode(code), attempt) /\ FailureCode(code) \in Codes
        BY <1>3, FailureCodes DEF Throw
    <2> QED
        BY <1>1, <2>1, RoundFailsKeepsControl
<1> QED
    BY <1>2, <1>3

\* A round that returns a draft ends the generation or opens the next round.
LEMMA RoundSucceedsKeepsControl ==
    ASSUME Control, pc = "judge", cost \in Nat, cost <= limit, NEW passes \in BOOLEAN,
           RoundSucceeds(passes), job' = job, calls' = calls
    PROVE  /\ Control'
           /\ \/ pc' = "done" /\ attempt' = attempt
              \/ pc' = "open" /\ job.reviewed
<1> DEFINE d == [round |-> round, ending |-> truth, cost |-> cost]
           r == IF job.reviewed THEN [of |-> round, passed |-> passes] ELSE NoReview
           t == [attempts |-> total.attempts + attempt, cost |-> total.cost + cost]
<1>1. /\ ControlType /\ Working /\ truth = "normal" /\ calls = total.attempts + attempt
      /\ limit + total.cost = Cap /\ round <= MaxRepairs
    BY DEF Control, CallsOfRounds, CostOfRounds, DraftsOfRounds, Working
<1>2. /\ total.attempts \in Nat /\ total.cost \in Nat /\ attempt \in Nat /\ limit \in Nat
      /\ Cap \in Nat /\ round \in 0..2 /\ MaxRepairs \in 0..2 /\ job \in Jobs
    BY <1>1, ControlTypes, RepairBound DEF ControlType
<1>3. /\ d \in Drafts /\ d.ending = "normal" /\ d.cost = cost /\ d.round = round /\ d # NoDraft
      /\ t \in [attempts : Nat, cost : 0..Cap] /\ t.attempts = calls /\ t.cost = total.cost + cost
    <2>1. d \in Drafts /\ d.ending = "normal" /\ d.cost = cost /\ d.round = round
        BY <1>1, <1>2 DEF Drafts, Endings
    <2>2. NoDraft.ending = "none"
        BY DEF NoDraft
    <2>3. total.cost + cost \in 0..Cap
        BY <1>1, <1>2
    <2>4. t \in [attempts : Nat, cost : 0..Cap] /\ t.attempts = calls /\ t.cost = total.cost + cost
        BY <1>1, <1>2, <2>3
    <2> QED
        BY <2>1, <2>2, <2>4
<1>4. r \in Reviews /\ (job.reviewed => r.of = round /\ r.passed = passes)
    BY <1>2, NothingTypes DEF Reviews
<1>5. /\ draft' = d /\ review' = r /\ total' = t
      /\ IF ~WantsRound(passes) THEN Return(Success(d, t.attempts, t.cost, r))
         ELSE IF t.cost < Cap
         THEN /\ pc' = "open"
              /\ round' = round + 1
              /\ limit' = Cap - t.cost
              /\ attempt' = 0
              /\ UNCHANGED outcome
         ELSE Return(IF job.op = "site" THEN Success(d, t.attempts, d.cost, r)
                     ELSE Failure("limit_exceeded", t.attempts, r))
    BY DEF RoundSucceeds
<1> HIDE DEF d, r, t
<1>6. t.attempts \in Nat /\ t.cost \in Nat /\ t.cost <= Cap /\ d.cost <= t.cost /\ d.cost \in Nat
    BY <1>2, <1>3
<1>7. CASE ~WantsRound(passes)
    <2> DEFINE o == Success(d, t.attempts, t.cost, r)
    <2>1. /\ o \in Outcomes /\ o.ok /\ o.attempts = calls /\ o.cost = t.cost
          /\ o.draft = d /\ o.review = r
        BY <1>3, <1>4, <1>6, SuccessFacts
    <2>2. job.reviewed => passes \/ round = MaxRepairs
        <3>1. job.op = "file" => MaxRepairs <= 1
            BY <1>2, RepairBound
        <3>2. job.reviewed => job.op \in {"site", "file"}
            BY <1>2, JobTypes
        <3> QED
            BY <1>1, <1>2, <1>7, <3>1, <3>2 DEF WantsRound
    <2>3. Return(o)
        BY <1>5, <1>7
    <2> HIDE DEF o
    <2> QED
        BY <1>1, <1>3, <1>4, <1>5, <1>6, <2>1, <2>2, <2>3, ReturnKeepsControl
<1>8. CASE WantsRound(passes) /\ ~(t.cost < Cap)
    <2>1. CASE job.op = "site"
        <3> DEFINE o == Success(d, t.attempts, d.cost, r)
        <3>1. /\ o \in Outcomes /\ o.ok /\ o.attempts = calls /\ o.cost = d.cost
              /\ o.draft = d /\ o.review = r
            BY <1>3, <1>4, <1>6, SuccessFacts
        <3>2. Return(o)
            BY <1>5, <1>8, <2>1
        <3> HIDE DEF o
        <3>3. o.cost <= Cap /\ t.cost >= Cap
            BY <1>2, <1>6, <1>8, <3>1
        <3> QED
            BY <1>1, <1>3, <1>4, <1>5, <1>6, <3>1, <3>2, <3>3, ReturnKeepsControl
    <2>2. CASE job.op # "site"
        <3> DEFINE o == Failure("limit_exceeded", t.attempts, r)
        <3>1. o \in Outcomes /\ ~o.ok /\ o.attempts = calls /\ o.cost = 0
            BY <1>3, <1>4, <1>6, FailureFacts DEF Codes
        <3>2. Return(o)
            BY <1>5, <1>8, <2>2
        <3> HIDE DEF o
        <3> QED
            BY <1>1, <1>2, <1>3, <1>4, <1>5, <1>6, <3>1, <3>2, ReturnKeepsControl
    <2> QED
        BY <2>1, <2>2
<1>9. CASE WantsRound(passes) /\ t.cost < Cap
    <2>1. /\ pc' = "open" /\ round' = round + 1 /\ limit' = Cap - t.cost /\ attempt' = 0
          /\ outcome' = outcome /\ Working' /\ MaxRepairs' = MaxRepairs
        BY <1>5, <1>9 DEF Working, MaxRepairs
    <2>2. job.reviewed /\ round < MaxRepairs
        BY <1>9 DEF WantsRound
    <2>3. ControlType'
        <3>1. round' \in 0..2 /\ attempt' \in 0..MaxAttempts /\ limit' \in 1..Cap
            BY <1>1, <1>2, <1>6, <1>9, <2>1, <2>2, ControlTypes
        <3> QED
            BY <1>1, <1>3, <1>4, <1>5, <2>1, <3>1 DEF ControlType
    <2>4. CallsOfRounds' /\ CostOfRounds'
        BY <1>1, <1>2, <1>3, <1>5, <1>6, <2>1 DEF Control, CallsOfRounds, CostOfRounds
    <2>5. ~outcome.ok
        BY <1>1 DEF Control, CallsOfRounds, Pending
    <2>6. DraftsOfRounds'
        BY <1>2, <1>3, <1>4, <1>5, <2>1, <2>2, <2>5 DEF DraftsOfRounds, DeliveredAsReviewed
    <2> QED
        BY <2>1, <2>2, <2>3, <2>4, <2>6 DEF Control
<1> QED
    BY <1>7, <1>8, <1>9

\* A step that goes on within the round.
LEMMA GoesOnKeepsControl ==
    ASSUME Control, Working, UNCHANGED <<attempt, outcome, rounds>>, job' = job,
           \/ pc = "check" /\ pc' = "send" /\ calls' = calls
           \/ pc = "send" /\ pc' = "wait" /\ calls' = calls + 1
           \/ pc = "wait" /\ pc' = "read" /\ calls' = calls
           \/ pc = "read" /\ pc' = "judge" /\ calls' = calls /\ truth' = "normal"
           \/ pc' = pc /\ calls' = calls /\ (truth' = truth \/ pc # "judge")
    PROVE  Control'
<1>1. /\ UNCHANGED <<attempt, outcome, round, limit, draft, review, total>> /\ Working'
      /\ MaxRepairs' = MaxRepairs
    BY DEF rounds, MaxRepairs, Working
<1>2. total.attempts \in Nat /\ attempt \in Nat /\ calls \in Nat
    BY ControlTypes DEF Control, ControlType
<1>3. ControlType'
    BY <1>1, <1>2 DEF Control, ControlType
<1>4. CallsOfRounds'
    BY <1>1, <1>2 DEF Control, CallsOfRounds, Working
<1>5. CostOfRounds' /\ DraftsOfRounds'
    BY <1>1 DEF Control, CostOfRounds, DraftsOfRounds, DeliveredAsReviewed, Working
<1> QED
    BY <1>3, <1>4, <1>5 DEF Control

-----------------------------------------------------------------------------
(* The adapters *)

\* Closing chunks E that say how the answer ended.
Closes(E, e) ==
    /\ E \in Seq(Chunks) /\ Len(E) \in 1..3
    /\ e = "refused" => E[1] = "filtered"
    /\ e = "cut" => \A i \in 1..Len(E) : E[i] \notin {"stop", "filtered", "end_turn"}

LEMMA EndingFacts ==
    ASSUME NEW p \in Providers, NEW e \in Endings
    PROVE  Closes(EndingChunks(p, e), e)
<1> DEFINE E == EndingChunks(p, e)
<1>1. CASE p = "anthropic"
    <2>1. E = <<[normal |-> "end_turn", refused |-> "filtered", cut |-> "max_tokens"][e],
                "usage", "message_stop">>
        BY <1>1 DEF EndingChunks
    <2> HIDE DEF E
    <2>2. /\ e = "normal" => E = <<"end_turn", "usage", "message_stop">>
          /\ e = "refused" => E = <<"filtered", "usage", "message_stop">>
          /\ e = "cut" => E = <<"max_tokens", "usage", "message_stop">>
        BY <2>1
    <2>3. CASE e = "normal"
        <3>1. E = <<"end_turn", "usage", "message_stop">>
            BY <2>2, <2>3
        <3>2. Closes(<<"end_turn", "usage", "message_stop">>, "normal")
            BY DEF Closes, Chunks
        <3> QED
            BY <2>3, <3>1, <3>2 DEF E
    <2>4. CASE e = "refused"
        <3>1. E = <<"filtered", "usage", "message_stop">>
            BY <2>2, <2>4
        <3>2. Closes(<<"filtered", "usage", "message_stop">>, "refused")
            BY DEF Closes, Chunks
        <3> QED
            BY <2>4, <3>1, <3>2 DEF E
    <2>5. CASE e = "cut"
        <3>1. E = <<"max_tokens", "usage", "message_stop">>
            BY <2>2, <2>5
        <3>2. Closes(<<"max_tokens", "usage", "message_stop">>, "cut")
            BY DEF Closes, Chunks
        <3> QED
            BY <2>5, <3>1, <3>2 DEF E
    <2> QED
        BY <2>3, <2>4, <2>5 DEF Endings
<1>2. CASE p = "openai"
    <2>1. E = [normal |-> <<"stop", "usage">>, refused |-> <<"filtered", "stop", "usage">>,
               cut |-> <<"incomplete">>][e]
        BY <1>2 DEF EndingChunks
    <2> HIDE DEF E
    <2>2. /\ e = "normal" => E = <<"stop", "usage">>
          /\ e = "refused" => E = <<"filtered", "stop", "usage">>
          /\ e = "cut" => E = <<"incomplete">>
        BY <2>1
    <2>3. CASE e = "normal"
        <3>1. E = <<"stop", "usage">>
            BY <2>2, <2>3
        <3>2. Closes(<<"stop", "usage">>, "normal")
            BY DEF Closes, Chunks
        <3> QED
            BY <2>3, <3>1, <3>2 DEF E
    <2>4. CASE e = "refused"
        <3>1. E = <<"filtered", "stop", "usage">>
            BY <2>2, <2>4
        <3>2. Closes(<<"filtered", "stop", "usage">>, "refused")
            BY DEF Closes, Chunks
        <3> QED
            BY <2>4, <3>1, <3>2 DEF E
    <2>5. CASE e = "cut"
        <3>1. E = <<"incomplete">>
            BY <2>2, <2>5
        <3>2. Closes(<<"incomplete">>, "cut")
            BY DEF Closes, Chunks
        <3> QED
            BY <2>5, <3>1, <3>2 DEF E
    <2> QED
        BY <2>3, <2>4, <2>5 DEF Endings
<1>3. CASE p \in {"openrouter", "google"}
    <2>1. E = <<[normal |-> "stop", refused |-> "filtered", cut |-> "length"][e], "usage">>
        BY <1>3 DEF EndingChunks
    <2> HIDE DEF E
    <2>2. /\ e = "normal" => E = <<"stop", "usage">>
          /\ e = "refused" => E = <<"filtered", "usage">>
          /\ e = "cut" => E = <<"length", "usage">>
        BY <2>1
    <2>3. CASE e = "normal"
        <3>1. E = <<"stop", "usage">>
            BY <2>2, <2>3
        <3>2. Closes(<<"stop", "usage">>, "normal")
            BY DEF Closes, Chunks
        <3> QED
            BY <2>3, <3>1, <3>2 DEF E
    <2>4. CASE e = "refused"
        <3>1. E = <<"filtered", "usage">>
            BY <2>2, <2>4
        <3>2. Closes(<<"filtered", "usage">>, "refused")
            BY DEF Closes, Chunks
        <3> QED
            BY <2>4, <3>1, <3>2 DEF E
    <2>5. CASE e = "cut"
        <3>1. E = <<"length", "usage">>
            BY <2>2, <2>5
        <3>2. Closes(<<"length", "usage">>, "cut")
            BY DEF Closes, Chunks
        <3> QED
            BY <2>5, <3>1, <3>2 DEF E
    <2> QED
        BY <2>3, <2>4, <2>5 DEF Endings
<1> QED
    BY <1>1, <1>2, <1>3 DEF Providers

\* What a chunk may change in an adapter's state.
AdapterStep(p, s, chunk, r) ==
    /\ r.state \in AdapterStates /\ r.event \in {"none", "text", "usage", "refusal"}
    /\ chunk = "text" => r.state = s
    /\ chunk = "filtered" => r.state.refused
    /\ s.refused => r.state.refused
    /\ chunk \notin {"stop", "filtered", "end_turn"} /\ ~s.completed
        /\ (p = "anthropic" => ~s.refused /\ s.stop # "end_turn")
       => ~r.state.completed /\ (p = "anthropic" => ~r.state.refused /\ r.state.stop # "end_turn")

LEMMA AdapterFacts ==
    ASSUME NEW p \in Providers, NEW s \in AdapterStates, NEW chunk \in Chunks
    PROVE  AdapterStep(p, s, chunk, AdapterReads(p, s, chunk))
<1> USE DEF AdapterStep, AdapterStates, Reads, Yields, Throws
<1>0. chunk # "malformed"
    BY DEF Chunks
<1>1. CASE p = "openrouter"
    BY <1>0, <1>1 DEF AdapterReads, OpenRouterReads
<1>2. CASE p = "openai"
    BY <1>0, <1>2 DEF AdapterReads, OpenAiReads
<1>3. CASE p = "anthropic"
    BY <1>0, <1>3 DEF AdapterReads, AnthropicReads
<1>4. CASE p = "google"
    BY <1>0, <1>4 DEF AdapterReads, GoogleReads
<1> QED
    BY <1>1, <1>2, <1>3, <1>4 DEF Providers

-----------------------------------------------------------------------------
(* The stream of an attempt *)

\* A step after which nothing is read: the text that was shown stays of one attempt.
LEMMA NoLongerReading ==
    ASSUME Reading, ReadingType', UNCHANGED <<job, late, shown>>,
           cancelled' = cancelled \/ cancelled' = TRUE,
           pc' \notin {"send", "wait", "read"},
           shown # {} => attempt' = attempt /\ pc' \in {"judge", "done"} /\ content' > 0
    PROVE  Reading'
<1>1. CancelledOnce'
    BY DEF Reading, CancelledOnce
<1>2. OneAttemptShown'
    BY DEF Reading, OneAttemptShown
<1>3. AdapterFollows'
    BY DEF AdapterFollows
<1> QED
    BY <1>1, <1>2, <1>3 DEF Reading

\* Text is shown only once an attempt is being read, and then some has arrived.
LEMMA WhenShown ==
    ASSUME Reading
    PROVE  shown # {} => pc \in {"read", "judge", "done"} /\ content > 0 /\ job.op = "plan"
BY DEF Reading, OneAttemptShown

LEMMA PreflightKeepsIInv ==
    ASSUME IInv, NEW price \in Prices, Preflight(price)
    PROVE  IInv'
<1>1. /\ Control /\ Reading /\ Working /\ pc = "open" /\ attempt = 0 /\ calls = total.attempts
      /\ UNCHANGED <<job, cancelled, stream, ledger>>
    BY Halves DEF Preflight, Control, CallsOfRounds, Working
<1>2. /\ UNCHANGED <<cancelled, truth, adapter, content, cost, late, spent, shown, calls>>
      /\ total.attempts \in Nat /\ MaxAttempts \in Nat \ {0}
    BY <1>1, ControlTypes DEF stream, ledger, Control
<1>3. Control' /\ pc' \in {"check", "done"}
    <2>1. CASE price > limit
        <3>1. RoundFails("limit_exceeded", 0) /\ "limit_exceeded" \in Codes
            BY <2>1 DEF Preflight, Codes
        <3> QED
            BY <1>1, <1>2, <3>1, RoundFailsKeepsControl
    <2>2. CASE ~(price > limit)
        <3>1. NextAttempt
            BY <2>2 DEF Preflight
        <3> QED
            BY <1>1, <1>2, <3>1, NextAttemptKeepsControl
    <2> QED
        BY <2>1, <2>2
<1>4. shown = {} /\ ReadingType'
    BY <1>1, <1>2, WhenShown DEF Reading, ReadingType
<1>5. Reading'
    BY <1>1, <1>2, <1>3, <1>4, NoLongerReading
<1> QED
    BY <1>3, <1>5, HalvesNext

LEMMA CheckKeepsIInv ==
    ASSUME IInv, CheckCancelled
    PROVE  IInv'
<1>1. /\ Control /\ Reading /\ Working /\ pc = "check" /\ attempt >= 1
      /\ calls + 1 = total.attempts + attempt /\ UNCHANGED <<job, cancelled, ledger>>
    BY Halves DEF CheckCancelled, Control, CallsOfRounds, Working
<1>2. /\ UNCHANGED <<late, spent, shown, calls>> /\ total.attempts \in Nat /\ attempt \in Nat
      /\ calls \in Nat /\ MaxContent \in Nat
    BY <1>1, ControlTypes DEF ledger, Control, ControlType
<1>3. shown = {}
    BY <1>1, WhenShown
<1>4. CASE cancelled
    <2>1. RoundFails("cancelled", attempt - 1) /\ "cancelled" \in Codes
        BY <1>4 DEF CheckCancelled, Codes
    <2>2. attempt - 1 \in Nat /\ total.attempts + (attempt - 1) = calls
        BY <1>1, <1>2
    <2>3. Control' /\ pc' = "done" /\ attempt' = attempt
        BY <1>1, <1>2, <2>1, <2>2, RoundFailsKeepsControl
    <2>4. UNCHANGED <<truth, adapter, content, cost>>
        BY <1>4 DEF CheckCancelled, stream
    <2>5. ReadingType'
        BY <1>1, <1>2, <2>4 DEF Reading, ReadingType
    <2>6. Reading'
        BY <1>1, <1>2, <1>3, <2>3, <2>5, NoLongerReading
    <2> QED
        BY <2>3, <2>6, HalvesNext
<1>5. CASE ~cancelled
    <2>1. /\ pc' = "send" /\ content' = 0 /\ cost' = 0 /\ adapter' = Listening
          /\ UNCHANGED <<attempt, outcome, rounds, truth>>
        BY <1>5 DEF CheckCancelled
    <2>2. Control'
        BY <1>1, <1>2, <2>1, GoesOnKeepsControl
    <2>3. ReadingType'
        <3>1. Listening \in AdapterStates
            BY DEF Listening, AdapterStates
        <3> QED
            BY <1>1, <1>2, <2>1, <3>1 DEF Reading, ReadingType
    <2>4. CancelledOnce'
        BY <1>1, <1>2, <1>5, <2>1 DEF Reading, ReadingType, CancelledOnce
    <2>5. OneAttemptShown' /\ AdapterFollows'
        BY <1>2, <1>3, <2>1 DEF OneAttemptShown, AdapterFollows
    <2> QED
        BY <2>2, <2>3, <2>4, <2>5, HalvesNext DEF Reading
<1> QED
    BY <1>4, <1>5

LEMMA SendKeepsIInv ==
    ASSUME IInv, Send
    PROVE  IInv'
<1>1. /\ Control /\ Reading /\ Working /\ pc = "send" /\ pc' = "wait" /\ calls' = calls + 1
      /\ late' = (IF cancelled THEN late + 1 ELSE late) /\ late = 0
      /\ UNCHANGED <<job, cancelled, attempt, outcome, stream, rounds, spent, shown>>
    BY Halves DEF Send, Working, Reading, CancelledOnce
<1>2. UNCHANGED <<truth, adapter, content, cost>>
    BY <1>1 DEF stream
<1>3. Control'
    BY <1>1, GoesOnKeepsControl
<1>4. ReadingType' /\ CancelledOnce'
    BY <1>1, <1>2 DEF Reading, ReadingType, CancelledOnce
<1>5. shown = {}
    BY <1>1, WhenShown
<1>6. OneAttemptShown' /\ AdapterFollows'
    BY <1>1, <1>2, <1>5 DEF Reading, OneAttemptShown, AdapterFollows
<1> QED
    BY <1>3, <1>4, <1>6, HalvesNext DEF Reading

\* A step that throws: while the user sees text of the attempt it is the last.
LEMMA ThrowKeepsIInv ==
    ASSUME IInv, pc \in {"wait", "read"}, NEW code, Throw(code),
           UNCHANGED <<job, cancelled, ledger>>, UNCHANGED <<truth, adapter, content, cost>>
    PROVE  IInv'
<1>1. Control /\ Reading /\ UNCHANGED <<calls, late, spent, shown>>
    BY Halves DEF ledger
<1>2. /\ Control'
      /\ \/ pc' = "done" /\ attempt' = attempt
         \/ pc' = "check" /\ content = 0
    BY <1>1, ThrowKeepsControl
<1>3. ReadingType'
    BY <1>1 DEF Reading, ReadingType
<1>4. shown # {} => attempt' = attempt /\ pc' = "done" /\ content' > 0
    <2>1. content = 0 => ~(content > 0)
        OBVIOUS
    <2> QED
        BY <1>1, <1>2, <2>1, WhenShown
<1>5. Reading'
    BY <1>1, <1>2, <1>3, <1>4, NoLongerReading
<1> QED
    BY <1>2, <1>5, HalvesNext

LEMMA RespondKeepsIInv ==
    ASSUME IInv, Respond
    PROVE  IInv'
<1>1. /\ Control /\ Reading /\ Working /\ pc = "wait" /\ adapter = Listening
      /\ UNCHANGED <<job, cancelled, ledger>>
    BY Halves DEF Respond, Working, Reading, AdapterFollows
<1>2. CASE \E code \in PostStreamThrows : Throw(code) /\ UNCHANGED stream
    BY <1>1, <1>2, ThrowKeepsIInv DEF stream
<1>3. ASSUME NEW n \in 0..(MaxContent + 1), NEW ending \in Endings,
             pc' = "read", script' = StreamOf(job.provider, n, ending), truth' = ending,
             UNCHANGED <<attempt, outcome, rounds, adapter, content, cost>>
      PROVE  IInv'
    <2>1. UNCHANGED <<calls, late, spent, shown>> /\ shown = {}
        BY <1>1, WhenShown DEF ledger
    <2>2. Control'
        BY <1>1, <1>3, <2>1, GoesOnKeepsControl
    <2>3. ReadingType' /\ CancelledOnce' /\ OneAttemptShown'
        BY <1>1, <1>3, <2>1 DEF Reading, ReadingType, CancelledOnce, OneAttemptShown
    <2> DEFINE E == EndingChunks(job.provider, ending)
    <2>4. E \in Seq(Chunks) /\ Len(E) \in 1..3
        <3>1. job.provider \in Providers
            BY <1>1, JobTypes DEF Control, ControlType
        <3> QED
            BY <3>1, EndingFacts DEF Closes
    <2> HIDE DEF E
    <2>5. script' = Text(n) \o E
        BY <1>3 DEF StreamOf, E
    <2>6. /\ Text(n) \in Seq(Chunks) /\ Len(Text(n)) = n /\ n \in Nat
          /\ \A i \in 1..n : Text(n)[i] = "text"
        BY <1>1, ControlTypes DEF Text, Chunks, Control
    <2>7. /\ script' \in Seq(Chunks) /\ Len(script') = n + Len(E)
          /\ \A i \in 1..n : script'[i] = "text"
          /\ \A i \in 1..Len(E) : script'[n + i] = E[i]
        <3> DEFINE T == Text(n)
        <3>1. T \in Seq(Chunks) /\ Len(T) = n /\ E \in Seq(Chunks)
            BY <2>4, <2>6
        <3>2. \A i \in 1..Len(T) : T[i] = "text"
            BY <2>6
        <3>3. script' = T \o E
            BY <2>5
        <3> HIDE DEF T
        <3>4. /\ T \o E \in Seq(Chunks) /\ Len(T \o E) = Len(T) + Len(E)
              /\ \A i \in 1..Len(T) : (T \o E)[i] = T[i]
              /\ \A i \in 1..Len(E) : (T \o E)[Len(T) + i] = E[i]
            BY <3>1
        <3> QED
            BY <3>1, <3>2, <3>3, <3>4
    <2>8. ASSUME NEW i \in 1..Len(script')
          PROVE  script'[i] = IF Len(script') - i < Len(E)
                              THEN E[Len(E) - (Len(script') - i)] ELSE "text"
        <3>1. CASE i <= n
            <4>1. i \in 1..n /\ ~(Len(script') - i < Len(E))
                BY <2>4, <2>6, <2>7, <3>1
            <4> QED
                BY <2>7, <4>1
        <3>2. CASE i > n
            <4>1. /\ i - n \in 1..Len(E) /\ Len(script') - i < Len(E) /\ n + (i - n) = i
                  /\ Len(E) - (Len(script') - i) = i - n
                BY <2>4, <2>6, <2>7, <3>2
            <4>2. script'[i] = E[i - n]
                BY <2>7, <4>1
            <4> QED
                BY <4>1, <4>2
        <3> QED
            BY <2>6, <2>7, <3>1, <3>2
    <2>9. Len(script') >= Len(E)
        BY <2>4, <2>6, <2>7
    <2>10. EndingChunks(job.provider, truth)' = E
        BY <1>1, <1>3 DEF E
    <2>11. /\ Listening.completed = FALSE /\ Listening.refused = FALSE /\ Listening.stop = "none"
           /\ "none" # "end_turn" /\ Len(script') \in Nat /\ Len(E) \in Nat
        BY <2>4, <2>6, <2>7 DEF Listening
    <2>12. AdapterFollows'
        BY <1>1, <1>3, <2>7, <2>8, <2>9, <2>10, <2>11 DEF AdapterFollows
    <2> QED
        BY <2>2, <2>3, <2>12, HalvesNext DEF Reading
<1> QED
    BY <1>2, <1>3 DEF Respond

\* What taking an event does: the generation ends, or the attempt goes on.
LEMMA TakeEventFacts ==
    ASSUME Control, Reading, pc = "read", NEW event, TakeEvent(event), job' = job, calls' = calls,
           truth' = truth
    PROVE  /\ Control'
           /\ content' \in 0..(MaxContent + 1) /\ cost' \in Nat /\ spent' \in Nat
           /\ shown' \subseteq 1..MaxAttempts
           /\ pc' \in {"read", "done"} /\ attempt' = attempt
           /\ \/ shown' = {}
              \/ job.op = "plan" /\ shown' = {attempt} /\ content' > 0
<1>1. /\ Working /\ attempt \in 1..MaxAttempts /\ attempt \in Nat /\ calls = total.attempts + attempt
      /\ content \in 0..(MaxContent + 1) /\ cost \in Nat /\ spent \in Nat /\ MaxContent \in Nat
      /\ shown \subseteq 1..MaxAttempts
      /\ shown = {} \/ (job.op = "plan" /\ shown = {attempt} /\ content > 0)
    BY ControlTypes DEF Control, ControlType, CallsOfRounds, Working, Reading, ReadingType,
        OneAttemptShown
<1>2. ASSUME NEW code \in Codes, RoundFails(code, attempt)
      PROVE  Control' /\ pc' = "done" /\ attempt' = attempt
    BY <1>1, <1>2, RoundFailsKeepsControl
<1>3. ASSUME UNCHANGED <<pc, attempt, outcome, rounds>>
      PROVE  Control' /\ pc' = "read" /\ attempt' = attempt
    BY <1>1, <1>3, GoesOnKeepsControl
<1>4. {"cancelled", "limit_exceeded", "provider_unavailable"} \subseteq Codes
    BY DEF Codes
<1>5. CASE /\ RoundFails("cancelled", attempt) /\ UNCHANGED <<content, cost, spent, shown>>
    BY <1>1, <1>2, <1>4, <1>5
<1>6. CASE /\ content = MaxContent /\ RoundFails("limit_exceeded", attempt)
           /\ content' = content + 1 /\ UNCHANGED <<cost, spent, shown>>
    BY <1>1, <1>2, <1>4, <1>6
<1>7. CASE /\ content < MaxContent /\ content' = content + 1
           /\ shown' = IF job.op = "plan" THEN shown \cup {attempt} ELSE shown
           /\ \/ UNCHANGED <<pc, attempt, outcome, rounds>>
              \/ job.op = "plan" /\ RoundFails("provider_unavailable", attempt)
           /\ UNCHANGED <<cost, spent>>
    <2>1. Control' /\ pc' \in {"read", "done"} /\ attempt' = attempt
        BY <1>2, <1>3, <1>4, <1>7
    <2>2. content' \in 0..(MaxContent + 1) /\ content' > 0
        BY <1>1, <1>7
    <2>3. shown' = {} \/ (job.op = "plan" /\ shown' = {attempt})
        BY <1>1, <1>7
    <2> QED
        BY <1>1, <1>7, <2>1, <2>2, <2>3
<1>8. CASE /\ \E c \in Costs : cost' = c /\ spent' = spent + c
           /\ UNCHANGED <<pc, attempt, outcome, rounds, content, shown>>
    BY <1>1, <1>3, <1>8, GenerationConstants
<1>9. CASE UNCHANGED <<pc, attempt, outcome, rounds, content, cost, spent, shown>>
    BY <1>1, <1>3, <1>9
<1> QED
    BY <1>5, <1>6, <1>7, <1>8, <1>9 DEF TakeEvent

LEMMA ReceiveKeepsIInv ==
    ASSUME IInv, Receive
    PROVE  IInv'
<1> DEFINE chunk == Head(script)
           r == AdapterReads(job.provider, adapter, chunk)
           E == EndingChunks(job.provider, truth)
           L == Len(script)
           t == Tail(script)
<1>1. /\ Control /\ Reading /\ pc = "read" /\ script # <<>> /\ adapter' = r.state
      /\ TakeEvent(r.event) /\ script' = t /\ UNCHANGED <<job, cancelled, truth, calls, late>>
    BY Halves DEF Receive
<1>2. /\ Control'
      /\ content' \in 0..(MaxContent + 1) /\ cost' \in Nat /\ spent' \in Nat
      /\ shown' \subseteq 1..MaxAttempts
      /\ pc' \in {"read", "done"} /\ attempt' = attempt
      /\ shown' = {} \/ (job.op = "plan" /\ shown' = {attempt} /\ content' > 0)
    BY <1>1, TakeEventFacts
<1>3. /\ truth \in Endings /\ script \in Seq(Chunks) /\ adapter \in AdapterStates
      /\ \A i \in 1..L : script[i] = IF L - i < Len(E) THEN E[Len(E) - (L - i)] ELSE "text"
      /\ L >= Len(E) => adapter = Listening
      /\ truth = "refused" /\ L < Len(E) => adapter.refused
      /\ truth = "cut" =>
          /\ ~adapter.completed
          /\ job.provider = "anthropic" => ~adapter.refused /\ adapter.stop # "end_turn"
    BY <1>1 DEF Reading, ReadingType, AdapterFollows
<1>4. job.provider \in Providers
    BY <1>1, JobTypes DEF Control, ControlType
<1>5. Closes(E, truth)
    BY <1>3, <1>4, EndingFacts
<1>6. /\ L \in Nat \ {0} /\ chunk = script[1] /\ chunk \in Chunks /\ t \in Seq(Chunks)
      /\ Len(t) = L - 1 /\ \A i \in 1..Len(t) : t[i] = script[i + 1] /\ i + 1 \in 1..L
    BY <1>1, <1>3
<1> HIDE DEF chunk, L, t, E
<1>7. AdapterStep(job.provider, adapter, chunk, r)
    BY <1>3, <1>4, <1>6, AdapterFacts
<1> HIDE DEF r
<1>8. ReadingType' /\ CancelledOnce' /\ OneAttemptShown'
    <2>1. adapter' \in AdapterStates
        BY <1>1, <1>7 DEF AdapterStep
    <2>2. ReadingType'
        BY <1>1, <1>2, <2>1 DEF Reading, ReadingType
    <2>3. CancelledOnce' /\ OneAttemptShown'
        BY <1>1, <1>2 DEF Reading, CancelledOnce, OneAttemptShown
    <2> QED
        BY <2>2, <2>3
<1>9. Len(E) \in Nat /\ Len(E) >= 1 /\ E \in Seq(Chunks)
    <2>1. Len(E) \in 1..3 /\ E \in Seq(Chunks)
        BY <1>5 DEF Closes
    <2> QED
        BY <2>1
<1>10. chunk = IF L - 1 < Len(E) THEN E[Len(E) - (L - 1)] ELSE "text"
    <2>1. 1 \in 1..L
        BY <1>6
    <2> QED
        BY <1>3, <1>6, <2>1
<1>11. \A i \in 1..Len(t) : t[i] = IF Len(t) - i < Len(E) THEN E[Len(E) - (Len(t) - i)] ELSE "text"
    <2> SUFFICES ASSUME NEW i \in 1..Len(t)
                 PROVE  t[i] = IF Len(t) - i < Len(E) THEN E[Len(E) - (Len(t) - i)] ELSE "text"
        OBVIOUS
    <2>1. /\ i + 1 \in 1..L /\ t[i] = script[i + 1] /\ L - (i + 1) = Len(t) - i
        BY <1>6
    <2>2. script[i + 1] = IF L - (i + 1) < Len(E) THEN E[Len(E) - (L - (i + 1))] ELSE "text"
        BY <1>3, <2>1
    <2> QED
        BY <2>1, <2>2
<1>12. Len(t) >= Len(E) => r.state = Listening
    <2>1. Len(t) >= Len(E) => chunk = "text" /\ L >= Len(E)
        BY <1>6, <1>9, <1>10
    <2> QED
        BY <1>3, <1>7, <2>1 DEF AdapterStep
<1>13. truth = "refused" /\ Len(t) < Len(E) => r.state.refused
    <2>1. CASE L < Len(E)
        BY <1>3, <1>7, <2>1 DEF AdapterStep
    <2>2. CASE L = Len(E) /\ truth = "refused"
        <3>1. Len(E) - (L - 1) = 1 /\ L - 1 < Len(E)
            BY <1>6, <1>9, <2>2
        <3>2. chunk = "filtered"
            BY <1>5, <1>10, <2>2, <3>1 DEF Closes
        <3> QED
            BY <1>7, <3>2 DEF AdapterStep
    <2>3. Len(t) < Len(E) => L < Len(E) \/ L = Len(E)
        BY <1>6, <1>9
    <2> QED
        BY <2>1, <2>2, <2>3
<1>14. truth = "cut" =>
        /\ ~r.state.completed
        /\ job.provider = "anthropic" => ~r.state.refused /\ r.state.stop # "end_turn"
    <2> SUFFICES ASSUME truth = "cut"
                 PROVE  /\ ~r.state.completed
                        /\ job.provider = "anthropic" =>
                            ~r.state.refused /\ r.state.stop # "end_turn"
        OBVIOUS
    <2>1. chunk \notin {"stop", "filtered", "end_turn"}
        <3>1. CASE L - 1 < Len(E)
            <4>1. Len(E) - (L - 1) \in 1..Len(E)
                BY <1>6, <1>9, <3>1
            <4> QED
                BY <1>5, <1>10, <3>1, <4>1 DEF Closes
        <3>2. CASE ~(L - 1 < Len(E))
            BY <1>10, <3>2
        <3> QED
            BY <3>1, <3>2
    <2> QED
        BY <1>3, <1>7, <2>1 DEF AdapterStep
<1>15. AdapterFollows'
    <2>1. EndingChunks(job.provider, truth)' = E
        BY <1>1 DEF E
    <2>2. pc' \notin {"send", "wait"}
        BY <1>2
    <2> QED
        BY <1>1, <1>3, <1>6, <1>11, <1>12, <1>13, <1>14, <2>1, <2>2 DEF AdapterFollows
<1> QED
    BY <1>2, <1>8, <1>15, HalvesNext DEF Reading

LEMMA FaultKeepsIInv ==
    ASSUME IInv, Fault \/ Deadline
    PROVE  IInv'
<1>1. /\ pc \in {"wait", "read"} /\ UNCHANGED <<job, cancelled, stream, ledger>>
      /\ \E code : Throw(code)
    BY DEF Fault, Deadline
<1>2. UNCHANGED <<truth, adapter, content, cost>>
    BY <1>1 DEF stream
<1> QED
    BY <1>1, <1>2, ThrowKeepsIInv

\* What an adapter takes for a whole answer is one.
LEMMA WholeAnswer ==
    ASSUME Reading, job \in Jobs, pc = "read", ~EndsInvalid(adapter), ~adapter.refused
    PROVE  truth = "normal"
<1> DEFINE E == EndingChunks(job.provider, truth)
<1>1. /\ truth \in Endings /\ adapter.completed
      /\ Len(script) >= Len(E) => adapter = Listening
      /\ truth = "refused" /\ Len(script) < Len(E) => adapter.refused
      /\ truth = "cut" => ~adapter.completed
    BY DEF Reading, AdapterFollows, EndsInvalid
<1>2. truth # "cut"
    BY <1>1
<1>3. Len(script) >= Len(E) => ~adapter.completed
    BY <1>1 DEF Listening
<1>4. truth # "refused"
    <2>1. ASSUME truth = "refused" PROVE FALSE
        <3>1. Len(E) \in 1..3
            BY <1>1, JobTypes, EndingFacts DEF Closes
        <3>2. Len(script) \in Nat
            BY DEF Reading, AdapterFollows
        <3> HIDE DEF E
        <3> QED
            BY <1>1, <1>3, <2>1, <3>1, <3>2
    <2> QED
        BY <2>1
<1> QED
    BY <1>1, <1>2, <1>4 DEF Endings

LEMMA StreamEndsKeepsIInv ==
    ASSUME IInv, StreamEnds
    PROVE  IInv'
<1>1. /\ Control /\ Reading /\ Working /\ pc = "read" /\ attempt \in Nat
      /\ calls = total.attempts + attempt
      /\ UNCHANGED <<job, cancelled, truth, adapter, content, calls, late, shown>>
    BY Halves, ControlTypes DEF StreamEnds, Control, CallsOfRounds, Working
<1>2. /\ Control' /\ cost' \in Nat /\ spent' \in Nat
      /\ \/ pc' \in {"judge", "done"} /\ attempt' = attempt
         \/ pc' = "check" /\ content = 0
    <2>1. ASSUME NEW code \in Codes, RoundFails(code, attempt)
          PROVE  Control' /\ pc' = "done" /\ attempt' = attempt
        BY <1>1, <2>1, RoundFailsKeepsControl
    <2>2. {"cancelled", "refused"} \subseteq Codes
        BY DEF Codes
    <2>3. cost \in Nat /\ spent \in Nat /\ Costs \subseteq Nat
        BY <1>1, GenerationConstants DEF Reading, ReadingType
    <2>4. CASE EndsInvalid(adapter)
        <3>1. Throw("invalid_response") /\ UNCHANGED <<cost, spent>>
            BY <2>4 DEF StreamEnds
        <3> QED
            BY <1>1, <2>3, <3>1, ThrowKeepsControl
    <2>5. CASE ~EndsInvalid(adapter) /\ cancelled
        <3>1. RoundFails("cancelled", attempt) /\ UNCHANGED <<cost, spent>>
            BY <2>5 DEF StreamEnds
        <3> QED
            BY <2>1, <2>2, <2>3, <3>1
    <2>6. CASE ~EndsInvalid(adapter) /\ ~cancelled
        <3>1. /\ IF adapter.refused THEN RoundFails("refused", attempt)
                  ELSE pc' = "judge" /\ UNCHANGED <<attempt, outcome, rounds>>
              /\ IF UsageAtEnd(job.provider)
                 THEN \E c \in Costs : cost' = c /\ spent' = spent + c
                 ELSE UNCHANGED <<cost, spent>>
            BY <2>6 DEF StreamEnds
        <3>2. cost' \in Nat /\ spent' \in Nat
            BY <2>3, <3>1
        <3>3. CASE adapter.refused
            BY <2>1, <2>2, <3>1, <3>2, <3>3
        <3>4. CASE ~adapter.refused
            <4>1. truth' = "normal"
                BY <1>1, <2>6, <3>4, WholeAnswer DEF Control, ControlType
            <4>2. pc' = "judge" /\ UNCHANGED <<attempt, outcome, rounds>>
                BY <3>1, <3>4
            <4>3. Control'
                BY <1>1, <4>1, <4>2, GoesOnKeepsControl
            <4> QED
                BY <3>2, <4>2, <4>3
        <3> QED
            BY <3>3, <3>4
    <2> QED
        BY <2>4, <2>5, <2>6
<1>3. ReadingType'
    BY <1>1, <1>2 DEF Reading, ReadingType
<1>4. shown # {} => attempt' = attempt /\ pc' \in {"judge", "done"} /\ content' > 0
    <2>1. content = 0 => ~(content > 0)
        OBVIOUS
    <2> QED
        BY <1>1, <1>2, <2>1, WhenShown
<1>5. Reading'
    BY <1>1, <1>2, <1>3, <1>4, NoLongerReading
<1> QED
    BY <1>2, <1>5, HalvesNext

LEMMA JudgeKeepsIInv ==
    ASSUME IInv, Judge
    PROVE  IInv'
<1>1. /\ Control /\ Reading /\ Working /\ pc = "judge" /\ attempt \in Nat
      /\ calls = total.attempts + attempt /\ cost \in Nat
      /\ UNCHANGED <<job, cancelled, stream, ledger>>
    BY Halves, ControlTypes DEF Judge, Control, CallsOfRounds, Working, Reading, ReadingType
<1>2. UNCHANGED <<truth, adapter, content, cost, calls, late, spent, shown>>
    BY <1>1 DEF stream, ledger
<1>3. shown # {} => content > 0 /\ job.op = "plan"
    BY <1>1, WhenShown
<1>4. job.op = "plan" => ~job.reviewed
    BY <1>1, JobTypes DEF Control, ControlType
<1>5. /\ Control'
      /\ \/ pc' = "done" /\ attempt' = attempt
         \/ pc' \in {"check", "open"} /\ job.op # "plan"
    <2>1. ASSUME NEW code \in Codes, RoundFails(code, attempt)
          PROVE  Control' /\ pc' = "done" /\ attempt' = attempt
        BY <1>1, <1>2, <2>1, RoundFailsKeepsControl
    <2>2. {"invalid_response", "limit_exceeded"} \subseteq Codes
        BY DEF Codes
    <2>3. CASE job.op = "file" /\ attempt < MaxAttempts /\ NextAttempt
        BY <1>1, <1>2, <2>3, NextAttemptKeepsControl
    <2>4. CASE RoundFails("invalid_response", attempt) \/ RoundFails("limit_exceeded", attempt)
        BY <2>1, <2>2, <2>4
    <2>5. CASE cost <= limit /\ \E passes \in BOOLEAN : RoundSucceeds(passes)
        BY <1>1, <1>2, <1>4, <2>5, RoundSucceedsKeepsControl
    <2> QED
        BY <2>3, <2>4, <2>5 DEF Judge
<1>6. ReadingType'
    BY <1>1, <1>2 DEF Reading, ReadingType
<1>7. Reading'
    BY <1>1, <1>2, <1>3, <1>5, <1>6, NoLongerReading
<1> QED
    BY <1>5, <1>7, HalvesNext

LEMMA CheckFailsKeepsIInv ==
    ASSUME IInv, CheckFails
    PROVE  IInv'
<1> DEFINE o == Failure("thrown", 0, NoReview)
<1>1. /\ Control /\ Reading /\ Working /\ pc = "check" /\ Return(o)
      /\ UNCHANGED <<job, cancelled, stream, draft, review, total, ledger>>
    BY Halves DEF CheckFails, Working
<1>2. UNCHANGED <<truth, adapter, content, cost, calls, late, spent, shown>>
    BY <1>1 DEF stream, ledger
<1>3. o \in Outcomes /\ ~o.ok /\ o.code = "thrown" /\ o.cost = 0
    BY NothingTypes, FailureFacts
<1> HIDE DEF o
<1>4. /\ draft \in Drafts /\ review \in Reviews /\ total \in [attempts : Nat, cost : 0..Cap]
      /\ draft.ending = (IF draft = NoDraft THEN "none" ELSE "normal") /\ draft.cost <= total.cost
      /\ Cap \in Nat
    BY <1>1, ControlTypes DEF Control, ControlType, CostOfRounds, DraftsOfRounds
<1>5. Control' /\ pc' = "done" /\ attempt' = attempt
    BY <1>1, <1>2, <1>3, <1>4, ReturnKeepsControl
<1>6. shown = {} /\ ReadingType'
    BY <1>1, <1>2, WhenShown DEF Reading, ReadingType
<1>7. Reading'
    BY <1>1, <1>2, <1>5, <1>6, NoLongerReading
<1> QED
    BY <1>5, <1>7, HalvesNext

\* Another process cancels, or nothing happens.
LEMMA CancelKeepsIInv ==
    ASSUME IInv, UNCHANGED <<job, pc, attempt, outcome, stream, rounds, ledger>>,
           cancelled' = cancelled \/ cancelled' = TRUE
    PROVE  IInv'
<1>1. UNCHANGED <<job, pc, attempt, outcome, script, truth, adapter, content, cost,
                 round, limit, draft, review, total, calls, late, spent, shown>>
    BY DEF stream, rounds, ledger
<1>2. Control'
    <2>1. Control
        BY Halves
    <2>2. ControlType' /\ CallsOfRounds' /\ CostOfRounds'
        BY <1>1, <2>1 DEF Control, ControlType, CallsOfRounds, CostOfRounds, Working
    <2>3. DraftsOfRounds'
        BY <1>1, <2>1 DEF Control, DraftsOfRounds, DeliveredAsReviewed, Working, MaxRepairs
    <2> QED
        BY <2>2, <2>3 DEF Control
<1>3. Reading'
    <2>1. Reading
        BY Halves
    <2>2. ReadingType' /\ CancelledOnce'
        BY <1>1, <2>1 DEF Reading, ReadingType, CancelledOnce
    <2>3. OneAttemptShown' /\ AdapterFollows'
        BY <1>1, <2>1 DEF Reading, OneAttemptShown, AdapterFollows
    <2> QED
        BY <2>2, <2>3 DEF Reading
<1> QED
    BY <1>2, <1>3, HalvesNext

-----------------------------------------------------------------------------
(* Theorems *)

LEMMA InitIInv == Init => IInv
<1> SUFFICES ASSUME Init PROVE IInv
    OBVIOUS
<1> USE DEF Init
<1>1. /\ MaxAttempts \in Nat \ {0} /\ MaxContent \in Nat /\ Cap \in Nat \ {0}
      /\ 0 \in 0..MaxAttempts /\ 0 \in 0..(MaxContent + 1) /\ Cap \in 1..Cap /\ 0 \in 0..Cap
    BY GenerationConstants
<1>2. /\ NoDraft \in Drafts /\ NoReview \in Reviews /\ Pending \in Outcomes
      /\ NoDraft.cost = 0 /\ NoDraft.ending = "none" /\ Pending.cost = 0 /\ ~Pending.ok
    BY NothingTypes DEF NoDraft, Pending
<1>3. ControlType
    BY <1>1, <1>2 DEF ControlType, Outcomes
<1>4. CallsOfRounds /\ CostOfRounds
    BY <1>1, <1>2 DEF CallsOfRounds, CostOfRounds, Working
<1>5. DraftsOfRounds
    <2>1. MaxRepairs \in 0..2
        BY RepairBound
    <2> QED
        BY <1>2, <2>1 DEF DraftsOfRounds, DeliveredAsReviewed
<1>6. ReadingType
    <2>1. Listening \in AdapterStates
        BY DEF Listening, AdapterStates
    <2> QED
        BY <1>1, <2>1 DEF ReadingType
<1>7. CancelledOnce /\ OneAttemptShown /\ AdapterFollows
    BY DEF CancelledOnce, OneAttemptShown, AdapterFollows
<1> QED
    BY <1>3, <1>4, <1>5, <1>6, <1>7, Halves DEF Control, Reading

LEMMA NextKeepsIInv == IInv /\ [Next]_vars => IInv'
<1> SUFFICES ASSUME IInv, [Next]_vars PROVE IInv'
    OBVIOUS
<1>1. CASE \E price \in Prices : Preflight(price)
    BY <1>1, PreflightKeepsIInv
<1>2. CASE CheckCancelled \/ Send \/ Judge
    BY <1>2, CheckKeepsIInv, SendKeepsIInv, JudgeKeepsIInv
<1>3. CASE Respond \/ Receive \/ StreamEnds
    BY <1>3, RespondKeepsIInv, ReceiveKeepsIInv, StreamEndsKeepsIInv
<1>4. CASE Fault \/ Deadline
    BY <1>4, FaultKeepsIInv
<1>5. CASE CheckFails
    BY <1>5, CheckFailsKeepsIInv
<1>6. CASE Cancel \/ UNCHANGED vars
    BY <1>6, CancelKeepsIInv DEF Cancel, vars
<1> QED
    BY <1>1, <1>2, <1>3, <1>4, <1>5, <1>6 DEF Next, Loop

LEMMA SpecIInv == Spec => []IInv
BY InitIInv, NextKeepsIInv, PTL DEF Spec

\* Every variable of a generation stays in its type.
THEOREM TypeCorrect == Spec => []TypeOK
<1>1. IInv => TypeOK
    BY DEF IInv
<1> QED
    BY <1>1, SpecIInv, PTL

\* However many attempts and rounds it takes and whatever the provider charges, the
\* attempts a generation reports are the HTTP calls it made, its reported cost is within
\* maxCostMicros, and at most one call leaves after the user cancelled.
THEOREM AccountingIsTrue == Spec => []CallsAreAccounted
<1>1. IInv => CallsAreAccounted
    BY DEF IInv, CallsOfRounds, CostOfRounds, CancelledOnce, CallsAreAccounted
<1> QED
    BY <1>1, SpecIInv, PTL

\* None of the four adapters takes an answer its provider cut short or refused for a
\* whole one, at whichever chunk the stream stops, and a retry never adds its text to
\* what the user has seen of another attempt.
THEOREM DeliveredAnswersAreWhole == Spec => []AnswersAreWhole
<1>1. IInv => AnswersAreWhole
    BY DEF IInv, DraftsOfRounds, OneAttemptShown, AnswersAreWhole
<1> QED
    BY <1>1, SpecIInv, PTL

\* The site loop and the file agent deliver a draft with its own review, and one that
\* fails it only when no repair was left, could be paid or came to anything.
THEOREM ReviewBelongsToDraft == Spec => []DeliveredAsReviewed
<1>1. IInv => DeliveredAsReviewed
    BY DEF IInv, DraftsOfRounds
<1> QED
    BY <1>1, SpecIInv, PTL
=============================================================================
