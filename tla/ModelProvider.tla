---------------------------- MODULE ModelProvider -----------------------------
(***************************************************************************)
(* The model router: one HTTP stream of a provider becomes the events the  *)
(* agents read (text-delta, usage, refusal, completed) or a ProviderError. *)
(* The four adapters are folded over the chunks of a stream; the external  *)
(* half of the module says what a provider may send.  Payloads are the     *)
(* chunk kinds an adapter tells apart; a chunk that carries several fields *)
(* is the sequence of those fields in the order the adapter reads them.    *)
(***************************************************************************)
EXTENDS Naturals, Sequences

Providers == {"openrouter", "openai", "anthropic", "google"}

ErrorCodes == {"authentication", "invalid_request", "invalid_response",
               "rate_limited", "timeout", "unavailable"}

\* Every ProviderError the code constructs takes this flag with its code.
Retryable(code) == code \in {"rate_limited", "timeout", "unavailable"}

-----------------------------------------------------------------------------
(* Configuration: the worker reads it once, when it starts *)

\* An environment readWorkerEnv accepts: the chosen provider has its key and its model.
AcceptsEnv(provider, keys, models) == provider \in keys /\ provider \in models

\* createConfiguredModel registers an adapter for every key and then asks for one:
\* it throws when the model or the adapter is missing.
Adapters(keys) == keys
ModelIsConfigured(provider, keys, models) ==
    provider \in models /\ provider \in Adapters(keys)

-----------------------------------------------------------------------------
(* HTTP *)

Statuses == {400, 401, 403, 408, 429, 500}

MapHttpError(status) ==
    IF status \in {401, 403} THEN "authentication"
    ELSE IF status = 408 THEN "timeout"
    ELSE IF status = 429 THEN "rate_limited"
    ELSE IF status >= 500 THEN "unavailable"
    ELSE "invalid_request"

\* What postStream throws when no stream comes: a status, no body, no connection,
\* an abort.
PostStreamThrows ==
    {MapHttpError(status) : status \in Statuses}
        \cup {"invalid_response", "unavailable", "timeout"}

-----------------------------------------------------------------------------
(* The adapters *)

\* Their local variables; stop is the stop_reason anthropic's adapter keeps.
Listening == [completed |-> FALSE, usage |-> FALSE, refused |-> FALSE, stop |-> "none"]
AdapterStates == [completed : BOOLEAN, usage : BOOLEAN, refused : BOOLEAN,
                  stop : {"none", "end_turn", "max_tokens", "refusal"}]

\* One chunk: the state after it, the event it yields ("none", "text", "usage",
\* "refusal") and what it throws ("none" or a code).
Reads(s) == [state |-> s, event |-> "none", throws |-> "none"]
Yields(s, e) == [state |-> s, event |-> e, throws |-> "none"]
Throws(s, code) == [state |-> s, event |-> "none", throws |-> code]

OpenRouterReads(s, chunk) ==
    CASE chunk = "text" -> Yields(s, "text")
      [] chunk = "stop" -> Reads([s EXCEPT !.completed = TRUE])
      [] chunk = "filtered" ->
            Yields([s EXCEPT !.completed = TRUE, !.refused = TRUE], "refusal")
      [] chunk = "usage" -> Yields([s EXCEPT !.usage = TRUE], "usage")
      [] chunk = "rate_limit" -> Throws(s, "rate_limited")
      [] chunk = "error" -> Throws(s, "unavailable")
      [] OTHER -> Reads(s)

OpenAiReads(s, chunk) ==
    CASE chunk = "text" -> Yields(s, "text")
      [] chunk = "filtered" -> Yields([s EXCEPT !.refused = TRUE], "refusal")
      [] chunk = "stop" -> Reads([s EXCEPT !.completed = TRUE])
      [] chunk = "usage" -> Yields([s EXCEPT !.usage = TRUE], "usage")
      [] chunk = "error" -> Throws(s, "unavailable")
      [] OTHER -> Reads(s)

\* usage is yielded at the end only; a refusal is yielded by each later message_delta.
AnthropicReads(s, chunk) ==
    CASE chunk = "text" -> Yields(s, "text")
      [] chunk \in {"end_turn", "max_tokens"} -> Reads([s EXCEPT !.stop = chunk])
      [] chunk = "filtered" ->
            Yields([s EXCEPT !.stop = "refusal", !.refused = TRUE], "refusal")
      [] chunk = "usage" -> Reads([s EXCEPT !.usage = TRUE])
      [] chunk = "message_stop" ->
            Reads([s EXCEPT !.completed = s.refused \/ s.stop = "end_turn"])
      [] chunk = "error" -> Throws(s, "unavailable")
      [] OTHER -> Reads(s)

GoogleReads(s, chunk) ==
    CASE chunk = "text" -> Yields(s, "text")
      [] chunk = "stop" -> Reads([s EXCEPT !.completed = TRUE])
      [] chunk = "filtered" ->
            Yields([s EXCEPT !.completed = TRUE, !.refused = TRUE], "refusal")
      [] chunk = "usage" -> Reads([s EXCEPT !.usage = TRUE])
      [] OTHER -> Reads(s)

\* readSseJson and each chunkSchema refuse what they cannot read.
AdapterReads(provider, s, chunk) ==
    IF chunk = "malformed" THEN Throws(s, "invalid_response")
    ELSE CASE provider = "openrouter" -> OpenRouterReads(s, chunk)
           [] provider = "openai" -> OpenAiReads(s, chunk)
           [] provider = "anthropic" -> AnthropicReads(s, chunk)
           [] provider = "google" -> GoogleReads(s, chunk)

\* An adapter that takes any usage for the end.
EndsWithoutStop(s) == ~s.refused /\ ~s.usage

\* After the last chunk an adapter yields completed (two of them usage before it), unless:
EndsInvalid(s) == ~s.completed \/ (~s.refused /\ ~s.usage)
UsageAtEnd(provider) == provider \in {"anthropic", "google"}

-----------------------------------------------------------------------------
(* What a provider may send: some text and one ending.  normal, refused or *)
(* cut short is its own account of the answer, which the chunks encode.    *)

Endings == {"normal", "refused", "cut"}

EndingChunks(provider, ending) ==
    IF provider = "anthropic"
    THEN <<[normal |-> "end_turn", refused |-> "filtered", cut |-> "max_tokens"][ending],
           "usage", "message_stop">>
    ELSE IF provider = "openai"
    THEN [normal |-> <<"stop", "usage">>, refused |-> <<"filtered", "stop", "usage">>,
          cut |-> <<"incomplete">>][ending]
    ELSE <<[normal |-> "stop", refused |-> "filtered", cut |-> "length"][ending], "usage">>

Text(n) == [i \in 1..n |-> "text"]
StreamOf(provider, n, ending) == Text(n) \o EndingChunks(provider, ending)

\* The chunks that announce a failure, and those that cannot be read.
FaultChunks == {"error", "rate_limit", "malformed"}
=============================================================================
