----------------------------- MODULE LlmClient ------------------------------
(***************************************************************************)
(* transoria/llm/client.py, llm/retry.py and runtime/key_pool.py: the calls*)
(* of one task through one LlmClient.  They share the pool of API keys and *)
(* the memory of request fields an endpoint has refused.                   *)
(*                                                                         *)
(* A request is the set of optional fields it carries; an answer is what   *)
(* the code tells apart.  A call is one retry_async: operation() is chat() *)
(* and the decoding of its answer by the runner.                           *)
(***************************************************************************)
EXTENDS Naturals, Sequences, FiniteSets, SequencesExt

CONSTANTS
    Calls,            \* concurrent calls of the task's workers
    Keys,             \* the profile's api_keys, in order
    RotateKeys,       \* model.rotate_keys
    Fields,           \* _OPTIONAL_COMPATIBILITY_FIELDS in use, in their order
    Streams,          \* the request streams: stream and stream_options
    ThinkingOn,       \* Calls -> model.thinking_enabled
    TransportRetries, \* transport_retry_attempts
    FormatRetries,    \* _FORMAT_DRIFT_RETRY_BUDGET
    Period            \* bound: the pool's cursor is kept modulo Period

AllKeys == ToSet(Keys)
NoKey   == "none"

ASSUME ClientAssumption ==
    /\ Len(Keys) \in Nat \ {0} /\ DOMAIN Keys = 1..Len(Keys) /\ NoKey \notin AllKeys
    /\ RotateKeys \in BOOLEAN /\ Streams \in BOOLEAN
    /\ \A c \in Calls : ThinkingOn[c] \in BOOLEAN
    /\ TransportRetries \in Nat /\ FormatRetries \in Nat
    /\ Period \in Nat \ {0} /\ \A k \in 1..Len(Keys) : Period % k = 0

VARIABLES
    pooled,       \* the task has a KeyPool (rotate_keys and more than one key)
    cursor,       \* KeyPool._cursor, modulo a common period
    dead,         \* KeyPool._dead
    unsupported,  \* _unsupported_payload_fields
    at,           \* where a call is
    attempt,      \* keys tried by _send_with_rotation
    key,          \* the key in use
    payload,      \* optional fields of the request
    rejected,     \* rejected_keys of the compatibility loop
    logOpen,      \* request logs begun and neither completed, failed nor cancelled
    retriesLeft,         \* retries retriesLeft: [transport, format]
    outcome,      \* how the last call ended
    refusedKeys,  \* ghost: keys the provider answered 401 or 403 for
    tries         \* ghost: operation() calls of the retry loop

clientVars == <<pooled, cursor, dead, unsupported, at, attempt, key, payload, rejected,
                logOpen, retriesLeft, outcome, refusedKeys, tries>>
NoBudget  == [transport |-> 0, format |-> 0]
Known     == {"stream_options", "stream"}
Optional  == ToSet(Fields)

ClientInit ==
    /\ pooled \in BOOLEAN /\ (pooled => RotateKeys /\ Len(Keys) > 1)
    /\ cursor = 0 /\ dead = {} /\ unsupported = {} /\ refusedKeys = {}
    /\ at = [c \in Calls |-> "idle"]
    /\ attempt = [c \in Calls |-> 0]
    /\ key = [c \in Calls |-> NoKey]
    /\ payload = [c \in Calls |-> {}]
    /\ rejected = [c \in Calls |-> {}]
    /\ logOpen = [c \in Calls |-> 0]
    /\ retriesLeft = [c \in Calls |-> NoBudget]
    /\ outcome = [c \in Calls |-> "none"]
    /\ tries = [c \in Calls |-> 0]

-----------------------------------------------------------------------------
(* The request: _chat_openai, _chat_anthropic, _chat_google *)

\* the value a field is sent with: only thinking has two
Capability(c, f) == IF f = "thinking" THEN <<f, ThinkingOn[c]>> ELSE <<f, TRUE>>

Requested(c) == Optional \cup (IF Streams THEN Known ELSE {})

\* mutant: the cache also drops the explicit Off
KeptFieldsDroppingOff(c) == {f \in Requested(c) : <<f, TRUE>> \notin unsupported}
\* _drop_cached_unsupported_fields: an explicit Off is always sent
KeptFields(c) ==
    {f \in Requested(c) : \/ f = "thinking" /\ ~ThinkingOn[c]
                          \/ Capability(c, f) \notin unsupported}

-----------------------------------------------------------------------------
(* KeyPool.acquire and the loops over the keys *)

\* the places of the keys that are not evicted
Alive    == {i \in DOMAIN Keys : Keys[i] \notin dead}
\* alive[cursor % len(alive)]: as many live keys come before it
NextKey  == Keys[CHOOSE i \in Alive :
                    Cardinality({j \in Alive : j < i}) = cursor % Cardinality(Alive)]
Attempts == IF RotateKeys THEN Len(Keys) ELSE 1

\* log_send and begin_llm_request
OpenLog(c)  == logOpen' = [logOpen EXCEPT ![c] = @ + 1]
\* the log of a request that ends, with what was local to its fallbacks
CloseLog(c) == /\ logOpen' = [logOpen EXCEPT ![c] = @ - 1]
               /\ rejected' = [rejected EXCEPT ![c] = {}]

Send(c) ==
    /\ at[c] = "picking"
    /\ UNCHANGED <<pooled, unsupported, dead, retriesLeft, outcome, refusedKeys, tries, payload, rejected>>
    /\ IF pooled
       THEN /\ Alive # {}
            /\ key' = [key EXCEPT ![c] = NextKey]
            /\ cursor' = (cursor + 1) % Period
            /\ UNCHANGED attempt
       ELSE /\ key' = [key EXCEPT ![c] = Keys[(attempt[c] % Len(Keys)) + 1]]
            /\ attempt' = [attempt EXCEPT ![c] = @ + 1]
            /\ UNCHANGED cursor
    /\ OpenLog(c)
    /\ at' = [at EXCEPT ![c] = "sending"]

-----------------------------------------------------------------------------
(* retry_async *)

RetryBudget == [transport |-> TransportRetries,
           format    |-> IF FormatRetries < TransportRetries THEN FormatRetries
                         ELSE TransportRetries]

BeginCall(c) ==
    /\ at[c] = "idle"
    /\ retriesLeft' = [retriesLeft EXCEPT ![c] = RetryBudget]
    /\ tries' = [tries EXCEPT ![c] = 1]
    /\ payload' = [payload EXCEPT ![c] = KeptFields(c)]
    /\ attempt' = [attempt EXCEPT ![c] = 0]
    /\ at' = [at EXCEPT ![c] = "picking"]
    /\ outcome' = [outcome EXCEPT ![c] = "none"]
    /\ UNCHANGED <<pooled, cursor, dead, unsupported, key, rejected, logOpen, refusedKeys>>

\* is_transient_llm_error: the class a failure draws its retries from
RetryClass(code) ==
    CASE code = "drift" -> "format"
      [] code \in {"transport", "http_5xx"} -> "transport"
      [] OTHER -> "none"

Again(c) ==
    /\ tries' = [tries EXCEPT ![c] = @ + 1]
    /\ payload' = [payload EXCEPT ![c] = KeptFields(c)]
    /\ attempt' = [attempt EXCEPT ![c] = 0]
    /\ at' = [at EXCEPT ![c] = "picking"]
    /\ UNCHANGED <<key, outcome>>
Over(c, code) ==
    /\ at' = [at EXCEPT ![c] = "idle"]
    /\ key' = [key EXCEPT ![c] = NoKey]
    /\ outcome' = [outcome EXCEPT ![c] = code]
    /\ retriesLeft' = [retriesLeft EXCEPT ![c] = NoBudget]
    /\ payload' = [payload EXCEPT ![c] = {}]
    /\ attempt' = [attempt EXCEPT ![c] = 0]
    /\ tries' = [tries EXCEPT ![c] = 0]
\* mutant: a budget of zero still buys a retry
RetryableOnceMore(c, code) == RetryClass(code) \in {k \in DOMAIN retriesLeft[c] : retriesLeft[c][k] >= 0}
Retryable(c, code) == RetryClass(code) \in {k \in DOMAIN retriesLeft[c] : retriesLeft[c][k] > 0}

\* mutant: the format retries draw on the other budget
FinishDrawingTransport(c, code) ==
    \/ /\ Retryable(c, code) /\ tries[c] < 9
       /\ retriesLeft' = [retriesLeft EXCEPT ![c].transport = IF @ > 0 THEN @ - 1 ELSE 0]
       /\ Again(c)
    \/ ~Retryable(c, code) /\ Over(c, code)

\* mutant: a retry costs nothing
FinishForFree(c, code) ==
    \/ /\ Retryable(c, code)
       /\ UNCHANGED <<retriesLeft, tries, payload, key, outcome>>
       /\ attempt' = [attempt EXCEPT ![c] = 0]
       /\ at' = [at EXCEPT ![c] = "picking"]
    \/ ~Retryable(c, code) /\ Over(c, code)

\* operation() has returned or raised
Finish(c, code) ==
    \/ /\ Retryable(c, code)
       /\ retriesLeft' = [retriesLeft EXCEPT ![c][RetryClass(code)] = @ - 1]
       /\ Again(c)
    \/ ~Retryable(c, code) /\ Over(c, code)

NoKeyLeft(c) ==
    /\ at[c] = "picking" /\ pooled /\ Alive = {}
    /\ Finish(c, "all_keys_failed")
    /\ UNCHANGED <<pooled, cursor, dead, unsupported, rejected, logOpen, refusedKeys>>

-----------------------------------------------------------------------------
(* The answers *)

\* CancelledError at any await of the call
Cancel(c) ==
    /\ at[c] = "sending"
    /\ CloseLog(c) /\ Finish(c, "cancelled")
    /\ UNCHANGED <<pooled, cursor, dead, unsupported, refusedKeys>>

\* mutant: a transport error costs the pool its key
TransportErrorEvicting(c) ==
    /\ at[c] = "sending"
    /\ CloseLog(c)
    /\ dead' = IF pooled THEN dead \cup {key[c]} ELSE dead
    /\ Finish(c, "transport")
    /\ UNCHANGED <<pooled, cursor, unsupported, refusedKeys>>

\* the transport raises or the timeout strikes; the next key only without a pool
TransportError(c) ==
    /\ at[c] = "sending"
    /\ CloseLog(c)
    /\ IF ~pooled /\ attempt[c] < Attempts
       THEN /\ at' = [at EXCEPT ![c] = "picking"]
            /\ UNCHANGED <<retriesLeft, tries, payload, attempt, key, outcome>>
       ELSE Finish(c, "transport")
    /\ UNCHANGED <<pooled, cursor, dead, unsupported, refusedKeys>>

\* which fields _payload_rejection_fallback drops for an answer that names f
Drops(c, f) == IF f = "stream" THEN Known ELSE {f}

\* mutant: an unsupported Off is dropped like any other field
RejectedOffDropped(c, f) == FALSE
RejectedOff(c, f) == f = "thinking" /\ ~ThinkingOn[c]

\* 400 or 422 naming a field of the request: once more without it
FieldRejected(c, f) ==
    /\ at[c] = "sending" /\ f \in payload[c]
    /\ IF RejectedOff(c, f)
       THEN CloseLog(c) /\ Finish(c, "off_refused")
       ELSE /\ rejected' = [rejected EXCEPT ![c] =
                              @ \cup {Capability(c, g) : g \in Drops(c, f) \cap payload[c]}]
            /\ payload' = [payload EXCEPT ![c] = @ \ Drops(c, f)]
            /\ UNCHANGED <<at, attempt, key, retriesLeft, outcome, tries, logOpen>>
    /\ UNCHANGED <<pooled, cursor, dead, unsupported, refusedKeys>>

\* 401 or 403
KeyRefused(c) ==
    /\ at[c] = "sending"
    /\ CloseLog(c)
    /\ refusedKeys' = refusedKeys \cup {key[c]}
    /\ \/ /\ pooled
          /\ dead' = dead \cup {key[c]}
          /\ at' = [at EXCEPT ![c] = "picking"]
          /\ UNCHANGED <<retriesLeft, tries, payload, attempt, key, outcome>>
       \/ /\ ~pooled /\ RotateKeys /\ attempt[c] < Attempts
          /\ at' = [at EXCEPT ![c] = "picking"]
          /\ UNCHANGED <<dead, retriesLeft, tries, payload, attempt, key, outcome>>
       \/ /\ ~pooled /\ (~RotateKeys \/ attempt[c] = Attempts)
          /\ Finish(c, "http") /\ UNCHANGED dead
    /\ UNCHANGED <<pooled, cursor, unsupported>>

\* 429: with a pool always the next key, without a pause
RateLimited(c) ==
    /\ at[c] = "sending"
    /\ CloseLog(c)
    /\ IF pooled \/ (RotateKeys /\ attempt[c] < Attempts)
       THEN /\ at' = [at EXCEPT ![c] = "picking"]
            /\ UNCHANGED <<retriesLeft, tries, payload, attempt, key, outcome>>
       ELSE Finish(c, "http")
    /\ UNCHANGED <<pooled, cursor, dead, unsupported, refusedKeys>>

\* any other error status
HttpError(c) ==
    /\ at[c] = "sending"
    /\ CloseLog(c)
    /\ \E code \in {"http", "http_5xx"} : Finish(c, code)
    /\ UNCHANGED <<pooled, cursor, dead, unsupported, refusedKeys>>

\* mutant: the log of an answer the decoder rejects stays open
AcceptedUnlogged(c, code) ==
    /\ at[c] = "sending"
    /\ logOpen' = [logOpen EXCEPT ![c] = IF code = "malformed" THEN @ ELSE @ - 1]
    /\ rejected' = [rejected EXCEPT ![c] = {}]
    /\ unsupported' = unsupported \cup rejected[c]
    /\ Finish(c, code)
    /\ UNCHANGED <<pooled, cursor, dead, refusedKeys>>

\* a status below 400: the refused fields are remembered, then the body is
\* parsed and judged (_record_request_response) and the runner decodes it
Accepted(c, code) ==
    /\ at[c] = "sending"
    /\ CloseLog(c)
    /\ unsupported' = unsupported \cup rejected[c]
    /\ Finish(c, code)
    /\ UNCHANGED <<pooled, cursor, dead, refusedKeys>>

\* the answer reasons although thinking is off: nothing is remembered
OffIgnored(c) ==
    /\ at[c] = "sending" /\ ~ThinkingOn[c]
    /\ CloseLog(c) /\ Finish(c, "off_refused")
    /\ UNCHANGED <<pooled, cursor, dead, unsupported, refusedKeys>>

Answer(c) ==
    \/ TransportError(c) \/ KeyRefused(c) \/ RateLimited(c) \/ HttpError(c)
    \/ OffIgnored(c)
    \/ \E f \in Optional \cup Known : FieldRejected(c, f)
    \/ \E code \in {"ok", "malformed", "degenerate", "cut_off", "drift"} : Accepted(c, code)

Advance(c) == Send(c) \/ NoKeyLeft(c) \/ Answer(c)
ClientNext == \E c \in Calls : BeginCall(c) \/ Cancel(c) \/ Advance(c)
ClientSpec == ClientInit /\ [][ClientNext]_clientVars

\* every request is answered, fails or times out (wait_for in _execute_transport)
ClientFair == \A c \in Calls : WF_clientVars(Advance(c))

-----------------------------------------------------------------------------
\* A call that sends has a key of the profile, and the pool's counters are sane.
ClientTypeOK ==
    /\ cursor \in 0..(Period - 1) /\ dead \subseteq AllKeys
    /\ \A c \in Calls :
         /\ at[c] \in {"idle", "picking", "sending"}
         /\ at[c] = "sending" => key[c] \in AllKeys
         /\ payload[c] \subseteq Requested(c)
         /\ retriesLeft[c].transport \in Nat /\ retriesLeft[c].format \in Nat

\* Every request log is closed exactly once, whichever of the error paths the
\* call takes through both loops and the compatibility retries.
LogsSettle ==
    \A c \in Calls : logOpen[c] = IF at[c] = "sending" THEN 1 ELSE 0

\* With thinking off the explicit Off is in every request: neither a rejection
\* nor what another call has taught the client may drop it
\* (_apply_payload_compatibility_fallbacks, _drop_cached_unsupported_fields).
OffIsKept ==
    \A c \in Calls : at[c] = "sending" /\ ~ThinkingOn[c] /\ "thinking" \in Optional
                       => "thinking" \in payload[c]

\* A call reports that all keys have failed only when the provider has refused
\* every one of them, to this call or to another (mark_dead, acquire).
KeysFailTruthfully ==
    \A c \in Calls : outcome[c] = "all_keys_failed" => refusedKeys = AllKeys

\* retry_async sends one operation at most once more than its budgets allow.
TriesWithinBudget ==
    \A c \in Calls : tries[c] <= 1 + RetryBudget.transport + RetryBudget.format

\* Through rotation, fallbacks and retries of calls that share keys and memory:
\* the logs are closed, the Off is sent, the tries are bounded, all keys have failed if that is told.
CallsAreClean == ClientTypeOK /\ LogsSettle /\ OffIsKept /\ TriesWithinBudget /\ KeysFailTruthfully

\* A call ends unless the provider answers 429 for ever: the rotation, the
\* pool, the fallbacks and the retries are finite.
CallsEnd ==
    <>[][\A c \in Calls : ~RateLimited(c)]_clientVars
      => \A c \in Calls : at[c] # "idle" ~> at[c] = "idle"

\* A call ends although every key is rate limited: 429 draws on the retries of
\* the module like the other transport errors (retry.py).
RateLimitedCallsEnd == \A c \in Calls : at[c] # "idle" ~> at[c] = "idle"
=============================================================================
