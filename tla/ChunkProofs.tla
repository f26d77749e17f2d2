---------------------------- MODULE ChunkProofs ----------------------------
(* Proofs about modules ChunkRunner, LlmClient, ChatStream, AnswerDecoding *)
(* and SendLimits: one chunk of a translation, the calls it makes, the     *)
(* answer that streams in, what is taken from it, and the limits of the    *)
(* routes it is sent on, for every set of routes, profiles and workers.    *)
EXTENDS ChunkRunner, LlmClient, ChatStream, AnswerDecoding, SendLimits, ListLemmas, Integers,
        FiniteSetTheorems, TLAPS

-----------------------------------------------------------------------------
(* The answer that streams in. *)

\* what is put together follows what was sent: the finish reason is the last one heard, counts
\* are kept, and usage is estimated only when the stream is judged
Follows ==
    /\ pieces \in Nat
    /\ finish = heard.finish
    /\ heard \in [finish : Reasons \cup {"none"}, reasoned : BOOLEAN, counted : BOOLEAN]
    /\ streamAt \in {"opened", "reading"} =>
           /\ usage \in {"none", "blank", "counted"} /\ (usage = "counted" <=> heard.counted)
           /\ verdict = "none"

StreamInv == Follows /\ StreamIsHeard

LEMMA InitFollows ==
    ASSUME StreamInit PROVE StreamInv
BY DEF StreamInit, StreamInv, Follows, StreamIsHeard, CutOffIsReported, UsageIsCounted, Nothing, Reasons

LEMMA ReadFollows ==
    ASSUME StreamInv, ReadEvent PROVE StreamInv'
<1> USE DEF StreamInv
<1>1. /\ streamAt = "reading" /\ streamAt' = "reading" /\ verdict = "none" /\ verdict' = "none"
      /\ pieces' = pieces
  BY DEF ReadEvent, Follows
<1>2. StreamIsHeard'
  BY <1>1 DEF StreamIsHeard, CutOffIsReported, UsageIsCounted
<1>3. Follows'
  <2>1. CASE \E r \in Reasons \cup {"none"} : ReadFinish(r) /\ UNCHANGED <<usage, reasoned>>
    <3>1. PICK r \in Reasons \cup {"none"} : ReadFinish(r) /\ UNCHANGED <<usage, reasoned>>
      BY <2>1
    <3>2. heard' = [heard EXCEPT !.finish = IF r = "none" THEN heard.finish ELSE r]
      BY <3>1 DEF ReadFinish
    <3>3. /\ heard' \in [finish : Reasons \cup {"none"}, reasoned : BOOLEAN, counted : BOOLEAN]
          /\ heard'.finish = (IF r = "none" THEN heard.finish ELSE r)
          /\ heard'.counted = heard.counted
      BY <3>2 DEF Follows
    <3> QED BY <1>1, <3>1, <3>3 DEF Follows, ReadFinish
  <2>2. CASE \E u \in {"blank", "counted"} : ReadUsage(u) /\ UNCHANGED <<finish, reasoned>>
    <3>1. PICK u \in {"blank", "counted"} : ReadUsage(u) /\ UNCHANGED <<finish, reasoned>>
      BY <2>2
    <3>2. heard' = [heard EXCEPT !.counted = heard.counted \/ u = "counted"]
      BY <3>1 DEF ReadUsage
    <3>3. /\ heard' \in [finish : Reasons \cup {"none"}, reasoned : BOOLEAN, counted : BOOLEAN]
          /\ heard'.finish = heard.finish
          /\ heard'.counted = (heard.counted \/ u = "counted")
      BY <3>2 DEF Follows
    <3> QED BY <1>1, <3>1, <3>3 DEF Follows, ReadUsage
  <2>3. CASE heard' = [heard EXCEPT !.reasoned = TRUE] /\ UNCHANGED <<finish, usage>>
    <3>1. /\ heard' \in [finish : Reasons \cup {"none"}, reasoned : BOOLEAN, counted : BOOLEAN]
          /\ heard'.finish = heard.finish /\ heard'.counted = heard.counted
      BY <2>3 DEF Follows
    <3> QED BY <1>1, <2>3, <3>1 DEF Follows
  <2> QED BY <2>1, <2>2, <2>3 DEF ReadEvent
<1> QED BY <1>2, <1>3

LEMMA EndFollows ==
    ASSUME StreamInv, EndOfStream PROVE StreamInv'
<1> USE DEF StreamInv
<1>1. Follows'
  BY DEF EndOfStream, Follows
<1>2. CutOffIsReported'
  BY DEF EndOfStream, Follows, CutOffIsReported, Judge, Problem
<1>3. UsageIsCounted'
  BY DEF EndOfStream, Follows, UsageIsCounted, FinalUsage
<1> QED BY <1>1, <1>2, <1>3 DEF StreamIsHeard

LEMMA StepFollows ==
    ASSUME StreamInv, [StreamNext]_streamVars PROVE StreamInv'
<1> USE DEF StreamInv, StreamIsHeard
<1>1. CASE Open
  BY <1>1 DEF Open, Follows, CutOffIsReported, UsageIsCounted, Nothing, Reasons
<1>2. CASE Headers
  <2>1. UNCHANGED <<pieces, usage, finish, heard>> /\ streamAt' \in {"reading", "judged"}
    BY <1>2 DEF Headers
  <2> QED BY <1>2, <2>1 DEF Headers, Follows, CutOffIsReported, UsageIsCounted
<1>3. CASE ReadText
  <2>1. UNCHANGED <<finish, heard>> /\ pieces' = pieces + 1 /\ streamAt = "reading"
    BY <1>3 DEF ReadText
  <2>2. \/ streamAt' = "judged" /\ verdict' = "degenerate"
        \/ UNCHANGED <<streamAt, verdict, usage>>
    BY <1>3 DEF ReadText
  <2> QED BY <2>1, <2>2 DEF Follows, CutOffIsReported, UsageIsCounted
<1>4. CASE ReadEvent
  BY <1>4, ReadFollows
<1>5. CASE EndOfStream
  BY <1>5, EndFollows
<1>6. CASE Broken
  BY <1>6 DEF Broken, Follows, CutOffIsReported, UsageIsCounted
<1>7. CASE UNCHANGED streamVars
  BY <1>7 DEF streamVars, Follows, CutOffIsReported, UsageIsCounted
<1> QED BY <1>1, <1>2, <1>3, <1>4, <1>5, <1>6, <1>7 DEF StreamNext

\* Whatever events a provider sends in whatever order, an answer it cut off is never taken for a
\* complete one, and a non-empty answer is accounted for.
THEOREM StreamsAreHeard == StreamSpec => []StreamIsHeard
<1>1. StreamInit => StreamInv
  BY InitFollows
<1>2. StreamInv /\ [StreamNext]_streamVars => StreamInv'
  BY StepFollows
<1>3. StreamInv => StreamIsHeard
  BY DEF StreamInv
<1> QED BY <1>1, <1>2, <1>3, PTL DEF StreamSpec

-----------------------------------------------------------------------------
(* The calls of the client. *)

\* a finite set of numbers has, for each r below its size, a member with r before it
LEMMA NthExists ==
    ASSUME NEW A \in SUBSET Nat, IsFiniteSet(A), NEW r \in Nat, r < Cardinality(A)
    PROVE  \E i \in A : Cardinality({j \in A : j < i}) = r
<1> DEFINE Below(i) == {j \in A : j < i}
           T == {n \in Nat : n < Cardinality(A) => \E i \in A : Cardinality(Below(i)) = n}
<1>0. \A i : IsFiniteSet(Below(i)) /\ Cardinality(Below(i)) \in Nat
  <2>1. \A i : Below(i) \in SUBSET A
    OBVIOUS
  <2> QED BY <2>1, FS_Subset, FS_CardinalityType
<1>c. Cardinality(A) \in Nat
  BY FS_CardinalityType
<1>1. 0 \in T
  <2> SUFFICES ASSUME 0 < Cardinality(A) PROVE \E i \in A : Cardinality(Below(i)) = 0
    OBVIOUS
  <2>1. A # {}
    BY FS_EmptySet
  <2>2. PICK i \in A : \A m \in A : i <= m
    BY <2>1, LeastNat
  <2>3. \A j \in A : ~(j < i)
    BY <2>2
  <2>4. Below(i) = {}
    BY <2>3
  <2> QED BY <2>4, FS_EmptySet
<1>2. ASSUME NEW n \in T PROVE n + 1 \in T
  <2> SUFFICES ASSUME n + 1 < Cardinality(A) PROVE \E i \in A : Cardinality(Below(i)) = n + 1
    OBVIOUS
  <2>1. PICK i \in A : Cardinality(Below(i)) = n
    BY <1>c
  <2> DEFINE Above == {j \in A : i < j}
  <2>a. i \in Nat /\ i \notin Below(i)
    OBVIOUS
  <2>2. Cardinality(Below(i) \cup {i}) = n + 1
    <3> HIDE DEF Below
    <3> QED BY <1>0, <2>1, <2>a, FS_AddElement
  <2>3. Above # {}
    <3> SUFFICES ASSUME Above = {} PROVE FALSE
      OBVIOUS
    <3>a. \A j \in A : j < i \/ j = i
      BY <2>a
    <3>1. A = Below(i) \cup {i}
      BY <3>a
    <3> QED BY <3>1, <2>2, <1>c
  <2>4. PICK k \in Above : \A m \in Above : k <= m
    BY <2>3, LeastNat
  <2>b. k \in A /\ i < k
    BY <2>4
  <2>c. \A j \in A : j < k <=> j < i \/ j = i
    <3> TAKE j \in A
    <3>1. j \in Nat /\ k \in Nat /\ (i < j => k <= j)
      BY <2>4, <2>b
    <3> QED BY <2>a, <2>b, <3>1
  <2>5. Below(k) = Below(i) \cup {i}
    BY <2>c
  <2> QED BY <2>2, <2>4, <2>5
<1> HIDE DEF T
<1>3. T = Nat
  <2>1. T \in SUBSET Nat
    BY DEF T
  <2> QED BY <1>1, <1>2, <2>1, NatInductionBySet
<1> QED BY <1>3 DEF T

-----------------------------------------------------------------------------
\* what is true of a call wherever it is: its types, and the account of its tries
CallTypes ==
    /\ pooled \in BOOLEAN
    /\ at \in [Calls -> {"idle", "picking", "sending"}]
    /\ attempt \in [Calls -> Nat]
    /\ key \in [Calls -> AllKeys \cup {NoKey}]
    /\ payload = [c \in Calls |-> payload[c]]
    /\ logOpen \in [Calls -> Nat]
    /\ retriesLeft \in [Calls -> [transport : Nat, format : Nat]]
    /\ tries \in [Calls -> Nat]
    /\ outcome = [c \in Calls |-> outcome[c]]
KeysInv == dead \subseteq refusedKeys /\ refusedKeys \subseteq AllKeys /\ cursor \in 0..(Period - 1)
Account ==
    \A c \in Calls :
        IF at[c] = "idle" THEN tries[c] = 0
        ELSE tries[c] + retriesLeft[c].transport + retriesLeft[c].format
                 = 1 + RetryBudget.transport + RetryBudget.format
PayloadOK ==
    \A c \in Calls :
        /\ payload[c] \subseteq Requested(c)
        /\ at[c] # "idle" /\ ~ThinkingOn[c] /\ "thinking" \in Optional => "thinking" \in payload[c]
SendsWithKey == \A c \in Calls : at[c] = "sending" => key[c] \in AllKeys

ClientInv == /\ CallTypes /\ KeysInv /\ Account /\ PayloadOK /\ SendsWithKey /\ LogsSettle
             /\ KeysFailTruthfully

LEMMA BudgetType == RetryBudget \in [transport : Nat, format : Nat]
BY ClientAssumption DEF RetryBudget

LEMMA KeptFieldsOK ==
    ASSUME NEW c \in Calls
    PROVE  /\ KeptFields(c) \subseteq Requested(c)
           /\ ~ThinkingOn[c] /\ "thinking" \in Optional => "thinking" \in KeptFields(c)
BY ClientAssumption DEF KeptFields, Requested

\* operation() has returned or raised: another try or none, and only this call is touched
Through(c, code) ==
    /\ at' = [at EXCEPT ![c] = at'[c]] /\ at'[c] \in {"picking", "idle"}
    /\ attempt' \in [Calls -> Nat]
    /\ key' \in [Calls -> AllKeys \cup {NoKey}]
    /\ \A d \in Calls \ {c} : key'[d] = key[d]
    /\ retriesLeft' \in [Calls -> [transport : Nat, format : Nat]]
    /\ tries' \in [Calls -> Nat]
    /\ outcome' = [d \in Calls |-> outcome'[d]]
    /\ \A d \in Calls : outcome'[d] = outcome[d] \/ (d = c /\ outcome'[d] = code)
    /\ payload' = [d \in Calls |-> payload'[d]]
    /\ Account' /\ PayloadOK'

LEMMA FinishIsThrough ==
    ASSUME ClientInv, NEW c \in Calls, NEW code, at[c] # "idle", Finish(c, code)
    PROVE  Through(c, code)
<1> USE DEF ClientInv
<1>1. CASE Retryable(c, code) /\ retriesLeft' = [retriesLeft EXCEPT ![c][RetryClass(code)] = @ - 1]
           /\ Again(c)
  <2> DEFINE k == RetryClass(code)
  <2>1. k \in {"transport", "format", "none"}
    BY DEF RetryClass
  <2>2. DOMAIN retriesLeft[c] = {"transport", "format"}
    BY DEF CallTypes
  <2>3. k \in {"transport", "format"} /\ retriesLeft[c][k] \in Nat \ {0}
    BY <1>1, <2>2 DEF Retryable, CallTypes
  <2>4. retriesLeft' = [retriesLeft EXCEPT ![c] = [retriesLeft[c] EXCEPT ![k] = retriesLeft[c][k] - 1]]
    BY <1>1
  <2>5a. PICK b \in [transport : Nat, format : Nat] :
             b = [retriesLeft[c] EXCEPT ![k] = retriesLeft[c][k] - 1]
    <3>1. retriesLeft[c] \in [transport : Nat, format : Nat] /\ retriesLeft[c][k] - 1 \in Nat
      BY <2>3 DEF CallTypes
    <3>2. [retriesLeft[c] EXCEPT ![k] = retriesLeft[c][k] - 1] \in [transport : Nat, format : Nat]
      <4>1. CASE k = "transport"
        BY <3>1, <4>1
      <4>2. CASE k = "format"
        BY <3>1, <4>2
      <4> QED BY <2>3, <4>1, <4>2
    <3> QED BY <3>2
  <2>5b. b.transport + b.format = retriesLeft[c].transport + retriesLeft[c].format - 1
    <3>1. CASE k = "transport"
      BY <2>3, <2>5a, <3>1 DEF CallTypes
    <3>2. CASE k = "format"
      BY <2>3, <2>5a, <3>2 DEF CallTypes
    <3> QED BY <2>3, <3>1, <3>2
  <2>5c. retriesLeft' = [retriesLeft EXCEPT ![c] = b]
    BY <2>4, <2>5a
  <2>5. /\ retriesLeft' \in [Calls -> [transport : Nat, format : Nat]]
        /\ \A d \in Calls \ {c} : retriesLeft'[d] = retriesLeft[d]
        /\ retriesLeft'[c].transport + retriesLeft'[c].format
             = retriesLeft[c].transport + retriesLeft[c].format - 1
    BY <2>5b, <2>5c DEF CallTypes
  <2>6. tries' = [tries EXCEPT ![c] = tries[c] + 1] /\ at' = [at EXCEPT ![c] = "picking"]
    BY <1>1 DEF Again
  <2>7. Account'
    <3> SUFFICES ASSUME NEW d \in Calls, at'[d] # "idle"
                 PROVE  tries'[d] + retriesLeft'[d].transport + retriesLeft'[d].format
                            = 1 + RetryBudget.transport + RetryBudget.format
      BY <2>6, <1>1 DEF Account, CallTypes, RetryBudget, Again
    <3>1. /\ RetryBudget \in [transport : Nat, format : Nat]
          /\ retriesLeft[d] \in [transport : Nat, format : Nat] /\ tries[d] \in Nat
          /\ retriesLeft'[d] \in [transport : Nat, format : Nat]
      BY <2>5, BudgetType DEF CallTypes
    <3>2. CASE d = c
      <4>1. /\ tries'[d] = tries[d] + 1
            /\ tries[d] + retriesLeft[d].transport + retriesLeft[d].format
                 = 1 + RetryBudget.transport + RetryBudget.format
        BY <2>6, <3>2 DEF Account, CallTypes
      <4> HIDE DEF ClientInv
      <4> QED BY <2>5, <3>1, <3>2, <4>1
    <3>3. CASE d # c
      BY <2>5, <2>6, <3>3 DEF Account, CallTypes
    <3> QED BY <3>2, <3>3
  <2>8. payload' = [payload EXCEPT ![c] = KeptFields(c)]
    BY <1>1 DEF Again
  <2>9. PayloadOK'
    BY <2>6, <2>8, KeptFieldsOK DEF PayloadOK, CallTypes, Requested
  <2>a. /\ attempt' = [attempt EXCEPT ![c] = 0] /\ UNCHANGED <<key, outcome>>
    BY <1>1 DEF Again
  <2>b. /\ at' = [at EXCEPT ![c] = at'[c]] /\ at'[c] \in {"picking", "idle"}
        /\ attempt' \in [Calls -> Nat] /\ tries' \in [Calls -> Nat]
    BY <2>6, <2>a DEF CallTypes
  <2>c. payload' = [d \in Calls |-> payload'[d]]
    BY <2>8 DEF CallTypes
  <2>d. /\ outcome' = [d \in Calls |-> outcome'[d]]
        /\ \A d \in Calls : outcome'[d] = outcome[d] \/ (d = c /\ outcome'[d] = code)
    BY <2>a DEF CallTypes
  <2> QED BY <2>5, <2>7, <2>9, <2>a, <2>b, <2>c, <2>d DEF Through, CallTypes
<1>2. CASE Over(c, code)
  <2>1. /\ at' = [at EXCEPT ![c] = "idle"] /\ tries' = [tries EXCEPT ![c] = 0]
        /\ retriesLeft' = [retriesLeft EXCEPT ![c] = NoBudget] /\ payload' = [payload EXCEPT ![c] = {}]
    BY <1>2 DEF Over
  <2>2. NoBudget \in [transport : Nat, format : Nat]
    BY DEF NoBudget
  <2>3. Account'
    BY <2>1, <2>2 DEF Account, CallTypes, RetryBudget
  <2>4. PayloadOK'
    BY <2>1 DEF PayloadOK, CallTypes, Requested
  <2>a. /\ attempt' = [attempt EXCEPT ![c] = 0] /\ key' = [key EXCEPT ![c] = NoKey]
        /\ outcome' = [outcome EXCEPT ![c] = code]
    BY <1>2 DEF Over
  <2>b. /\ at' = [at EXCEPT ![c] = at'[c]] /\ at'[c] \in {"picking", "idle"}
        /\ attempt' \in [Calls -> Nat] /\ tries' \in [Calls -> Nat]
        /\ retriesLeft' \in [Calls -> [transport : Nat, format : Nat]]
    BY <2>1, <2>2, <2>a DEF CallTypes
  <2>c. payload' = [d \in Calls |-> payload'[d]]
    BY <2>1 DEF CallTypes
  <2>d. /\ outcome' = [d \in Calls |-> outcome'[d]]
        /\ \A d \in Calls : outcome'[d] = outcome[d] \/ (d = c /\ outcome'[d] = code)
    BY <2>a DEF CallTypes
  <2>e. /\ key' \in [Calls -> AllKeys \cup {NoKey}] /\ \A d \in Calls \ {c} : key'[d] = key[d]
    BY <2>a DEF CallTypes
  <2> QED BY <2>3, <2>4, <2>b, <2>c, <2>d, <2>e DEF Through
<1> QED BY <1>1, <1>2 DEF Finish

\* the next key: the same try goes on
LEMMA NextKeyIsThrough ==
    ASSUME ClientInv, NEW c \in Calls, NEW code, at[c] # "idle",
           at' = [at EXCEPT ![c] = "picking"],
           UNCHANGED <<retriesLeft, tries, payload, attempt, key, outcome>>
    PROVE  Through(c, code)
<1> USE DEF ClientInv
<1>1. Account'
  BY DEF Account, CallTypes, RetryBudget
<1>2. PayloadOK'
  BY DEF PayloadOK, CallTypes, Requested
<1>3. at' = [at EXCEPT ![c] = at'[c]] /\ at'[c] \in {"picking", "idle"}
  BY DEF CallTypes
<1> QED BY <1>1, <1>2, <1>3 DEF Through, CallTypes

\* the log is closed, whatever becomes of the call
LEMMA AfterThrough ==
    ASSUME ClientInv, NEW c \in Calls, NEW code, Through(c, code), KeysInv', UNCHANGED pooled,
           logOpen' = [logOpen EXCEPT ![c] = 0], refusedKeys \subseteq refusedKeys',
           code = "all_keys_failed" => refusedKeys' = AllKeys
    PROVE  ClientInv'
<1> USE DEF ClientInv
<1>1. /\ at' \in [Calls -> {"idle", "picking", "sending"}] /\ at'[c] # "sending"
      /\ \A d \in Calls \ {c} : at'[d] = at[d]
  BY DEF Through, CallTypes
<1>2. CallTypes'
  BY <1>1 DEF Through, CallTypes
<1>3. LogsSettle'
  BY <1>1 DEF LogsSettle, CallTypes
<1>4. SendsWithKey'
  BY <1>1 DEF SendsWithKey, Through
<1>5. KeysFailTruthfully'
  BY DEF KeysFailTruthfully, Through, KeysInv
<1> QED BY <1>2, <1>3, <1>4, <1>5 DEF Through

LEMMA LogCloses ==
    ASSUME ClientInv, NEW c \in Calls, at[c] = "sending", CloseLog(c)
    PROVE  logOpen' = [logOpen EXCEPT ![c] = 0]
<1>1. logOpen[c] = 1 /\ logOpen' = [logOpen EXCEPT ![c] = logOpen[c] - 1]
  BY DEF ClientInv, LogsSettle, CloseLog
<1> QED BY <1>1

LEMMA AliveIsFinite == Alive \in SUBSET Nat /\ IsFiniteSet(Alive)
<1>1. Alive \in SUBSET (1..Len(Keys)) /\ Len(Keys) \in Nat
  BY ClientAssumption DEF Alive
<1>2. IsFiniteSet(1..Len(Keys))
  BY <1>1, FS_Interval
<1>3. IsFiniteSet(Alive)
  BY <1>1, <1>2, FS_Subset
<1> QED BY <1>1, <1>3

\* acquire returns a key that is not evicted
LEMMA NextKeyIsAlive ==
    ASSUME KeysInv, Alive # {}
    PROVE  NextKey \in AllKeys \ dead
<1> DEFINE n == Cardinality(Alive)
<1>1. n \in Nat /\ n # 0
  BY AliveIsFinite, FS_CardinalityType, FS_EmptySet
<1>2. cursor \in Nat
  BY ClientAssumption DEF KeysInv
<1>3. cursor % n \in Nat /\ cursor % n < n
  <2> HIDE DEF n
  <2> QED BY <1>1, <1>2
<1>4. \E i \in Alive : Cardinality({j \in Alive : j < i}) = cursor % n
  BY <1>3, AliveIsFinite, NthExists
<1>5. PICK i \in Alive : NextKey = Keys[i]
  BY <1>4 DEF NextKey
<1> QED BY <1>5 DEF Alive, AllKeys, ToSet

LEMMA SendStep ==
    ASSUME ClientInv, NEW c \in Calls, Send(c)
    PROVE  ClientInv'
<1> USE DEF ClientInv
<1>1. /\ at[c] = "picking" /\ at' = [at EXCEPT ![c] = "sending"]
      /\ logOpen' = [logOpen EXCEPT ![c] = logOpen[c] + 1]
      /\ UNCHANGED <<pooled, dead, refusedKeys, retriesLeft, outcome, tries, payload>>
  BY DEF Send, OpenLog
<1>2. \E k \in AllKeys : key' = [key EXCEPT ![c] = k]
  <2>1. CASE pooled
    BY <2>1, NextKeyIsAlive DEF Send
  <2>2. CASE ~pooled
    <3> DEFINE i == (attempt[c] % Len(Keys)) + 1
    <3>1. attempt[c] \in Nat /\ Len(Keys) \in Nat \ {0} /\ DOMAIN Keys = 1..Len(Keys)
      BY ClientAssumption DEF CallTypes
    <3>2. i \in 1..Len(Keys)
      BY <3>1
    <3>3. key' = [key EXCEPT ![c] = Keys[i]]
      BY <2>2 DEF Send
    <3>4. Keys[i] \in AllKeys
      BY <3>1, <3>2 DEF AllKeys, ToSet
    <3> HIDE DEF i
    <3> QED BY <3>3, <3>4
  <2> QED BY <2>1, <2>2
<1>3. cursor' \in 0..(Period - 1) /\ attempt' \in [Calls -> Nat]
  <2>1. cursor \in Nat /\ Period \in Nat \ {0}
    BY ClientAssumption DEF KeysInv
  <2>2. (cursor + 1) % Period \in 0..(Period - 1)
    BY <2>1
  <2>3. cursor' \in {cursor, (cursor + 1) % Period}
    BY DEF Send
  <2>4. attempt' = attempt \/ attempt' = [attempt EXCEPT ![c] = attempt[c] + 1]
    BY DEF Send
  <2>5. attempt' \in [Calls -> Nat]
    BY <2>4 DEF CallTypes
  <2> QED BY <2>2, <2>3, <2>5 DEF KeysInv
<1>4. CallTypes'
  <2>1. key' \in [Calls -> AllKeys \cup {NoKey}]
    BY <1>2 DEF CallTypes
  <2>2. logOpen' \in [Calls -> Nat] /\ at' \in [Calls -> {"idle", "picking", "sending"}]
    BY <1>1 DEF CallTypes
  <2> QED BY <1>1, <1>3, <2>1, <2>2 DEF CallTypes
<1>5. KeysInv' /\ KeysFailTruthfully' /\ SendsWithKey' /\ LogsSettle'
  BY <1>1, <1>2, <1>3 DEF KeysInv, KeysFailTruthfully, SendsWithKey, LogsSettle, CallTypes
<1>6. Account' /\ PayloadOK'
  BY <1>1 DEF Account, PayloadOK, CallTypes, RetryBudget, Requested
<1> QED BY <1>4, <1>5, <1>6

LEMMA BeginStep ==
    ASSUME ClientInv, NEW c \in Calls, BeginCall(c)
    PROVE  ClientInv'
<1> USE DEF ClientInv
<1>1. /\ at[c] = "idle" /\ at' = [at EXCEPT ![c] = "picking"]
      /\ retriesLeft' = [retriesLeft EXCEPT ![c] = RetryBudget] /\ tries' = [tries EXCEPT ![c] = 1]
      /\ payload' = [payload EXCEPT ![c] = KeptFields(c)] /\ attempt' = [attempt EXCEPT ![c] = 0]
      /\ outcome' = [outcome EXCEPT ![c] = "none"]
      /\ UNCHANGED <<pooled, cursor, dead, key, logOpen, refusedKeys>>
  BY DEF BeginCall
<1>2. CallTypes'
  BY <1>1, BudgetType DEF CallTypes
<1>3. KeysInv' /\ KeysFailTruthfully' /\ SendsWithKey' /\ LogsSettle'
  BY <1>1 DEF KeysInv, KeysFailTruthfully, SendsWithKey, LogsSettle, CallTypes
<1>4. PayloadOK'
  BY <1>1, KeptFieldsOK DEF PayloadOK, CallTypes, Requested
<1>5. Account'
  <2> SUFFICES ASSUME NEW d \in Calls
               PROVE  IF at'[d] = "idle" THEN tries'[d] = 0
                      ELSE tries'[d] + retriesLeft'[d].transport + retriesLeft'[d].format
                               = 1 + RetryBudget.transport + RetryBudget.format
    BY DEF Account, RetryBudget
  <2>1. CASE d = c
    BY <1>1, <2>1, BudgetType DEF CallTypes
  <2>2. CASE d # c
    BY <1>1, <2>2 DEF CallTypes, Account
  <2> QED BY <2>1, <2>2
<1> QED BY <1>2, <1>3, <1>4, <1>5

LEMMA FieldRejectedStep ==
    ASSUME ClientInv, NEW c \in Calls, NEW f, FieldRejected(c, f)
    PROVE  ClientInv'
<1> USE DEF ClientInv
<1>1. at[c] = "sending" /\ UNCHANGED <<pooled, cursor, dead, refusedKeys>>
  BY DEF FieldRejected
<1>2. CASE RejectedOff(c, f)
  <2>1. Through(c, "off_refused") /\ logOpen' = [logOpen EXCEPT ![c] = 0]
    BY <1>1, <1>2, FinishIsThrough, LogCloses DEF FieldRejected
  <2> QED BY <1>1, <2>1, AfterThrough DEF KeysInv
<1>3. CASE ~RejectedOff(c, f)
  <2>1. /\ payload' = [payload EXCEPT ![c] = payload[c] \ Drops(c, f)]
        /\ UNCHANGED <<at, attempt, key, retriesLeft, outcome, tries, logOpen>>
    BY <1>3 DEF FieldRejected
  <2>2. ~ThinkingOn[c] => "thinking" \notin Drops(c, f)
    BY <1>3 DEF RejectedOff, Drops, Known
  <2>3. PayloadOK'
    BY <2>1, <2>2 DEF PayloadOK, CallTypes, Requested
  <2> QED BY <1>1, <2>1, <2>3 DEF CallTypes, KeysInv, KeysFailTruthfully, SendsWithKey, LogsSettle,
                                   Account, RetryBudget
<1> QED BY <1>2, <1>3

LEMMA KeyRefusedStep ==
    ASSUME ClientInv, NEW c \in Calls, KeyRefused(c)
    PROVE  ClientInv'
<1> USE DEF ClientInv
<1>1. /\ at[c] = "sending" /\ UNCHANGED <<pooled, cursor>>
      /\ refusedKeys' = refusedKeys \cup {key[c]} /\ CloseLog(c)
      /\ dead' \in {dead, dead \cup {key[c]}}
  BY DEF KeyRefused
<1>2. KeysInv'
  BY <1>1 DEF KeysInv, SendsWithKey
<1>3. Through(c, "http")
  <2>1. Finish(c, "http") \/ (/\ at' = [at EXCEPT ![c] = "picking"]
                              /\ UNCHANGED <<retriesLeft, tries, payload, attempt, key, outcome>>)
    BY DEF KeyRefused
  <2> QED BY <1>1, <2>1, FinishIsThrough, NextKeyIsThrough
<1> QED BY <1>1, <1>2, <1>3, LogCloses, AfterThrough

\* the answers that leave the keys as they are
LEMMA AnswerStep ==
    ASSUME ClientInv, NEW c \in Calls, Answer(c) \/ Cancel(c)
    PROVE  ClientInv'
<1> USE DEF ClientInv
<1>1. CASE KeyRefused(c)
  BY <1>1, KeyRefusedStep
<1>2. CASE \E f \in Optional \cup Known : FieldRejected(c, f)
  BY <1>2, FieldRejectedStep
<1>3. CASE \/ TransportError(c) \/ RateLimited(c) \/ HttpError(c) \/ OffIgnored(c) \/ Cancel(c)
           \/ \E code \in {"ok", "malformed", "degenerate", "cut_off", "drift"} : Accepted(c, code)
  <2>1. at[c] = "sending" /\ CloseLog(c) /\ UNCHANGED <<pooled, cursor, dead, refusedKeys>>
    BY <1>3 DEF TransportError, RateLimited, HttpError, OffIgnored, Cancel, Accepted
  <2> DEFINE Codes == {"transport", "http", "http_5xx", "off_refused", "cancelled",
                       "ok", "malformed", "degenerate", "cut_off", "drift"}
  <2>2. \/ \E code \in Codes : Finish(c, code)
        \/ /\ at' = [at EXCEPT ![c] = "picking"]
           /\ UNCHANGED <<retriesLeft, tries, payload, attempt, key, outcome>>
    BY <1>3 DEF TransportError, RateLimited, HttpError, OffIgnored, Cancel, Accepted
  <2>3. \E code \in Codes : Through(c, code)
    <3>1. CASE \E code \in Codes : Finish(c, code)
      BY <3>1, <2>1, FinishIsThrough
    <3>2. CASE /\ at' = [at EXCEPT ![c] = "picking"]
               /\ UNCHANGED <<retriesLeft, tries, payload, attempt, key, outcome>>
      BY <3>2, <2>1, NextKeyIsThrough
    <3> QED BY <2>2, <3>1, <3>2
  <2>4. KeysInv'
    BY <2>1 DEF KeysInv
  <2> QED BY <2>1, <2>3, <2>4, LogCloses, AfterThrough
<1> QED BY <1>1, <1>2, <1>3 DEF Answer

\* acquire has no key left: the provider has refused them all
LEMMA NoKeyLeftStep ==
    ASSUME ClientInv, NEW c \in Calls, NoKeyLeft(c)
    PROVE  ClientInv'
<1> USE DEF ClientInv
<1>1. /\ at[c] = "picking" /\ Alive = {} /\ Finish(c, "all_keys_failed")
      /\ UNCHANGED <<pooled, cursor, dead, logOpen, refusedKeys>>
  BY DEF NoKeyLeft
<1>2. AllKeys \subseteq dead
  BY <1>1 DEF Alive, AllKeys, ToSet
<1>3. refusedKeys' = AllKeys /\ KeysInv'
  BY <1>1, <1>2 DEF KeysInv
<1>4. logOpen' = [logOpen EXCEPT ![c] = 0]
  BY <1>1 DEF LogsSettle, CallTypes
<1> QED BY <1>1, <1>3, <1>4, FinishIsThrough, AfterThrough

LEMMA ClientInitInv ==
    ASSUME ClientInit
    PROVE  ClientInv
<1>1. CallTypes
  BY DEF ClientInit, CallTypes, NoBudget
<1>2. KeysInv
  BY ClientAssumption DEF ClientInit, KeysInv
<1> QED BY <1>1, <1>2 DEF ClientInit, ClientInv, Account, PayloadOK, SendsWithKey, LogsSettle,
                          KeysFailTruthfully

LEMMA ClientStep ==
    ASSUME ClientInv, [ClientNext]_clientVars
    PROVE  ClientInv'
<1>1. CASE UNCHANGED clientVars
  BY <1>1 DEF clientVars, ClientInv, CallTypes, KeysInv, Account, PayloadOK, SendsWithKey,
              LogsSettle, KeysFailTruthfully, RetryBudget, Requested
<1>2. ASSUME NEW c \in Calls, BeginCall(c) \/ Cancel(c) \/ Advance(c) PROVE ClientInv'
  BY <1>2, BeginStep, SendStep, NoKeyLeftStep, AnswerStep DEF Advance
<1> QED BY <1>1, <1>2 DEF ClientNext

LEMMA ClientInvHolds == ClientSpec => []ClientInv
BY ClientInitInv, ClientStep, PTL DEF ClientSpec

\* For every number of calls, keys and retries, with and without rotation: however the answers,
\* the fallbacks and the retries of the calls interleave, a request log is closed once, an explicit
\* Off is sent, a call is tried within its budget (_send_with_rotation, retry_async), and one that
\* reports that all keys have failed tells the truth, although the pool is shared and its cursor
\* was moved by other calls meanwhile (acquire, mark_dead).
THEOREM CallsStayClean == ClientSpec => []CallsAreClean
<1>1. ClientInv => CallsAreClean
  <2> SUFFICES ASSUME ClientInv PROVE CallsAreClean
    OBVIOUS
  <2> USE DEF ClientInv
  <2>1. ClientTypeOK
    BY DEF ClientTypeOK, CallTypes, KeysInv, SendsWithKey, PayloadOK
  <2>2. OffIsKept
    BY DEF OffIsKept, PayloadOK
  <2>3. TriesWithinBudget
    <3> SUFFICES ASSUME NEW c \in Calls
                 PROVE  tries[c] <= 1 + RetryBudget.transport + RetryBudget.format
      BY DEF TriesWithinBudget
    <3>1. /\ tries[c] \in Nat /\ retriesLeft[c] \in [transport : Nat, format : Nat]
          /\ RetryBudget \in [transport : Nat, format : Nat]
      BY BudgetType DEF CallTypes
    <3> QED BY <3>1 DEF Account
  <2>4. LogsSettle /\ KeysFailTruthfully
    OBVIOUS
  <2> QED BY <2>1, <2>2, <2>3, <2>4 DEF CallsAreClean
<1> QED BY <1>1, ClientInvHolds, PTL

-----------------------------------------------------------------------------
(* The retries of a chunk. *)

Texts == Read \cup {"none"}
\* the lines that go to the retries when a batch is judged
Retry == IF LowRetries > 0 THEN Doubted ELSE {}
Batched == UNION queue
StillWaiting == Batched \cup Leftover

ChunkTypes ==
    /\ stage \in {"batch", "judge", "rescue", "micro", "solo", "done"}
    /\ acc \in [Lines -> Texts] /\ cand \in [Lines -> Texts] /\ fin \in [Lines -> Texts]
    /\ reason = [l \in Lines |-> reason[l]]
    /\ pending \subseteq Lines /\ unsolved \subseteq Lines
    /\ Batched \subseteq Lines /\ Leftover \subseteq Lines
    /\ partials \in Nat /\ calls \in Nat /\ budget \in Nat /\ tryNo \in Nat /\ rescued \in BOOLEAN

Paid ==
    /\ stage = "batch" => calls + partials = Partials /\ ~rescued
    /\ stage = "judge" => calls <= Partials + 1 + (IF rescued THEN 1 ELSE 0)
    /\ stage = "rescue" => rescued /\ calls <= Partials + 1
    /\ stage \in {"batch", "judge", "rescue"} => budget = Budget(tryNo)
    /\ stage \in {"micro", "solo"} => calls + budget <= Partials + 2 + Budget(tryNo)
    /\ PaidCallsAreBounded

\* before the retries: what has been settled is what was judged, or was worse
Judging ==
    /\ stage \in {"batch", "judge", "rescue"} =>
          queue = {} /\ alone = {} /\ list = {} /\ unsolved = {}
    /\ stage = "batch" => fin = None
    /\ stage = "judge" => \A l \in Lines : fin[l] # "none" => LineRank(fin[l]) <= LineRank(Judged(l))
    /\ stage = "rescue" =>
          /\ \A l \in Lines : cand[l] = Judged(l)
          /\ \A l \in Lines : fin[l] = IF l \in Retry THEN "none" ELSE Judged(l)
          /\ flagged = Doubted \ Retry

\* in the retries: a line has its text, waits at one place, or is left unsolved
Retrying ==
    stage \in {"micro", "solo"} =>
        /\ \A l \in Lines : cand[l] # "none"
        /\ \A l \in Lines : fin[l] = "none" <=> l \in StillWaiting \cup unsolved
        /\ \A l \in Lines : Low(fin[l]) => LowRetries = 0 /\ l \in flagged
        /\ \A b, other \in queue : b # other => b \cap other = {}
        /\ Batched \cap (Leftover \cup unsolved) = {} /\ Leftover \cap unsolved = {}
        /\ (stage = "solo" => queue = {})

ChunkInv == ChunkTypes /\ Paid /\ Judging /\ Retrying /\ DoubtIsFlagged /\ EchoIsRecoverable

LEMMA BudgetIsNat == \A a : Budget(a) \in Nat
<1>0. LowRetries * CallsPerRetry \in Nat
  BY ChunkAssumption
<1>1. \A n \in Nat : Min({n, 1}) \in Nat
  <2> TAKE n \in Nat
  <2>1. \E x \in {n, 1} : \A y \in {n, 1} : x <= y
    OBVIOUS
  <2> QED BY <2>1 DEF Min
<1> QED BY <1>0, <1>1 DEF Budget

LEMMA AnswersAre ==
    ASSUME NEW S, NEW t \in Answers(S)
    PROVE  DOMAIN t \subseteq S /\ \A l \in DOMAIN t : t[l] \in Read
BY DEF Answers

LEMMA Ranks ==
    \A t \in Texts : /\ LineRank(t) \in 0..3 /\ (LineRank(t) = 0 <=> t = "none")
                     /\ (t # "none" /\ ~Low(t) => LineRank(t) = 3)
BY DEF Texts, Read, LineRank, Low

LEMMA ChunkInitInv ==
    ASSUME ChunkInit PROVE ChunkInv
<1>1. stage = "batch" /\ acc = None /\ cand = None /\ fin = None /\ reason = None /\ queue = {}
      /\ alone = {} /\ list = {} /\ unsolved = {} /\ pending = Lines /\ partials = Partials
      /\ calls = 0 /\ budget = Budget(1) /\ tryNo = 1 /\ rescued = FALSE
  BY DEF ChunkInit
<1>2. ChunkTypes
  BY <1>1, BudgetIsNat, ChunkAssumption DEF ChunkTypes, None, Texts, Leftover, Batched
<1>3. Paid
  <2>1. Budget(1) \in Nat /\ Partials \in Nat
    BY BudgetIsNat, ChunkAssumption
  <2> QED BY <1>1, <2>1 DEF Paid, PaidCallsAreBounded
<1> QED BY <1>1, <1>2, <1>3 DEF ChunkInv, Judging, Retrying, DoubtIsFlagged, EchoIsRecoverable, HasResult


LEMMA SoloLineWaits ==
    ASSUME ChunkTypes, Leftover # {}
    PROVE  SoloLine \in Leftover
<1>1. \A S \in SUBSET Nat : S # {} => Min(S) \in S
  BY LeastNat DEF Min
<1>2. alone \in SUBSET Nat /\ list \in SUBSET Nat
  BY ChunkAssumption DEF ChunkTypes, Leftover, Batched
<1> QED BY <1>1, <1>2 DEF SoloLine, Leftover, Batched

\* a chunk that ends without a result
LEMMA FailStep ==
    ASSUME ChunkInv, NEW why, Fail(why), why \notin {"completed", "mismatch"},
           stage \in {"batch", "rescue", "micro", "solo"}, calls' = calls + 1,
           stage \in {"micro", "solo"} => budget > 0
    PROVE  ChunkInv'
<1> USE DEF ChunkInv
<1>1. /\ stage' = "done" /\ chunkOutcome' = why
      /\ UNCHANGED <<tryNo, rescued, batchVars, lineVars, workVars, resultVars>>
  BY DEF Fail
<1>2. ChunkTypes'
  BY <1>1 DEF ChunkTypes, batchVars, lineVars, workVars, Leftover, Batched
<1>3. Paid'
  <2>1. Budget(tryNo) \in Nat /\ Partials \in Nat
    BY BudgetIsNat, ChunkAssumption
  <2>2. calls' <= 1 + Partials + 1 + Budget(tryNo)
    BY <2>1 DEF Paid, ChunkTypes
  <2> QED BY <1>1, <2>2 DEF Paid, PaidCallsAreBounded
<1> QED BY <1>1, <1>2, <1>3 DEF Judging, Retrying, DoubtIsFlagged, EchoIsRecoverable, HasResult

LEMMA BatchStep ==
    ASSUME ChunkInv, Batch
    PROVE  ChunkInv'
<1> USE DEF ChunkInv
<1>1. PICK t \in Answers(pending) : IF StillOpen(t) # {} /\ partials = 0 THEN FallBack(t) ELSE AskAgain(t)
  BY DEF Batch
<1>2. /\ stage = "batch" /\ calls' = calls + 1
      /\ UNCHANGED <<tryNo, rescued, chunkOutcome, cand, fin, soloed, unsolved, workVars, resultVars>>
  BY DEF Batch
<1>3. /\ stage' \in {"batch", "judge"} /\ partials' \in Nat
      /\ stage' = "batch" => partials' = partials - 1
      /\ stage' = "judge" => partials' = partials
  <2>1. CASE FallBack(t)
    BY <2>1 DEF FallBack, ChunkTypes
  <2>2. CASE AskAgain(t) /\ ~(StillOpen(t) # {} /\ partials = 0)
    BY <1>2, <2>2 DEF AskAgain, ChunkTypes
  <2> QED BY <1>1, <2>1, <2>2
<1>4. DOMAIN t \subseteq pending /\ \A l \in DOMAIN t : t[l] \in Read
  BY AnswersAre
<1>5. LineMerged(t) \in [Lines -> Texts]
  BY <1>4 DEF LineMerged, ChunkTypes, Texts
<1>6. StillOpen(t) \subseteq Lines
  <2>1. Missing(t) \subseteq Lines
    BY DEF Missing, ChunkTypes
  <2>2. Suspicious(t) \subseteq Lines
    BY DEF Suspicious, Drift
  <2> QED BY <2>1, <2>2 DEF StillOpen
<1>7. acc' \in [Lines -> Texts] /\ pending' \subseteq Lines /\ reason' = [l \in Lines |-> reason'[l]]
  BY <1>1, <1>5, <1>6 DEF FallBack, AskAgain, Texts, Read, ChunkTypes
<1>8. ChunkTypes'
  BY <1>2, <1>3, <1>7 DEF ChunkTypes, workVars, Leftover, Batched
<1>9. Paid'
  <2>1. Budget(tryNo) \in Nat /\ Partials \in Nat
    BY BudgetIsNat, ChunkAssumption
  <2>2. budget' = Budget(tryNo') /\ rescued' = FALSE
    BY <1>2 DEF Paid, workVars, ChunkTypes
  <2>3. calls' <= Partials + 1 /\ (stage' = "batch" => calls' + partials' = Partials)
    BY <1>2, <1>3, <2>1 DEF Paid, ChunkTypes
  <2> QED BY <1>2, <1>3, <1>8, <2>1, <2>2, <2>3 DEF Paid, PaidCallsAreBounded, ChunkTypes
<1>10. Judging'
  BY <1>2, <1>3 DEF Judging, workVars, None
<1> QED BY <1>2, <1>3, <1>8, <1>9, <1>10 DEF Retrying, DoubtIsFlagged, EchoIsRecoverable, HasResult

LEMMA BatchTransientStep ==
    ASSUME ChunkInv, BatchTransient
    PROVE  ChunkInv'
<1> USE DEF ChunkInv
<1>1. /\ stage = "batch" /\ stage' = "judge" /\ calls' = calls + 1 /\ pending' = {}
      /\ reason' = [l \in Lines |-> IF l \in pending THEN "partial" ELSE reason[l]]
      /\ UNCHANGED <<tryNo, rescued, chunkOutcome, acc, partials, asked, cand, fin, soloed,
                     unsolved, workVars, resultVars>>
  BY DEF BatchTransient
<1>2. ChunkTypes'
  BY <1>1 DEF ChunkTypes, workVars, Leftover, Batched
<1>3. Paid'
  <2>1. Budget(tryNo) \in Nat /\ Partials \in Nat
    BY BudgetIsNat, ChunkAssumption
  <2>2. calls' <= Partials + 1 /\ budget' = Budget(tryNo') /\ rescued' = FALSE
    BY <1>1, <2>1 DEF Paid, ChunkTypes, workVars
  <2> QED BY <1>1, <1>2, <2>1, <2>2 DEF Paid, PaidCallsAreBounded, ChunkTypes
<1>4. Judging'
  BY <1>1 DEF Judging, workVars, None
<1> QED BY <1>1, <1>2, <1>3, <1>4 DEF Retrying, DoubtIsFlagged, EchoIsRecoverable, HasResult

\* the batches are parts of the lines to retry, and no line is in two
LEMMA RetriesSplit ==
    ASSUME NEW S \in SUBSET Lines, ToRetries(S), list = {}
    PROVE  /\ stage' = "micro" /\ StillWaiting' = S /\ Batched' \cap Leftover' = {}
           /\ Batched' \subseteq Lines /\ Leftover' \subseteq Lines
           /\ \A b, other \in queue' : b # other => b \cap other = {}
<1>1. PICK cuts \in SUBSET S :
          /\ queue' = {b \in Batches(S, cuts) : Cardinality(b) >= MicroMin}
          /\ alone' = S \ Batched'
  BY DEF ToRetries, Batched
<1>2. stage' = "micro" /\ list' = {}
  BY DEF ToRetries
<1>3. Batched' \subseteq S
  BY <1>1 DEF Batches, Batched
<1>4. ASSUME NEW b \in queue', NEW other \in queue', NEW k \in b \cap other
      PROVE  b = other
  <2>1. PICK l \in S : b = {i \in S : SameBatch(cuts, l, i)}
    BY <1>1 DEF Batches
  <2>2. PICK m \in S : other = {i \in S : SameBatch(cuts, m, i)}
    BY <1>1 DEF Batches
  <2>3. \A i \in S : SameBatch(cuts, l, i) <=> SameBatch(cuts, m, i)
    <3>1. SameBatch(cuts, l, k) /\ SameBatch(cuts, m, k)
      BY <2>1, <2>2, <1>4
    <3> QED BY <3>1 DEF SameBatch
  <2> QED BY <2>1, <2>2, <2>3
<1>5. StillWaiting' = S /\ Batched' \cap Leftover' = {} /\ Leftover' \subseteq Lines
  BY <1>1, <1>2, <1>3 DEF StillWaiting, Leftover, Batched
<1>6. \A b, other \in queue' : b # other => b \cap other = {}
  BY <1>4
<1> HIDE DEF Leftover, StillWaiting
<1> QED BY <1>2, <1>3, <1>5, <1>6

\* the judged lines go to their retries
LEMMA Retries ==
    ASSUME ChunkInv, ToRetries(Retry), list = {}, UNCHANGED <<unsolved, acc, tryNo, partials, pending, rescued>>,
           unsolved = {}, budget' = Budget(tryNo), calls' \in Nat, calls' <= Partials + 2,
           reason' = [l \in Lines |-> reason'[l]],
           \A l \in Lines : cand'[l] = Judged(l), cand' \in [Lines -> Texts],
           fin' = [l \in Lines |-> IF l \in Retry THEN "none" ELSE Judged(l)],
           flagged' = Doubted \ Retry
    PROVE  ChunkInv'
<1> USE DEF ChunkInv
<1>1. Retry \in SUBSET Lines
  BY DEF Retry, Doubted
<1>2. /\ stage' = "micro" /\ StillWaiting' = Retry /\ Batched' \cap Leftover' = {}
      /\ Batched' \subseteq Lines /\ Leftover' \subseteq Lines
      /\ \A b, other \in queue' : b # other => b \cap other = {}
  BY <1>1, RetriesSplit
<1>3. \A l \in Lines : Judged(l) \in Read
  BY DEF Judged, ChunkTypes, Texts, Read
<1>4. Budget(tryNo) \in Nat /\ Partials \in Nat
  BY BudgetIsNat, ChunkAssumption
<1>5. ChunkTypes'
  BY <1>2, <1>3, <1>4 DEF ChunkTypes, Texts
<1>6. Paid'
  BY <1>2, <1>4 DEF Paid, PaidCallsAreBounded
<1>7. Retrying'
  <2>1. \A l \in Lines : cand'[l] # "none"
    BY <1>3 DEF Read
  <2>2. \A l \in Lines : fin'[l] = "none" <=> l \in (StillWaiting \cup unsolved)'
    BY <1>2, <1>3 DEF Read
  <2>3. ASSUME NEW l \in Lines, Low(fin'[l]) PROVE LowRetries = 0 /\ l \in flagged'
    <3>1. l \notin Retry /\ Low(Judged(l))
      BY <2>3 DEF Low
    <3>2. l \in Doubted
      BY <3>1 DEF Doubted
    <3> QED BY <3>1, <3>2, ChunkAssumption DEF Retry
  <2> QED BY <1>2, <2>1, <2>2, <2>3 DEF Retrying, Low
<1> QED BY <1>2, <1>5, <1>6, <1>7 DEF Judging, DoubtIsFlagged, EchoIsRecoverable, HasResult

LEMMA JudgeLinesStep ==
    ASSUME ChunkInv, JudgeLines
    PROVE  ChunkInv'
<1> USE DEF ChunkInv
<1>1. /\ stage = "judge" /\ cand' = [l \in Lines |-> Judged(l)]
      /\ fin' = [l \in Lines |-> IF l \in Retry THEN "none" ELSE Judged(l)]
      /\ flagged' = Doubted \ Retry
      /\ UNCHANGED <<tryNo, calls, chunkOutcome, acc, pending, partials, asked, soloed, unsolved,
                     round, budget, recoverable, accepted>>
  BY DEF JudgeLines, Retry, batchVars
<1>2. queue = {} /\ alone = {} /\ list = {} /\ unsolved = {}
  BY <1>1 DEF Judging
<1>3. \A l \in Lines : Judged(l) \in Read
  BY DEF Judged, ChunkTypes, Texts, Read
<1>4. cand' \in [Lines -> Texts] /\ fin' \in [Lines -> Texts]
  BY <1>1, <1>3 DEF Texts
<1>5. Budget(tryNo) \in Nat /\ Partials \in Nat
  BY BudgetIsNat, ChunkAssumption
<1>6. CASE IsMass(EchoLines) /\ ~rescued
  <2>1. stage' = "rescue" /\ rescued' = TRUE /\ UNCHANGED <<reason, queue, alone, list>>
    BY <1>6 DEF JudgeLines
  <2>2. ChunkTypes'
    BY <1>1, <1>4, <2>1 DEF ChunkTypes, Leftover, Batched
  <2>3. calls <= Partials + 1 /\ budget = Budget(tryNo)
    BY <1>1, <1>5, <1>6 DEF Paid, ChunkTypes
  <2>4. Paid'
    BY <1>1, <1>5, <2>1, <2>2, <2>3 DEF Paid, PaidCallsAreBounded, ChunkTypes
  <2>5. Retry' = Retry /\ Doubted' = Doubted /\ \A l \in Lines : Judged(l)' = Judged(l)
    BY <1>1, <2>1 DEF Retry, Doubted, Judged
  <2>6. Judging'
    BY <1>1, <1>2, <2>1, <2>5 DEF Judging
  <2> QED BY <2>1, <2>2, <2>4, <2>6 DEF Retrying, DoubtIsFlagged, EchoIsRecoverable, HasResult
<1>7. CASE ~(IsMass(EchoLines) /\ ~rescued)
  <2>1. ToRetries(Retry) /\ UNCHANGED rescued
    BY <1>7 DEF JudgeLines, Retry
  <2>2. reason' = [l \in Lines |-> reason'[l]]
    BY <1>7 DEF JudgeLines, Excuse, ChunkTypes
  <2>3. calls' \in Nat /\ calls' <= Partials + 2 /\ budget' = Budget(tryNo)
    BY <1>1, <1>5 DEF Paid, ChunkTypes
  <2> QED BY <1>1, <1>2, <1>4, <2>1, <2>2, <2>3, Retries
<1> QED BY <1>6, <1>7

LEMMA RescueStep ==
    ASSUME ChunkInv, Rescue
    PROVE  ChunkInv'
<1> USE DEF ChunkInv
<1>1. stage = "rescue" /\ calls' = calls + 1
  BY DEF Rescue
<1>2. PICK t \in Answers(EchoLines) :
          IF \E l \in DOMAIN t : acc[l] = "none"
          THEN Fail("no text to compare with")
          ELSE /\ acc' = [l \in Lines |-> IF Better(t, l) THEN t[l] ELSE acc[l]]
               /\ reason' = [l \in Lines |-> IF Better(t, l) THEN "none" ELSE reason[l]]
               /\ stage' = "judge"
               /\ UNCHANGED <<tryNo, rescued, chunkOutcome, pending, partials, asked, cand,
                              fin, soloed, unsolved, workVars, resultVars>>
  BY DEF Rescue
<1>3. CASE \E l \in DOMAIN t : acc[l] = "none"
  BY <1>1, <1>2, <1>3, FailStep
<1>4. CASE ~\E l \in DOMAIN t : acc[l] = "none"
  <2>1. /\ acc' = [l \in Lines |-> IF Better(t, l) THEN t[l] ELSE acc[l]]
        /\ reason' = [l \in Lines |-> IF Better(t, l) THEN "none" ELSE reason[l]]
        /\ stage' = "judge"
        /\ UNCHANGED <<tryNo, rescued, chunkOutcome, pending, partials, asked, cand,
                       fin, soloed, unsolved, workVars, resultVars>>
    BY <1>2, <1>4
  <2>2. DOMAIN t \subseteq EchoLines /\ \A l \in DOMAIN t : t[l] \in Read
    BY AnswersAre
  <2>3. acc' \in [Lines -> Texts]
    BY <2>1, <2>2 DEF Better, ChunkTypes, Texts
  <2>4. ChunkTypes'
    BY <1>1, <2>1, <2>3 DEF ChunkTypes, workVars, Leftover, Batched
  <2>5. Paid'
    <3>1. Budget(tryNo) \in Nat /\ Partials \in Nat
      BY BudgetIsNat, ChunkAssumption
    <3>2. calls' <= Partials + 2 /\ budget' = Budget(tryNo') /\ rescued'
      BY <1>1, <2>1, <3>1 DEF Paid, ChunkTypes, workVars
    <3> QED BY <2>1, <2>4, <3>1, <3>2 DEF Paid, PaidCallsAreBounded, ChunkTypes
  <2>6. ASSUME NEW l \in Lines, fin'[l] # "none"
        PROVE  LineRank(fin'[l]) <= LineRank(Judged(l)')
    <3>1. fin'[l] = Judged(l)
      BY <1>1, <2>1, <2>6 DEF Judging
    <3>2. acc[l] \in Texts /\ acc'[l] \in Texts
      BY <2>3 DEF ChunkTypes
    <3>3. CASE Better(t, l)
      <4>1. acc'[l] = t[l] /\ LineRank(t[l]) > LineRank(acc[l]) /\ l \in DOMAIN t /\ acc[l] # "none"
        BY <1>4, <2>1, <3>3 DEF Better
      <4>2. Judged(l) = acc[l] /\ Judged(l)' = t[l] /\ t[l] \in Texts
        BY <2>2, <4>1 DEF Judged, Read, Texts
      <4> QED BY <3>1, <3>2, <4>1, <4>2, Ranks
    <3>4. CASE ~Better(t, l)
      <4>1. Judged(l)' = Judged(l) /\ Judged(l) \in Texts
        BY <2>1, <3>2, <3>4 DEF Judged, Texts, Read
      <4> QED BY <3>1, <4>1, Ranks
    <3> QED BY <3>3, <3>4
  <2>7. Judging'
    BY <1>1, <2>1, <2>6 DEF Judging, workVars
  <2> QED BY <2>1, <2>4, <2>5, <2>7 DEF Retrying, DoubtIsFlagged, EchoIsRecoverable, HasResult
<1> QED BY <1>3, <1>4

LEMMA RescueTransientStep ==
    ASSUME ChunkInv, RescueTransient
    PROVE  ChunkInv'
<1> USE DEF ChunkInv
<1>1. /\ stage = "rescue" /\ calls' = calls + 1 /\ reason' = Excuse(EchoLines, "mass")
      /\ ToRetries(Retry)
      /\ UNCHANGED <<tryNo, rescued, chunkOutcome, acc, pending, partials, asked, cand, fin, soloed,
                     unsolved, round, budget, resultVars>>
  BY DEF RescueTransient, Retry, batchVars
<1>2. /\ queue = {} /\ alone = {} /\ list = {} /\ unsolved = {} /\ flagged = Doubted \ Retry
      /\ \A l \in Lines : cand[l] = Judged(l)
      /\ \A l \in Lines : fin[l] = IF l \in Retry THEN "none" ELSE Judged(l)
  BY <1>1 DEF Judging
<1>3. fin' = [l \in Lines |-> IF l \in Retry THEN "none" ELSE Judged(l)] /\ cand' \in [Lines -> Texts]
  BY <1>1, <1>2 DEF ChunkTypes
<1>4. reason' = [l \in Lines |-> reason'[l]]
  BY <1>1 DEF Excuse
<1>5. calls' \in Nat /\ calls' <= Partials + 2 /\ budget' = Budget(tryNo)
  <2>1. Budget(tryNo) \in Nat /\ Partials \in Nat
    BY BudgetIsNat, ChunkAssumption
  <2> QED BY <1>1, <2>1 DEF Paid, ChunkTypes
<1> QED BY <1>1, <1>2, <1>3, <1>4, <1>5, Retries DEF resultVars

\* the texts a retry brings: what passes is settled, the better candidate is kept
LEMMA TakeKeeps ==
    ASSUME ChunkTypes, NEW S, NEW t \in Answers(S), Take(t)
    PROVE  /\ fin' \in [Lines -> Texts] /\ cand' \in [Lines -> Texts]
           /\ \A l \in Lines : fin'[l] = IF l \in DOMAIN t /\ ~Low(t[l]) THEN t[l] ELSE fin[l]
           /\ \A l \in Lines : LineRank(cand'[l]) >= LineRank(cand[l])
           /\ \A l \in Lines : cand[l] # "none" => cand'[l] # "none"
           /\ DOMAIN t \subseteq S /\ \A l \in DOMAIN t : t[l] \in Read
<1>1. DOMAIN t \subseteq S /\ \A l \in DOMAIN t : t[l] \in Read
  BY AnswersAre
<1>2. fin' \in [Lines -> Texts] /\ cand' \in [Lines -> Texts]
  BY <1>1 DEF Take, ChunkTypes, Texts
<1>3. \A l \in Lines : fin'[l] = IF l \in DOMAIN t /\ ~Low(t[l]) THEN t[l] ELSE fin[l]
  BY DEF Take
<1>4. ASSUME NEW l \in Lines PROVE LineRank(cand'[l]) >= LineRank(cand[l])
  <2>1. cand'[l] = IF l \in DOMAIN t /\ LineRank(t[l]) > LineRank(cand[l]) THEN t[l] ELSE cand[l]
    BY DEF Take
  <2>2. LineRank(cand[l]) \in 0..3 /\ (l \in DOMAIN t => LineRank(t[l]) \in 0..3)
    BY <1>1, Ranks DEF ChunkTypes, Texts
  <2>3. CASE l \in DOMAIN t /\ LineRank(t[l]) > LineRank(cand[l])
    BY <2>1, <2>2, <2>3
  <2>4. CASE ~(l \in DOMAIN t /\ LineRank(t[l]) > LineRank(cand[l]))
    BY <2>1, <2>2, <2>4
  <2> QED BY <2>3, <2>4
<1>5. \A l \in Lines : cand[l] # "none" => cand'[l] # "none"
  BY <1>1 DEF Take, Read
<1> QED BY <1>1, <1>2, <1>3, <1>4, <1>5

LEMMA SettledIsNone ==
    ASSUME NEW x \in Read, ~Low(x)
    PROVE  x # "none"
BY DEF Read

\* a call of the retries is paid from the budget
LEMMA RetryPaid ==
    ASSUME ChunkInv, stage \in {"micro", "solo"}, stage' \in {"micro", "solo"}, UNCHANGED tryNo,
           \/ budget > 0 /\ budget' = budget - 1 /\ calls' = calls + 1
           \/ budget' = budget /\ calls' = calls
    PROVE  Paid' /\ budget' \in Nat /\ calls' \in Nat
<1>1. Budget(tryNo) \in Nat /\ Partials \in Nat /\ budget \in Nat /\ calls \in Nat
  BY BudgetIsNat, ChunkAssumption DEF ChunkInv, ChunkTypes
<1>2. budget' \in Nat /\ calls' \in Nat /\ calls' + budget' <= Partials + 2 + Budget(tryNo)
  BY <1>1 DEF ChunkInv, Paid
<1>3. calls' <= 1 + Partials + 1 + Budget(tryNo)
  BY <1>1, <1>2
<1> QED BY <1>1, <1>2, <1>3 DEF Paid, PaidCallsAreBounded

LEMMA MicroStep ==
    ASSUME ChunkInv, Micro
    PROVE  ChunkInv'
<1> USE DEF ChunkInv
<1>0. PICK batch \in queue : \E t \in Answers(batch) :
          /\ SendBatch(batch) /\ Take(t)
          /\ reason' = [l \in Lines |-> IF l \in DOMAIN t /\ LineRank(t[l]) > LineRank(cand[l])
                                        THEN "none" ELSE reason[l]]
          /\ list' = list \cup {l \in batch : l \notin DOMAIN t \/ Low(t[l])}
  BY DEF Micro
<1>1. PICK t \in Answers(batch) :
          /\ SendBatch(batch) /\ Take(t)
          /\ reason' = [l \in Lines |-> IF l \in DOMAIN t /\ LineRank(t[l]) > LineRank(cand[l])
                                        THEN "none" ELSE reason[l]]
          /\ list' = list \cup {l \in batch : l \notin DOMAIN t \/ Low(t[l])}
  BY <1>0
<1>2. /\ stage = "micro" /\ budget > 0 /\ budget' = budget - 1 /\ calls' = calls + 1
      /\ queue' = queue \ {batch}
      /\ UNCHANGED <<stage, tryNo, rescued, chunkOutcome, acc, pending, partials, asked, alone,
                     unsolved, round, flagged, recoverable, accepted>>
  BY <1>1 DEF SendBatch, Micro, batchVars, resultVars
<1>3. /\ fin' \in [Lines -> Texts] /\ cand' \in [Lines -> Texts]
      /\ \A l \in Lines : fin'[l] = IF l \in DOMAIN t /\ ~Low(t[l]) THEN t[l] ELSE fin[l]
      /\ \A l \in Lines : cand[l] # "none" => cand'[l] # "none"
      /\ DOMAIN t \subseteq batch /\ \A l \in DOMAIN t : t[l] \in Read
  BY <1>1, TakeKeeps
<1>4. /\ batch \subseteq Lines /\ Batched \subseteq Lines /\ Leftover \subseteq Lines
      /\ \A other \in queue : other # batch => other \cap batch = {}
      /\ Batched \cap (Leftover \cup unsolved) = {} /\ Leftover \cap unsolved = {}
      /\ batch \cap (Leftover \cup unsolved) = {}
  BY <1>2 DEF ChunkTypes, Retrying, Batched
<1>5. Paid' /\ budget' \in Nat /\ calls' \in Nat
  BY <1>2, RetryPaid
<1>6. /\ Batched' = Batched \ batch
      /\ Leftover' = Leftover \cup {l \in batch : l \notin DOMAIN t \/ Low(t[l])}
  BY <1>1, <1>2, <1>4 DEF Leftover, Batched
<1>7. ChunkTypes'
  BY <1>1, <1>2, <1>3, <1>4, <1>5, <1>6 DEF ChunkTypes
<1>8. Retrying'
  <2>1. \A l \in Lines : fin[l] = "none" <=> l \in StillWaiting \cup unsolved
    BY <1>2 DEF Retrying
  <2>2. ASSUME NEW l \in Lines PROVE fin'[l] = "none" <=> l \in StillWaiting' \cup unsolved'
    <3>1. CASE l \in batch
      <4>1. fin[l] = "none"
        BY <2>1, <3>1 DEF StillWaiting, Batched
      <4>2. fin'[l] = "none" <=> l \notin DOMAIN t \/ Low(t[l])
        BY <1>3, <4>1 DEF Read
      <4> QED BY <1>2, <1>4, <1>6, <3>1, <4>2 DEF StillWaiting, Batched
    <3>2. CASE l \notin batch
      <4>1. fin'[l] = fin[l]
        BY <1>3, <3>2
      <4>2. l \in StillWaiting' <=> l \in StillWaiting
        BY <1>6, <3>2 DEF StillWaiting, Batched
      <4> QED BY <1>2, <2>1, <4>1, <4>2
    <3> QED BY <3>1, <3>2
  <2>3. \A l \in Lines : Low(fin'[l]) => LowRetries = 0 /\ l \in flagged'
    BY <1>2, <1>3 DEF Retrying
  <2>4. /\ \A b, other \in queue' : b # other => b \cap other = {}
        /\ Batched' \cap (Leftover' \cup unsolved') = {} /\ Leftover' \cap unsolved' = {}
    BY <1>2, <1>4, <1>6 DEF Retrying
  <2> QED BY <1>2, <1>3, <2>2, <2>3, <2>4 DEF Retrying, Low
<1> QED BY <1>2, <1>5, <1>7, <1>8 DEF Judging, DoubtIsFlagged, EchoIsRecoverable, HasResult

LEMMA MicroTransientStep ==
    ASSUME ChunkInv, MicroTransient
    PROVE  ChunkInv'
<1> USE DEF ChunkInv
<1>1. PICK batch \in queue : SendBatch(batch) /\ list' = list \cup batch
  BY DEF MicroTransient
<1>2. /\ stage = "micro" /\ budget > 0 /\ budget' = budget - 1 /\ calls' = calls + 1
      /\ queue' = queue \ {batch}
      /\ UNCHANGED <<stage, tryNo, rescued, chunkOutcome, acc, pending, partials, asked, reason, cand,
                     fin, alone, unsolved, round, flagged, recoverable, accepted>>
  BY <1>1 DEF SendBatch, MicroTransient, batchVars, resultVars
<1>4. /\ batch \subseteq Lines /\ Batched \subseteq Lines /\ Leftover \subseteq Lines
      /\ \A other \in queue : other # batch => other \cap batch = {}
      /\ Batched \cap (Leftover \cup unsolved) = {} /\ Leftover \cap unsolved = {}
      /\ batch \cap (Leftover \cup unsolved) = {}
  BY <1>2 DEF ChunkTypes, Retrying, Batched
<1>5. Paid' /\ budget' \in Nat /\ calls' \in Nat
  BY <1>2, RetryPaid
<1>6. Batched' = Batched \ batch /\ Leftover' = Leftover \cup batch
  BY <1>1, <1>2, <1>4 DEF Leftover, Batched
<1>7. ChunkTypes'
  BY <1>2, <1>4, <1>5, <1>6 DEF ChunkTypes
<1>8. StillWaiting' = StillWaiting
  BY <1>6 DEF StillWaiting, Batched
<1>9. Retrying'
  <2>1. /\ \A b, other \in queue' : b # other => b \cap other = {}
        /\ Batched' \cap (Leftover' \cup unsolved') = {} /\ Leftover' \cap unsolved' = {}
    BY <1>2, <1>4, <1>6 DEF Retrying
  <2> QED BY <1>2, <1>8, <2>1 DEF Retrying, Low
<1> QED BY <1>2, <1>5, <1>7, <1>9 DEF Judging, DoubtIsFlagged, EchoIsRecoverable, HasResult

LEMMA MicroOverStep ==
    ASSUME ChunkInv, MicroOver
    PROVE  ChunkInv'
<1> USE DEF ChunkInv
<1>1. /\ stage = "micro" /\ stage' = "solo" /\ queue' = {} /\ list' = list \cup Batched
      /\ UNCHANGED <<tryNo, rescued, calls, chunkOutcome, acc, pending, partials, asked, reason, cand,
                     fin, soloed, unsolved, alone, round, budget, flagged, recoverable, accepted>>
  BY DEF MicroOver, Batched, batchVars, lineVars, resultVars
<1>2. Leftover' = Leftover \cup Batched
  BY <1>1 DEF Leftover, Batched
<1>3. StillWaiting' = StillWaiting /\ Batched' = {}
  BY <1>1, <1>2 DEF StillWaiting, Batched
<1>4. ChunkTypes'
  BY <1>1, <1>2, <1>3 DEF ChunkTypes
<1>5. Paid'
  BY <1>1, RetryPaid
<1>6. Retrying'
  BY <1>1, <1>2, <1>3 DEF Retrying, Low
<1> QED BY <1>1, <1>4, <1>5, <1>6 DEF Judging, DoubtIsFlagged, EchoIsRecoverable, HasResult

\* a line leaves the solo retries unsolved
LEMMA LineIsLeft ==
    ASSUME ChunkInv, stage = "solo", Leftover # {}, LeaveLine,
           UNCHANGED <<stage, tryNo, rescued, chunkOutcome, batchVars, reason, cand, fin, queue, resultVars>>,
           \/ budget > 0 /\ budget' = budget - 1 /\ calls' = calls + 1
           \/ budget' = budget /\ calls' = calls
    PROVE  ChunkInv'
<1> USE DEF ChunkInv
<1>1. SoloLine \in Leftover
  BY SoloLineWaits
<1>2. Leftover' = Leftover \ {SoloLine} /\ unsolved' = unsolved \cup {SoloLine} /\ Batched' = Batched
  BY DEF LeaveLine, Dequeue, Leftover, Batched
<1>3. Paid' /\ budget' \in Nat /\ calls' \in Nat
  BY RetryPaid
<1>4. Leftover \subseteq Lines
  BY DEF ChunkTypes
<1>5. ChunkTypes'
  BY <1>1, <1>2, <1>3, <1>4 DEF ChunkTypes, batchVars
<1>6. (StillWaiting \cup unsolved)' = StillWaiting \cup unsolved
  BY <1>1, <1>2 DEF StillWaiting
<1>7. Retrying'
  BY <1>1, <1>2, <1>6 DEF Retrying, Low, resultVars
<1> QED BY <1>3, <1>5, <1>7 DEF Judging, DoubtIsFlagged, EchoIsRecoverable, HasResult

LEMMA SoloLeftSteps ==
    ASSUME ChunkInv, SoloTransient \/ SoloOver
    PROVE  ChunkInv'
BY LineIsLeft DEF SoloTransient, SoloOver, SoloReady, lineVars

LEMMA SoloStep ==
    ASSUME ChunkInv, Solo
    PROVE  ChunkInv'
<1> USE DEF ChunkInv
<1> DEFINE l == SoloLine
<1>1. /\ stage = "solo" /\ Leftover # {} /\ budget > 0 /\ budget' = budget - 1 /\ calls' = calls + 1
      /\ UNCHANGED <<stage, tryNo, rescued, chunkOutcome, acc, pending, partials, asked, queue,
                     flagged, recoverable, accepted>>
  BY DEF Solo, SoloReady, batchVars, resultVars
<1>2. PICK t \in Answers({l}), same \in BOOLEAN :
          /\ Take(t)
          /\ reason' = IF same \/ (l \in DOMAIN t /\ LineRank(t[l]) > LineRank(cand[l]))
                       THEN [reason EXCEPT ![l] = "none"] ELSE reason
          /\ IF l \in DOMAIN t /\ (same \/ ~Low(t[l]))
             THEN /\ Dequeue(l)
                  /\ unsolved' = IF same /\ Low(t[l]) THEN unsolved \cup {l} ELSE unsolved
             ELSE /\ round' = round + 1 /\ UNCHANGED <<alone, list, unsolved>>
  BY DEF Solo
<1>3. /\ fin' \in [Lines -> Texts] /\ cand' \in [Lines -> Texts]
      /\ \A k \in Lines : fin'[k] = IF k \in DOMAIN t /\ ~Low(t[k]) THEN t[k] ELSE fin[k]
      /\ \A k \in Lines : cand[k] # "none" => cand'[k] # "none"
      /\ DOMAIN t \subseteq {l} /\ \A k \in DOMAIN t : t[k] \in Read
  BY <1>2, TakeKeeps
<1>4. l \in Leftover /\ l \in Lines
  BY <1>1, SoloLineWaits DEF ChunkTypes
<1>5. Paid' /\ budget' \in Nat /\ calls' \in Nat
  BY <1>1, RetryPaid
<1>6. Batched' = Batched
  BY <1>1 DEF Batched
<1> HIDE DEF l
<1>7. /\ fin[l] = "none" /\ l \notin unsolved /\ l \notin Batched
      /\ \A k \in Lines : fin[k] = "none" <=> k \in StillWaiting \cup unsolved
  BY <1>1, <1>4 DEF Retrying, StillWaiting
<1>8. \/ /\ l \in DOMAIN t /\ ~Low(t[l]) /\ Leftover' = Leftover \ {l} /\ unsolved' = unsolved
      \/ /\ ~(l \in DOMAIN t /\ ~Low(t[l])) /\ Leftover' = Leftover \ {l} /\ unsolved' = unsolved \cup {l}
      \/ /\ ~(l \in DOMAIN t /\ ~Low(t[l])) /\ Leftover' = Leftover /\ unsolved' = unsolved
  BY <1>2 DEF Dequeue, Leftover
<1>9. reason' = [k \in Lines |-> reason'[k]]
  BY <1>2 DEF ChunkTypes
<1>10. ChunkTypes'
  BY <1>1, <1>3, <1>4, <1>5, <1>6, <1>8, <1>9 DEF ChunkTypes
<1>11. ASSUME NEW k \in Lines PROVE fin'[k] = "none" <=> k \in StillWaiting' \cup unsolved'
  <2>1. CASE k # l
    <3>1. fin'[k] = fin[k]
      BY <1>3, <2>1
    <3> QED BY <1>6, <1>7, <1>8, <2>1, <3>1 DEF StillWaiting
  <2>2. CASE k = l
    <3>1. fin'[l] = "none" <=> ~(l \in DOMAIN t /\ ~Low(t[l]))
      BY <1>3, <1>4, <1>7 DEF Read
    <3> QED BY <1>4, <1>6, <1>7, <1>8, <2>2, <3>1 DEF StillWaiting
  <2> QED BY <2>1, <2>2
<1>12. \A k \in Lines : Low(fin'[k]) => LowRetries = 0 /\ k \in flagged'
  BY <1>1, <1>3 DEF Retrying
<1>13. Batched' \cap (Leftover' \cup unsolved') = {} /\ Leftover' \cap unsolved' = {}
  BY <1>1, <1>6, <1>7, <1>8 DEF Retrying
<1>14. Retrying'
  BY <1>1, <1>3, <1>11, <1>12, <1>13 DEF Retrying, Low
<1> QED BY <1>1, <1>5, <1>10, <1>14 DEF Judging, DoubtIsFlagged, EchoIsRecoverable, HasResult

LEMMA FinishStep ==
    ASSUME ChunkInv, FinishChunk
    PROVE  ChunkInv'
<1> USE DEF ChunkInv
<1>1. /\ stage = "solo" /\ Leftover = {} /\ stage' = "done" /\ fin' = LineTexts
      /\ flagged' = flagged \cup unsolved \cup Terminal \cup Repeated
      /\ recoverable' = Recoverable
      /\ accepted' = IF CountFails THEN Lines \ Recoverable ELSE {}
      /\ UNCHANGED <<tryNo, rescued, calls, acc, pending, partials, asked, reason, cand, unsolved,
                     queue, alone, list, budget>>
  BY DEF FinishChunk, batchVars, workVars
<1>2. /\ \A l \in Lines : cand[l] # "none"
      /\ \A l \in Lines : fin[l] = "none" <=> l \in unsolved
      /\ \A l \in Lines : Low(fin[l]) => LowRetries = 0 /\ l \in flagged
  BY <1>1 DEF Retrying, StillWaiting, Batched
<1>3. \A l \in Lines : fin'[l] = (IF l \in unsolved THEN cand[l] ELSE fin[l])
  BY <1>1 DEF LineTexts, Settled
<1>4. fin' \in [Lines -> Texts]
  <2>1. fin' = [l \in Lines |-> IF l \in unsolved THEN cand[l] ELSE fin[l]]
    BY <1>1 DEF LineTexts, Settled
  <2> QED BY <2>1 DEF ChunkTypes
<1>5. ChunkTypes'
  BY <1>1, <1>4 DEF ChunkTypes, Leftover, Batched
<1>6. Paid'
  BY <1>1 DEF Paid, PaidCallsAreBounded
<1>7. \A l \in Lines : fin'[l] # "none" /\ (Low(fin'[l]) => l \in flagged')
  BY <1>1, <1>2, <1>3
<1>8. ASSUME Drift(fin') # {} PROVE Drift(fin') \cap flagged' # {}
  <2>1. Repeated # {} /\ Repeated \subseteq Drift(LineTexts)
    BY <1>1, <1>8 DEF Repeated
  <2> QED BY <1>1, <2>1
<1>9. DoubtIsFlagged'
  BY <1>7, <1>8 DEF DoubtIsFlagged, Low, Drift
<1>10. ASSUME LowRetries > 0, NEW l \in Lines, fin'[l] = "echo" PROVE l \in recoverable' \ accepted'
  <2>1. LowRetries # 0
    BY <1>10
  <2>2. l \in unsolved /\ cand[l] = "echo"
    BY <1>2, <1>3, <1>10, <2>1 DEF Low
  <2> QED BY <1>1, <2>2 DEF Recoverable
<1>11. EchoIsRecoverable'
  BY <1>10 DEF EchoIsRecoverable
<1> QED BY <1>1, <1>5, <1>6, <1>9, <1>11 DEF Judging, Retrying

LEMMA NextChunkStep ==
    ASSUME ChunkInv, NextChunk
    PROVE  ChunkInv'
<1>1. stage' = "batch" /\ acc' = None /\ cand' = None /\ fin' = None /\ reason' = None /\ queue' = {}
      /\ alone' = {} /\ list' = {} /\ unsolved' = {} /\ pending' = Lines /\ partials' = Partials
      /\ calls' = 0 /\ budget' = Budget(tryNo') /\ tryNo' \in 1..2 /\ rescued' = FALSE
  BY DEF NextChunk
<1>2. ChunkTypes'
  <2>1. tryNo' \in Nat /\ budget' \in Nat /\ partials' \in Nat
    BY <1>1, BudgetIsNat, ChunkAssumption
  <2>2. None \in [Lines -> Texts] /\ None = [l \in Lines |-> None[l]]
    BY DEF None, Texts
  <2>3. Batched' = {} /\ Leftover' = {}
    BY <1>1 DEF Batched, Leftover
  <2> QED BY <1>1, <2>1, <2>2, <2>3 DEF ChunkTypes
<1>3. Paid'
  <2>1. Budget(tryNo') \in Nat /\ Partials \in Nat
    BY BudgetIsNat, ChunkAssumption
  <2> QED BY <1>1, <2>1 DEF Paid, PaidCallsAreBounded
<1> QED BY <1>1, <1>2, <1>3 DEF ChunkInv, Judging, Retrying, DoubtIsFlagged, EchoIsRecoverable, HasResult, None

LEMMA CallFailsStep ==
    ASSUME ChunkInv, CallFails
    PROVE  ChunkInv'
BY FailStep DEF CallFails

LEMMA ChunkStep ==
    ASSUME ChunkInv, [ChunkNext]_chunkVars
    PROVE  ChunkInv'
<1>1. CASE UNCHANGED chunkVars
  BY <1>1 DEF chunkVars, batchVars, lineVars, workVars, resultVars, ChunkInv, ChunkTypes, Paid, Judging,
              Retrying, DoubtIsFlagged, EchoIsRecoverable, HasResult, PaidCallsAreBounded, Leftover, Batched,
              StillWaiting, Judged, Retry, Doubted
<1>2. CASE ChunkNext
  BY <1>2, BatchStep, BatchTransientStep, CallFailsStep, JudgeLinesStep, RescueStep, RescueTransientStep,
     MicroStep, MicroTransientStep, MicroOverStep, SoloStep, SoloLeftSteps, FinishStep, NextChunkStep
     DEF ChunkNext
<1> QED BY <1>1, <1>2

LEMMA ChunkInvHolds == ChunkSpec => []ChunkInv
BY ChunkInitInv, ChunkStep, PTL DEF ChunkSpec

\* For every chunk, kind of doubt and budget of retries: a result has a text for every line and marks
\* each one that is still doubtful, and one of those that share a text, a line left as its own source
\* can be recovered, and the chunk pays for no more calls than its retries allow
\* (_translate_chunk, _retry_low_confidence_micro_batches).
THEOREM DoubtIsAlwaysMarked == ChunkSpec => []DoubtIsMarked
<1>1. ChunkInv => DoubtIsMarked
  BY DEF ChunkInv, Paid, DoubtIsMarked
<1> QED BY <1>1, ChunkInvHolds, PTL

-----------------------------------------------------------------------------
\* the text of a line is not exchanged for a worse one
LineKept == \A l \in Lines : LineRank(Best(l)') >= LineRank(Best(l))

LEMMA BestType ==
    ASSUME ChunkInv, NEW l \in Lines
    PROVE  Best(l) \in Texts /\ LineRank(Best(l)) \in 0..3
<1>1. Best(l) \in Texts
  BY DEF Best, ChunkInv, ChunkTypes, Judged, Texts, Read
<1> QED BY <1>1, Ranks

LEMMA SameBest ==
    ASSUME ChunkInv, UNCHANGED <<fin, cand, acc>>,
           \/ stage \in {"micro", "solo", "done"} /\ stage' \in {"micro", "solo", "done"}
           \/ stage = "rescue" /\ stage' \in {"micro", "done"}
    PROVE  LineKept
<1> SUFFICES ASSUME NEW l \in Lines PROVE LineRank(Best(l)') >= LineRank(Best(l))
  BY DEF LineKept
<1>1. Best(l)' = Best(l)
  BY DEF Best, ChunkInv, Judging, Judged
<1> QED BY <1>1, BestType

LEMMA TakeIsKept ==
    ASSUME ChunkInv, NEW S, NEW t \in Answers(S), Take(t), UNCHANGED <<stage, acc>>, stage \in {"micro", "solo"},
           \A l \in S : fin[l] = "none"
    PROVE  LineKept
<1> SUFFICES ASSUME NEW l \in Lines PROVE LineRank(Best(l)') >= LineRank(Best(l))
  BY DEF LineKept
<1>1. /\ fin'[l] = IF l \in DOMAIN t /\ ~Low(t[l]) THEN t[l] ELSE fin[l]
      /\ LineRank(cand'[l]) >= LineRank(cand[l])
      /\ DOMAIN t \subseteq S /\ \A k \in DOMAIN t : t[k] \in Read
  BY TakeKeeps DEF ChunkInv
<1>2. CASE l \in DOMAIN t /\ ~Low(t[l])
  <2>1. Best(l)' = t[l] /\ LineRank(t[l]) = 3
    BY <1>1, <1>2, Ranks DEF Best, Texts, Read
  <2> QED BY <2>1, BestType
<1>3. CASE ~(l \in DOMAIN t /\ ~Low(t[l]))
  <2>1. fin'[l] = fin[l]
    BY <1>1, <1>3
  <2>2. Best(l) = (IF fin[l] # "none" THEN fin[l] ELSE cand[l])
    BY DEF Best
  <2>3. Best(l)' = (IF fin[l] # "none" THEN fin[l] ELSE cand'[l])
    BY <2>1 DEF Best
  <2> QED BY <1>1, <2>2, <2>3, BestType
<1> QED BY <1>2, <1>3

LEMMA JudgeIsKept ==
    ASSUME ChunkInv, JudgeLines
    PROVE  LineKept
<1> SUFFICES ASSUME NEW l \in Lines PROVE LineRank(Best(l)') >= LineRank(Best(l))
  BY DEF LineKept
<1>1. /\ stage = "judge" /\ stage' \in {"rescue", "micro"} /\ acc' = acc
      /\ cand' = [k \in Lines |-> Judged(k)]
      /\ fin' = [k \in Lines |-> IF k \in Retry THEN "none" ELSE Judged(k)]
  BY DEF JudgeLines, Retry, ToRetries, batchVars
<1>2. Judged(l)' = Judged(l) /\ Judged(l) \in Texts /\ Judged(l) # "none"
  BY <1>1 DEF Judged, ChunkInv, ChunkTypes, Texts, Read
<1>3. Best(l)' = Judged(l)
  BY <1>1, <1>2 DEF Best
<1>4. Best(l) = (IF fin[l] # "none" THEN fin[l] ELSE Judged(l))
  BY <1>1 DEF Best
<1>5. fin[l] # "none" => LineRank(fin[l]) <= LineRank(Judged(l))
  BY <1>1 DEF ChunkInv, Judging
<1>6. LineRank(Judged(l)) \in 0..3
  BY <1>2, Ranks
<1> QED BY <1>3, <1>4, <1>5, <1>6, BestType

LEMMA RescueIsKept ==
    ASSUME ChunkInv, Rescue
    PROVE  LineKept
<1>1. stage = "rescue"
  BY DEF Rescue
<1>2. PICK t \in Answers(EchoLines) :
          IF \E l \in DOMAIN t : acc[l] = "none"
          THEN Fail("no text to compare with")
          ELSE /\ acc' = [l \in Lines |-> IF Better(t, l) THEN t[l] ELSE acc[l]]
               /\ stage' = "judge" /\ UNCHANGED <<cand, fin>>
  BY DEF Rescue
<1>3. CASE \E l \in DOMAIN t : acc[l] = "none"
  BY <1>1, <1>2, <1>3, SameBest DEF Fail, batchVars, lineVars
<1>4. CASE ~\E l \in DOMAIN t : acc[l] = "none"
  <2>1. /\ acc' = [l \in Lines |-> IF Better(t, l) THEN t[l] ELSE acc[l]]
        /\ stage' = "judge" /\ UNCHANGED <<cand, fin>>
    BY <1>2, <1>4
  <2> SUFFICES ASSUME NEW l \in Lines PROVE LineRank(Best(l)') >= LineRank(Best(l))
    BY DEF LineKept
  <2>2. /\ Best(l) = (IF fin[l] # "none" THEN fin[l] ELSE Judged(l))
        /\ Best(l)' = (IF fin[l] # "none" THEN fin[l] ELSE Judged(l)')
    BY <1>1, <2>1 DEF Best, Judged
  <2>3. CASE ~Better(t, l)
    <3>1. Judged(l)' = Judged(l)
      BY <2>1, <2>3 DEF Judged
    <3> QED BY <2>2, <3>1, BestType
  <2>4. CASE Better(t, l)
    <3>1. acc'[l] = t[l] /\ LineRank(t[l]) > LineRank(acc[l]) /\ l \in DOMAIN t /\ acc[l] # "none"
      BY <1>4, <2>1, <2>4 DEF Better
    <3>2. t[l] \in Read
      BY <3>1, AnswersAre
    <3>3. Judged(l) = acc[l] /\ Judged(l)' = t[l] /\ acc[l] \in Texts /\ t[l] \in Texts
      BY <3>1, <3>2 DEF Judged, Read, ChunkInv, ChunkTypes, Texts
    <3> QED BY <2>2, <3>1, <3>3, Ranks, BestType
  <2> QED BY <2>3, <2>4
<1> QED BY <1>3, <1>4

LEMMA FinishIsKept ==
    ASSUME ChunkInv, FinishChunk
    PROVE  LineKept
<1> SUFFICES ASSUME NEW l \in Lines PROVE LineRank(Best(l)') >= LineRank(Best(l))
  BY DEF LineKept
<1>1. /\ stage = "solo" /\ stage' = "done" /\ UNCHANGED cand
      /\ fin'[l] = (IF l \in unsolved THEN cand[l] ELSE fin[l])
  BY DEF FinishChunk, LineTexts, Settled
<1>2. cand[l] # "none" /\ (fin[l] = "none" <=> l \in StillWaiting \cup unsolved)
  BY <1>1 DEF ChunkInv, Retrying
<1>3. Best(l)' = Best(l)
  BY <1>1, <1>2 DEF Best
<1> QED BY <1>3, BestType

LEMMA SoloIsKept ==
    ASSUME ChunkInv, Solo
    PROVE  LineKept
<1>1. stage = "solo" /\ Leftover # {} /\ UNCHANGED <<stage, acc>>
  BY DEF Solo, SoloReady, batchVars
<1>2. PICK t \in Answers({SoloLine}) : Take(t)
  BY DEF Solo
<1>3. SoloLine \in Leftover /\ SoloLine \in Lines
  BY <1>1, SoloLineWaits DEF ChunkInv, ChunkTypes
<1>4. fin[SoloLine] = "none"
  BY <1>1, <1>3 DEF ChunkInv, Retrying, StillWaiting
<1> QED BY <1>1, <1>2, <1>4, TakeIsKept

LEMMA MicroIsKept ==
    ASSUME ChunkInv, Micro
    PROVE  LineKept
<1>1. PICK batch \in queue : \E t \in Answers(batch) : SendBatch(batch) /\ Take(t)
  BY DEF Micro
<1>2. stage = "micro" /\ UNCHANGED <<stage, acc>>
  BY <1>1 DEF SendBatch, Micro, batchVars
<1>3. \A l \in batch : l \in Lines /\ fin[l] = "none"
  BY <1>2 DEF ChunkInv, ChunkTypes, Retrying, StillWaiting, Batched
<1> QED BY <1>1, <1>2, <1>3, TakeIsKept

LEMMA BestStep ==
    ASSUME ChunkInv, ChunkNext, stage # "batch", stage' # "batch"
    PROVE  LineKept
<1>1. CASE Batch \/ BatchTransient \/ NextChunk
  BY <1>1 DEF Batch, BatchTransient, NextChunk
<1>2. CASE CallFails
  <2>1. stage \in {"rescue", "micro", "solo"} /\ stage' = "done" /\ UNCHANGED <<fin, cand, acc>>
    BY <1>2 DEF CallFails, Fail, lineVars, batchVars
  <2> QED BY <2>1, SameBest
<1>3. CASE RescueTransient
  <2>1. stage = "rescue" /\ stage' = "micro" /\ UNCHANGED <<fin, cand, acc>>
    BY <1>3 DEF RescueTransient, ToRetries, batchVars
  <2> QED BY <2>1, SameBest
<1>4. CASE MicroTransient
  BY <1>4, SameBest DEF MicroTransient, SendBatch, batchVars
<1>5. CASE MicroOver
  BY <1>5, SameBest DEF MicroOver, lineVars, batchVars
<1>6. CASE SoloTransient \/ SoloOver
  BY <1>6, SameBest DEF SoloTransient, SoloOver, SoloReady, batchVars
<1> QED BY <1>1, <1>2, <1>3, <1>4, <1>5, <1>6, JudgeIsKept, RescueIsKept, MicroIsKept, SoloIsKept,
           FinishIsKept DEF ChunkNext

\* In the same generality no retry makes a line worse: from the moment a batch is judged, the
\* best text a line has never gets a lower rank (_apply_recovered, _line_rank).
THEOREM RetriesKeepTheBest == ChunkSpec => BestIsKept
<1>1. ChunkInv /\ [ChunkNext]_chunkVars
        => [stage # "batch" /\ stage' # "batch" =>
              \A l \in Lines : LineRank(Best(l)') >= LineRank(Best(l))]_chunkVars
  BY BestStep DEF LineKept
<1> QED BY <1>1, ChunkInvHolds, PTL DEF ChunkSpec, BestIsKept

-----------------------------------------------------------------------------
(* The lines of an answer. *)

\* a list without the repetitions has none
LEMMA SalvageIsInjective ==
    ASSUME NEW whole \in Seq(Indices)
    PROVE  Salvage(whole) \in Seq(Indices) /\ IsInjective(Salvage(whole))
<1> DEFINE places == {k \in DOMAIN whole : \A j \in 1..k - 1 : whole[j] # whole[k]}
           picks == InOrder(places, Len(whole))
           kept == Salvage(whole)
<1>1. kept = Picked(whole, places)
  BY DEF Salvage
<1>2. /\ picks \in Seq(1..Len(whole)) /\ Ascends(picks) /\ kept \in Seq(Indices) /\ Len(kept) = Len(picks)
      /\ \A k \in 1..Len(picks) : kept[k] = whole[picks[k]] /\ picks[k] \in places \cap (1..Len(whole))
  <2> HIDE DEF places
  <2>1. \A x : x = picks => /\ x \in Seq(1..Len(whole)) /\ Ascends(x) /\ Picked(whole, places) \in Seq(Indices)
                         /\ Len(Picked(whole, places)) = Len(x)
                         /\ \A k \in 1..Len(x) : Picked(whole, places)[k] = whole[x[k]] /\ x[k] \in places \cap (1..Len(whole))
    BY PickedFacts
  <2> QED BY <1>1, <2>1
<1> HIDE DEF picks, places, kept
<1>3. DOMAIN picks = 1..Len(picks) /\ DOMAIN kept = 1..Len(picks) /\ Len(picks) \in Nat /\ Len(whole) \in Nat
  BY <1>2
<1>4. \A k \in 1..Len(picks) : picks[k] \in 1..Len(whole) /\ \A j \in 1..picks[k] - 1 : whole[j] # whole[picks[k]]
  BY <1>2 DEF places
<1>5. ASSUME NEW k \in 1..Len(picks), NEW l \in 1..Len(picks), k < l PROVE kept[k] # kept[l]
  <2>1. picks[k] < picks[l]
    BY <1>2, <1>3, <1>5 DEF Ascends
  <2>2. picks[k] \in 1..picks[l] - 1
    BY <1>4, <2>1
  <2> QED BY <1>2, <1>4, <2>2
<1>6. \A k, l \in DOMAIN kept : kept[k] = kept[l] => k = l
  <2> SUFFICES ASSUME NEW k \in 1..Len(picks), NEW l \in 1..Len(picks), kept[k] = kept[l] PROVE k = l
    BY <1>3
  <2>1. ~(k < l) /\ ~(l < k)
    BY <1>5
  <2> QED BY <1>3, <2>1
<1> QED BY <1>2, <1>6 DEF IsInjective, kept

\* what has been read of an answer: rows once each; and while a table is read, the columns are
\* those of the header above
Columns == columnMap # NoMap => header # <<>> /\ header \in HeaderRows /\ columnMap = DetectHeader(header)
DecodeInv == rowsTaken \in Seq(Indices) /\ RowsAreTrue /\ Columns

\* rows are numbered by no column the header has not, and headers name no column for the numbers
NumbersAreApart ==
    \A h \in HeaderRows : h # <<>> /\ DetectHeader(h) # NoMap =>
        IF Column(h, "src") = 1 THEN "injected" \notin Counters ELSE Head(h) # "number"

LEMMA ColumnIs ==
    ASSUME NEW h \in Seq(STRING), NEW name, Column(h, name) # 0
    PROVE  Column(h, name) \in 1..Len(h) /\ h[Column(h, name)] = name
<1> DEFINE picks == {i \in DOMAIN h : h[i] = name}
<1>1. DOMAIN h = 1..Len(h) /\ picks \in SUBSET Nat /\ picks # {}
  BY DEF Column
<1>2. PICK i \in picks : \A m \in picks : i <= m
  BY <1>1, LeastNat
<1>3. /\ i \in DOMAIN h /\ h[i] = name
      /\ \A j \in 1..i - 1 : h[j] # name
  BY <1>1, <1>2
<1> QED BY <1>1, <1>3 DEF Column

\* the cells that are read are those of the header
LEMMA CellsAreTheHeader ==
    ASSUME NumbersAreApart, NEW h \in HeaderRows, h # <<>>, NEW counter \in Counters,
           columnMap = DetectHeader(h), columnMap # NoMap
    PROVE  /\ DropCounter(Written(h, counter)) = h
           /\ columnMap.src \in 1..Len(h) /\ h[columnMap.src] = "src"
           /\ columnMap.dst \in 1..Len(h) /\ h[columnMap.dst] = "dst"
<1>1. h \in Seq(STRING)
  BY HeadersAssumption
<1>2. Column(h, "src") # 0 /\ Column(h, "dst") # 0
      /\ columnMap.src = Column(h, "src") /\ columnMap.dst = Column(h, "dst")
  <2> DEFINE map == [src |-> Column(h, "src"), dst |-> Column(h, "dst"), info |-> Column(h, "info")]
  <2>1. map.src = Column(h, "src") /\ map.dst = Column(h, "dst")
    OBVIOUS
  <2>2. columnMap = map /\ map.src > 0 /\ map.dst > 0
    BY DEF DetectHeader
  <2> QED BY <2>1, <2>2
<1>3. IF columnMap.src = 1 THEN counter # "injected" ELSE Head(h) # "number"
  BY <1>2 DEF NumbersAreApart
<1>4. DropCounter(Written(h, counter)) = h
  <2>1. CASE counter = "injected"
    <3> DEFINE cells == <<"number">> \o h
    <3>1. Written(h, counter) = cells
      BY <2>1 DEF Written
    <3>2. cells # <<>> /\ Head(cells) = "number" /\ Tail(cells) = h
      BY <1>1
    <3> HIDE DEF cells
    <3> QED BY <1>3, <2>1, <3>1, <3>2 DEF DropCounter
  <2>2. CASE counter # "injected"
    <3>1. Written(h, counter) = h
      BY <1>1, <2>2 DEF Written
    <3> QED BY <1>3, <3>1 DEF DropCounter
  <2> QED BY <2>1, <2>2
<1> QED BY <1>1, <1>2, <1>4, ColumnIs

LEMMA DecodeKept ==
    ASSUME NumbersAreApart, DecodeInv, [DecodeNext]_decodeVars
    PROVE  DecodeInv'
<1> USE DEF DecodeInv, RowsAreTrue
<1>1. ASSUME UNCHANGED decodeVars PROVE DecodeInv'
  BY <1>1 DEF decodeVars, IndicesAreUnique, EntriesAreAligned, Columns, IsInjective
<1>2. ASSUME NEW mode, BeginDecode(mode) PROVE DecodeInv'
  BY <1>2 DEF BeginDecode, IndicesAreUnique, EntriesAreAligned, Columns, IsInjective
<1>3. ASSUME NEW i \in Indices, ReadRow(i) PROVE DecodeInv'
  <2>1. UNCHANGED <<columnMap, header, entries>>
    BY <1>3 DEF ReadRow
  <2>2. CASE i \in ToSet(rowsTaken)
    BY <1>3, <2>1, <2>2 DEF ReadRow, IndicesAreUnique, EntriesAreAligned, Columns, IsInjective
  <2>3. CASE i \notin ToSet(rowsTaken)
    <3>1. rowsTaken' = Append(rowsTaken, i)
      BY <1>3, <2>3 DEF ReadRow
    <3>2. \A k \in DOMAIN rowsTaken : rowsTaken[k] # i
      BY <2>3 DEF ToSet
    <3>3. /\ rowsTaken' \in Seq(Indices) /\ DOMAIN rowsTaken = 1..Len(rowsTaken) /\ Len(rowsTaken) \in Nat
          /\ DOMAIN rowsTaken' = 1..Len(rowsTaken) + 1 /\ rowsTaken'[Len(rowsTaken) + 1] = i
          /\ \A k \in 1..Len(rowsTaken) : rowsTaken'[k] = rowsTaken[k]
      BY <3>1
    <3>4. IndicesAreUnique'
      BY <3>2, <3>3 DEF IndicesAreUnique, IsInjective
    <3> QED BY <2>1, <3>3, <3>4 DEF EntriesAreAligned, Columns
  <2> QED BY <2>2, <2>3
<1>4. ASSUME NEW why, ReadUseless(why) PROVE DecodeInv'
  BY <1>4 DEF ReadUseless, IndicesAreUnique, EntriesAreAligned, Columns, IsInjective
<1>5. ASSUME EndRows PROVE DecodeInv'
  <2>1. PICK whole \in SeqOf(Indices, 2) : rowsTaken' = IF rowsTaken = <<>> THEN Salvage(whole) ELSE rowsTaken
    BY <1>5 DEF EndRows
  <2>2. whole \in Seq(Indices)
    <3>1. PICK m \in 0..2 : whole \in [1..m -> Indices]
      BY DEF SeqOf
    <3> QED BY <3>1
  <2>3. Salvage(whole) \in Seq(Indices) /\ IsInjective(Salvage(whole))
    BY <2>2, SalvageIsInjective
  <2>4. rowsTaken' \in Seq(Indices) /\ IsInjective(rowsTaken')
    BY <2>1, <2>3 DEF IndicesAreUnique
  <2> QED BY <1>5, <2>4 DEF EndRows, IndicesAreUnique, EntriesAreAligned, Columns
<1>6. ASSUME NEW h \in HeaderRows, ReadHeader(h) PROVE DecodeInv'
  <2>1. UNCHANGED <<rowsTaken, entries>> /\ header' = h /\ columnMap' = DetectHeader(h)
        /\ DetectHeader(h) # NoMap
    BY <1>6 DEF ReadHeader
  <2>2. h # <<>>
    <3> SUFFICES ASSUME h = <<>> PROVE FALSE
      OBVIOUS
    <3>1. DOMAIN h = {}
      OBVIOUS
    <3>2. Column(h, "src") = 0
      BY <3>1 DEF Column
    <3> QED BY <2>1, <3>2 DEF DetectHeader
  <2> QED BY <2>1, <2>2 DEF IndicesAreUnique, EntriesAreAligned, Columns, IsInjective
<1>7. ASSUME ReadBlank PROVE DecodeInv'
  BY <1>7 DEF ReadBlank, IndicesAreUnique, EntriesAreAligned, Columns, IsInjective
<1>8. ASSUME NEW h \in HeaderRows, NEW c \in Counters, ReadTableRow(h, c) PROVE DecodeInv'
  <2> DEFINE cells == DropCounter(Written(h, c))
  <2>1. /\ UNCHANGED <<rowsTaken, columnMap, header>> /\ (header # <<>> => h = header)
        /\ \/ entries' = entries
           \/ columnMap # NoMap /\ entries' = entries \cup {[src |-> cells[columnMap.src], dst |-> cells[columnMap.dst]]}
    BY <1>8 DEF ReadTableRow
  <2>2. CASE entries' = entries
    BY <2>1, <2>2 DEF IndicesAreUnique, EntriesAreAligned, Columns, IsInjective
  <2>3. CASE columnMap # NoMap /\ entries' = entries \cup {[src |-> cells[columnMap.src], dst |-> cells[columnMap.dst]]}
    <3>1. h = header /\ h # <<>> /\ columnMap = DetectHeader(h) /\ columnMap # NoMap
      BY <2>1, <2>3 DEF Columns
    <3>2. cells[columnMap.src] = "src" /\ cells[columnMap.dst] = "dst"
      BY <3>1, CellsAreTheHeader
    <3> HIDE DEF cells
    <3>3. EntriesAreAligned'
      BY <2>3, <3>2 DEF EntriesAreAligned
    <3> QED BY <2>1, <3>3 DEF IndicesAreUnique, Columns, IsInjective
  <2> QED BY <2>1, <2>2, <2>3
<1>9. ASSUME EndTable PROVE DecodeInv'
  BY <1>9 DEF EndTable, IndicesAreUnique, EntriesAreAligned, Columns, IsInjective
<1> QED BY <1>1, <1>2, <1>3, <1>4, <1>5, <1>6, <1>7, <1>8, <1>9 DEF DecodeNext

\* However a model answers, in lines of JSON, in one value or in tables, of any length: no row is
\* taken twice, and no entry takes a cell of another column, if headers name no column for the
\* numbers of the rows and no table that begins with the source numbers its rows
THEOREM AnswersAreTakenTrue ==
    ASSUME NumbersAreApart
    PROVE  DecodeSpec => []RowsAreTrue
<1>1. DecodeInit => DecodeInv
  BY DEF DecodeInit, DecodeInv, RowsAreTrue, IndicesAreUnique, EntriesAreAligned, Columns, IsInjective
<1>2. DecodeInv /\ [DecodeNext]_decodeVars => DecodeInv'
  BY DecodeKept
<1>3. DecodeInv => RowsAreTrue
  BY DEF DecodeInv
<1> QED BY <1>1, <1>2, <1>3, PTL DEF DecodeSpec

-----------------------------------------------------------------------------
(* Routes and windows.  The inductive invariant: a worker that is idle has *)
(* no route, so a route counts each worker once, and a ticket belongs to a *)
(* route.                                                                  *)

RouteTypes ==
    /\ pc \in [Senders -> {"idle", "prepared", "waiting", "sending"}]
    /\ route \in [Senders -> Routes \cup {0}]
    /\ ticketAge \in [Senders -> Nat] /\ used \in [Senders -> BOOLEAN]
    /\ active \in [Routes -> Nat]
IdleIsFree == \A s \in Senders : pc[s] = "idle" => route[s] = 0

On(r) == {s \in Senders : route[s] = r}
TicketsHeld  == \A s \in Senders : ticketAge[s] \in Ages => route[s] # 0 /\ ~used[s]
ActiveCounts == \A r \in Routes : active[r] = Cardinality(On(r))

RoutesInv == RouteTypes /\ IdleIsFree /\ TicketsHeld /\ ActiveCounts

LEMMA OnIsFinite == \A r : IsFiniteSet(On(r)) /\ Cardinality(On(r)) \in Nat
<1>1. IsFiniteSet(Senders)
  BY LimitsAssumption, FS_Union DEF Senders
<1>2. \A r : On(r) \in SUBSET Senders
  BY DEF On
<1> QED BY <1>1, <1>2, FS_Subset, FS_CardinalityType

\* nobody changes his route
LEMMA SameRoutes ==
    ASSUME RoutesInv, UNCHANGED <<route, active>>
    PROVE  ActiveCounts'
BY DEF RoutesInv, ActiveCounts, On

\* the worker gives its route back, and with it the ticket it has not used
LEMMA CloseStep ==
    ASSUME RoutesInv, NEW s \in Senders, Close(s)
    PROVE  RoutesInv'
<1> USE DEF RoutesInv
<1>1. /\ route' = [route EXCEPT ![s] = 0] /\ ticketAge' = [ticketAge EXCEPT ![s] = NoTicket]
      /\ used' = [used EXCEPT ![s] = FALSE] /\ pc' = [pc EXCEPT ![s] = "idle"]
      /\ active' = IF route[s] = 0 THEN active ELSE [active EXCEPT ![route[s]] = @ - 1]
  BY DEF Close
<1>2. NoTicket \in Nat /\ NoTicket \notin Ages
  BY LimitsAssumption DEF NoTicket, Ages
<1>3. 0 \notin Routes
  BY LimitsAssumption
<1>4. TicketsHeld' /\ IdleIsFree'
  BY <1>1, <1>2 DEF TicketsHeld, IdleIsFree, RouteTypes
<1>5. CASE route[s] = 0
  <2>1. UNCHANGED <<route, active>>
    BY <1>1, <1>5 DEF RouteTypes
  <2>2. RouteTypes'
    BY <1>1, <1>2, <2>1 DEF RouteTypes
  <2> QED BY <1>4, <2>1, <2>2, SameRoutes
<1>6. CASE route[s] # 0
  <2>1. route[s] \in Routes /\ active' = [active EXCEPT ![route[s]] = active[route[s]] - 1]
    BY <1>1, <1>6 DEF RouteTypes
  <2>2. \A r \in Routes : On(r)' = IF r = route[s] THEN On(r) \ {s} ELSE On(r)
    BY <1>1, <1>3, <2>1 DEF On, RouteTypes
  <2>3. s \in On(route[s])
    BY DEF On
  <2>4. /\ Cardinality(On(route[s]) \ {s}) = Cardinality(On(route[s])) - 1
        /\ Cardinality(On(route[s]) \ {s}) \in Nat
    BY <2>3, OnIsFinite, FS_RemoveElement, FS_CardinalityType
  <2>5. ActiveCounts'
    <3> SUFFICES ASSUME NEW r \in Routes PROVE active'[r] = Cardinality(On(r)')
      BY DEF ActiveCounts
    <3>1. CASE r = route[s]
      BY <2>1, <2>2, <2>4, <3>1 DEF ActiveCounts, RouteTypes
    <3>2. CASE r # route[s]
      BY <2>1, <2>2, <3>2 DEF ActiveCounts, RouteTypes
    <3> QED BY <3>1, <3>2
  <2>6. active[route[s]] - 1 \in Nat
    BY <2>1, <2>4 DEF ActiveCounts
  <2>7. RouteTypes'
    BY <1>1, <1>2, <2>1, <2>6 DEF RouteTypes
  <2> QED BY <1>4, <2>5, <2>7
<1> QED BY <1>5, <1>6

LEMMA PrepareStep ==
    ASSUME RoutesInv, NEW s \in Senders, Prepare(s)
    PROVE  RoutesInv'
<1> USE DEF RoutesInv
<1>1. PICK r \in Routes :
          /\ route' = [route EXCEPT ![s] = r]
          /\ active' = [active EXCEPT ![r] = @ + 1]
          /\ ticketAge' = [ticketAge EXCEPT ![s] = IF Rpm[RouteProfile[r]] > 0 THEN 0 ELSE Window]
  BY DEF Prepare
<1>2. /\ pc[s] = "idle" /\ pc' = [pc EXCEPT ![s] = "prepared"] /\ used' = [used EXCEPT ![s] = FALSE]
  BY DEF Prepare
<1>3. r # 0 /\ route[s] = 0 /\ Window \in Nat
  BY <1>2, LimitsAssumption DEF IdleIsFree
<1>4. RouteTypes'
  BY <1>1, <1>2, <1>3 DEF RouteTypes
<1>5. TicketsHeld' /\ IdleIsFree'
  BY <1>1, <1>2, <1>3 DEF TicketsHeld, IdleIsFree, RouteTypes
<1>6. \A q \in Routes : On(q)' = IF q = r THEN On(q) \cup {s} ELSE On(q)
  BY <1>1, <1>3, LimitsAssumption DEF On, RouteTypes
<1>7. s \notin On(r)
  BY <1>3 DEF On
<1>8. Cardinality(On(r) \cup {s}) = Cardinality(On(r)) + 1
  BY <1>7, OnIsFinite, FS_AddElement
<1>9. ActiveCounts'
  <2> SUFFICES ASSUME NEW q \in Routes PROVE active'[q] = Cardinality(On(q)')
    BY DEF ActiveCounts
  <2>1. CASE q = r
    BY <1>1, <1>6, <1>8, <2>1 DEF ActiveCounts, RouteTypes
  <2>2. CASE q # r
    BY <1>1, <1>6, <2>2 DEF ActiveCounts, RouteTypes
  <2> QED BY <2>1, <2>2
<1> QED BY <1>4, <1>5, <1>9

\* the worker goes on under the route it has
LEMMA GoesOn ==
    ASSUME RoutesInv, NEW s \in Senders, UNCHANGED <<route, active>>,
           NEW spot \in {"prepared", "waiting", "sending"}, pc' = [pc EXCEPT ![s] = spot],
           \/ UNCHANGED <<ticketAge, used>>
           \/ used' = [used EXCEPT ![s] = TRUE] /\ ticketAge' = [ticketAge EXCEPT ![s] = NoTicket]
    PROVE  RoutesInv'
<1> USE DEF RoutesInv
<1>1. NoTicket \in Nat /\ NoTicket \notin Ages
  BY LimitsAssumption DEF NoTicket, Ages
<1>2. RouteTypes' /\ IdleIsFree'
  BY <1>1 DEF RouteTypes, IdleIsFree
<1>3. TicketsHeld'
  BY <1>1 DEF RouteTypes, TicketsHeld
<1> QED BY <1>2, <1>3, SameRoutes

LEMMA SenderSteps ==
    ASSUME RoutesInv, NEW s \in Senders,
           \/ GiveUp(s) \/ Admit(s) \/ Poll(s) \/ AbandonWait(s) \/ Answered(s)
           \/ \E p \in Profiles : Call(s, p)
    PROVE  RoutesInv'
<1>1. CASE Close(s)
  BY <1>1, CloseStep
<1>2. CASE GiveUp(s) \/ AbandonWait(s)
  BY <1>2, <1>1 DEF GiveUp, AbandonWait
<1>3. CASE Admit(s)
  <2>1. UNCHANGED <<route, active>> /\ used' = [used EXCEPT ![s] = TRUE]
    BY <1>3 DEF Admit
  <2>2. ticketAge' = [ticketAge EXCEPT ![s] = NoTicket]
    BY <1>3 DEF Admit, Claim
  <2>3. \E spot \in {"waiting", "sending"} : pc' = [pc EXCEPT ![s] = spot]
    BY <1>3 DEF Admit
  <2> QED BY <2>1, <2>2, <2>3, GoesOn
<1>4. CASE Poll(s)
  <2>1. Close(s) \/ (pc' = [pc EXCEPT ![s] = "sending"] /\ UNCHANGED <<route, ticketAge, used, active>>)
    BY <1>4 DEF Poll
  <2> QED BY <1>1, <2>1, GoesOn
<1>5. CASE Answered(s)
  <2>1. Close(s) \/ (pc' = [pc EXCEPT ![s] = "prepared"] /\ UNCHANGED <<route, ticketAge, used, active>>)
    BY <1>5 DEF Answered
  <2> QED BY <1>1, <2>1, GoesOn
<1>6. ASSUME NEW p \in Profiles, Call(s, p) PROVE RoutesInv'
  <2>1. UNCHANGED <<route, ticketAge, used, active>>
    BY <1>6 DEF Call
  <2>2. \E spot \in {"waiting", "sending"} : pc' = [pc EXCEPT ![s] = spot]
    BY <1>6 DEF Call
  <2> QED BY <2>1, <2>2, GoesOn
<1> QED BY <1>2, <1>3, <1>4, <1>5, <1>6

LEMMA TickStep ==
    ASSUME RoutesInv, Tick
    PROVE  RoutesInv'
<1> USE DEF RoutesInv
<1>1. /\ UNCHANGED <<pc, route, used, active>>
      /\ ticketAge' = [s \in Senders |-> IF ticketAge[s] \in Ages THEN ticketAge[s] + 1 ELSE ticketAge[s]]
  BY DEF Tick
<1>2. RouteTypes' /\ IdleIsFree' /\ TicketsHeld'
  BY <1>1 DEF RouteTypes, IdleIsFree, TicketsHeld
<1> QED BY <1>1, <1>2, SameRoutes

LEMMA RoutesInit ==
    ASSUME LimitsInit
    PROVE  RoutesInv
<1>1. NoTicket \in Nat /\ NoTicket \notin Ages
  BY LimitsAssumption DEF NoTicket, Ages
<1>2. RouteTypes /\ IdleIsFree /\ TicketsHeld
  BY <1>1 DEF LimitsInit, RouteTypes, IdleIsFree, TicketsHeld
<1>3. \A r \in Routes : On(r) = {}
  BY LimitsAssumption DEF LimitsInit, On
<1>4. ActiveCounts
  BY <1>3, FS_EmptySet DEF LimitsInit, ActiveCounts
<1> QED BY <1>2, <1>4 DEF RoutesInv

LEMMA RoutesStep ==
    ASSUME RoutesInv, [LimitsNext]_limitVars
    PROVE  RoutesInv'
<1>1. CASE UNCHANGED limitVars \/ TpmNext
  <2>1. UNCHANGED rpmVars
    BY <1>1 DEF limitVars, TpmNext, Reserve, AbandonReserve, AskTokens, SettleTokens
  <2>2. UNCHANGED <<pc, route, ticketAge, used, active>>
    BY <2>1 DEF rpmVars
  <2> QED BY <2>2, SameRoutes DEF RoutesInv, RouteTypes, IdleIsFree, TicketsHeld
<1>2. CASE Tick
  BY <1>2, TickStep
<1>3. CASE RpmNext
  <2>1. PICK s \in Senders : \/ Prepare(s) \/ GiveUp(s) \/ Admit(s) \/ Poll(s) \/ AbandonWait(s) \/ Answered(s)
                             \/ \E p \in Profiles : Call(s, p)
    BY <1>3 DEF RpmNext
  <2> QED BY <2>1, PrepareStep, SenderSteps
<1> QED BY <1>1, <1>2, <1>3 DEF LimitsNext

\* Whatever ends a prepared route, its ticket and its place go back exactly once: a reservation in
\* a deque belongs to a worker that still has its route, and a route counts the workers it has.
THEOREM EveryReservationReturns == LimitsSpec => []ReservationsReturned
<1>1. LimitsInit => RoutesInv
  BY RoutesInit
<1>2. RoutesInv /\ [LimitsNext]_limitVars => RoutesInv'
  BY RoutesStep
<1>3. RoutesInv => ReservationsReturned
  BY DEF RoutesInv, TicketsHeld, ActiveCounts, On, ReservationsReturned
<1> QED BY <1>1, <1>2, <1>3, PTL DEF LimitsSpec

-----------------------------------------------------------------------------
(* Sums: SumTo is a function defined by recursion, so its equations have to *)
(* be shown by induction before anything can be said of it.                *)

\* s lists the partial sums of f
Partial(s, f, n) ==
    /\ s \in [0..n -> Nat] /\ s[0] = 0
    /\ \A k \in 1..n : s[k] = s[k - 1] + f[k]

LEMMA PartialExists ==
    ASSUME NEW n \in Nat, NEW f \in [1..n -> Nat]
    PROVE  \E s : Partial(s, f, n)
<1> DEFINE T == {m \in Nat : m <= n => \E s : Partial(s, f, m)}
<1>1. 0 \in T
  <2>1. Partial([k \in 0..0 |-> 0], f, 0)
    BY DEF Partial
  <2> QED BY <2>1
<1>2. ASSUME NEW m \in T PROVE m + 1 \in T
  <2> SUFFICES ASSUME m + 1 <= n PROVE \E s : Partial(s, f, m + 1)
    OBVIOUS
  <2>1. PICK s : Partial(s, f, m)
    OBVIOUS
  <2> DEFINE q == [k \in 0..(m + 1) |-> IF k = m + 1 THEN s[m] + f[m + 1] ELSE s[k]]
  <2>2. s[m] \in Nat /\ f[m + 1] \in Nat
    BY <2>1 DEF Partial
  <2>3. q \in [0..(m + 1) -> Nat]
    <3>1. \A k \in 0..(m + 1) : k # m + 1 => k \in 0..m
      OBVIOUS
    <3> QED BY <2>1, <2>2, <3>1 DEF Partial
  <2>4. q[0] = 0
    BY <2>1 DEF Partial
  <2>5. ASSUME NEW k \in 1..(m + 1) PROVE q[k] = q[k - 1] + f[k]
    <3>1. CASE k = m + 1
      <4>1. k - 1 = m /\ k - 1 # m + 1 /\ k - 1 \in 0..(m + 1)
        BY <3>1
      <4> QED BY <3>1, <4>1
    <3>2. CASE k # m + 1
      <4>1. k \in 1..m /\ k - 1 # m + 1 /\ k - 1 \in 0..(m + 1)
        BY <3>2
      <4> QED BY <2>1, <3>2, <4>1 DEF Partial
    <3> QED BY <3>1, <3>2
  <2> HIDE DEF q
  <2> QED BY <2>3, <2>4, <2>5 DEF Partial
<1> HIDE DEF T
<1>3. T \in SUBSET Nat
  BY DEF T
<1>4. n \in T
  BY <1>1, <1>2, <1>3, NatInductionBySet
<1> QED BY <1>4 DEF T

LEMMA SumIsPartial ==
    ASSUME NEW n \in Nat, NEW f \in [1..n -> Nat]
    PROVE  \E s : Partial(s, f, n) /\ SumTo(f, n) = s[n]
<1> DEFINE Eq(s) == s = [k \in 0..n |-> IF k = 0 THEN 0 ELSE s[k - 1] + f[k]]
           sum == CHOOSE s : Eq(s)
<1>1. PICK s : Partial(s, f, n)
  BY PartialExists
<1>2. Eq(s)
  BY <1>1 DEF Partial
<1>3. Eq(sum)
  BY <1>2
<1>4. SumTo(f, n) = sum[n]
  BY DEF SumTo
<1> HIDE DEF sum
<1>5. \A k \in 0..n : sum[k] = IF k = 0 THEN 0 ELSE sum[k - 1] + f[k]
  BY <1>3
<1>6. \A k \in 0..n : sum[k] = s[k]
  <2> DEFINE T == {k \in Nat : k <= n => sum[k] = s[k]}
  <2>1. 0 \in T
    BY <1>1, <1>5 DEF Partial
  <2>2. ASSUME NEW k \in T PROVE k + 1 \in T
    <3> SUFFICES ASSUME k + 1 <= n PROVE sum[k + 1] = s[k + 1]
      OBVIOUS
    <3>1. sum[k] = s[k] /\ k + 1 \in 1..n /\ k + 1 \in 0..n /\ k + 1 # 0 /\ (k + 1) - 1 = k
      OBVIOUS
    <3>2. sum[k + 1] = sum[k] + f[k + 1]
      BY <1>5, <3>1
    <3>3. s[k + 1] = s[k] + f[k + 1]
      BY <1>1, <3>1 DEF Partial
    <3> QED BY <3>1, <3>2, <3>3
  <2> HIDE DEF T
  <2>3. T = Nat
    <3>1. T \in SUBSET Nat
      BY DEF T
    <3> QED BY <2>1, <2>2, <3>1, NatInductionBySet
  <2> QED BY <2>3 DEF T
<1> QED BY <1>1, <1>4, <1>6

LEMMA SumIsNat ==
    ASSUME NEW n \in Nat, NEW f \in [1..n -> Nat]
    PROVE  SumTo(f, n) \in Nat
<1>1. PICK s : Partial(s, f, n) /\ SumTo(f, n) = s[n]
  BY SumIsPartial
<1> QED BY <1>1 DEF Partial

\* larger terms, larger sum
LEMMA SumIsMonotone ==
    ASSUME NEW n \in Nat, NEW f \in [1..n -> Nat], NEW g \in [1..n -> Nat],
           \A k \in 1..n : f[k] <= g[k]
    PROVE  SumTo(f, n) <= SumTo(g, n)
<1>1. PICK s : Partial(s, f, n) /\ SumTo(f, n) = s[n]
  BY SumIsPartial
<1>2. PICK q : Partial(q, g, n) /\ SumTo(g, n) = q[n]
  BY SumIsPartial
<1> DEFINE T == {k \in Nat : k <= n => s[k] <= q[k]}
<1>3. 0 \in T
  BY <1>1, <1>2 DEF Partial
<1>4. ASSUME NEW k \in T PROVE k + 1 \in T
  <2> SUFFICES ASSUME k + 1 <= n PROVE s[k + 1] <= q[k + 1]
    OBVIOUS
  <2>1. s[k] <= q[k] /\ k + 1 \in 1..n /\ k \in 0..n /\ (k + 1) - 1 = k
    OBVIOUS
  <2>2. s[k + 1] = s[k] + f[k + 1] /\ q[k + 1] = q[k] + g[k + 1]
    BY <1>1, <1>2, <2>1 DEF Partial
  <2>3. s[k] \in Nat /\ q[k] \in Nat /\ f[k + 1] \in Nat /\ g[k + 1] \in Nat /\ f[k + 1] <= g[k + 1]
    BY <1>1, <1>2, <2>1 DEF Partial
  <2> QED BY <2>1, <2>2, <2>3
<1> HIDE DEF T
<1>5. T = Nat
  <2>1. T \in SUBSET Nat
    BY DEF T
  <2> QED BY <1>3, <1>4, <2>1, NatInductionBySet
<1> QED BY <1>1, <1>2, <1>5 DEF T

\* one more at the first place is one more in the sum
LEMMA SumOfOneMore ==
    ASSUME NEW n \in Nat \ {0}, NEW f \in [1..n -> Nat], NEW g \in [1..n -> Nat],
           \A k \in 1..n : g[k] = IF k = 1 THEN f[k] + 1 ELSE f[k]
    PROVE  SumTo(g, n) = SumTo(f, n) + 1
<1>1. PICK s : Partial(s, f, n) /\ SumTo(f, n) = s[n]
  BY SumIsPartial
<1>2. PICK q : Partial(q, g, n) /\ SumTo(g, n) = q[n]
  BY SumIsPartial
<1> DEFINE T == {k \in Nat : k + 1 <= n => q[k + 1] = s[k + 1] + 1}
<1>3. 0 \in T
  <2>1. q[1] = q[0] + g[1] /\ s[1] = s[0] + f[1] /\ q[0] = 0 /\ s[0] = 0 /\ g[1] = f[1] + 1 /\ f[1] \in Nat
    <3>1. 1 \in 1..n /\ 1 - 1 = 0
      OBVIOUS
    <3> QED BY <1>1, <1>2, <3>1 DEF Partial
  <2> QED BY <2>1
<1>4. ASSUME NEW k \in T PROVE k + 1 \in T
  <2> SUFFICES ASSUME (k + 1) + 1 <= n PROVE q[(k + 1) + 1] = s[(k + 1) + 1] + 1
    OBVIOUS
  <2> DEFINE m == k + 1
  <2>1. q[m] = s[m] + 1 /\ m + 1 \in 1..n /\ m \in 0..n /\ (m + 1) - 1 = m /\ m + 1 # 1
    OBVIOUS
  <2> HIDE DEF m
  <2>2. s[m + 1] = s[m] + f[m + 1] /\ q[m + 1] = q[m] + g[m + 1]
    BY <1>1, <1>2, <2>1 DEF Partial
  <2>3. s[m] \in Nat /\ q[m] \in Nat /\ f[m + 1] \in Nat /\ g[m + 1] = f[m + 1]
    BY <1>1, <1>2, <2>1 DEF Partial
  <2>4. q[m + 1] = s[m + 1] + 1
    BY <2>1, <2>2, <2>3
  <2> QED BY <2>4 DEF m
<1> HIDE DEF T
<1>5. T = Nat
  <2>1. T \in SUBSET Nat
    BY DEF T
  <2> QED BY <1>3, <1>4, <2>1, NatInductionBySet
<1>6. n - 1 \in T /\ (n - 1) + 1 = n
  BY <1>5
<1> QED BY <1>1, <1>2, <1>6 DEF T

\* moved up by one place, the last term is lost
LEMMA SumOfShifted ==
    ASSUME NEW n \in Nat \ {0}, NEW f \in [1..n -> Nat], NEW g \in [1..n -> Nat],
           \A k \in 1..n : g[k] = IF k = 1 THEN 0 ELSE f[k - 1]
    PROVE  SumTo(g, n) <= SumTo(f, n)
<1>1. PICK s : Partial(s, f, n) /\ SumTo(f, n) = s[n]
  BY SumIsPartial
<1>2. PICK q : Partial(q, g, n) /\ SumTo(g, n) = q[n]
  BY SumIsPartial
<1> DEFINE T == {k \in Nat : k + 1 <= n => q[k + 1] = s[k]}
<1>3. 0 \in T
  <2>1. q[1] = q[0] + g[1] /\ q[0] = 0 /\ s[0] = 0 /\ g[1] = 0
    <3>1. 1 \in 1..n /\ 1 - 1 = 0
      OBVIOUS
    <3> QED BY <1>1, <1>2, <3>1 DEF Partial
  <2> QED BY <2>1
<1>4. ASSUME NEW k \in T PROVE k + 1 \in T
  <2> SUFFICES ASSUME (k + 1) + 1 <= n PROVE q[(k + 1) + 1] = s[k + 1]
    OBVIOUS
  <2> DEFINE m == k + 1
  <2>1. /\ q[m] = s[k] /\ m + 1 \in 1..n /\ m \in 1..n /\ (m + 1) - 1 = m /\ m + 1 # 1
        /\ m - 1 = k
    OBVIOUS
  <2> HIDE DEF m
  <2>2. s[m] = s[k] + f[m] /\ q[m + 1] = q[m] + g[m + 1] /\ g[m + 1] = f[m]
    BY <1>1, <1>2, <2>1 DEF Partial
  <2>4. q[m + 1] = s[m]
    BY <2>1, <2>2
  <2> QED BY <2>4 DEF m
<1> HIDE DEF T
<1>5. T = Nat
  <2>1. T \in SUBSET Nat
    BY DEF T
  <2> QED BY <1>3, <1>4, <2>1, NatInductionBySet
<1>6. n - 1 \in T /\ (n - 1) + 1 = n /\ n \in 1..n /\ n - 1 \in 0..n
  BY <1>5
<1>7. q[n] = s[n - 1] /\ s[n] = s[n - 1] + f[n] /\ s[n - 1] \in Nat /\ f[n] \in Nat
  BY <1>1, <1>2, <1>6 DEF T, Partial
<1> QED BY <1>1, <1>2, <1>7

LEMMA SumOfOne ==
    ASSUME NEW f \in [1..1 -> Nat]
    PROVE  SumTo(f, 1) = f[1]
<1>1. PICK s : Partial(s, f, 1) /\ SumTo(f, 1) = s[1]
  BY SumIsPartial
<1>2. s[1] = s[1 - 1] + f[1] /\ s[0] = 0 /\ f[1] \in Nat /\ 1 - 1 = 0
  BY <1>1 DEF Partial
<1> QED BY <1>1, <1>2

Counts == [Ages -> Nat]

LEMMA TotalFacts ==
    ASSUME NEW c \in Counts
    PROVE  /\ Total(c) \in Nat
           /\ Total([c EXCEPT ![0] = @ + 1]) = Total(c) + 1
           /\ Older(c) \in Counts /\ Total(Older(c)) <= Total(c)
           /\ \A d \in Counts : (\A a \in Ages : d[a] <= c[a]) => Total(d) <= Total(c)
<1> DEFINE byPlace(d) == [k \in 1..Window |-> d[k - 1]]
<1>0. Window \in Nat \ {0} /\ 0 \in Ages /\ \A k \in 1..Window : k - 1 \in Ages
  BY LimitsAssumption DEF Ages
<1>1. \A d \in Counts : byPlace(d) \in [1..Window -> Nat] /\ \A k \in 1..Window : byPlace(d)[k] = d[k - 1]
  BY <1>0 DEF Counts
<1>2. \A d : Total(d) = SumTo(byPlace(d), Window)
  BY DEF Total
<1> HIDE DEF byPlace
<1>3. Total(c) \in Nat
  BY <1>0, <1>1, <1>2, SumIsNat
<1>4. Total([c EXCEPT ![0] = @ + 1]) = Total(c) + 1
  <2> DEFINE d == [c EXCEPT ![0] = @ + 1]
  <2>1. d \in Counts
    BY <1>0 DEF Counts
  <2>2. \A k \in 1..Window : byPlace(d)[k] = IF k = 1 THEN byPlace(c)[k] + 1 ELSE byPlace(c)[k]
    <3> TAKE k \in 1..Window
    <3>1. byPlace(d)[k] = d[k - 1] /\ byPlace(c)[k] = c[k - 1]
      BY <1>1, <2>1
    <3>2. k - 1 \in Ages /\ (k - 1 = 0 <=> k = 1)
      BY <1>0
    <3> QED BY <3>1, <3>2 DEF Counts
  <2> HIDE DEF d
  <2>3. SumTo(byPlace(d), Window) = SumTo(byPlace(c), Window) + 1
    BY <1>0, <1>1, <2>1, <2>2, SumOfOneMore
  <2>4. Total(d) = Total(c) + 1
    BY <1>2, <2>3
  <2> QED BY <2>4 DEF d
<1>5. Older(c) \in Counts
  <2>1. \A a \in Ages : a # 0 => a - 1 \in Ages
    BY <1>0 DEF Ages
  <2> QED BY <2>1 DEF Older, Counts
<1>6. Total(Older(c)) <= Total(c)
  <2>1. \A k \in 1..Window : byPlace(Older(c))[k] = IF k = 1 THEN 0 ELSE byPlace(c)[k - 1]
    <3> TAKE k \in 1..Window
    <3>1. byPlace(Older(c))[k] = Older(c)[k - 1]
      BY <1>1, <1>5
    <3>2. k - 1 \in Ages /\ (k - 1 = 0 <=> k = 1)
      BY <1>0
    <3>3. CASE k = 1
      BY <3>1, <3>2, <3>3 DEF Older
    <3>4. CASE k # 1
      <4>1. k - 1 \in 1..Window /\ (k - 1) - 1 \in Ages
        BY <1>0, <3>4
      <4>2. byPlace(c)[k - 1] = c[(k - 1) - 1]
        BY <1>1, <4>1
      <4> QED BY <3>1, <3>2, <3>4, <4>2 DEF Older
    <3> QED BY <3>3, <3>4
  <2> QED BY <1>0, <1>1, <1>2, <1>5, <2>1, SumOfShifted
<1>7. ASSUME NEW d \in Counts, \A a \in Ages : d[a] <= c[a] PROVE Total(d) <= Total(c)
  <2>1. \A k \in 1..Window : byPlace(d)[k] <= byPlace(c)[k]
    BY <1>0, <1>1, <1>7
  <2> QED BY <1>0, <1>1, <1>2, <2>1, SumIsMonotone
<1> QED BY <1>3, <1>4, <1>5, <1>6, <1>7

-----------------------------------------------------------------------------
(* The queues of the limiters. *)

Waiting(p) == {s \in Senders : pc[s] = "waiting" /\ target[s] = p}
\* the queue of every limiter lists the workers that wait for it, once each
QueuesInv ==
    /\ target \in [Senders -> Profiles]
    /\ waiters \in [Profiles -> Seq(Senders)]
    /\ \A p \in Profiles : IsInjective(waiters[p]) /\ ToSet(waiters[p]) = Waiting(p)

LEMMA QueueUntouched ==
    ASSUME QueuesInv, UNCHANGED waiters, target' \in [Senders -> Profiles],
           \A s \in Senders :
             \/ pc'[s] = pc[s] /\ target'[s] = target[s]
             \/ pc[s] # "waiting" /\ pc'[s] # "waiting"
    PROVE  QueuesInv'
<1>1. \A p \in Profiles : Waiting(p)' = Waiting(p)
  BY DEF Waiting
<1> QED BY <1>1 DEF QueuesInv

LEMMA QueueJoined ==
    ASSUME QueuesInv, NEW s \in Senders, NEW p \in Profiles, pc[s] # "waiting",
           pc \in [Senders -> {"idle", "prepared", "waiting", "sending"}],
           pc' = [pc EXCEPT ![s] = "waiting"], target' = [target EXCEPT ![s] = p],
           waiters' = [waiters EXCEPT ![p] = Append(@, s)]
    PROVE  QueuesInv'
<1>1. s \notin ToSet(waiters[p])
  BY DEF QueuesInv, Waiting
<1>2. /\ waiters[p] \in Seq(Senders) /\ IsInjective(waiters[p])
      /\ ToSet(waiters[p]) = Waiting(p)
  BY DEF QueuesInv
<1>3. /\ Append(waiters[p], s) \in Seq(Senders) /\ IsInjective(Append(waiters[p], s))
      /\ ToSet(Append(waiters[p], s)) = Waiting(p) \cup {s}
  BY <1>1, <1>2, WithAtEnd
<1>4. \A q \in Profiles : Waiting(q)' = IF q = p THEN Waiting(q) \cup {s} ELSE Waiting(q)
  BY DEF Waiting, QueuesInv
<1>5. \A q \in Profiles : waiters'[q] = IF q = p THEN Append(waiters[p], s) ELSE waiters[q]
  BY DEF QueuesInv
<1>6. target' \in [Senders -> Profiles] /\ waiters' \in [Profiles -> Seq(Senders)]
  BY <1>3 DEF QueuesInv
<1>7. ASSUME NEW q \in Profiles PROVE IsInjective(waiters'[q]) /\ ToSet(waiters'[q]) = Waiting(q)'
  <2>1. CASE q = p
    BY <1>3, <1>4, <1>5, <2>1
  <2>2. CASE q # p
    BY <1>4, <1>5, <2>2 DEF QueuesInv
  <2> QED BY <2>1, <2>2
<1> QED BY <1>6, <1>7 DEF QueuesInv

LEMMA QueueLeft ==
    ASSUME QueuesInv, NEW s \in Senders, pc[s] = "waiting",
           NEW i \in 1..Len(waiters[target[s]]), waiters[target[s]][i] = s,
           NEW spot, spot # "waiting", pc \in [Senders -> {"idle", "prepared", "waiting", "sending"}],
           pc' = [pc EXCEPT ![s] = spot], target' \in [Senders -> Profiles],
           \A t \in Senders \ {s} : target'[t] = target[t],
           NEW r, r = RemoveAt(waiters[target[s]], i) \/ (i = 1 /\ r = Tail(waiters[target[s]])),
           waiters' = [waiters EXCEPT ![target[s]] = r]
    PROVE  QueuesInv'
<1> DEFINE p == target[s]
<1>0. p \in Profiles
  BY DEF QueuesInv
<1>2. /\ waiters[p] \in Seq(Senders) /\ IsInjective(waiters[p])
      /\ ToSet(waiters[p]) = Waiting(p)
  BY <1>0 DEF QueuesInv
<1>3. r \in Seq(Senders) /\ IsInjective(r) /\ ToSet(r) = Waiting(p) \ {s}
  <2> DEFINE q == waiters[p]
  <2>1. q \in Seq(Senders) /\ IsInjective(q) /\ i \in 1..Len(q) /\ (r = RemoveAt(q, i) \/ (i = 1 /\ r = Tail(q)))
    BY <1>2
  <2>2. q[i] = s /\ ToSet(q) = Waiting(p)
    BY <1>2
  <2> HIDE DEF q
  <2>3. r \in Seq(Senders) /\ IsInjective(r) /\ ToSet(r) = ToSet(q) \ {q[i]}
    BY <2>1, WithoutPlace
  <2> QED BY <2>2, <2>3
<1>4. \A q \in Profiles : Waiting(q)' = IF q = p THEN Waiting(q) \ {s} ELSE Waiting(q)
  BY DEF Waiting, QueuesInv
<1>5. \A q \in Profiles : waiters'[q] = IF q = p THEN r ELSE waiters[q]
  BY DEF QueuesInv
<1>6. waiters' \in [Profiles -> Seq(Senders)]
  BY <1>3 DEF QueuesInv
<1> HIDE DEF p
<1>7. ASSUME NEW q \in Profiles PROVE IsInjective(waiters'[q]) /\ ToSet(waiters'[q]) = Waiting(q)'
  <2>1. CASE q = p
    BY <1>3, <1>4, <1>5, <2>1
  <2>2. CASE q # p
    BY <1>4, <1>5, <2>2 DEF QueuesInv
  <2> QED BY <2>1, <2>2
<1> QED BY <1>6, <1>7 DEF QueuesInv

-----------------------------------------------------------------------------
(* The invariant: what a limiter records never exceeds its limit, and every *)
(* request that was sent is recorded at its own age.                       *)

CountsInv == spent \in [Profiles -> Counts] /\ sent \in [Profiles -> Counts]
Covered   == \A p \in Profiles : \A a \in Ages : Rpm[p] > 0 => sent[p][a] <= spent[p][a]
NeverOver == \A p \in Profiles : Rpm[p] > 0 => Recorded(p) <= Rpm[p]
TokenEntry == [cost : Nat, age : Nat, by : Senders, settled : BOOLEAN]
LockEntry  == [by : Senders, cost : Nat]
TokensInv  == tokens \in Seq(TokenEntry) /\ lockQueue \in Seq(LockEntry)
AgesInv == ticketAge \in [Senders -> 0..NoTicket]

RpmInv == RoutesInv /\ AgesInv /\ QueuesInv /\ CountsInv /\ Covered /\ NeverOver
TpmInv == TokensInv /\ OversizeRunsAlone

LEMMA HoldersAreFinite == \A p : IsFiniteSet(Holders(p)) /\ Cardinality(Holders(p)) \in Nat
<1>1. IsFiniteSet(Senders)
  BY LimitsAssumption, FS_Union DEF Senders
<1>2. \A p : Holders(p) \in SUBSET Senders
  BY DEF Holders
<1> QED BY <1>1, <1>2, FS_Subset, FS_CardinalityType

LEMMA NoAge == Window \notin Ages /\ NoTicket \notin Ages /\ 0 \in Ages /\ 0 \in 0..NoTicket /\ Window \in 0..NoTicket /\ NoTicket \in 0..NoTicket
BY LimitsAssumption DEF NoTicket, Ages

\* nothing is recorded and tickets can only go
LEMMA NothingRecorded ==
    ASSUME RpmInv, UNCHANGED spent, \A p \in Profiles : Holders(p)' \subseteq Holders(p)
    PROVE  NeverOver'
<1> SUFFICES ASSUME NEW p \in Profiles, Rpm[p] > 0 PROVE Recorded(p)' <= Rpm[p]
  BY DEF NeverOver
<1>1. Cardinality(Holders(p)') <= Cardinality(Holders(p)) /\ Cardinality(Holders(p)') \in Nat /\ Cardinality(Holders(p)) \in Nat
  BY HoldersAreFinite, FS_Subset, FS_CardinalityType
<1>2. Total(spent[p]) \in Nat /\ Recorded(p) <= Rpm[p] /\ Rpm[p] \in Nat
  BY TotalFacts, LimitsAssumption DEF RpmInv, CountsInv, NeverOver
<1> QED BY <1>1, <1>2 DEF Recorded

\* one entry more for p, which had room or gets it from the ticket of a worker
LEMMA OneRecorded ==
    ASSUME RpmInv, NEW p \in Profiles, spent' = AddNow(spent, p),
           \A q \in Profiles : Holders(q)' \subseteq Holders(q),
           \/ HasRoom(p)
           \/ \E s \in Senders : s \in Holders(p) /\ s \notin Holders(p)'
    PROVE  NeverOver'
<1> SUFFICES ASSUME NEW q \in Profiles, Rpm[q] > 0 PROVE Recorded(q)' <= Rpm[q]
  BY DEF NeverOver
<1>1. Cardinality(Holders(q)') <= Cardinality(Holders(q)) /\ Cardinality(Holders(q)') \in Nat /\ Cardinality(Holders(q)) \in Nat
  BY HoldersAreFinite, FS_Subset, FS_CardinalityType
<1>2. /\ spent[q] \in Counts /\ Total(spent[q]) \in Nat /\ Recorded(q) <= Rpm[q] /\ Rpm[q] \in Nat
      /\ Total([spent[q] EXCEPT ![0] = @ + 1]) = Total(spent[q]) + 1
  BY TotalFacts, LimitsAssumption DEF RpmInv, CountsInv, NeverOver
<1>3. spent'[q] = IF q = p THEN [spent[q] EXCEPT ![0] = @ + 1] ELSE spent[q]
  BY DEF AddNow, RpmInv, CountsInv
<1>4. CASE q # p
  BY <1>1, <1>2, <1>3, <1>4 DEF Recorded
<1>5. CASE q = p /\ HasRoom(p)
  BY <1>1, <1>2, <1>3, <1>5 DEF Recorded, HasRoom
<1>6. ASSUME q = p, NEW s \in Senders, s \in Holders(p), s \notin Holders(p)' PROVE Recorded(q)' <= Rpm[q]
  <2>1. Holders(q)' \subseteq Holders(q) \ {s}
    BY <1>6
  <2>2. IsFiniteSet(Holders(q) \ {s}) /\ Cardinality(Holders(q) \ {s}) = Cardinality(Holders(q)) - 1
    BY <1>6, HoldersAreFinite, FS_RemoveElement
  <2>3. Cardinality(Holders(q)') <= Cardinality(Holders(q)) - 1
    BY <2>1, <2>2, FS_Subset
  <2> QED BY <1>1, <1>2, <1>3, <1>6, <2>3 DEF Recorded
<1> QED BY <1>4, <1>5, <1>6

\* a request of p is recorded, and it may be sent at once
LEMMA SentIsRecorded ==
    ASSUME RpmInv, NEW p \in Profiles,
           \/ spent' = AddNow(spent, p) /\ (sent' = Sent(p) \/ UNCHANGED sent)
           \/ UNCHANGED spent /\ (UNCHANGED sent \/ (Rpm[p] <= 0 /\ sent' = Sent(p)))
    PROVE  CountsInv' /\ Covered'
<1>1. \A q \in Profiles : /\ spent[q] \in Counts /\ sent[q] \in Counts
                          /\ [spent[q] EXCEPT ![0] = @ + 1] \in Counts /\ [sent[q] EXCEPT ![0] = @ + 1] \in Counts
  BY NoAge DEF RpmInv, CountsInv, Counts
<1>2. \A q \in Profiles :
        /\ AddNow(spent, p)[q] = IF q = p THEN [spent[q] EXCEPT ![0] = @ + 1] ELSE spent[q]
        /\ AddNow(sent, p)[q] = IF q = p THEN [sent[q] EXCEPT ![0] = @ + 1] ELSE sent[q]
  BY DEF AddNow, RpmInv, CountsInv
<1>3. AddNow(spent, p) \in [Profiles -> Counts] /\ AddNow(sent, p) \in [Profiles -> Counts]
  BY <1>1 DEF AddNow, RpmInv, CountsInv
<1>4. CountsInv'
  BY <1>3 DEF CountsInv, Sent, RpmInv
<1>5. Rpm[p] \in Nat /\ (sent' = Sent(p) => (IF Rpm[p] > 0 THEN sent' = AddNow(sent, p) ELSE sent' = sent))
  BY LimitsAssumption DEF Sent
<1>6. \/ spent' = AddNow(spent, p) /\ (sent' = AddNow(sent, p) \/ sent' = sent)
      \/ spent' = spent /\ sent' = sent
  BY <1>5
<1>7. Covered'
  <2> SUFFICES ASSUME NEW q \in Profiles, NEW a \in Ages, Rpm[q] > 0 PROVE sent'[q][a] <= spent'[q][a]
    BY DEF Covered
  <2>1. sent[q][a] <= spent[q][a] /\ sent[q][a] \in Nat /\ spent[q][a] \in Nat
    BY <1>1 DEF RpmInv, Covered, Counts
  <2>2. /\ AddNow(spent, p)[q][a] = IF q = p /\ a = 0 THEN spent[q][a] + 1 ELSE spent[q][a]
        /\ AddNow(sent, p)[q][a] = IF q = p /\ a = 0 THEN sent[q][a] + 1 ELSE sent[q][a]
    <3>1. ASSUME NEW f \in Counts
          PROVE  [f EXCEPT ![0] = @ + 1][a] = IF a = 0 THEN f[a] + 1 ELSE f[a]
      BY DEF Counts
    <3>2. spent[q] \in Counts /\ sent[q] \in Counts
      BY <1>1
    <3>3. CASE q = p
      <4>1. /\ AddNow(spent, p)[q] = [spent[q] EXCEPT ![0] = @ + 1]
            /\ AddNow(sent, p)[q] = [sent[q] EXCEPT ![0] = @ + 1]
        BY <1>2, <3>3
      <4> QED BY <3>1, <3>2, <3>3, <4>1
    <3>4. CASE q # p
      BY <1>2, <3>4
    <3> QED BY <3>3, <3>4
  <2> QED BY <1>6, <2>1, <2>2
<1> QED BY <1>4, <1>7

\* a worker that closes holds no ticket, waits for nobody and sends to nobody
LEMMA Closed ==
    ASSUME RpmInv, NEW s \in Senders, Close(s)
    PROVE  /\ AgesInv' /\ target' \in [Senders -> Profiles] /\ pc'[s] # "waiting"
           /\ pc' = [pc EXCEPT ![s] = "idle"]
           /\ \A t \in Senders \ {s} : pc'[t] = pc[t] /\ target'[t] = target[t]
           /\ \A p \in Profiles : Holders(p)' \subseteq Holders(p) \ {s}
<1>1. /\ ticketAge' = [ticketAge EXCEPT ![s] = NoTicket] /\ target' = [target EXCEPT ![s] = AnyProfile]
      /\ pc' = [pc EXCEPT ![s] = "idle"]
  BY DEF Close
<1>2. AnyProfile \in Profiles
  BY LimitsAssumption DEF AnyProfile
<1>3. AgesInv' /\ target' \in [Senders -> Profiles]
  BY <1>1, <1>2, NoAge DEF RpmInv, AgesInv, QueuesInv
<1>4. pc'[s] # "waiting" /\ \A t \in Senders \ {s} : pc'[t] = pc[t] /\ target'[t] = target[t]
  BY <1>1 DEF RpmInv, RoutesInv, RouteTypes, QueuesInv
<1>5. \A p \in Profiles : Holders(p)' \subseteq Holders(p) \ {s}
  BY <1>1, NoAge DEF Holders, RpmInv, AgesInv, QueuesInv
<1> QED BY <1>1, <1>3, <1>4, <1>5

\* a worker without a ticket is one that no limiter records
LEMMA NoTicketNoHolder ==
    ASSUME RpmInv, NEW s \in Senders, pc[s] = "idle"
    PROVE  ticketAge[s] \notin Ages
BY DEF RpmInv, RoutesInv, IdleIsFree, TicketsHeld

RpmRest == AgesInv /\ QueuesInv /\ CountsInv /\ Covered /\ NeverOver

LEMMA PcNames == RpmInv => pc \in [Senders -> {"idle", "prepared", "waiting", "sending"}]
BY DEF RpmInv, RoutesInv, RouteTypes

LEMMA PrepareKeepsWindow ==
    ASSUME RpmInv, NEW s \in Senders, Prepare(s)
    PROVE  RpmRest'
<1>1. PICK r \in Routes :
        /\ Candidate(r)
        /\ target' = [target EXCEPT ![s] = RouteProfile[r]]
        /\ ticketAge' = [ticketAge EXCEPT ![s] = IF Rpm[RouteProfile[r]] > 0 THEN 0 ELSE Window]
  BY DEF Prepare
<1>2. pc[s] = "idle" /\ pc' = [pc EXCEPT ![s] = "prepared"] /\ UNCHANGED <<spent, waiters, sent>>
  BY DEF Prepare
<1> DEFINE p == RouteProfile[r]
<1>3. p \in Profiles
  BY LimitsAssumption
<1>4. AgesInv'
  BY <1>1, NoAge DEF RpmInv, AgesInv
<1>5. QueuesInv'
  <2>1. \A t \in Senders : \/ pc'[t] = pc[t] /\ target'[t] = target[t]
                           \/ pc[t] # "waiting" /\ pc'[t] # "waiting"
    BY <1>1, <1>2 DEF RpmInv, RoutesInv, RouteTypes, QueuesInv
  <2>2. target' \in [Senders -> Profiles]
    BY <1>1, <1>3 DEF RpmInv, QueuesInv
  <2> QED BY <1>2, <2>1, <2>2, QueueUntouched DEF RpmInv
<1>6. CountsInv' /\ Covered'
  BY <1>2, <1>3, SentIsRecorded
<1>7. NeverOver'
  <2> SUFFICES ASSUME NEW q \in Profiles, Rpm[q] > 0 PROVE Recorded(q)' <= Rpm[q]
    BY DEF NeverOver
  <2>1. ticketAge[s] \notin Ages
    BY <1>2, NoTicketNoHolder
  <2>2. /\ Total(spent[q]) \in Nat /\ Recorded(q) <= Rpm[q] /\ Rpm[q] \in Nat
        /\ Cardinality(Holders(q)) \in Nat /\ IsFiniteSet(Holders(q)) /\ Total(spent[q])' = Total(spent[q])
    BY <1>2, TotalFacts, LimitsAssumption, HoldersAreFinite DEF RpmInv, CountsInv, NeverOver
  <2>3. CASE q = p
    <3>1. HasRoom(q)
      BY <1>1, <2>2, <2>3 DEF Candidate, Reservable
    <3>2. Holders(q)' \subseteq Holders(q) \cup {s}
      BY <1>1 DEF Holders, RpmInv, AgesInv, QueuesInv
    <3>3. s \notin Holders(q)
      BY <2>1 DEF Holders
    <3>4. Cardinality(Holders(q) \cup {s}) = Cardinality(Holders(q)) + 1 /\ IsFiniteSet(Holders(q) \cup {s})
      BY <2>2, <3>3, FS_AddElement
    <3>5. Cardinality(Holders(q)') <= Cardinality(Holders(q)) + 1 /\ Cardinality(Holders(q)') \in Nat
      BY <3>2, <3>4, FS_Subset, FS_CardinalityType
    <3> QED BY <2>2, <3>1, <3>5 DEF Recorded, HasRoom
  <2>4. CASE q # p
    <3>1. Holders(q)' \subseteq Holders(q)
      BY <1>1, <2>4 DEF Holders, RpmInv, AgesInv, QueuesInv
    <3>2. Cardinality(Holders(q)') <= Cardinality(Holders(q)) /\ Cardinality(Holders(q)') \in Nat
      BY <2>2, <3>1, FS_Subset, FS_CardinalityType
    <3> QED BY <2>2, <3>2 DEF Recorded
  <2> QED BY <2>3, <2>4
<1> QED BY <1>4, <1>5, <1>6, <1>7 DEF RpmRest

LEMMA QueueWithoutCloser ==
    ASSUME RpmInv, NEW s \in Senders, pc[s] # "waiting", Close(s), UNCHANGED waiters
    PROVE  QueuesInv'
<1>1. /\ target' \in [Senders -> Profiles] /\ pc'[s] # "waiting"
      /\ \A t \in Senders \ {s} : pc'[t] = pc[t] /\ target'[t] = target[t]
  BY Closed
<1> QED BY <1>1, QueueUntouched DEF RpmInv

LEMMA EndKeepsWindow ==
    ASSUME RpmInv, NEW s \in Senders, GiveUp(s) \/ Answered(s) \/ AbandonWait(s)
    PROVE  RpmRest'
<1>0. UNCHANGED <<spent, sent>>
  BY DEF GiveUp, Answered, AbandonWait
<1>1. CountsInv' /\ Covered'
  BY <1>0, NoAge, LimitsAssumption DEF RpmInv, CountsInv, Covered
<1>2. CASE GiveUp(s) \/ (Answered(s) /\ Close(s))
  <2>1. Close(s) /\ pc[s] # "waiting" /\ UNCHANGED waiters
    BY <1>2 DEF GiveUp, Answered
  <2>2. AgesInv' /\ \A p \in Profiles : Holders(p)' \subseteq Holders(p)
    BY <2>1, Closed
  <2>3. NeverOver'
    BY <1>0, <2>2, NothingRecorded
  <2>4. QueuesInv'
    BY <2>1, QueueWithoutCloser
  <2> QED BY <1>1, <2>2, <2>3, <2>4 DEF RpmRest
<1>3. CASE Answered(s) /\ ~Close(s)
  <2>1. /\ pc[s] = "sending" /\ pc' = [pc EXCEPT ![s] = "prepared"]
        /\ UNCHANGED <<target, ticketAge, waiters>>
    BY <1>3 DEF Answered
  <2>2. AgesInv' /\ \A p \in Profiles : Holders(p)' \subseteq Holders(p)
    BY <2>1 DEF RpmInv, AgesInv, Holders
  <2>3. NeverOver'
    BY <1>0, <2>2, NothingRecorded
  <2>4. \A t \in Senders : \/ pc'[t] = pc[t] /\ target'[t] = target[t]
                           \/ pc[t] # "waiting" /\ pc'[t] # "waiting"
    BY <2>1 DEF RpmInv, RoutesInv, RouteTypes
  <2>5. QueuesInv'
    BY <2>1, <2>4, QueueUntouched DEF RpmInv, QueuesInv
  <2> QED BY <1>1, <2>2, <2>3, <2>5 DEF RpmRest
<1>4. CASE AbandonWait(s)
  <2>1. pc[s] = "waiting" /\ Close(s)
    BY <1>4 DEF AbandonWait
  <2>2. PICK i \in DOMAIN waiters[target[s]] :
          /\ waiters[target[s]][i] = s
          /\ waiters' = [waiters EXCEPT ![target[s]] = RemoveAt(@, i)]
    BY <1>4 DEF AbandonWait
  <2>3. AgesInv' /\ \A p \in Profiles : Holders(p)' \subseteq Holders(p)
    BY <2>1, Closed
  <2>4. NeverOver'
    BY <1>0, <2>3, NothingRecorded
  <2>5. QueuesInv'
    <3>1. i \in 1..Len(waiters[target[s]])
      <4>1. waiters[target[s]] \in Seq(Senders)
        BY DEF RpmInv, QueuesInv
      <4> QED BY <2>2, <4>1
    <3>2. waiters' = [waiters EXCEPT ![target[s]] = RemoveAt(waiters[target[s]], i)]
      BY <2>2
    <3>3. target' \in [Senders -> Profiles] /\ \A t \in Senders \ {s} : target'[t] = target[t]
      BY <2>1, Closed
    <3>4. pc' = [pc EXCEPT ![s] = "idle"] /\ "idle" # "waiting"
      BY <2>1, Closed
    <3>5. QueuesInv /\ pc \in [Senders -> {"idle", "prepared", "waiting", "sending"}]
      BY PcNames DEF RpmInv
    <3> DEFINE r == RemoveAt(waiters[target[s]], i)
    <3>6. r = RemoveAt(waiters[target[s]], i) \/ (i = 1 /\ r = Tail(waiters[target[s]]))
      OBVIOUS
    <3>7. waiters' = [waiters EXCEPT ![target[s]] = r]
      BY <3>2
    <3> HIDE DEF r
    <3> QED BY <2>1, <2>2, <3>1, <3>3, <3>4, <3>5, <3>6, <3>7, QueueLeft
  <2> QED BY <1>1, <2>3, <2>4, <2>5 DEF RpmRest
<1> QED BY <1>2, <1>3, <1>4

LEMMA CallKeepsWindow ==
    ASSUME RpmInv, NEW s \in Senders, NEW p \in Profiles, Call(s, p)
    PROVE  RpmRest'
<1>1. pc[s] = "idle" /\ target' = [target EXCEPT ![s] = p] /\ UNCHANGED <<spent, ticketAge>>
  BY DEF Call
<1>2. ticketAge[s] \notin Ages
  BY <1>1, NoTicketNoHolder
<1>3. AgesInv' /\ target' \in [Senders -> Profiles]
  BY <1>1 DEF RpmInv, AgesInv, QueuesInv
<1>4. \A q \in Profiles : Holders(q)' \subseteq Holders(q)
  BY <1>1, <1>2 DEF Holders, RpmInv, QueuesInv
<1>5. NeverOver'
  BY <1>1, <1>4, NothingRecorded
<1>6. CASE Rpm[p] <= 0 /\ pc' = [pc EXCEPT ![s] = "sending"] /\ sent' = Sent(p) /\ UNCHANGED waiters
  <2>1. \A t \in Senders : \/ pc'[t] = pc[t] /\ target'[t] = target[t]
                           \/ pc[t] # "waiting" /\ pc'[t] # "waiting"
    BY <1>1, <1>6 DEF RpmInv, RoutesInv, RouteTypes, QueuesInv
  <2>2. QueuesInv'
    BY <1>3, <1>6, <2>1, QueueUntouched DEF RpmInv
  <2>3. CountsInv' /\ Covered'
    BY <1>1, <1>6, SentIsRecorded
  <2> QED BY <1>3, <1>5, <2>2, <2>3 DEF RpmRest
<1>7. CASE pc' = [pc EXCEPT ![s] = "waiting"] /\ waiters' = [waiters EXCEPT ![p] = Append(@, s)] /\ UNCHANGED sent
  <2>1. pc[s] # "waiting" /\ QueuesInv /\ pc \in [Senders -> {"idle", "prepared", "waiting", "sending"}]
    BY <1>1, PcNames DEF RpmInv
  <2>2. QueuesInv'
    BY <1>1, <1>7, <2>1, QueueJoined
  <2>3. CountsInv' /\ Covered'
    BY <1>1, <1>7, SentIsRecorded
  <2> QED BY <1>3, <1>5, <2>2, <2>3 DEF RpmRest
<1> QED BY <1>6, <1>7 DEF Call

LEMMA AdmitKeepsWindow ==
    ASSUME RpmInv, NEW s \in Senders, Admit(s)
    PROVE  RpmRest'
<1>0. PICK p \in Profiles : p = target[s]
  BY DEF RpmInv, QueuesInv
<1>1. pc[s] = "prepared" /\ ticketAge' = [ticketAge EXCEPT ![s] = NoTicket] /\ UNCHANGED target
  BY DEF Admit, Claim
<1>2. AgesInv'
  BY <1>1, NoAge DEF RpmInv, AgesInv
<1>3. \A q \in Profiles : Holders(q)' \subseteq Holders(q) \ {s}
  BY <1>1, NoAge DEF Holders, RpmInv, AgesInv, QueuesInv
<1>4. /\ (pc' = [pc EXCEPT ![s] = "sending"] /\ UNCHANGED waiters) => QueuesInv'
      /\ (pc' = [pc EXCEPT ![s] = "waiting"] /\ waiters' = [waiters EXCEPT ![p] = Append(@, s)]) => QueuesInv'
  <2>1. ASSUME pc' = [pc EXCEPT ![s] = "sending"], UNCHANGED waiters PROVE QueuesInv'
    <3>1. \A t \in Senders : \/ pc'[t] = pc[t] /\ target'[t] = target[t]
                             \/ pc[t] # "waiting" /\ pc'[t] # "waiting"
      BY <1>1, <2>1 DEF RpmInv, RoutesInv, RouteTypes
    <3> QED BY <1>1, <2>1, <3>1, QueueUntouched DEF RpmInv, QueuesInv
  <2>2. ASSUME pc' = [pc EXCEPT ![s] = "waiting"], waiters' = [waiters EXCEPT ![p] = Append(@, s)] PROVE QueuesInv'
    <3>1. pc[s] # "waiting" /\ QueuesInv /\ pc \in [Senders -> {"idle", "prepared", "waiting", "sending"}] /\ target' = [target EXCEPT ![s] = p]
      BY <1>0, <1>1, PcNames DEF RpmInv, QueuesInv
    <3> QED BY <1>0, <2>2, <3>1, QueueJoined
  <2> QED BY <2>1, <2>2
<1>5. CASE ticketAge[s] \in Ages /\ Claim(s, p) /\ pc' = [pc EXCEPT ![s] = "sending"] /\ sent' = Sent(p) /\ UNCHANGED waiters
  <2>1. spent' = AddNow(spent, p)
    BY <1>5 DEF Claim
  <2>2. s \in Holders(p) /\ s \notin Holders(p)'
    <3>1. s \in Holders(p)
      BY <1>0, <1>5 DEF Holders
    <3>2. s \notin Holders(p)'
      BY <1>0, <1>3
    <3> QED BY <3>1, <3>2
  <2>3. NeverOver'
    BY <1>0, <1>3, <2>1, <2>2, OneRecorded
  <2>4. CountsInv' /\ Covered'
    BY <1>0, <1>5, <2>1, SentIsRecorded
  <2> QED BY <1>2, <1>4, <1>5, <2>3, <2>4 DEF RpmRest
<1>6. ASSUME UNCHANGED spent,
             \/ Rpm[p] <= 0 /\ pc' = [pc EXCEPT ![s] = "sending"] /\ sent' = Sent(p) /\ UNCHANGED waiters
             \/ pc' = [pc EXCEPT ![s] = "waiting"] /\ waiters' = [waiters EXCEPT ![p] = Append(@, s)] /\ UNCHANGED sent
      PROVE  RpmRest'
  <2>1. NeverOver'
    BY <1>3, <1>6, NothingRecorded
  <2>2. CountsInv' /\ Covered'
    BY <1>0, <1>6, SentIsRecorded
  <2>3. QueuesInv'
    BY <1>4, <1>6
  <2> QED BY <1>2, <2>1, <2>2, <2>3 DEF RpmRest
<1> QED BY <1>0, <1>5, <1>6 DEF Admit

LEMMA PollKeepsWindow ==
    ASSUME RpmInv, NEW s \in Senders, Poll(s)
    PROVE  RpmRest'
<1> DEFINE p == target[s]
<1>0. p \in Profiles /\ QueuesInv
  BY DEF RpmInv, QueuesInv
<1>1. /\ pc[s] = "waiting" /\ Head(waiters[p]) = s /\ HasRoom(p)
      /\ waiters' = [waiters EXCEPT ![p] = Tail(@)] /\ spent' = AddNow(spent, p)
  BY DEF Poll
<1>2. 1 \in 1..Len(waiters[p]) /\ waiters[p][1] = s
  <2>1. waiters[p] \in Seq(Senders) /\ s \in ToSet(waiters[p])
    BY <1>0, <1>1 DEF QueuesInv, Waiting
  <2>2. waiters[p] # <<>>
    BY <2>1 DEF ToSet
  <2> QED BY <1>1, <2>1, <2>2
<1>3. \/ pc' = [pc EXCEPT ![s] = "sending"] /\ UNCHANGED <<target, ticketAge>> /\ sent' = Sent(p)
      \/ Close(s) /\ UNCHANGED sent
  BY DEF Poll
<1>4. /\ AgesInv' /\ target' \in [Senders -> Profiles]
      /\ \A t \in Senders \ {s} : target'[t] = target[t]
      /\ \A q \in Profiles : Holders(q)' \subseteq Holders(q)
      /\ \E spot : spot # "waiting" /\ pc' = [pc EXCEPT ![s] = spot]
  <2>1. CASE Close(s)
    <3>1. pc' = [pc EXCEPT ![s] = "idle"] /\ "idle" # "waiting"
      BY <2>1, Closed
    <3>2. \E spot : spot # "waiting" /\ pc' = [pc EXCEPT ![s] = spot]
      BY <3>1
    <3> QED BY <2>1, <3>2, Closed
  <2>2. CASE pc' = [pc EXCEPT ![s] = "sending"] /\ UNCHANGED <<target, ticketAge>>
    <3>1. \E spot : spot # "waiting" /\ pc' = [pc EXCEPT ![s] = spot]
      <4>1. "sending" # "waiting"
        OBVIOUS
      <4> QED BY <2>2, <4>1
    <3> QED BY <2>2, <3>1 DEF RpmInv, AgesInv, QueuesInv, Holders
  <2> QED BY <1>3, <2>1, <2>2
<1>5. NeverOver'
  BY <1>0, <1>1, <1>4, OneRecorded
<1>6. CountsInv' /\ Covered'
  BY <1>0, <1>1, <1>3, SentIsRecorded
<1>7. QueuesInv'
  <2>1. PICK spot : spot # "waiting" /\ pc' = [pc EXCEPT ![s] = spot]
    BY <1>4
  <2>2. waiters' = [waiters EXCEPT ![p] = Tail(waiters[p])]
    BY <1>1
  <2>3. pc \in [Senders -> {"idle", "prepared", "waiting", "sending"}]
    BY PcNames
  <2> DEFINE r == Tail(waiters[target[s]])
  <2>4. r = RemoveAt(waiters[target[s]], 1) \/ (1 = 1 /\ r = Tail(waiters[target[s]]))
    OBVIOUS
  <2>5. waiters' = [waiters EXCEPT ![target[s]] = r]
    BY <2>2
  <2> HIDE DEF r
  <2> QED BY <1>0, <1>1, <1>2, <1>4, <2>1, <2>3, <2>4, <2>5, QueueLeft
<1> QED BY <1>4, <1>5, <1>6, <1>7 DEF RpmRest

LEMMA TickKeepsWindow ==
    ASSUME RpmInv, Tick
    PROVE  RpmRest'
<1>1. /\ spent' = [p \in Profiles |-> Older(spent[p])] /\ sent' = [p \in Profiles |-> Older(sent[p])]
      /\ ticketAge' = [s \in Senders |-> IF ticketAge[s] \in Ages THEN ticketAge[s] + 1 ELSE ticketAge[s]]
      /\ UNCHANGED <<waiters, pc, target>>
  BY DEF Tick
<1>2. \A p \in Profiles :
        /\ spent[p] \in Counts /\ sent[p] \in Counts /\ Older(spent[p]) \in Counts /\ Older(sent[p]) \in Counts
        /\ Total(spent[p]) \in Nat /\ Total(Older(spent[p])) \in Nat /\ Total(Older(spent[p])) <= Total(spent[p])
  BY TotalFacts DEF RpmInv, CountsInv
<1>3. CountsInv'
  BY <1>1, <1>2 DEF CountsInv
<1>4. Covered'
  <2> SUFFICES ASSUME NEW p \in Profiles, NEW a \in Ages, Rpm[p] > 0 PROVE sent'[p][a] <= spent'[p][a]
    BY DEF Covered
  <2>1. sent'[p] = Older(sent[p]) /\ spent'[p] = Older(spent[p])
    BY <1>1
  <2>2. CASE a = 0
    BY <2>1, <2>2 DEF Older
  <2>3. CASE a # 0
    <3>1. a - 1 \in Ages
      BY <2>3, LimitsAssumption DEF Ages
    <3>2. sent[p][a - 1] <= spent[p][a - 1]
      BY <3>1 DEF RpmInv, Covered
    <3> QED BY <2>1, <2>3, <3>2 DEF Older
  <2> QED BY <2>2, <2>3
<1>5. AgesInv'
  BY <1>1, LimitsAssumption DEF RpmInv, AgesInv, Ages, NoTicket
<1>6. QueuesInv'
  BY <1>1, QueueUntouched DEF RpmInv, QueuesInv
<1>7. NeverOver'
  <2> SUFFICES ASSUME NEW p \in Profiles, Rpm[p] > 0 PROVE Recorded(p)' <= Rpm[p]
    BY DEF NeverOver
  <2>1. Holders(p)' \subseteq Holders(p)
    BY <1>1 DEF Holders
  <2>2. Cardinality(Holders(p)') <= Cardinality(Holders(p)) /\ Cardinality(Holders(p)') \in Nat /\ Cardinality(Holders(p)) \in Nat
    BY <2>1, HoldersAreFinite, FS_Subset, FS_CardinalityType
  <2>3. Total(spent[p])' = Total(Older(spent[p]))
    BY <1>1
  <2>4. Recorded(p) <= Rpm[p] /\ Rpm[p] \in Nat
    BY LimitsAssumption DEF RpmInv, NeverOver
  <2> QED BY <1>2, <2>2, <2>3, <2>4 DEF Recorded
<1> QED BY <1>3, <1>4, <1>5, <1>6, <1>7 DEF RpmRest

LEMMA RpmStep ==
    ASSUME RpmInv, [LimitsNext]_limitVars
    PROVE  RpmInv'
<1>1. RoutesInv'
  BY RoutesStep DEF RpmInv
<1>2. CASE UNCHANGED limitVars \/ TpmNext
  <2>1. UNCHANGED rpmVars
    BY <1>2 DEF limitVars, TpmNext, Reserve, AbandonReserve, AskTokens, SettleTokens
  <2>2. UNCHANGED <<spent, sent, waiters, target, pc, ticketAge>>
    BY <2>1 DEF rpmVars
  <2>3. AgesInv' /\ CountsInv' /\ Covered'
    BY <2>2 DEF RpmInv, AgesInv, CountsInv, Covered
  <2>4. QueuesInv'
    BY <2>2, QueueUntouched DEF RpmInv, QueuesInv
  <2>5. \A p \in Profiles : Holders(p)' \subseteq Holders(p)
    BY <2>2 DEF Holders
  <2>6. NeverOver'
    BY <2>2, <2>5, NothingRecorded
  <2> QED BY <1>1, <2>3, <2>4, <2>6 DEF RpmInv
<1>3. RpmRest' => RpmInv'
  BY <1>1 DEF RpmInv, RpmRest
<1>4. CASE Tick
  BY <1>3, <1>4, TickKeepsWindow
<1>5. CASE RpmNext
  <2>1. PICK s \in Senders : \/ Prepare(s) \/ GiveUp(s) \/ Admit(s) \/ Poll(s) \/ AbandonWait(s) \/ Answered(s)
                             \/ \E p \in Profiles : Call(s, p)
    BY <1>5 DEF RpmNext
  <2> QED BY <1>3, <2>1, PrepareKeepsWindow, EndKeepsWindow, CallKeepsWindow, AdmitKeepsWindow, PollKeepsWindow
<1> QED BY <1>2, <1>4, <1>5 DEF LimitsNext

LEMMA RpmInit ==
    ASSUME LimitsInit
    PROVE  RpmInv
<1>1. RoutesInv
  BY RoutesInit
<1>2. AgesInv /\ \A p : Holders(p) = {}
  BY NoAge DEF LimitsInit, AgesInv, Holders
<1>3. CountsInv /\ Covered
  BY DEF LimitsInit, CountsInv, Covered, Counts
<1>4. QueuesInv
  <2>1. AnyProfile \in Profiles
    BY LimitsAssumption DEF AnyProfile
  <2>2. target \in [Senders -> Profiles] /\ waiters \in [Profiles -> Seq(Senders)]
    BY <2>1 DEF LimitsInit
  <2>3. IsInjective(<<>>) /\ ToSet(<<>>) = {}
    BY DEF IsInjective, ToSet
  <2>4. \A p \in Profiles : Waiting(p) = {} /\ waiters[p] = <<>>
    BY DEF LimitsInit, Waiting
  <2> QED BY <2>2, <2>3, <2>4 DEF QueuesInv
<1>5. NeverOver
  <2> SUFFICES ASSUME NEW p \in Profiles, Rpm[p] > 0 PROVE Recorded(p) <= Rpm[p]
    BY DEF NeverOver
  <2> DEFINE zero == [a \in Ages |-> 0]
  <2>0. spent[p] = zero /\ zero \in Counts
    BY DEF LimitsInit, Counts
  <2>1. Total(zero) = 0
    <3> DEFINE byPlace == [k \in 1..Window |-> zero[k - 1]]
    <3>1. Window \in Nat \ {0} /\ \A k \in 1..Window : k - 1 \in Ages
      BY LimitsAssumption DEF Ages
    <3>2. byPlace \in [1..Window -> Nat] /\ \A k \in 1..Window : byPlace[k] = 0
      BY <3>1
    <3>3. Total(zero) = SumTo(byPlace, Window)
      BY DEF Total
    <3> HIDE DEF byPlace
    <3>4. PICK s : Partial(s, byPlace, Window) /\ SumTo(byPlace, Window) = s[Window]
      BY <3>1, <3>2, SumIsPartial
    <3> DEFINE T == {n \in Nat : n <= Window => s[n] = 0}
    <3>5. 0 \in T
      BY <3>4 DEF Partial
    <3>6. ASSUME NEW n \in T PROVE n + 1 \in T
      <4> SUFFICES ASSUME n + 1 <= Window PROVE s[n + 1] = 0
        OBVIOUS
      <4>1. s[n] = 0 /\ n + 1 \in 1..Window /\ (n + 1) - 1 = n
        BY <3>1
      <4>2. s[n + 1] = s[n] + byPlace[n + 1] /\ byPlace[n + 1] = 0
        BY <3>2, <3>4, <4>1 DEF Partial
      <4> QED BY <4>1, <4>2
    <3> HIDE DEF T
    <3>7. T \in SUBSET Nat
      BY DEF T
    <3>8. Window \in T
      BY <3>1, <3>5, <3>6, <3>7, NatInductionBySet
    <3> QED BY <3>1, <3>3, <3>4, <3>8 DEF T
  <2>2. Cardinality(Holders(p)) = 0
    BY <1>2, FS_EmptySet
  <2>3. Recorded(p) = 0
    BY <2>0, <2>1, <2>2 DEF Recorded
  <2> QED BY <2>3, LimitsAssumption
<1> QED BY <1>1, <1>2, <1>3, <1>4, <1>5 DEF RpmInv

-----------------------------------------------------------------------------
(* The tokens. *)

LEMMA TokensUsedFacts ==
    ASSUME TokensInv
    PROVE  TokensUsed \in Nat /\ (Len(tokens) = 1 => TokensUsed = tokens[1].cost)
<1> DEFINE f == [i \in DOMAIN tokens |-> tokens[i].cost]
<1>0. Len(tokens) \in Nat /\ DOMAIN tokens = 1..Len(tokens) /\ \A i \in 1..Len(tokens) : tokens[i] \in TokenEntry
  BY DEF TokensInv
<1>1. Len(tokens) \in Nat /\ DOMAIN tokens = 1..Len(tokens) /\ \A i \in 1..Len(tokens) : tokens[i].cost \in Nat
  BY <1>0 DEF TokenEntry
<1>2. f \in [1..Len(tokens) -> Nat] /\ \A i \in 1..Len(tokens) : f[i] = tokens[i].cost
  BY <1>1
<1>3. TokensUsed = SumTo(f, Len(tokens))
  BY DEF TokensUsed
<1> HIDE DEF f
<1>4. TokensUsed \in Nat
  BY <1>1, <1>2, <1>3, SumIsNat
<1>5. ASSUME Len(tokens) = 1 PROVE TokensUsed = tokens[1].cost
  <2>1. f \in [1..1 -> Nat] /\ f[1] = tokens[1].cost /\ TokensUsed = SumTo(f, 1)
    BY <1>2, <1>3, <1>5
  <2> QED BY <2>1, SumOfOne
<1> QED BY <1>4, <1>5

LEMMA ReserveStep ==
    ASSUME TpmInv, Reserve
    PROVE  TpmInv'
<1>1. tokens \in Seq(TokenEntry) /\ lockQueue \in Seq(LockEntry)
  BY DEF TpmInv, TokensInv
<1> DEFINE h == Head(lockQueue)
           e == [cost |-> h.cost, age |-> 0, by |-> h.by, settled |-> FALSE]
<1>2. /\ lockQueue # <<>> /\ Fits(h.cost) /\ tokens' = Append(tokens, e) /\ lockQueue' = Tail(lockQueue)
  BY DEF Reserve
<1>3. h \in LockEntry /\ lockQueue' \in Seq(LockEntry)
  BY <1>1, <1>2
<1> HIDE DEF h
<1>10. h.cost \in Nat /\ h.by \in Senders
  BY <1>3 DEF LockEntry
<1>4. e \in TokenEntry /\ e.cost = h.cost
  BY <1>10 DEF TokenEntry
<1> HIDE DEF e
<1>5. tokens' \in Seq(TokenEntry)
  BY <1>1, <1>2, <1>4
<1>6. TokensUsed \in Nat /\ (Len(tokens) = 1 => TokensUsed = tokens[1].cost)
  BY TokensUsedFacts DEF TpmInv
<1>7. TokenLimit \in Nat /\ h.cost \in Nat
  BY <1>10, LimitsAssumption
<1>8. /\ Len(tokens') = Len(tokens) + 1 /\ tokens'[Len(tokens) + 1] = e
      /\ \A i \in 1..Len(tokens) : tokens'[i] = tokens[i]
  BY <1>1, <1>2
<1>9. OversizeRunsAlone'
  <2> SUFFICES ASSUME NEW i \in 1..(Len(tokens) + 1), tokens'[i].cost > TokenLimit, ~tokens'[i].settled
               PROVE  Len(tokens') = 1
    BY <1>5, <1>8 DEF OversizeRunsAlone
  <2>1. CASE i = Len(tokens) + 1
    <3>1. h.cost > TokenLimit
      BY <1>4, <1>8, <2>1
    <3>2. tokens = <<>>
      BY <1>2, <1>6, <1>7, <3>1 DEF Fits
    <3> QED BY <1>8, <3>2
  <2>2. CASE i \in 1..Len(tokens)
    <3>1. tokens[i].cost > TokenLimit /\ ~tokens[i].settled /\ i \in DOMAIN tokens
      BY <1>1, <1>8, <2>2
    <3>2. Len(tokens) = 1
      BY <3>1 DEF TpmInv, OversizeRunsAlone
    <3>3. i = 1 /\ tokens # <<>>
      BY <2>2, <3>2
    <3>4. TokensUsed > TokenLimit
      BY <1>6, <3>1, <3>2, <3>3
    <3>5. ~Fits(h.cost)
      BY <1>6, <1>7, <3>3, <3>4 DEF Fits
    <3> QED BY <1>2, <3>5
  <2> QED BY <1>1, <2>1, <2>2
<1> QED BY <1>3, <1>5, <1>9 DEF TpmInv, TokensInv

LEMMA TokensAge ==
    ASSUME TpmInv, Tick
    PROVE  TpmInv'
<1>1. tokens \in Seq(TokenEntry) /\ Len(tokens) \in Nat /\ DOMAIN tokens = 1..Len(tokens)
  BY DEF TpmInv, TokensInv
<1>2. PICK n \in 0..Len(tokens) :
        tokens' = [i \in 1..(Len(tokens) - n) |-> [tokens[i + n] EXCEPT !.age = @ + 1]]
  BY DEF Tick
<1>11. \A i \in 1..(Len(tokens) - n) : i + n \in 1..Len(tokens) /\ tokens[i + n] \in TokenEntry
  BY <1>1
<1>3. \A i \in 1..(Len(tokens) - n) :
        /\ [tokens[i + n] EXCEPT !.age = @ + 1] \in TokenEntry
        /\ tokens'[i].cost = tokens[i + n].cost /\ tokens'[i].settled = tokens[i + n].settled
  <2> SUFFICES ASSUME NEW i \in 1..(Len(tokens) - n)
               PROVE  /\ [tokens[i + n] EXCEPT !.age = @ + 1] \in TokenEntry
                      /\ tokens'[i].cost = tokens[i + n].cost /\ tokens'[i].settled = tokens[i + n].settled
    OBVIOUS
  <2>1. PICK e \in TokenEntry : e = tokens[i + n]
    BY <1>11
  <2>2. [e EXCEPT !.age = @ + 1] \in TokenEntry /\ [e EXCEPT !.age = @ + 1].cost = e.cost /\ [e EXCEPT !.age = @ + 1].settled = e.settled
    BY DEF TokenEntry
  <2>3. tokens'[i] = [e EXCEPT !.age = @ + 1]
    BY <1>2, <2>1
  <2> QED BY <2>1, <2>2, <2>3
<1>4. Len(tokens) - n \in Nat
  BY <1>1
<1>5. tokens' \in Seq(TokenEntry) /\ Len(tokens') = Len(tokens) - n
  BY <1>2, <1>3, <1>4
<1>6. lockQueue' = lockQueue
  BY DEF Tick
<1>7. OversizeRunsAlone'
  <2> SUFFICES ASSUME NEW i \in 1..(Len(tokens) - n), tokens'[i].cost > TokenLimit, ~tokens'[i].settled
               PROVE  Len(tokens') = 1
    BY <1>2 DEF OversizeRunsAlone
  <2>1. tokens[i + n].cost > TokenLimit /\ ~tokens[i + n].settled /\ i + n \in 1..Len(tokens)
    BY <1>11, <1>3
  <2>2. Len(tokens) = 1
    BY <1>1, <2>1 DEF TpmInv, OversizeRunsAlone
  <2> QED BY <1>1, <1>5, <2>2
<1> QED BY <1>5, <1>6, <1>7 DEF TpmInv, TokensInv

LEMMA AbandonReserveStep ==
    ASSUME TpmInv, NEW s \in Senders, AbandonReserve(s)
    PROVE  TpmInv'
<1>1. lockQueue \in Seq(LockEntry) /\ tokens' = tokens
  BY DEF TpmInv, TokensInv, AbandonReserve
<1>2. PICK i \in DOMAIN lockQueue : lockQueue' = RemoveAt(lockQueue, i)
  BY DEF AbandonReserve
<1>3. i \in 1..Len(lockQueue)
  BY <1>1
<1>4. SubSeq(lockQueue, 1, i - 1) \in Seq(LockEntry) /\ SubSeq(lockQueue, i + 1, Len(lockQueue)) \in Seq(LockEntry)
  BY <1>1, <1>3
<1>5. RemoveAt(lockQueue, i) \in Seq(LockEntry)
  BY <1>4 DEF RemoveAt
<1> QED BY <1>1, <1>2, <1>5 DEF TpmInv, TokensInv, OversizeRunsAlone

LEMMA AskSettleStep ==
    ASSUME TpmInv, NEW s \in Senders, NEW c \in Costs, AskTokens(s, c) \/ SettleTokens(s, c)
    PROVE  TpmInv'
<1>0. c \in Nat
  BY LimitsAssumption
<1>1. CASE AskTokens(s, c)
  <2> DEFINE e == [by |-> s, cost |-> c]
  <2>1. lockQueue' = Append(lockQueue, e) /\ tokens' = tokens
    BY <1>1 DEF AskTokens
  <2>2. lockQueue \in Seq(LockEntry) /\ e \in LockEntry
    BY <1>0 DEF TpmInv, TokensInv, LockEntry
  <2> HIDE DEF e
  <2>3. lockQueue' \in Seq(LockEntry)
    BY <2>1, <2>2
  <2> QED BY <2>1, <2>3 DEF TpmInv, TokensInv, OversizeRunsAlone
<1>2. CASE SettleTokens(s, c)
  <2>1. PICK i \in DOMAIN tokens : tokens' = [tokens EXCEPT ![i].cost = c, ![i].settled = TRUE]
    BY <1>2 DEF SettleTokens
  <2>2. lockQueue' = lockQueue
    BY <1>2 DEF SettleTokens
  <2>3. tokens \in Seq(TokenEntry) /\ Len(tokens) \in Nat /\ i \in 1..Len(tokens) /\ tokens[i] \in TokenEntry
    BY DEF TpmInv, TokensInv
  <2>4. PICK e \in TokenEntry : e.settled = TRUE /\ tokens' = [tokens EXCEPT ![i] = e]
    <3> DEFINE e == [tokens[i] EXCEPT !.cost = c, !.settled = TRUE]
    <3>1. e \in TokenEntry /\ e.settled = TRUE
      BY <1>0, <2>3 DEF TokenEntry
    <3>2. tokens' = [tokens EXCEPT ![i] = e]
      BY <2>1, <2>3
    <3> HIDE DEF e
    <3> QED BY <3>1, <3>2
  <2>5. tokens' \in Seq(TokenEntry) /\ Len(tokens') = Len(tokens) /\ \A k \in 1..Len(tokens) : tokens'[k] = IF k = i THEN e ELSE tokens[k]
    BY <2>3, <2>4
  <2>6. OversizeRunsAlone'
    <3> SUFFICES ASSUME NEW k \in 1..Len(tokens), tokens'[k].cost > TokenLimit, ~tokens'[k].settled
                 PROVE  Len(tokens') = 1
      BY <2>5 DEF OversizeRunsAlone
    <3>1. k # i
      BY <2>4, <2>5
    <3>2. tokens[k].cost > TokenLimit /\ ~tokens[k].settled /\ k \in DOMAIN tokens
      BY <2>3, <2>5, <3>1
    <3> QED BY <2>5, <3>2 DEF TpmInv, OversizeRunsAlone
  <2> QED BY <2>2, <2>5, <2>6 DEF TpmInv, TokensInv
<1> QED BY <1>1, <1>2

LEMMA TpmStep ==
    ASSUME TpmInv, [LimitsNext]_limitVars
    PROVE  TpmInv'
<1>1. CASE UNCHANGED limitVars \/ RpmNext
  <2>1. UNCHANGED tpmVars
    BY <1>1 DEF limitVars, RpmNext, Prepare, GiveUp, Admit, Poll, AbandonWait, Answered, Call
  <2>2. UNCHANGED <<tokens, lockQueue>>
    BY <2>1 DEF tpmVars
  <2> QED BY <2>2 DEF TpmInv, TokensInv, OversizeRunsAlone
<1>2. CASE Tick
  BY <1>2, TokensAge
<1>3. CASE TpmNext
  BY <1>3, ReserveStep, AbandonReserveStep, AskSettleStep DEF TpmNext
<1> QED BY <1>1, <1>2, <1>3 DEF LimitsNext

\* No minute holds more requests of a profile than its limit, whichever tasks, routes and retries
\* they come from, every queue lists exactly the workers that wait, a request above the whole
\* token budget runs alone, and every reservation comes back (claim, acquire, reserve, close).
THEOREM WindowsAlwaysHold == LimitsSpec => []WindowsHold
<1>1. LimitsInit => RpmInv /\ TpmInv
  <2>1. LimitsInit => TpmInv
    BY DEF LimitsInit, TpmInv, TokensInv, OversizeRunsAlone
  <2> QED BY <2>1, RpmInit
<1>2. RpmInv /\ TpmInv /\ [LimitsNext]_limitVars => (RpmInv /\ TpmInv)'
  BY RpmStep, TpmStep
<1>3. RpmInv /\ TpmInv => WindowsHold
  <2> SUFFICES ASSUME RpmInv, TpmInv PROVE WindowsHold
    OBVIOUS
  <2>1. LimitsTypeOK
    <3>1. \A p \in Profiles : \A a \in Ages : spent[p][a] \in Nat /\ sent[p][a] \in Nat
      BY DEF RpmInv, CountsInv, Counts
    <3>2. \A p \in Profiles : IsInjective(waiters[p]) /\ ToSet(waiters[p]) = {s \in Senders : pc[s] = "waiting" /\ target[s] = p}
      BY DEF RpmInv, QueuesInv, Waiting
    <3>3. /\ pc \in [Senders -> {"idle", "prepared", "waiting", "sending"}] /\ ticketAge \in [Senders -> 0..NoTicket]
          /\ active \in [Routes -> Nat]
      BY DEF RpmInv, RoutesInv, RouteTypes, AgesInv
    <3> QED BY <3>1, <3>2, <3>3 DEF LimitsTypeOK
  <2>2. WindowHolds
    <3> SUFFICES ASSUME NEW p \in Profiles, Rpm[p] > 0 PROVE Total(sent[p]) <= Rpm[p]
      BY DEF WindowHolds
    <3>1. sent[p] \in Counts /\ spent[p] \in Counts /\ \A a \in Ages : sent[p][a] <= spent[p][a]
      BY DEF RpmInv, CountsInv, Covered
    <3>2. Total(sent[p]) <= Total(spent[p]) /\ Total(sent[p]) \in Nat /\ Total(spent[p]) \in Nat
      BY <3>1, TotalFacts
    <3>3. Recorded(p) <= Rpm[p] /\ Cardinality(Holders(p)) \in Nat /\ Rpm[p] \in Nat
      BY HoldersAreFinite, LimitsAssumption DEF RpmInv, NeverOver
    <3> QED BY <3>2, <3>3 DEF Recorded
  <2>3. ReservationsReturned
    BY DEF RpmInv, RoutesInv, TicketsHeld, ActiveCounts, On, ReservationsReturned
  <2> QED BY <2>1, <2>2, <2>3 DEF WindowsHold, TpmInv
<1> QED BY <1>1, <1>2, <1>3, PTL DEF LimitsSpec
=============================================================================
