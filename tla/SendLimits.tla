----------------------------- MODULE SendLimits -----------------------------
(***************************************************************************)
(* transoria/runtime/rate_limit.py and workflows/translation/routing.py:   *)
(* the shared requests-per-minute limiter of each model profile, the       *)
(* routes of an advanced translation that reserve a place before a worker  *)
(* starts, and the tokens-per-minute limiter of one task.                  *)
(*                                                                         *)
(* A limiter's deque of timestamps is held as ages: `spent' counts the     *)
(* entries nobody looks up again, `ticketAge' holds the reservations.      *)
(* One Tick is Window-th of a minute; an entry that reaches Window is gone *)
(* at once, which is the _evict every operation begins with.               *)
(***************************************************************************)
EXTENDS Naturals, Sequences, FiniteSets, Functions, SequencesExt

CONSTANTS
    Profiles,     \* model profiles: one SharedRpmLimiter each
    Routes,       \* 1..n: the routes of the advanced workflow, in their order
    RouteProfile, \* Routes -> Profiles
    Rpm,          \* Profiles -> rpm_limit, 0 for none
    Routed,       \* workers of the routed task
    Plain,        \* workers of tasks that send through one profile
    Window,       \* ticks of the sliding window
    GroupLimit,   \* group_concurrency
    TokenLimit,   \* tpm_limit
    Costs         \* what a request may be estimated at, or cost in the end

\* route 0 is none
ASSUME LimitsAssumption ==
    /\ IsFiniteSet(Routed) /\ IsFiniteSet(Plain)
    /\ Routes \subseteq Nat \ {0} /\ Window \in Nat \ {0}
    /\ \A r \in Routes : RouteProfile[r] \in Profiles
    /\ \A p \in Profiles : Rpm[p] \in Nat
    /\ Profiles # {} /\ Costs \subseteq Nat /\ TokenLimit \in Nat

VARIABLES
    spent,      \* [Profiles -> [age -> entries of _timestamps nobody owns]]
    waiters,    \* [Profiles -> _waiters]
    pc,         \* where a worker is
    route,      \* the route of its _PreparedRoute, 0 for none
    target,     \* the profile it sends to
    ticketAge,  \* age of its reservation, Window when evicted, or NoTicket
    used,       \* admission.used
    active,     \* _active
    sent,       \* ghost: requests really sent to limited profiles, by age
    tokens,     \* _entries of the TpmLimiter: [cost, age, by, settled]
    lockQueue   \* calls that hold (Head) and await the TpmLimiter's lock: [by, cost]

rpmVars  == <<spent, waiters, pc, route, target, ticketAge, used, active, sent>>
tpmVars  == <<tokens, lockQueue>>
limitVars == <<rpmVars, tpmVars>>

Senders == Routed \cup Plain
Ages    == 0..(Window - 1)
NoTicket == Window + 1
\* f[1] + ... + f[n]
SumTo(f, n) == LET sum[k \in 0..n] == IF k = 0 THEN 0 ELSE sum[k - 1] + f[k] IN sum[n]
Total(counts) == SumTo([k \in 1..Window |-> counts[k - 1]], Window)

\* what `target' says of a worker that sends to nobody
AnyProfile == CHOOSE p \in Profiles : TRUE

LimitsInit ==
    /\ spent = [p \in Profiles |-> [a \in Ages |-> 0]]
    /\ sent = [p \in Profiles |-> [a \in Ages |-> 0]]
    /\ waiters = [p \in Profiles |-> <<>>]
    /\ pc = [s \in Senders |-> "idle"]
    /\ route = [s \in Senders |-> 0]
    /\ target = [s \in Senders |-> AnyProfile]
    /\ ticketAge = [s \in Senders |-> NoTicket]
    /\ used = [s \in Senders |-> FALSE]
    /\ active = [r \in Routes |-> 0]
    /\ tokens = <<>> /\ lockQueue = <<>>

-----------------------------------------------------------------------------
(* SharedRpmLimiter *)

Holders(p)  == {s \in Senders : target[s] = p /\ ticketAge[s] \in Ages}
Recorded(p) == Total(spent[p]) + Cardinality(Holders(p))
HasRoom(p)  == Recorded(p) < Rpm[p]
AddNow(counts, p) == [counts EXCEPT ![p][0] = @ + 1]

\* what the ghost counts: requests of limited profiles
Sent(p) == IF Rpm[p] > 0 THEN AddNow(sent, p) ELSE sent

\* mutant: the waiters are overtaken
ReservableAnyway(p) == Rpm[p] <= 0 \/ HasRoom(p)
\* try_reserve: a queue of waiters goes first
Reservable(p) == Rpm[p] <= 0 \/ (waiters[p] = <<>> /\ HasRoom(p))

\* time passes for every entry of every limiter
Older(counts) == [a \in Ages |-> IF a = 0 THEN 0 ELSE counts[a - 1]]

-----------------------------------------------------------------------------
(* RoutedTranslationRunner.prepare and _PreparedRoute.close *)

Unlimited == LET finite == FoldFunction(+, 0, [p \in {RouteProfile[r] : r \in Routes} |-> Rpm[p]])
             IN  CHOOSE n \in {1, GroupLimit, finite} : \A k \in {1, GroupLimit, finite} : k <= n
\* weights are compared as the fractions Weight / Sharing
Weight(r)  == IF Rpm[RouteProfile[r]] > 0 THEN Rpm[RouteProfile[r]] ELSE Unlimited
Sharing(r) == Cardinality({q \in Routes : RouteProfile[q] = RouteProfile[r]})
\* the sort key, without its tie-breakers (_assigned, which only grows, and
\* the index): any of the least loaded routes may come first
Before(r, q) == active[r] * Sharing(r) * Weight(q) < active[q] * Sharing(q) * Weight(r)

Candidate(r) == /\ Reservable(RouteProfile[r])
                /\ \A q \in Routes \ {r} :
                     Before(q, r) => ~Reservable(RouteProfile[q])

Prepare(s) ==
    /\ s \in Routed /\ pc[s] = "idle"
    /\ \E r \in Routes :
         /\ Candidate(r)
         /\ route' = [route EXCEPT ![s] = r]
         /\ target' = [target EXCEPT ![s] = RouteProfile[r]]
         /\ active' = [active EXCEPT ![r] = @ + 1]
         /\ ticketAge' = [ticketAge EXCEPT ![s] =
                            IF Rpm[RouteProfile[r]] > 0 THEN 0 ELSE Window]
    /\ pc' = [pc EXCEPT ![s] = "prepared"]
    /\ used' = [used EXCEPT ![s] = FALSE]
    /\ UNCHANGED <<spent, waiters, sent, tpmVars>>

\* mutant: the ticket stays in the deque as if it had been spent
CloseKeepingTicket(s) ==
    /\ active' = IF route[s] = 0 THEN active
                 ELSE [active EXCEPT ![route[s]] = @ - 1]
    /\ route' = [route EXCEPT ![s] = 0]
    /\ UNCHANGED <<target, ticketAge, used>>
    /\ pc' = [pc EXCEPT ![s] = "idle"]

\* close() and the end of run(): an unused ticket goes back
Close(s) ==
    /\ active' = IF route[s] = 0 THEN active
                 ELSE [active EXCEPT ![route[s]] = @ - 1]
    /\ route' = [route EXCEPT ![s] = 0]
    /\ ticketAge' = [ticketAge EXCEPT ![s] = NoTicket]
    /\ used' = [used EXCEPT ![s] = FALSE]
    /\ pc' = [pc EXCEPT ![s] = "idle"]
    /\ target' = [target EXCEPT ![s] = AnyProfile]

\* the executor drops the subtask (stop or pause after prepare), the runner
\* ends without a request, or its last request was answered
GiveUp(s) ==
    /\ pc[s] = "prepared"
    /\ Close(s)
    /\ UNCHANGED <<spent, waiters, sent, tpmVars>>

-----------------------------------------------------------------------------
(* _admit, LlmClient._execute_transport and SharedRpmLimiter.acquire *)

\* a worker of a plain task calls the client of its profile
Call(s, p) ==
    /\ s \in Plain /\ pc[s] = "idle"
    /\ target' = [target EXCEPT ![s] = p]
    /\ \/ /\ Rpm[p] <= 0
          /\ pc' = [pc EXCEPT ![s] = "sending"] /\ sent' = Sent(p)
          /\ UNCHANGED waiters
       \/ /\ Rpm[p] > 0
          /\ pc' = [pc EXCEPT ![s] = "waiting"]
          /\ waiters' = [waiters EXCEPT ![p] = Append(@, s)]
          /\ UNCHANGED sent
    /\ UNCHANGED <<spent, route, ticketAge, used, active, tpmVars>>

\* mutant: the entry keeps the time of the reservation
ClaimInPlace(s, p) ==
    /\ spent' = [spent EXCEPT ![p][ticketAge[s]] = @ + 1]
    /\ ticketAge' = [ticketAge EXCEPT ![s] = NoTicket]

\* the first request of a prepared route claims its ticket: the entry moves
\* to now
Claim(s, p) ==
    /\ spent' = AddNow(spent, p)
    /\ ticketAge' = [ticketAge EXCEPT ![s] = NoTicket]

Admit(s) ==
    LET p == target[s] IN
    /\ pc[s] = "prepared"
    /\ used' = [used EXCEPT ![s] = TRUE]
    /\ \/ /\ ~used[s] /\ ticketAge[s] \in Ages
          /\ Claim(s, p)
          /\ pc' = [pc EXCEPT ![s] = "sending"] /\ sent' = Sent(p)
          /\ UNCHANGED waiters
       \/ /\ used[s] \/ ticketAge[s] \notin Ages
          /\ ticketAge' = [ticketAge EXCEPT ![s] = NoTicket]
          /\ UNCHANGED spent
          /\ IF Rpm[p] <= 0
             THEN /\ pc' = [pc EXCEPT ![s] = "sending"] /\ sent' = Sent(p)
                  /\ UNCHANGED waiters
             ELSE /\ pc' = [pc EXCEPT ![s] = "waiting"]
                  /\ waiters' = [waiters EXCEPT ![p] = Append(@, s)]
                  /\ UNCHANGED sent
    /\ UNCHANGED <<route, target, active, tpmVars>>

\* a waiter wakes up, is the first and finds room; a stop seen after
\* acquire() has returned leaves its entry behind
Poll(s) ==
    LET p == target[s] IN
    /\ pc[s] = "waiting" /\ Head(waiters[p]) = s /\ HasRoom(p)
    /\ waiters' = [waiters EXCEPT ![p] = Tail(@)]
    /\ spent' = AddNow(spent, p)
    /\ \/ /\ pc' = [pc EXCEPT ![s] = "sending"] /\ sent' = Sent(p)
          /\ UNCHANGED <<route, target, ticketAge, used, active>>
       \/ Close(s) /\ UNCHANGED sent
    /\ UNCHANGED tpmVars

\* mutant: acquire() has no finally
AbandonWaitInQueue(s) ==
    /\ pc[s] = "waiting"
    /\ Close(s)
    /\ UNCHANGED <<waiters, spent, sent, tpmVars>>

\* a stop seen by the poll, or a CancelledError in its sleep
AbandonWait(s) ==
    /\ pc[s] = "waiting"
    /\ \E i \in DOMAIN waiters[target[s]] :
         /\ waiters[target[s]][i] = s
         /\ waiters' = [waiters EXCEPT ![target[s]] = RemoveAt(@, i)]
    /\ Close(s)
    /\ UNCHANGED <<spent, sent, tpmVars>>
\* the provider answers or the timeout strikes; a routed worker may send again
Answered(s) ==
    /\ pc[s] = "sending"
    /\ IF route[s] # 0
       THEN /\ pc' = [pc EXCEPT ![s] = "prepared"]
            /\ UNCHANGED <<route, target, ticketAge, used, active>>
       ELSE Close(s)
    /\ UNCHANGED <<spent, waiters, sent, tpmVars>>

-----------------------------------------------------------------------------
(* TpmLimiter: reserve() polls while it holds the lock *)

TokensUsed == SumTo([i \in DOMAIN tokens |-> tokens[i].cost], Len(tokens))
\* mutant: an oversize request waits for a budget it never gets
FitsStrictly(cost) == TokensUsed + cost <= TokenLimit
\* mutant: an oversize request goes when the budget is not used up
FitsLoosely(cost) == TokensUsed < TokenLimit \/ tokens = <<>>

Fits(cost) == TokensUsed + cost <= TokenLimit \/ tokens = <<>>
AskTokens(s, cost) ==
    /\ s \in Plain /\ \A i \in DOMAIN lockQueue : lockQueue[i].by # s
    /\ \A i \in DOMAIN tokens : tokens[i].by # s   \* bound: one entry each
    /\ lockQueue' = Append(lockQueue, [by |-> s, cost |-> cost])
    /\ UNCHANGED <<tokens, rpmVars>>

Reserve ==
    /\ lockQueue # <<>> /\ Fits(Head(lockQueue).cost)
    /\ tokens' = Append(tokens, [cost |-> Head(lockQueue).cost, age |-> 0,
                                 by |-> Head(lockQueue).by, settled |-> FALSE])
    /\ lockQueue' = Tail(lockQueue)
    /\ UNCHANGED rpmVars

\* cancelled while it awaits the lock or sleeps with it
AbandonReserve(s) ==
    /\ \E i \in DOMAIN lockQueue : lockQueue[i].by = s /\ lockQueue' = RemoveAt(lockQueue, i)
    /\ UNCHANGED <<tokens, rpmVars>>

SettleTokens(s, cost) ==
    /\ \E i \in DOMAIN tokens :
         /\ tokens[i].by = s /\ ~tokens[i].settled
         /\ tokens' = [tokens EXCEPT ![i].cost = cost, ![i].settled = TRUE]
    /\ UNCHANGED <<lockQueue, rpmVars>>

Asks(s) == \E i \in DOMAIN lockQueue : lockQueue[i].by = s

-----------------------------------------------------------------------------
\* _evict of the TpmLimiter: the first n entries are out of the window
Expired(n) ==
    /\ \A i \in 1..n : tokens[i].age + 1 >= Window
    /\ n < Len(tokens) => tokens[n + 1].age + 1 < Window

Tick ==
    /\ spent' = [p \in Profiles |-> Older(spent[p])]
    /\ sent' = [p \in Profiles |-> Older(sent[p])]
    /\ ticketAge' = [s \in Senders |->
         IF ticketAge[s] \in Ages THEN ticketAge[s] + 1 ELSE ticketAge[s]]
    /\ \E n \in 0..Len(tokens) :
         /\ Expired(n)
         /\ tokens' = [i \in 1..(Len(tokens) - n) |-> [tokens[i + n] EXCEPT !.age = @ + 1]]
    /\ UNCHANGED <<waiters, pc, route, target, used, active, lockQueue>>

RpmNext ==
    \E s \in Senders :
      \/ Prepare(s) \/ GiveUp(s) \/ Admit(s) \/ Poll(s) \/ AbandonWait(s)
      \/ Answered(s)
      \/ \E p \in Profiles : Call(s, p)
TpmNext ==
    \/ Reserve
    \/ \E s \in Senders :
         \/ AbandonReserve(s)
         \/ \E c \in Costs : AskTokens(s, c) \/ SettleTokens(s, c)
LimitsNext == Tick \/ RpmNext \/ TpmNext
LimitsSpec == LimitsInit /\ [][LimitsNext]_limitVars

\* a waiter polls at least every second; the head of the lock's queue too
LimitsFair ==
    /\ WF_limitVars(Tick)
    /\ \A s \in Senders : WF_limitVars(Poll(s))
    /\ WF_limitVars(Reserve)

-----------------------------------------------------------------------------
\* Ages, counters and queues keep their types; an acquire() that has returned
\* or raised has left the queue of its limiter (the `finally' of acquire).
LimitsTypeOK ==
    /\ \A p \in Profiles :
         /\ \A a \in Ages : spent[p][a] \in Nat /\ sent[p][a] \in Nat
         /\ IsInjective(waiters[p])
         /\ ToSet(waiters[p]) = {s \in Senders : pc[s] = "waiting" /\ target[s] = p}
    /\ pc \in [Senders -> {"idle", "prepared", "waiting", "sending"}]
    /\ ticketAge \in [Senders -> 0..NoTicket]
    /\ active \in [Routes -> Nat]

\* No window of a minute holds more requests of one profile than its limit,
\* whichever tasks, routes and retries they come from (claim, acquire).
WindowHolds == \A p \in Profiles : Rpm[p] > 0 => Total(sent[p]) <= Rpm[p]

\* A request larger than the whole token budget is in the window alone until
\* its real cost is known (reserve).
OversizeRunsAlone ==
    \A i \in DOMAIN tokens :
      tokens[i].cost > TokenLimit /\ ~tokens[i].settled => Len(tokens) = 1

\* Every reservation in a deque belongs to a worker that still holds its
\* prepared route, and a route counts as active exactly the workers it has
\* (prepare, close): a lost one would slow the task down until it ends.
ReservationsReturned ==
    /\ \A s \in Senders : ticketAge[s] \in Ages => route[s] # 0 /\ ~used[s]
    /\ \A r \in Routes : active[r] = Cardinality({s \in Senders : route[s] = r})

\* Neither window is exceeded, the requests' nor the tokens', and what is
\* reserved in them comes back.
WindowsHold ==
    LimitsTypeOK /\ WindowHolds /\ OversizeRunsAlone /\ ReservationsReturned

\* A worker that waits for a limiter is admitted or gives up: reservations do
\* not overtake the queue and nobody in it is forgotten (acquire, try_reserve).
WaitersAreServed ==
    \A s \in Senders : pc[s] = "waiting" ~> pc[s] # "waiting"

\* A call of reserve() that has asked for the lock gets its tokens or is
\* cancelled: nobody leaves with the lock (reserve).
TokensAreGranted ==
    \A s \in Senders : Asks(s) ~> ~Asks(s)

\* Nobody waits for ever at a limiter.
NobodyStarves == WaitersAreServed /\ TokensAreGranted
=============================================================================
