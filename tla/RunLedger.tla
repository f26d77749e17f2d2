------------------------------ MODULE RunLedger ------------------------------
(***************************************************************************)
(* What the runtime promises to whoever reads the task cache, without      *)
(* workers, queues or cancellation.  A run opens with the pending subtasks *)
(* `todo'; each is sent at most once (Send) and then settled, rolled back  *)
(* or, if the process cannot write, left as it is; nothing is sent after a *)
(* stop, and a task is marked PAUSED only when nothing is in flight.       *)
(* transoria/runtime/executor.py implements it (module Executor).          *)
(***************************************************************************)
EXTENDS Naturals

CONSTANTS Subtasks, Faulty

VARIABLES status, attempts, record, open, stop, todo, flight

lvars == <<status, attempts, record, open, stop, todo, flight>>

Reset(st, from, to) == [s \in Subtasks |-> IF st[s] = from THEN to ELSE st[s]]
Live(st)            == {s \in Subtasks : st[s] \in {"pending", "running"}}
Failed(st)          == {s \in Subtasks : st[s] = "failed"}

Init ==
    /\ status = [s \in Subtasks |-> "pending"]
    /\ attempts = [s \in Subtasks |-> 0]
    /\ record = "PENDING"
    /\ open = FALSE /\ stop = FALSE
    /\ todo = {} /\ flight = {}

\* the verdict a reader finds once the run is closed
Verdict(st, rec) ==
    \/ rec = "COMPLETED" /\ Live(st) = {} /\ Failed(st) = {}
    \/ rec = "FAILED" /\ Live(st) = {} /\ Failed(st) # {}
    \/ rec = record /\ Live(st) # {}

Open(st) ==
    /\ ~open /\ open' = TRUE
    /\ status' = st /\ record' = "RUNNING" /\ stop' = FALSE
    /\ todo' = {s \in Subtasks : st[s] = "pending"} /\ todo' # {}
    /\ UNCHANGED <<attempts, flight>>

\* a run with nothing to do, or stopped before it began
Skip(st) ==
    /\ ~open
    /\ status' = st /\ (stop' => stop)
    /\ \/ stop /\ record' = "STOPPED"
       \/ Verdict(st, record')
    /\ UNCHANGED <<attempts, open, todo, flight>>

Start == \E st \in {status, Reset(status, "failed", "pending")} : Open(st) \/ Skip(st)

Signal ==
    /\ stop' \in BOOLEAN /\ (open => stop' = TRUE)
    /\ UNCHANGED <<status, attempts, record, open, todo, flight>>

Write(s, st) == status' = [status EXCEPT ![s] = st]

Send(s) ==
    /\ open /\ ~stop /\ s \in todo
    /\ todo' = todo \ {s}
    /\ attempts' = [attempts EXCEPT ![s] = @ + 1]
    /\ Write(s, "running")
    /\ \/ flight' = flight \cup {s}
       \/ Faulty /\ UNCHANGED flight
    /\ UNCHANGED <<record, open, stop>>

\* taken from the queue and returned unsent: it stays pending
Drop(s) ==
    /\ open /\ s \in todo
    /\ todo' = todo \ {s}
    /\ UNCHANGED <<status, attempts, record, open, stop, flight>>

Settle(s) ==
    /\ open /\ s \in flight
    /\ flight' = flight \ {s}
    /\ \/ \E st \in {"completed", "failed"} : Write(s, st)
       \/ stop /\ Write(s, "pending")
       \/ Faulty /\ UNCHANGED status
    /\ UNCHANGED <<attempts, record, open, stop, todo>>

Announce ==
    /\ open
    /\ \/ stop /\ record' = "STOPPING"
       \/ ~stop /\ record' = "PAUSING"
       \/ ~stop /\ flight = {} /\ record' = "PAUSED"
    /\ UNCHANGED <<status, attempts, open, stop, todo, flight>>

Close ==
    /\ open /\ flight = {} /\ open' = FALSE
    /\ \/ stop /\ record' = "STOPPED" /\ UNCHANGED status
       \/ ~stop /\ record = "PAUSED" /\ UNCHANGED <<record, status>>
       \/ /\ ~stop
          /\ status' = Reset(status, "pending", "failed")
          /\ Verdict(status', record')
    /\ todo' = {}
    /\ UNCHANGED <<attempts, stop, flight>>

\* the process dies with the run open
Die ==
    /\ open /\ open' = FALSE /\ stop' = FALSE
    /\ todo' = {} /\ flight' = {}
    /\ UNCHANGED <<status, attempts, record>>

\* and the next one heals what it finds
Heal ==
    /\ ~open
    /\ status' = Reset(status, "running", "pending")
    /\ record' \in {record, "STOPPED"}
    /\ UNCHANGED <<attempts, open, stop, todo, flight>>

Next ==
    \/ Start \/ Signal \/ Announce \/ Close \/ Die \/ Heal
    \/ \E s \in Subtasks : Send(s) \/ Drop(s) \/ Settle(s)

LedgerSpec == Init /\ [][Next]_lvars
=============================================================================
