--------------------------- MODULE PersistLedger ----------------------------
(***************************************************************************)
(* What the persistence runtime promises the code that enqueues products,  *)
(* with no queue, semaphore, retry or storage in sight: every request has  *)
(* one fate, requests are served one at a time and oldest first, and when  *)
(* Capacity of them wait the oldest gives way to the newest.               *)
(***************************************************************************)
EXTENDS Integers, FiniteSets

CONSTANTS MaxRequests, Capacity

VARIABLES fate, closed

ledger == <<fate, closed>>

Fates == {"new", "rejected", "queued", "evicted", "dropped", "active",
          "persisted", "failed"}

With(f) == {n \in 1..MaxRequests : fate[n] = f}

Oldest(n, f) == n \in With(f) /\ \A m \in With(f) : n <= m

Init == /\ fate = [n \in 1..MaxRequests |-> "new"]
        /\ closed = FALSE

Reject(n) ==
    /\ Oldest(n, "new")
    /\ closed
    /\ fate' = [fate EXCEPT ![n] = "rejected"]
    /\ UNCHANGED closed

Admit(n) ==
    /\ Oldest(n, "new")
    /\ ~closed
    /\ Cardinality(With("queued")) < Capacity
    /\ fate' = [fate EXCEPT ![n] = "queued"]
    /\ UNCHANGED closed

Displace(n, m) ==
    /\ Oldest(n, "new")
    /\ Oldest(m, "queued")
    /\ ~closed
    /\ Cardinality(With("queued")) = Capacity
    /\ fate' = [fate EXCEPT ![n] = "queued", ![m] = "evicted"]
    /\ UNCHANGED closed

Serve(n) ==
    /\ Oldest(n, "queued")
    /\ With("active") = {}
    /\ fate' = [fate EXCEPT ![n] = "active"]
    /\ UNCHANGED closed

Settle(n, result) ==
    /\ n \in With("active")
    /\ fate' = [fate EXCEPT ![n] = result]
    /\ UNCHANGED closed

Shut ==
    /\ ~closed
    /\ closed' = TRUE
    /\ fate' = [n \in 1..MaxRequests |->
                  IF fate[n] = "queued" THEN "dropped" ELSE fate[n]]

Next ==
    \/ \E n \in 1..MaxRequests :
          \/ Reject(n) \/ Admit(n) \/ Serve(n)
          \/ \E m \in 1..MaxRequests : Displace(n, m)
          \/ \E result \in {"persisted", "failed"} : Settle(n, result)
    \/ Shut

Spec == Init /\ [][Next]_ledger

-----------------------------------------------------------------------------

=============================================================================
