------------------------------ MODULE DistLock ------------------------------
(***************************************************************************)
(* What the lock manager promises, with no store, no retries and no call   *)
(* stacks: each key has at most one owning call tree at a time.  A lock    *)
(* can be left behind with no living owner (the holder crashed, a release  *)
(* or an acquisition reply was lost); only the store's expiry frees such a *)
(* stale lock.  AtomicLock refines this module.                            *)
(***************************************************************************)
CONSTANTS Procs,    \* call trees (request goroutines, on any instance)
          Keys,     \* lock keys
          Free,     \* the key is not set in the store
          Stale     \* the key is set in the store but no call tree holds it

ASSUME {Free, Stale} \cap Procs = {}

VARIABLE owner

TypeOK == owner \in [Keys -> Procs \cup {Free, Stale}]

Init == owner = [k \in Keys |-> Free]

Acquire(p, k) ==
    /\ owner[k] = Free
    /\ owner' = [owner EXCEPT ![k] = p]

Release(p, k) ==
    /\ owner[k] = p
    /\ owner' = [owner EXCEPT ![k] = Free]

\* The lock stays in the store while nobody holds it any more.
Leak(k) ==
    /\ owner[k] # Stale
    /\ owner' = [owner EXCEPT ![k] = Stale]

\* A call tree's process dies: every lock it held is left behind at once.
HolderCrash(p) ==
    /\ \E k \in Keys : owner[k] = p
    /\ owner' = [k \in Keys |-> IF owner[k] = p THEN Stale ELSE owner[k]]

Expire(k) ==
    /\ owner[k] = Stale
    /\ owner' = [owner EXCEPT ![k] = Free]

Next ==
    \/ \E p \in Procs, k \in Keys : Acquire(p, k) \/ Release(p, k)
    \/ \E k \in Keys : Leak(k) \/ Expire(k)
    \/ \E p \in Procs : HolderCrash(p)

Spec == Init /\ [][Next]_owner

=============================================================================
