--------------------------- MODULE MC_AtomicLock ---------------------------
(* Instantiation of AtomicLock for TLC.  The lock classes are the one     *)
(* class the repository configures (locks.Def, internal/config/           *)
(* atomic_lock.go) and, for the fallback question, one class it does not. *)
EXTENDS AtomicLock

(* AL_DEF_LOCK_EXPIRY_MS and AL_DEF_RETRY_ATTEMPTS: any positive expiry;  *)
(* two attempts are enough for a retry to follow a failed attempt.        *)
DefOnly == [t \in {"DEFAULT"} |-> [expiry |-> 10, attempts |-> 2]]

=============================================================================
