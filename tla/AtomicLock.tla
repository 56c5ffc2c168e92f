----------------------------- MODULE AtomicLock -----------------------------
(***************************************************************************)
(* The cache-backed lock manager of pkg/locks/atomic_lock.go, together     *)
(* with the Redis keys it writes.                                          *)
(*                                                                         *)
(* Every process in Procs is one call tree: an HTTP request that builds a  *)
(* fresh LockState and calls AtomicLock.Execute, whose work function may   *)
(* call Execute again (nested or one after another) with the same          *)
(* LockState.  stack[p] is the chain of Execute calls still on p's Go      *)
(* stack, innermost last; lockKeys[p] is LockState.LockKeys.               *)
(*                                                                         *)
(* The store is Redis: SetNX and Del are atomic, but a call may fail       *)
(* before it reaches Redis (lost request) or after Redis applied it (lost  *)
(* reply, e.g. a read timeout).  A key written with a non-zero expiry      *)
(* disappears once its TTL elapses; with expiry 0 it never does.           *)
(***************************************************************************)
EXTENDS Naturals, Sequences, SequencesExt, FiniteSets

CONSTANTS
    Procs,              \* call trees
    Keys,               \* lock keys
    KeyTypes,           \* lock classes callers pass to Execute
    Configs,            \* the configured map[KeyType]LockConfig
    MaxCalls,           \* Execute calls one request makes, nested included
    MaxSetFaults,       \* SetNX calls that fail with a transport error
    MaxDelFaults,       \* Del calls that fail with a transport error
    MaxCrashes,         \* process crashes
    LeaseOutlivesWork   \* TRUE: a TTL never elapses while its holder works

(* LockConfig{LockExpiry, RetryAttempts, RetryDelay}; the delay only spaces *)
(* attempts in time and is not modelled.                                   *)
LockConfig == [expiry : Nat, attempts : Nat]

ASSUME Configs \in [DOMAIN Configs -> LockConfig]

VARIABLES
    cache,      \* Redis: key -> "absent" | "ttl" | "persist"
    lockKeys,   \* LockState.LockKeys of each call tree
    stack,      \* the Execute calls in progress in each call tree
    calls,      \* Execute calls made so far by the current request
    up,         \* the process running the call tree is alive
    result,     \* what the last Execute call that returned gave its caller
    setFaults, delFaults, crashes

vars == <<cache, lockKeys, stack, calls, up, result, setFaults, delFaults, crashes>>

Errors == {"locked", "internal"}

(* One Execute call on the stack.  owner: this call acquired the key and   *)
(* will release it (the non-reentrant branch); tries and errs are the      *)
(* attempts retry.Do has made and the errors it collected in retry.Error.  *)
Frame == [key : Keys, kt : KeyTypes, owner : BOOLEAN,
          phase : {"acquire", "work"}, tries : Nat, errs : SUBSET Errors]

TypeOK ==
    /\ cache \in [Keys -> {"absent", "ttl", "persist"}]
    /\ lockKeys \in [Procs -> SUBSET Keys]
    /\ stack \in [Procs -> Seq(Frame)]
    /\ calls \in [Procs -> 0..MaxCalls]
    /\ up \in [Procs -> BOOLEAN]
    /\ result \in [Procs -> {"none", "ok"} \cup Errors]
    /\ setFaults \in 0..MaxSetFaults
    /\ delFaults \in 0..MaxDelFaults
    /\ crashes \in 0..MaxCrashes

-----------------------------------------------------------------------------
(* Helpers of AtomicLock                                                   *)

(* Variant looking every class up under a key that is not in the map.     *)
getConfig_Missing(kt) == [expiry |-> 0, attempts |-> 0]

(* getConfig: the class's config, else configs["default"].  The class     *)
(* constant is Def = "DEFAULT", so the fallback key "default" is normally  *)
(* not in the map and Go's map read yields the zero LockConfig.            *)
getConfig(kt) ==
    IF kt \in DOMAIN Configs THEN Configs[kt]
    ELSE IF "default" \in DOMAIN Configs THEN Configs["default"]
    ELSE [expiry |-> 0, attempts |-> 0]

(* Variant checking that the map is non-empty instead of holding the key. *)
isReentrant_AnyKey(p, k) == lockKeys[p] # {}

isReentrant(p, k) == k \in lockKeys[p]

(* Variant passing no expiry to SetNX.                                     *)
CacheEntry_NoTTL(cfg) == "persist"

(* What SetNX(key, true, expiry) leaves in Redis: expiry 0 sets no TTL.    *)
CacheEntry(cfg) == IF cfg.expiry > 0 THEN "ttl" ELSE "persist"

(* retry.Do with Attempts(n): n > 0 stops after the n-th failure; n = 0    *)
(* retries until the function succeeds.                                    *)
Exhausted(f) ==
    LET n == getConfig(f.kt).attempts IN n # 0 /\ f.tries >= n

Top(p) == Last(stack[p])

(* Variant in which retry.Do hands back its last error only               *)
(* (LastErrorOnly), so the errors.As cast fails and a raw Redis error      *)
(* escapes unclassified.                                                   *)
handleError_Raw(errs) == IF errs \subseteq {"locked"} THEN "locked" ELSE "redis"

(* handleError: "internal" (NewInternalServerError) if any attempt failed  *)
(* with something other than EntityLockedError, else one EntityLocked.     *)
handleError(errs) == IF errs \subseteq {"locked"} THEN "locked" ELSE "internal"

(* Variant ignoring the boolean SetNX returns, as a plain SET would.       *)
setKeyInCache_IgnoreResult(k) ==
    {"set"} \cup (IF setFaults < MaxSetFaults THEN {"lost_request", "lost_reply"} ELSE {})

(* setKeyInCache: the replies SetNX can give.  "set": true; "locked":      *)
(* false, returned as EntityLockedError; a transport error either before   *)
(* Redis ran the command or after (the reply is lost).                     *)
setKeyInCache(k) ==
    {IF cache[k] = "absent" THEN "set" ELSE "locked"}
    \cup (IF setFaults < MaxSetFaults THEN {"lost_request", "lost_reply"} ELSE {})

(* deleteKeyInCache: Del succeeds, or errors before or after deleting.     *)
deleteKeyInCache(k) ==
    {"deleted"} \cup (IF delFaults < MaxDelFaults THEN {"lost_request", "lost_reply"} ELSE {})

(* Variant in which lock() does not record the key it acquired.           *)
setKeyInLockState_Skip(p, k) == lockKeys' = lockKeys

setKeyInLockState(p, k) == lockKeys' = [lockKeys EXCEPT ![p] = @ \cup {k}]

deleteKeyFromLockState(p, k) == lockKeys' = [lockKeys EXCEPT ![p] = @ \ {k}]

(* releaseLock: Del, then deleteKeyFromLockState only if Del reported no   *)
(* error.                                                                  *)
releaseLock(p, k) ==
    \E reply \in deleteKeyInCache(k) :
        /\ cache' = IF reply = "lost_request" THEN cache
                    ELSE [cache EXCEPT ![k] = "absent"]
        /\ delFaults' = IF reply = "deleted" THEN delFaults ELSE delFaults + 1
        /\ IF reply = "deleted" THEN deleteKeyFromLockState(p, k)
           ELSE UNCHANGED lockKeys

(* Execute's entry: a reentrant call goes straight to f, any other starts  *)
(* getLockWithRetries.                                                     *)
Enter(p, k, kt, reentrant) ==
    stack' = [stack EXCEPT ![p] = Append(@,
               [key |-> k, kt |-> kt, owner |-> FALSE,
                phase |-> IF reentrant THEN "work" ELSE "acquire",
                tries |-> 0, errs |-> {}])]

(* One failed attempt of lock(): the error joins retry.Error; once the     *)
(* attempts are spent, handleError classifies it and Execute returns it    *)
(* without running f.  With Attempts(0) retry.Do never consults its count, *)
(* so the model does not count either.                                     *)
AttemptFailed(p, e) ==
    LET n == getConfig(Top(p).kt).attempts
        f == [Top(p) EXCEPT !.tries = IF n = 0 THEN 0 ELSE @ + 1,
                            !.errs = @ \cup {e}]
    IN IF Exhausted(f)
       THEN /\ stack' = [stack EXCEPT ![p] = Front(@)]
            /\ result' = [result EXCEPT ![p] = handleError(f.errs)]
       ELSE /\ stack' = [stack EXCEPT ![p] = [@ EXCEPT ![Len(@)] = f]]
            /\ UNCHANGED result

-----------------------------------------------------------------------------
(* Actions                                                                 *)

(* A request handler (create_account_handler.go) builds LockState{} and    *)
(* calls Execute.                                                          *)
Request(p, k, kt) ==
    /\ up[p] /\ stack[p] = <<>>
    /\ Enter(p, k, kt, FALSE)
    /\ lockKeys' = [lockKeys EXCEPT ![p] = {}]
    /\ calls' = [calls EXCEPT ![p] = 1]
    /\ result' = [result EXCEPT ![p] = "none"]
    /\ UNCHANGED <<cache, up, setFaults, delFaults, crashes>>

(* The work function f(state) calls Execute again with the same state.     *)
Execute(p, k, kt) ==
    /\ up[p] /\ stack[p] # <<>> /\ Top(p).phase = "work"
    /\ calls[p] < MaxCalls
    /\ Enter(p, k, kt, isReentrant(p, k))
    /\ calls' = [calls EXCEPT ![p] = @ + 1]
    /\ UNCHANGED <<cache, lockKeys, up, result, setFaults, delFaults, crashes>>

(* One attempt of retry.Do: lock() is setKeyInCache, then                  *)
(* setKeyInLockState once SetNX returned true.                             *)
lock(p) ==
    /\ up[p] /\ stack[p] # <<>> /\ Top(p).phase = "acquire"
    /\ LET k == Top(p).key
           entry == CacheEntry(getConfig(Top(p).kt))
       IN \E reply \in setKeyInCache(k) :
          /\ cache' = IF reply = "set" \/ (reply = "lost_reply" /\ cache[k] = "absent")
                      THEN [cache EXCEPT ![k] = entry] ELSE cache
          /\ setFaults' = IF reply \in {"set", "locked"} THEN setFaults ELSE setFaults + 1
          /\ IF reply = "set"
             THEN /\ setKeyInLockState(p, k)
                  /\ stack' = [stack EXCEPT ![p][Len(stack[p])].phase = "work",
                                            ![p][Len(stack[p])].owner = TRUE]
                  /\ UNCHANGED result
             ELSE /\ AttemptFailed(p, IF reply = "locked" THEN "locked" ELSE "internal")
                  /\ UNCHANGED lockKeys
    /\ UNCHANGED <<calls, up, delFaults, crashes>>

(* f(state) returns to Execute; for an owning call the deferred            *)
(* releaseLock runs, and the error it returns is dropped by the defer.     *)
ExecuteReturns(p) ==
    /\ up[p] /\ stack[p] # <<>> /\ Top(p).phase = "work"
    /\ IF Top(p).owner THEN releaseLock(p, Top(p).key)
       ELSE UNCHANGED <<cache, lockKeys, delFaults>>
    /\ stack' = [stack EXCEPT ![p] = Front(@)]
    /\ result' = [result EXCEPT ![p] = "ok"]
    /\ UNCHANGED <<calls, up, setFaults, crashes>>

(* The instance running p dies; its goroutines and LockState are gone,     *)
(* the Redis keys it set stay.                                             *)
Crash(p) ==
    /\ up[p] /\ crashes < MaxCrashes
    /\ crashes' = crashes + 1
    /\ up' = [up EXCEPT ![p] = FALSE]
    /\ stack' = [stack EXCEPT ![p] = <<>>]
    /\ lockKeys' = [lockKeys EXCEPT ![p] = {}]
    /\ UNCHANGED <<cache, calls, result, setFaults, delFaults>>

Restart(p) ==
    /\ ~up[p]
    /\ up' = [up EXCEPT ![p] = TRUE]
    /\ UNCHANGED <<cache, lockKeys, stack, calls, result, setFaults, delFaults, crashes>>

(* p holds k: an owning Execute call of p is on p's stack.                 *)
Owns(p, k) == \E i \in DOMAIN stack[p] : stack[p][i].key = k /\ stack[p][i].owner

(* Redis drops a key whose TTL has elapsed.                                *)
Expire(k) ==
    /\ cache[k] = "ttl"
    /\ LeaseOutlivesWork => \A p \in Procs : ~Owns(p, k)
    /\ cache' = [cache EXCEPT ![k] = "absent"]
    /\ UNCHANGED <<lockKeys, stack, calls, up, result, setFaults, delFaults, crashes>>

Init ==
    /\ cache = [k \in Keys |-> "absent"]
    /\ lockKeys = [p \in Procs |-> {}]
    /\ stack = [p \in Procs |-> <<>>]
    /\ calls = [p \in Procs |-> 0]
    /\ up = [p \in Procs |-> TRUE]
    /\ result = [p \in Procs |-> "none"]
    /\ setFaults = 0 /\ delFaults = 0 /\ crashes = 0

Next ==
    \/ \E p \in Procs, k \in Keys, kt \in KeyTypes :
          Request(p, k, kt) \/ Execute(p, k, kt)
    \/ \E p \in Procs : lock(p) \/ ExecuteReturns(p) \/ Crash(p) \/ Restart(p)
    \/ \E k \in Keys : Expire(k)

(* Attempts follow one another after the retry delay, work functions       *)
(* return, and Redis expires keys: each of these happens once it is        *)
(* possible.  New requests, nested calls, faults and crashes are not       *)
(* obliged to happen.                                                      *)
Fairness ==
    /\ \A p \in Procs : WF_vars(lock(p)) /\ WF_vars(ExecuteReturns(p))
    /\ \A k \in Keys : WF_vars(Expire(k))

Spec == Init /\ [][Next]_vars /\ Fairness

-----------------------------------------------------------------------------
(* Properties                                                              *)

(* p is running work under k: some Execute call for k has passed its       *)
(* acquisition (or was reentrant) and is still inside f.                   *)
InWork(p, k) == \E i \in DOMAIN stack[p] : stack[p][i].key = k /\ stack[p][i].phase = "work"

(* Mutual exclusion (Execute's purpose): two different call trees never    *)
(* run work under the same key at the same time, reentrant calls           *)
(* included.  Broken if LockState claims a key the tree no longer holds in *)
(* Redis, or if a key leaves Redis while its holder still works.           *)
MutualExclusion ==
    \A k \in Keys, p, q \in Procs :
        p # q => ~(InWork(p, k) /\ InWork(q, k))

(* Reentrancy (spec, section 6): an Execute nested in a call that holds   *)
(* its key never issues a second SetNX on it, which would fail against     *)
(* the tree's own key and, with Attempts(0), spin for ever.  Needs lock()  *)
(* to record every key it acquires and nothing to drop one while held.    *)
NoSelfAcquire ==
    \A p \in Procs : \A i, j \in DOMAIN stack[p] :
        /\ j < i
        /\ stack[p][j].owner
        /\ stack[p][i].key = stack[p][j].key
        => stack[p][i].phase = "work" /\ ~stack[p][i].owner

(* Every Execute call returns (or its process dies): bounded retries end   *)
(* contention, including two trees each holding the key the other wants.  *)
EveryExecuteReturns ==
    \A p \in Procs : stack[p] # <<>> ~> stack[p] = <<>>

(* A key set in Redis is eventually deleted or expires: neither a crashed  *)
(* holder nor a lost SetNX/Del reply blocks a key for ever.                *)
LockEventuallyFree ==
    \A k \in Keys : cache[k] # "absent" ~> cache[k] = "absent"

(* Refinement: the store, LockState and stacks implement DistLock.  The    *)
(* owner of a key is the call tree with an owning Execute call for it; a   *)
(* key set in Redis with no such call is stale.                            *)
OwnerOf(k) ==
    IF cache[k] = "absent" THEN "free"
    ELSE IF \E p \in Procs : Owns(p, k) THEN CHOOSE p \in Procs : Owns(p, k)
    ELSE "stale"

Abstract == INSTANCE DistLock WITH owner <- [k \in Keys |-> OwnerOf(k)],
                                   Free <- "free", Stale <- "stale"

ImplementsDistLock == Abstract!Spec

=============================================================================
