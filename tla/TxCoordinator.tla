---------------------------- MODULE TxCoordinator ----------------------------
(***************************************************************************)
(* accessor.TransactWithTimeout of internal/repository/db_accessor.go and  *)
(* the Postgres transaction it drives, for one or more independent call    *)
(* chains (requests).  The coordinator keeps no state of its own: the      *)
(* transaction lives in the context, so frames[c] (the Transact calls on   *)
(* chain c's stack, innermost last) and tx[c] (the one physical            *)
(* transaction of the chain) are all there is.                             *)
(*                                                                         *)
(* A txFunc runs statements through GetTx(ctx), calls Transact again       *)
(* (repositories under services under handlers), and returns an error or  *)
(* nil; a panic anywhere below a Transact call unwinds to its deferred     *)
(* recover and becomes that call's error.  How a caller treats the error   *)
(* of a nested Transact is the caller's code: services and handlers return *)
(* it, the repositories' Update methods return nil instead.                *)
(***************************************************************************)
EXTENDS Naturals, Sequences, SequencesExt

CONSTANTS
    Chains,     \* independent requests, each with its own context
    Handling,   \* how callers of a nested Transact treat its error
    MaxDepth,   \* Transact calls nested in one another
    MaxCalls,   \* Transact calls one request makes
    MaxStmts    \* statements one chain runs

ASSUME Handling \subseteq {"propagate", "swallow"}

VARIABLES
    tx,         \* the chain's transaction: see TxState
    frames,     \* the Transact calls in progress
    stmts,      \* statements run by the current request
    calls,      \* Transact calls made by the current request
    failed,     \* some Transact call of this request returned an error
    outcome     \* what the outermost Transact returned to its caller

vars == <<tx, frames, stmts, calls, failed, outcome>>

(* "aborted": a statement failed, Postgres refuses everything but the end  *)
(* of the transaction; "expired": the deadline passed and database/sql     *)
(* rolled the transaction back on its own.                                 *)
TxState == {"none", "open", "aborted", "expired", "committed", "rolledback"}
Live == {"open", "aborted", "expired"}

(* owner: isOwner; handling: what the caller does with this call's error; *)
(* err: the txFunc has an error in hand and returns it.                    *)
Frame == [owner : BOOLEAN, handling : Handling, err : BOOLEAN]

TypeOK ==
    /\ tx \in [Chains -> TxState]
    /\ frames \in [Chains -> Seq(Frame)]
    /\ stmts \in [Chains -> 0..MaxStmts]
    /\ calls \in [Chains -> 0..MaxCalls]
    /\ failed \in [Chains -> BOOLEAN]
    /\ outcome \in [Chains -> {"none", "ok", "err"}]

Top(c) == Last(frames[c])

Running(c) == frames[c] # <<>> /\ ~Top(c).err

(* Variant reading the context under a key of another type, which Go's    *)
(* ctx.Value never matches.                                                *)
txExists_WrongKey(c) == FALSE

(* ctx.Value(txKey): the context handed to a txFunc carries the handle.    *)
txExists(c) == frames[c] # <<>>

(* Variant of a caller that drops the nested call's error, as the          *)
(* repositories' Update methods do.                                        *)
NewFrame_DropsErrors(isOwner, h) == [owner |-> isOwner, handling |-> "swallow", err |-> FALSE]

NewFrame(isOwner, h) == [owner |-> isOwner, handling |-> h, err |-> FALSE]

-----------------------------------------------------------------------------
(* Actions                                                                 *)

(* TransactWithTimeout entry.  Without a transaction in the context the    *)
(* call is the owner: WithTimeout, then Begin, which may fail (no pool     *)
(* connection before the deadline) and is then returned at once.  With     *)
(* one, the call reuses it.  A call on an empty stack starts a request.    *)
TransactWithTimeout(c, h) ==
    /\ \/ frames[c] = <<>>
       \/ Running(c) /\ Len(frames[c]) < MaxDepth /\ calls[c] < MaxCalls
    /\ LET isOwner == ~txExists(c)
           frame == NewFrame(isOwner, h)
           fresh == frames[c] = <<>>
       IN
       /\ stmts' = [stmts EXCEPT ![c] = IF fresh THEN 0 ELSE @]
       /\ calls' = [calls EXCEPT ![c] = IF fresh THEN 1 ELSE @ + 1]
       /\ \/ /\ isOwner
             /\ tx' = [tx EXCEPT ![c] = "open"]
             /\ frames' = [frames EXCEPT ![c] = Append(@, frame)]
             /\ failed' = [failed EXCEPT ![c] = IF fresh THEN FALSE ELSE @]
             /\ outcome' = [outcome EXCEPT ![c] = "none"]
          \/ /\ isOwner
             /\ tx' = [tx EXCEPT ![c] = "none"]
             /\ failed' = [failed EXCEPT ![c] = TRUE]
             /\ outcome' = [outcome EXCEPT ![c] = "err"]
             /\ UNCHANGED frames
          \/ /\ ~isOwner
             /\ frames' = [frames EXCEPT ![c] = Append(@, frame)]
             /\ UNCHANGED <<tx, failed, outcome>>

(* A repository closure runs one statement through GetTx(ctx) and returns  *)
(* its .Error.  In an aborted or expired transaction every statement       *)
(* fails; a failing statement aborts an open one.                          *)
Statement(c) ==
    /\ Running(c) /\ stmts[c] < MaxStmts
    /\ stmts' = [stmts EXCEPT ![c] = @ + 1]
    /\ \/ /\ tx[c] = "open"
          /\ UNCHANGED <<tx, frames>>
       \/ /\ tx[c] = "open"
          /\ tx' = [tx EXCEPT ![c] = "aborted"]
          /\ frames' = [frames EXCEPT ![c][Len(frames[c])].err = TRUE]
       \/ /\ tx[c] \in {"aborted", "expired"}
          /\ frames' = [frames EXCEPT ![c][Len(frames[c])].err = TRUE]
          /\ UNCHANGED tx
    /\ UNCHANGED <<calls, failed, outcome>>

(* The deadline of context.WithTimeout passes: database/sql's watcher      *)
(* rolls the transaction back and later calls on it fail.                  *)
Deadline(c) ==
    /\ tx[c] \in {"open", "aborted"}
    /\ tx' = [tx EXCEPT ![c] = "expired"]
    /\ UNCHANGED <<frames, stmts, calls, failed, outcome>>

(* Variant without the Rollback on the error path.                         *)
Dispose_NoRollback(c, e) ==
    IF e THEN tx[c]
    ELSE IF tx[c] = "open" THEN "committed" ELSE "rolledback"

(* The owner's disposition in the deferred function: Rollback on error,    *)
(* else Commit, whose error is not looked at.  Committing an aborted or    *)
(* expired transaction ends it rolled back.                                *)
Dispose(c, e) ==
    IF e THEN "rolledback"
    ELSE IF tx[c] = "open" THEN "committed" ELSE "rolledback"

(* Variant in which the recovered panic or error of a non-owner is not     *)
(* assigned to the named result, so the call returns nil.                  *)
Propagated_Lost(e) == FALSE

(* What a non-owner returns: errors.WithStack(err), an error iff e.        *)
Propagated(e) == e

(* txFunc returns error e (its own, one it kept from a callee, or a        *)
(* recovered panic) and the deferred function runs.  A non-owner returns   *)
(* the error to its caller, which returns it in turn or drops it.          *)
TxFuncReturns(c, e) ==
    /\ frames[c] # <<>>
    /\ Top(c).err => e
    /\ failed' = [failed EXCEPT ![c] = @ \/ e]
    /\ IF Top(c).owner
       THEN /\ tx' = [tx EXCEPT ![c] = Dispose(c, e)]
            /\ frames' = [frames EXCEPT ![c] = <<>>]
            /\ outcome' = [outcome EXCEPT ![c] = IF e THEN "err" ELSE "ok"]
       ELSE /\ frames' = [frames EXCEPT ![c] =
                  LET rest == Front(@)
                  IN [rest EXCEPT ![Len(rest)].err =
                          @ \/ (Propagated(e) /\ Top(c).handling = "propagate")]]
            /\ UNCHANGED <<tx, outcome>>
    /\ UNCHANGED <<stmts, calls>>

Init ==
    /\ tx = [c \in Chains |-> "none"]
    /\ frames = [c \in Chains |-> <<>>]
    /\ stmts = [c \in Chains |-> 0]
    /\ calls = [c \in Chains |-> 0]
    /\ failed = [c \in Chains |-> FALSE]
    /\ outcome = [c \in Chains |-> "none"]

Next ==
    \E c \in Chains :
        \/ \E h \in Handling : TransactWithTimeout(c, h)
        \/ Statement(c)
        \/ Deadline(c)
        \/ \E e \in BOOLEAN : TxFuncReturns(c, e)

(* Every txFunc returns: its statements are bounded by the deadline.       *)
Spec == Init /\ [][Next]_vars /\ \A c \in Chains : WF_vars(\E e \in BOOLEAN : TxFuncReturns(c, e))

-----------------------------------------------------------------------------
(* Properties                                                              *)

(* The spec's promise: the transaction is never committed once any         *)
(* Transact level of the request has returned an error (or panicked), even *)
(* if a level between it and the owner did nothing with the error.         *)
NoCommitAfterFailure == \A c \in Chains : tx[c] = "committed" => ~failed[c]

(* When the outermost Transact returns nil, what the request wrote is      *)
(* committed: the caller reports success only for durable work.            *)
AckedImpliesCommitted == \A c \in Chains : outcome[c] = "ok" => tx[c] = "committed"

(* Every transaction that Begin opened is ended by its owner: committed or *)
(* rolled back, whatever the deadline and the statements did.              *)
TxEventuallyEnds ==
    \A c \in Chains : tx[c] \in Live ~> tx[c] \in {"committed", "rolledback"}

=============================================================================
