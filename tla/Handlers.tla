------------------------------ MODULE Handlers ------------------------------
(***************************************************************************)
(* The HTTP side of prismo: the three routes of internal/handler/router.go *)
(* behind middleware.WithHTTPAuth and wrappers.DefaultWrapper, each        *)
(* request on its own goroutine.  The handlers call the services, the      *)
(* services the repositories, and every repository call is a Transact.    *)
(*                                                                         *)
(* The two coordination components appear here by what they promise:     *)
(*  - the lock around accountService.Create is the abstract lock of        *)
(*    DistLock (a key is free, held by one request, or leaked until its    *)
(*    TTL ends), driven by the attempts of retry.Do and classified by      *)
(*    locks.handleError as in AtomicLock;                                  *)
(*  - each top-level Transact either commits, returns an error having      *)
(*    rolled back, or returns nil although its commit failed               *)
(*    (TxCoordinator's tx_commit run).                                     *)
(* Rows are what the properties tell apart: the document number of each    *)
(* account (its id is its position, the table's autoIncrement) and the     *)
(* account and operation type of each transaction.                         *)
(***************************************************************************)
EXTENDS Naturals, Sequences, SequencesExt, TLC

CONSTANTS
    Reqs,            \* requests in flight, one goroutine each
    Shapes,          \* the requests clients send (see MC_Handlers)
    EmptyDoc,        \* document_number "" (fails validation)
    OpTypes,         \* operationtype_id values present in operationstypes
    Attempts,        \* AL_DEF_RETRY_ATTEMPTS
    MaxDbFaults,     \* Transact calls that return a database error
    MaxRedisFaults,  \* SetNX/Del calls whose request or reply is lost
    MaxLostCommits,  \* Commits that fail while Transact returns nil
    MaxExits         \* SIGTERMs: the process exits and is started again

ASSUME Attempts \in Nat \ {0}

Free == "free"
Stale == "stale"

VARIABLES
    pc,          \* where each request's goroutine is
    req,         \* the request it serves, fixed on arrival
    tries,       \* failed SetNX attempts of the request
    lockErrs,    \* the errors of those attempts (retry.Error)
    failed,      \* the account Transact returned an error
    lockOwner,   \* Redis lock keys, abstractly: Free, Stale or the holder
    accounts,    \* committed accounts rows: their document numbers
    txns,        \* committed transactions rows
    status,      \* HTTP status written (0: none yet)
    body,        \* the ErrorItem written with an error status
    dbFaults, redisFaults, lostCommits,
    exits        \* process exits so far

vars == <<pc, req, tries, lockErrs, failed, lockOwner, accounts, txns,
          status, body, dbFaults, redisFaults, lostCommits, exits>>

Docs == {s.doc : s \in {x \in Shapes : x.kind = "createAccount"}}
Stage == {"auth", "decode", "lock", "save", "release", "get",
          "getAccount", "getOp", "create", "done", "cut"}

-----------------------------------------------------------------------------
(* Helpers                                                                 *)

(* Texts are what tells error bodies apart: ids, the handlers' own         *)
(* messages, the titles, and DriverText, the text of an error that came up *)
(* from gorm or the Postgres driver.                                       *)
DriverText == "driver_text"
InternalErrorCode == "amphibian:service:internal_error"
Titles == {"Bad Request", "Not Found", "Unauthorized", "Entity Locked Error",
           "Internal Server Error"}
Texts == {"", DriverText, InternalErrorCode, "BAD_REQUEST", "INTERNAL_SERVER_ERROR",
          "Not Authorized", "unable_to_acquire_lock", "atomic_lock_error", "account_not_found",
          "parse_message", "validation_message", "invalid_id_message",
          "account not found", "operation type not found",
          "lock_busy_message", "lock_failed_message"} \cup Titles

NoBody == [code |-> "", message |-> "", title |-> ""]

(* newGenericError(code, details): the message is details.Message, or the  *)
(* code when that is empty or details is nil.  None of the handlers'        *)
(* details has a Title param.                                               *)
newGenericError(code, msg) ==
    [id |-> code, message |-> IF msg = "" THEN code ELSE msg, titleParam |-> ""]

(* errors.New<Type>Error(code, details): the dynamic type handleError      *)
(* switches on.  Every constructor returns a value, NewValidationError      *)
(* included; "*Validation" would be a pointer to one, which nothing builds. *)
NewError(type, code, msg) == [type |-> type, status |-> 0] @@ newGenericError(code, msg)

(* errors.NewExternalAPICallError(statusCode, code, details).              *)
NewExternalAPICallError(st, code, msg) ==
    [type |-> "ExternalAPICall", status |-> st] @@ newGenericError(code, msg)

(* An error that is not a GenericError: its Error() is the driver's text.  *)
RawError == [type |-> "Raw", status |-> 0, id |-> "", message |-> DriverText, titleParam |-> ""]

(* errMessage: Error(), or ErrorID() when that is empty.                   *)
errMessage(err) == IF err.message = "" THEN err.id ELSE err.message

(* Variant taking the title from the error's params only.                  *)
errTitle_ParamOnly(err, title) == err.titleParam

(* errTitle: the ErrTitle param, or the title of the error's type.         *)
errTitle(err, title) == IF err.titleParam = "" THEN title ELSE err.titleParam

newErrorResponse(err, title) ==
    [code |-> err.id, message |-> errMessage(err), title |-> errTitle(err, title)]

(* internalErr: a fixed code and title around the error's own text.        *)
internalErr(msg) ==
    [code |-> InternalErrorCode, message |-> msg, title |-> "Internal Server Error"]

(* The cases of handleError's type switch, in the code's order: the       *)
(* status and the title each type is answered with.                        *)
ErrorCases ==
       ("BadRequest"          :> <<400, "Bad Request">>)
    @@ ("NotFound"            :> <<404, "Not Found">>)
    @@ ("UnprocessableEntity" :> <<422, "Unprocessable Entity">>)
    @@ ("Unauthorized"        :> <<401, "Unauthorized">>)
    @@ ("Forbidden"           :> <<403, "Forbidden">>)
    @@ ("*Validation"         :> <<422, "Unprocessable Entity">>)
    @@ ("TooManyRequests"     :> <<429, "Too Many Requests">>)
    @@ ("NotAcceptable"       :> <<406, "Not Acceptable">>)
    @@ ("DuplicatePackage"    :> <<422, "Duplicate package error">>)
    @@ ("EntityLocked"        :> <<423, "Entity Locked Error">>)
    @@ ("InternalServer"      :> <<500, "Internal Server Error">>)

(* newErrorResponseByHTTPStatus: 404 is kept, 406 and 422 become 422, any  *)
(* other upstream status is an internal error around the error's text.     *)
newErrorResponseByHTTPStatus(err) ==
    CASE err.status = 404          -> <<404, newErrorResponse(err, "Not Found")>>
      [] err.status \in {406, 422} -> <<422, newErrorResponse(err, "Unprocessable Entity")>>
      [] OTHER                     -> <<500, internalErr(err.message)>>

(* responder.handleError: status and ErrorItem by the error's dynamic type; *)
(* any other error, a raw one or a ValidationError value included, takes   *)
(* the default branch.                                                     *)
handleError(err) ==
    CASE err.type \in DOMAIN ErrorCases ->
            <<ErrorCases[err.type][1], newErrorResponse(err, ErrorCases[err.type][2])>>
      [] err.type = "ExternalAPICall" -> newErrorResponseByHTTPStatus(err)
      [] OTHER -> <<500, internalErr(err.message)>>

(* Variant reporting contention whenever any attempt met a held key.       *)
lockError_AnyLocked(errs) ==
    IF "locked" \in errs
    THEN NewError("EntityLocked", "unable_to_acquire_lock", "lock_busy_message")
    ELSE NewError("InternalServer", "atomic_lock_error", "lock_failed_message")

(* locks.handleError on the retry.Error of the spent attempts.            *)
lockError(errs) ==
    IF errs \subseteq {"locked"}
    THEN NewError("EntityLocked", "unable_to_acquire_lock", "lock_busy_message")
    ELSE NewError("InternalServer", "atomic_lock_error", "lock_failed_message")

(* Variant giving up one attempt late.                                      *)
Exhausted_OffByOne(t) == t > Attempts

(* retry.Do with Attempts(n), n > 0: it gives up after the n-th failure.  *)
Exhausted(t) == t >= Attempts

(* account ids are autoIncrement: the id of a row is its position.        *)
AccountExists(id) == id \in 1..Len(accounts)

(* The outcomes of one top-level Transact: committed, an error (rolled    *)
(* back), or nil with the Commit's error dropped and nothing stored.      *)
TxOutcomes ==
    {"committed"}
    \cup (IF dbFaults < MaxDbFaults THEN {"error"} ELSE {})
    \cup (IF lostCommits < MaxLostCommits THEN {"lost"} ELSE {})

CountFault(o) ==
    /\ dbFaults' = IF o = "error" THEN dbFaults + 1 ELSE dbFaults
    /\ lostCommits' = IF o = "lost" THEN lostCommits + 1 ELSE lostCommits

(* The replies of a Redis call: done, or a transport error before or      *)
(* after Redis ran it.                                                     *)
RedisReplies(ok) ==
    {ok} \cup (IF redisFaults < MaxRedisFaults THEN {"lost_request", "lost_reply"} ELSE {})

(* HTTPStatusWriter.WriteHeader: only the first status written is kept    *)
(* (0 means WriteHeader was not called).                                   *)
WriteHeader(r, code) == status' = [status EXCEPT ![r] = IF @ = 0 THEN code ELSE @]

(* responder.WriteAnyResponse(ctx, w, res, responseCode...): the first     *)
(* code given, or 200 when the handler gave none.                          *)
WriteAnyResponse(r, codes) == WriteHeader(r, IF codes = <<>> THEN 200 ELSE Head(codes))

(* The handler writes its response with WriteAnyResponse through           *)
(* DefaultWrapper's HTTPStatusWriter.  DefaultWrapper reports only to a    *)
(* ReporterEntry in the context, and nothing in the code installs one.    *)
Respond(r, codes) ==
    /\ pc' = [pc EXCEPT ![r] = "done"]
    /\ WriteAnyResponse(r, codes)
    /\ UNCHANGED body

(* responder.WriteError(w, r, err): handleError's status and body.         *)
WriteError(r, err) ==
    /\ pc' = [pc EXCEPT ![r] = "done"]
    /\ WriteHeader(r, handleError(err)[1])
    /\ body' = [body EXCEPT ![r] = handleError(err)[2]]

Unchanged_Rows == UNCHANGED <<accounts, txns>>
Unchanged_Faults == UNCHANGED <<dbFaults, redisFaults, lostCommits, exits>>
Unchanged_Lock == UNCHANGED <<tries, lockErrs, failed, lockOwner>>

(* validateCreateAccountRequest after a successful decode.                 *)
CreateAccountValid(q) == q.body /\ q.doc # EmptyDoc

(* strconv.ParseInt of the {account_id} path variable.                    *)
GetAccountValid(q) == q.numeric

(* validateCreateTransactionRequest after a successful decode.             *)
CreateTransactionValid(q) == q.body /\ q.acc > 0 /\ q.op > 0 /\ q.positive

Valid(q) ==
    CASE q.kind = "createAccount" -> CreateAccountValid(q)
      [] q.kind = "getAccount"    -> GetAccountValid(q)
      [] q.kind = "createTxn"     -> CreateTransactionValid(q)

(* The BadRequestError each handler writes for an undecodable or invalid   *)
(* request: json decoding's, validation's err.Error(), ParseInt's.        *)
DecodeError(q) ==
    NewError("BadRequest", "BAD_REQUEST",
             CASE q.kind = "getAccount" -> "invalid_id_message"
               [] ~q.body               -> "parse_message"
               [] OTHER                 -> "validation_message")

(* The first service call of each handler.                                 *)
FirstCall(q) ==
    CASE q.kind = "createAccount" -> "lock"
      [] q.kind = "getAccount"    -> "get"
      [] q.kind = "createTxn"     -> "getAccount"

(* Variant in which the deferred releaseLock is not installed on the       *)
(* error path: the key is deleted only after a successful Create.          *)
releaseLock_OnSuccessOnly(r, d) ==
    IF failed[r] THEN UNCHANGED <<lockOwner, redisFaults>>
    ELSE \E reply \in RedisReplies("deleted") :
            /\ lockOwner' = [lockOwner EXCEPT ![d] = IF reply = "lost_request" THEN Stale ELSE Free]
            /\ redisFaults' = IF reply = "deleted" THEN redisFaults ELSE redisFaults + 1

(* releaseLock: Del(key).  A Del that never reached Redis leaves the key   *)
(* held by nobody until its TTL; the error is dropped by the defer.        *)
releaseLock(r, d) ==
    \E reply \in RedisReplies("deleted") :
        /\ lockOwner' = [lockOwner EXCEPT ![d] = IF reply = "lost_request" THEN Stale ELSE Free]
        /\ redisFaults' = IF reply = "deleted" THEN redisFaults ELSE redisFaults + 1

(* Variant without the acc == nil branch.                                  *)
AccountMissing_Unchecked(r) == FALSE

(* accountService.Get returned (nil, nil): gorm.ErrRecordNotFound.        *)
AccountMissing(r) == ~AccountExists(req[r].acc)

(* ots.Get returned (nil, nil): no operationstypes row with the id.        *)
OpTypeMissing(r) == req[r].op \notin OpTypes

TypeOK ==
    /\ pc \in [Reqs -> Stage]
    /\ req \in [Reqs -> Shapes]
    /\ tries \in [Reqs -> 0..Attempts]
    /\ lockErrs \in [Reqs -> SUBSET {"locked", "internal"}]
    /\ failed \in [Reqs -> BOOLEAN]
    /\ lockOwner \in [Docs -> Reqs \cup {Free, Stale}]
    /\ accounts \in Seq(Docs)
    /\ txns \in Seq([acc : Nat, op : Nat])
    /\ status \in [Reqs -> {0, 201, 200, 400, 401, 404, 423, 500}]
    /\ body \in [Reqs -> [code : Texts, message : Texts, title : Texts]]
    /\ dbFaults \in 0..MaxDbFaults
    /\ redisFaults \in 0..MaxRedisFaults
    /\ lostCommits \in 0..MaxLostCommits
    /\ exits \in 0..MaxExits

-----------------------------------------------------------------------------
(* Actions                                                                 *)

(* middleware.WithHTTPAuth: missing or wrong basic-auth credentials get    *)
(* 401 before any handler.                                                 *)
Authenticate(r) ==
    /\ pc[r] = "auth"
    /\ IF req[r].auth
       THEN /\ pc' = [pc EXCEPT ![r] = "decode"]
            /\ UNCHANGED <<status, body>>
       ELSE /\ pc' = [pc EXCEPT ![r] = "done"]
            /\ WriteHeader(r, handleError(NewError("Unauthorized", "Not Authorized", ""))[1])
            /\ body' = [body EXCEPT ![r] = handleError(NewError("Unauthorized", "Not Authorized", ""))[2]]
    /\ UNCHANGED <<req>> /\ Unchanged_Lock /\ Unchanged_Rows /\ Unchanged_Faults

(* Decoding and validation: a BadRequestError, returned.                   *)
Decode(r) ==
    /\ pc[r] = "decode"
    /\ IF Valid(req[r])
       THEN /\ pc' = [pc EXCEPT ![r] = FirstCall(req[r])]
            /\ UNCHANGED <<status, body>>
       ELSE WriteError(r, DecodeError(req[r]))
    /\ UNCHANGED <<req>> /\ Unchanged_Lock /\ Unchanged_Rows /\ Unchanged_Faults

(* Variant writing the key with SET instead of SETNX: it always succeeds.  *)
SetNXReply_Set(d) == "set"

(* SetNX(key, ...) on Redis: the key is set only when no one holds it.     *)
SetNXReply(d) == IF lockOwner[d] = Free THEN "set" ELSE "locked"

(* CreateAccountHandler: one attempt of lock.Execute's retry.Do on         *)
(* BuildLockKey("doc_number", doc).  Once the attempts are spent,          *)
(* handleError's error is written and returned.                            *)
LockAttempt(r) ==
    /\ pc[r] = "lock"
    /\ LET d == req[r].doc
       IN \E reply \in RedisReplies(SetNXReply(d)) :
          IF reply = "set"
          THEN /\ lockOwner' = [lockOwner EXCEPT ![d] = r]
               /\ pc' = [pc EXCEPT ![r] = "save"]
               /\ UNCHANGED <<tries, lockErrs, redisFaults, status, body>>
          ELSE LET errs == lockErrs[r] \cup {IF reply = "locked" THEN "locked" ELSE "internal"}
               IN /\ lockOwner' = IF reply = "lost_reply" /\ lockOwner[d] = Free
                                  THEN [lockOwner EXCEPT ![d] = Stale] ELSE lockOwner
                  /\ redisFaults' = IF reply = "locked" THEN redisFaults ELSE redisFaults + 1
                  /\ tries' = [tries EXCEPT ![r] = @ + 1]
                  /\ lockErrs' = [lockErrs EXCEPT ![r] = errs]
                  /\ IF Exhausted(tries[r] + 1)
                     THEN WriteError(r, lockError(errs))
                     ELSE UNCHANGED <<pc, status, body>>
    /\ UNCHANGED <<req, exits, failed, dbFaults, lostCommits>> /\ Unchanged_Rows

(* Under the lock: accountService.Create -> accountRepository.Save, one    *)
(* Transact around the INSERT.                                             *)
SaveAccount(r) ==
    /\ pc[r] = "save"
    /\ \E o \in TxOutcomes :
          /\ accounts' = IF o = "committed" THEN Append(accounts, req[r].doc) ELSE accounts
          /\ failed' = [failed EXCEPT ![r] = o = "error"]
          /\ CountFault(o)
    /\ pc' = [pc EXCEPT ![r] = "release"]
    /\ UNCHANGED <<req, exits, tries, lockErrs, lockOwner, txns, status, body, redisFaults>>

(* f returns, the deferred releaseLock runs, Execute returns f's error and *)
(* the handler writes it (a raw database error: 500) or 201.               *)
ReleaseAndRespond(r) ==
    /\ pc[r] = "release"
    /\ releaseLock(r, req[r].doc)
    /\ IF failed[r] THEN WriteError(r, RawError) ELSE Respond(r, <<201>>)
    /\ UNCHANGED <<req, exits, tries, lockErrs, failed, dbFaults, lostCommits>> /\ Unchanged_Rows

(* GetAccountHandler: accountService.Get (one Transact around First).      *)
(* A repository error is answered 500, no row 404, else 200.               *)
GetAccount(r) ==
    /\ pc[r] = "get"
    /\ \/ dbFaults < MaxDbFaults /\ dbFaults' = dbFaults + 1
          /\ WriteError(r, NewError("InternalServer", "INTERNAL_SERVER_ERROR", ""))
       \/ UNCHANGED dbFaults
          /\ IF AccountExists(req[r].id) THEN Respond(r, <<>>)
             ELSE WriteError(r, NewError("NotFound", "account_not_found", ""))
    /\ UNCHANGED <<req, exits, redisFaults, lostCommits>> /\ Unchanged_Lock /\ Unchanged_Rows

(* CreateTransactionHandler, as.Get: its own Transact.  On no row the      *)
(* handler writes 400 and returns err, which is nil here.                  *)
CheckAccount(r) ==
    /\ pc[r] = "getAccount"
    /\ \/ dbFaults < MaxDbFaults /\ dbFaults' = dbFaults + 1
          /\ WriteError(r, NewError("InternalServer", "INTERNAL_SERVER_ERROR", ""))
       \/ UNCHANGED dbFaults
          /\ IF AccountMissing(r)
             THEN WriteError(r, NewError("BadRequest", "BAD_REQUEST", "account not found"))
             ELSE /\ pc' = [pc EXCEPT ![r] = "getOp"]
                  /\ UNCHANGED <<status, body>>
    /\ UNCHANGED <<req, exits, redisFaults, lostCommits>> /\ Unchanged_Lock /\ Unchanged_Rows

(* ots.Get, the same shape as as.Get.                                      *)
CheckOpType(r) ==
    /\ pc[r] = "getOp"
    /\ \/ dbFaults < MaxDbFaults /\ dbFaults' = dbFaults + 1
          /\ WriteError(r, NewError("InternalServer", "INTERNAL_SERVER_ERROR", ""))
       \/ UNCHANGED dbFaults
          /\ IF OpTypeMissing(r)
             THEN WriteError(r, NewError("BadRequest", "BAD_REQUEST", "operation type not found"))
             ELSE /\ pc' = [pc EXCEPT ![r] = "create"]
                  /\ UNCHANGED <<status, body>>
    /\ UNCHANGED <<req, exits, redisFaults, lostCommits>> /\ Unchanged_Lock /\ Unchanged_Rows

(* txnService.Transact(txnService.Create(repo.Save)): three nested         *)
(* Transact calls, one transaction, one outcome.                           *)
CreateTransaction(r) ==
    /\ pc[r] = "create"
    /\ \E o \in TxOutcomes :
          /\ txns' = IF o = "committed"
                     THEN Append(txns, [acc |-> req[r].acc, op |-> req[r].op]) ELSE txns
          /\ CountFault(o)
          /\ IF o = "error"
             THEN WriteError(r, NewError("InternalServer", "INTERNAL_SERVER_ERROR", ""))
             ELSE Respond(r, <<201>>)
    /\ UNCHANGED <<req, exits, accounts, redisFaults>> /\ Unchanged_Lock

(* Redis drops a leaked key when its TTL ends.                             *)
Expire(d) ==
    /\ lockOwner[d] = Stale
    /\ lockOwner' = [lockOwner EXCEPT ![d] = Free]
    /\ UNCHANGED <<pc, req, tries, lockErrs, failed, accounts, txns, status, body>>
    /\ Unchanged_Faults

(* Requests whose handler has started and not yet returned.               *)
InFlight == {r \in Reqs : pc[r] \notin {"auth", "done", "cut"}}

(* SIGTERM: waitForShutdown gives http.Server.Shutdown ShutdownTimeout to   *)
(* drain; the server command's deferred cleanup closes the pool and the     *)
(* process ends, cutting every handler still running.  Its client gets no  *)
(* response, its open transaction is rolled back by Postgres, and a lock   *)
(* key it holds stays in Redis until its TTL.  The restarted process       *)
(* serves the requests that had not reached a handler.                     *)
Exit ==
    /\ exits < MaxExits
    /\ InFlight # {}
    /\ exits' = exits + 1
    /\ pc' = [r \in Reqs |-> IF r \in InFlight THEN "cut" ELSE pc[r]]
    /\ lockOwner' = [d \in Docs |-> IF lockOwner[d] \in InFlight THEN Stale ELSE lockOwner[d]]
    /\ UNCHANGED <<req, tries, lockErrs, failed, accounts, txns, status, body,
                   dbFaults, redisFaults, lostCommits>>

Init ==
    /\ pc = [r \in Reqs |-> "auth"]
    /\ req \in [Reqs -> Shapes]
    /\ tries = [r \in Reqs |-> 0]
    /\ lockErrs = [r \in Reqs |-> {}]
    /\ failed = [r \in Reqs |-> FALSE]
    /\ lockOwner = [d \in Docs |-> Free]
    /\ accounts = <<>>
    /\ txns = <<>>
    /\ status = [r \in Reqs |-> 0]
    /\ body = [r \in Reqs |-> NoBody]
    /\ dbFaults = 0 /\ redisFaults = 0 /\ lostCommits = 0
    /\ exits = 0

Next ==
    \/ \E r \in Reqs :
          \/ Authenticate(r) \/ Decode(r)
          \/ LockAttempt(r) \/ SaveAccount(r) \/ ReleaseAndRespond(r)
          \/ GetAccount(r)
          \/ CheckAccount(r) \/ CheckOpType(r) \/ CreateTransaction(r)
    \/ \E d \in Docs : Expire(d)
    \/ Exit

Spec == Init /\ [][Next]_vars

-----------------------------------------------------------------------------
(* Properties                                                              *)

(* Every stored transaction names an account and an operation type that   *)
(* exist, although CreateTransactionHandler looks them up in transactions *)
(* of their own before the insert, with other requests running between.   *)
TxnRowsReferenceRows ==
    \A i \in 1..Len(txns) : AccountExists(txns[i].acc) /\ txns[i].op \in OpTypes

(* CreateAccountHandler writes its response only after Execute's deferred *)
(* releaseLock has run, on the error path as on the success path: a       *)
(* request that has answered no longer holds its document's lock.         *)
LockReleasedBeforeResponse ==
    \A r \in Reqs :
        pc[r] = "done" /\ req[r].kind = "createAccount" /\ req[r].doc \in Docs
            => lockOwner[req[r].doc] # r

(* A 423 is written only when every failed attempt met the key held by    *)
(* someone else; an attempt that failed in Redis makes it a 500.          *)
LockedMeansContended ==
    \A r \in Reqs : status[r] = 423 => lockErrs[r] = {"locked"}

(* The work CreateAccountHandler runs under the lock, accountService.Create *)
(* and the deferred releaseLock, is never run by two requests for one      *)
(* document at once, whatever the retries, lost replies and leaked keys.  *)
CriticalSectionsExclusive ==
    \A r1, r2 \in Reqs :
        r1 # r2 /\ pc[r1] \in {"save", "release"} /\ pc[r2] \in {"save", "release"}
            => req[r1].doc # req[r2].doc

(* Every error response names its error: the ErrorItem written with an    *)
(* error status has a code, a message and a title, although several        *)
(* handlers pass empty ErrDetails and none sets a title.                   *)
ErrorBodyComplete ==
    \A r \in Reqs :
        status[r] >= 400 => body[r].code # "" /\ body[r].message # "" /\ body[r].title # ""

(* The spec: error responses never carry the store's or the driver's       *)
(* error text verbatim to the client.                                      *)
NoDriverTextToClient ==
    \A r \in Reqs : DriverText \notin {body[r].code, body[r].message, body[r].title}

=============================================================================
