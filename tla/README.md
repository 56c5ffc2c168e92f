# TLA+ models of prismo

prismo is a ledger service. A request passes through four layers:

1. An HTTP handler decodes the request (`internal/handler`), behind
   `middleware.WithHTTPAuth` and `wrappers.DefaultWrapper`.
2. The handler calls a service (`internal/service`).
3. The service calls a repository (`internal/repository`).
4. The repository runs SQL through GORM inside `accessor.Transact`.

Every request runs on its own goroutine. What those goroutines share is
Postgres, the Redis lock keys and the transaction carried in a `context`.

This project models these parts of the code:

* **The distributed lock.** `locks.AtomicLock` is in `src/pkg/locks/atomic_lock.go`.
  * `Execute(ctx, key, keyType, f, state)` takes a Redis key with
    `SetNX(key, true, expiry)` under `retry.Do`, using the class's `Attempts`.
  * It then runs `f` and deletes the key with `Del` in a deferred `releaseLock`.
  * A `LockState` is carried down the call tree. It makes a nested `Execute` on
    a key the tree already holds reentrant.
* **The transaction coordinator.** `repository.accessor` is in `src/internal/repository/db_accessor.go`.
  * If the context carries no transaction, `Transact` begins one with a
    deadline; that call is the *owner*. Otherwise it joins the transaction in
    the context.
  * A deferred function recovers panics. In the owner only, it rolls back on an
    error and commits otherwise. A non-owner wraps the error and returns it.
* **The HTTP side.** This covers the routes of `router.go` (create account,
  get account, create transaction), the auth middleware, `DefaultWrapper` with its
  `HTTPStatusWriter`. It also covers the
  services and repositories those routes call, and the error responses built by
  `responder.go` and `errors.go`.
  * `CreateAccountHandler` runs `accountService.Create` under the lock on
    `BuildLockKey("doc_number", …)`.
  * The account's `Transact` commits inside the lock's work function, so it
    commits before the lock is released.
  * `server.Serve` drains for `ShutdownTimeout` on SIGTERM, after which the
    server command's deferred cleanup closes the pool and the process ends,
    cutting the handlers still running.
* **The listing path.** `URLParser` and `ValidateSortVerb` parse the query
  parameters (`internal/utils`). `FilterRequest` scopes apply them, and
  `transactionRepository.GetAllWithCount` runs the listing and its count.
* **Parsing of text.** The string helpers of `internal/utils`
  (`ToUnderScore`, `GenerateStoreClient`, `BuildLockKey`), the int.go and
  helper.go conversions between slices of numerals and of integers, and
  start-up: `config.Load` reads every key through the getters of
  `pkg/config` and `internal/config`, and stops the process on a missing
  or malformed one.

## Modules

| module | models | state | actions |
|---|---|---|---|
| `DistLock` | What the lock promises: each key is free, held by one request, or leaked (held by nobody until it expires). | `owner[k]` | `Acquire`, `Release`, `Leak`, `HolderCrash`, `Expire` |
| `AtomicLock` | `atomic_lock.go`, including Redis and instance crashes. | See below. | `Request`, `Execute`, `lock`, `ExecuteReturns`, `Crash`, `Restart`, `Expire` |
| `TxCoordinator` | `db_accessor.go` running against Postgres. | See below. | `TransactWithTimeout`, `Statement`, `Deadline`, `TxFuncReturns` |
| `Handlers` | The three routes with their middleware, wrapper, services, repositories and error responses, with requests running concurrently. | See below. | `Authenticate`, `Decode`, `LockAttempt`, `SaveAccount`, `ReleaseAndRespond`, `GetAccount`, `CheckAccount`, `CheckOpType`, `CreateTransaction`, `Expire`, `Exit` |
| `ListQuery` | `url_parser.go`, `helper.go`'s sort validation, `filter_scopes.go` and `GetAllWithCount`. | `query`, `pagination`, `ranges`, `sortBy`, `result` | `ParsePagination`, `ParseRanges`, `ParseSort`, `List` |
| `Parsing` | `strings.go`, `int.go`, `lock.go`, `GetRouteIndexFromParam`, and `config.Load` with the loaders and getters of `internal/config` and `pkg/config`. | `call`, `arg`, `out`: one call, its argument and its result | `CallToUnderScore`, `CallGenerateStoreClient`, `CallParse`, `CallFormat`, `CallLoad` |

`MC_AtomicLock`, `MC_TxCoordinator`, `MC_Handlers`, `MC_ListQuery` and
`MC_Parsing` give TLC the constants.

State of `AtomicLock`:

* `cache[k]`: the Redis key is absent, present with a TTL, or present without one.
* `lockKeys[p]`: the `LockState` of request `p`.
* `stack[p]`: the `Execute` calls in progress. Each frame holds its key, its
  class, whether it owns the key, its phase, and its attempts and errors so far.
* `result[p]` and `up[p]`, plus counters for faults and crashes.

State of `TxCoordinator`:

* `tx[c]`: the chain's transaction, one of none, open, aborted, expired,
  committed or rolled back.
* `frames[c]`: the `Transact` calls in progress. Each frame records whether it
  is the owner, how its caller treats its error, and whether its txFunc holds
  an error.
* `failed`, `outcome`.

State of `Handlers`:

* Per request: `pc` (its stage), `req` (its shape), the lock attempts
  (`tries`, `lockErrs`) and `failed`.
* Shared: `lockOwner` (the abstract Redis keys), `accounts` and `txns` (the
  committed rows).
* What each request answered: `status` and `body`.
* Fault budgets, and `exits`, the process exits so far.

### How the code maps onto the models

**`AtomicLock`**

* Each helper of `atomic_lock.go` is an operator with the same name.
* `lock` follows `lock()`: `SetNX`, then `setKeyInLockState`, only when
  `SetNX` returned `true`.
* `releaseLock` follows `releaseLock()`: `Del`, then `deleteKeyFromLockState`,
  only when `Del` returned no error.
* A Redis reply is a set of possible outcomes. A transport error either came
  before Redis ran the command (`lost_request`) or after it (`lost_reply`).
* `retry.Do` with `Attempts(n)` is counted in the frame's `tries`.
  * For `n > 0`, it gives up after `n` failures, and `handleError` classifies
    the collected errors.
  * For `n = 0`, it retries until it succeeds.
* `NoSelfAcquire` needs `lock()` to record every key it takes, so that a
  nested `Execute` on a held key is reentrant and never issues a `SetNX`
  against its own tree's key.
* `getConfig` is modelled literally. Its fallback key is `"default"`, but the
  configured class is `locks.Def = "DEFAULT"`, so an unconfigured class reads
  Go's zero `LockConfig`.

**`TxCoordinator`**

* How a caller treats the error of a nested `Transact` is the constant
  `Handling`.
  * `"propagate"` covers `Get`, `Save`, the services and the handlers.
  * `"swallow"` stands for both repositories' `Update`, which return nil on
    any error. No run uses it: nothing in the code calls `Update` inside
    another `Transact`, so the swallowed error never reaches an owner.

**`Handlers`**

* Each action is one handler step between two points where other goroutines
  can run, and it includes every call the step makes.
* `Respond(r, codes)` is `WriteAny`: the first given status, or 200 when
  none is given (`WriteAnyResponse`).
* `WriteError(r, err)` combines two things:
  * `responder.WriteError`, which goes through `handleError`'s type switch,
    `newErrorResponse`, `errMessage` and `errTitle`;
  * `HTTPStatusWriter.WriteHeader`, where the first status written wins.
* `DefaultWrapper` reports a request's success or failure only to a
  `ReporterEntry` in the context. Nothing in the repository installs one
  (`pkg/context` has a getter for `reporterKey` and no setter), so the
  report is a no-op and is left out.
* `handleError` is the whole type switch: `ErrorCases` lists its cases in
  the code's order with their status and title, and
  `newErrorResponseByHTTPStatus` handles `ExternalAPICallError`. The case
  for `*errors.ValidationError` is a pointer type, and
  `NewValidationError` returns a value, so a validation error would take the
  default branch. Only the types the routes build reach a response.
* `SetNXReply` is Redis's answer to `setKeyInCache`'s `SetNX`.
* `Exit` is a SIGTERM: every request whose handler is running is `"cut"`.
  It gets no response. Its transaction was not committed (a `Transact` is
  one step), and a lock key it holds becomes leaked until its TTL. Requests
  not yet accepted are served by the restarted process.
* An error value is a record `[type, status, id, message, titleParam]`;
  `status` is the upstream status of an `ExternalAPICallError`.
  * `RawError` is gorm's error, passed to `WriteError` unwrapped.
  * Its message stands for the driver text.
* The lock is `DistLock`'s abstract key. Each `LockAttempt` is one `retry.Do`
  attempt, and `lockError` classifies the failures as `locks.handleError` does
  (423 or 500).
* Each top-level `Transact` is one atomic step with three possible results:
  * it commits;
  * it fails and rolls back (`MaxDbFaults`);
  * it returns nil although its commit was lost (`MaxLostCommits`).
  `TxCoordinator` checks how that step works inside.

**`ListQuery`**

* Go's `int` is `IntWidth` bits wide. `Wrap` reduces products into that range
  as Go's two's-complement arithmetic does.
* `strconv.Atoi` returns a range error for numerals outside the range and a
  syntax error for garbage. The parsers return the errors the code builds.
* A sort value is a sequence of words, and `Split` is a RECURSIVE operator
  over it. The `strings.ToUpper` of a verb is modelled by its effect on the two
  verbs.
* `Pagination` applies GORM's rule: LIMIT is applied when it is not negative,
  and OFFSET only when it is positive.
* `GetAllWithCount` counts with `Offset(-1)`, so the count ignores the page.

**`Parsing`**

* A string is a sequence of one-character strings. `UnderScoreStep` is one
  iteration of `ToUnderScore`'s loop, with its look-ahead (`s[i+1]`), its
  look-behind (`checkIgnore(s[i-1])`) and its check of the last character
  written. `ToUnderScore` folds it over the trimmed string.
* The branch at lines 79-85 of `strings.go` ("replace spaces/underscores with
  delimiters") is dead: `checkIgnore` is true for `' '`, `'_'` and `'-'`, so
  the character is always kept. The model keeps the branch as written.
* `Atoi` is modelled by what it does: an optional sign, at least one digit,
  `ErrSyntax` otherwise, and `ErrRange` outside `int`. `Itoa` writes the
  digits back with a RECURSIVE operator.
* A configuration key is its environment variable (empty means unset) and
  its `application.yaml` entry. `IsSet` and `ViperGetString` are viper's
  view with `AutomaticEnv`: the environment wins over the file.
* Each getter returns a value, or stops start-up with `"fatal"`
  (`log.Fatalf`) or `"panic"`. `Load` runs the loaders' reads in the
  code's order, with the `TEST_DB_*` reads only when `IS_TEST` reads true,
  and stops at the first read that stops.
* `NewAccessor` keeps the configured `DB_TRANSACTION_TIMEOUT_IN_MS`, and
  `Transact` computes `time.Duration(txTimeoutMS*int(time.Millisecond))`
  as Go does: an `int` product that wraps (`WrapInt`). `Millisecond` is a
  constant standing for `time.Millisecond`, scaled down with `IntWidth`.
* `ConvertSliceOfStringToSliceOfInt32` converts each value with `ToInt32`,
  Go's `int32(x)`: the low `Int32Width` bits, read as two's complement.

## Runs

| run | cfg | expect | what it shows |
|---|---|---|---|
| lock_main | `MC_AtomicLock.cfg` | pass | Two call trees make nested `Execute` calls, with one lost `SetNX` request or reply, one lost `Del` request or reply, and one crash. `MutualExclusion` is not claimed here: at `MaxCalls = 2` the stale-state path cannot happen, and `lock_staleState` shows it failing at 3. A nested call on a held key never acquires it again (`NoSelfAcquire`), every call returns (`EveryExecuteReturns`), every key ends free (`LockEventuallyFree`, also after a leaked `Del`), and the lock refines `DistLock` (`ImplementsDistLock`). |
| lock_staleState | `MC_AtomicLock_staleState.cfg` | violation | `MutualExclusion` fails: `Del` errors, the key stays in `LockState`, and a later `Execute` on it is taken as reentrant while another tree holds the key. |
| lock_fallback | `MC_AtomicLock_fallback.cfg` | violation | `EveryExecuteReturns` fails. An unconfigured class gets no TTL and retries for ever, and two trees that take two keys in opposite orders wait for ever. |
| tx_main | `MC_TxCoordinator.cfg` | pass | Three nested levels that propagate errors, failing statements, a deadline and a `Begin` failure. Checks `NoCommitAfterFailure` and `TxEventuallyEnds`. |
| tx_commit | `MC_TxCoordinator_commit.cfg` | violation | `AckedImpliesCommitted` fails because `tx.Commit()`'s error is ignored. |
| handlers_main | `MC_Handlers.cfg` | pass | Three concurrent requests of every kind and outcome, with one fault of each sort and one process exit that cuts the handlers still running. Every stored transaction references existing rows (`TxnRowsReferenceRows`). The document lock is released before the response on every path (`LockReleasedBeforeResponse`), and no two requests for one document run the work under it at once, across retries, lost replies, leaked keys and the exit (`CriticalSectionsExclusive`). A 423 means pure contention (`LockedMeansContended`). Every error body has a code, a message and a title (`ErrorBodyComplete`). |
| handlers_leak | `MC_Handlers_leak.cfg` | violation | `NoDriverTextToClient` fails: a failed account INSERT puts the driver's text into the response. |
| list_main | `MC_ListQuery.cfg` | pass | For every page, range and sort value up to the bounds: only allowed ORDER BY clauses are built (`SortClauseSafe`); no range parser accepts half a range (`RangeComplete`); listed rows lie in the range (`ListedRowsInRange`); and the count covers the page (`PageWithinCount`). |
| list_page | `MC_ListQuery_page.cfg` | violation | `PageAsDocumented` fails: a page whose offset overflows `int` lists the first page. |
| utils_main | `MC_Parsing.cfg` | pass | The `int32` loop only returns `int32` values (`TypeOK`). `config.Load` starts the process exactly when every required key is present and every numeric key holds an `int`, whichever of the environment and `application.yaml` holds it (`LoadAcceptsExactly`). |
| utils_int32 | `MC_Parsing_int32.cfg` | violation | `Int32ValuesKept` fails: `"32"` at a 6-bit `int32` comes back as -32 with no error. |
| utils_deadline | `MC_Parsing_deadline.cfg` | violation | `TxDeadlineInFuture` fails: a start-up with `DB_TRANSACTION_TIMEOUT_IN_MS` of `-1` or `7` gives `Transact` a timeout of 0 or below. |

Each property of a passing run has a mutant in `PROJECT.json`. A mutant is an
operator, written just before the definition it replaces, that a plausible bug
in the code would produce. TLC finds each mutant violating its property.

## Findings

1. **Stale `LockState` after a failed `Del`** (`lock_staleState`).
   `releaseLock` skips `deleteKeyFromLockState` when `Del` errors, and
   `Execute`'s defer drops that error. The stale `LockState` makes a later
   `Execute` on the same key reentrant even though the tree no longer holds
   the lock.
2. **Unconfigured lock classes** (`lock_fallback`). `getConfig` falls back to
   `"default"`, which is never configured. The fallback is therefore the zero
   config: no TTL and infinite retries.
3. **Mutual exclusion depends on the TTL.** The TTL must outlive the work:
   there is no renewal or fencing, and `Del` does not check the owner. The lock
   runs assume this through `LeaseOutlivesWork = TRUE`, which only lets a key
   expire when no running `Execute` owns it. This is a sizing assumption, not a
   checked result.
4. **Commit errors are ignored** (`tx_commit`). `tx.Commit()`'s error is
   dropped, so `Transact` returns nil for a transaction that was rolled back.
5. **Driver text in responses** (`handlers_leak`). `CreateAccountHandler`
   passes gorm's error to `WriteError` unwrapped. `handleError`'s default
   branch (`responder.go:152`) then puts the driver text into the message,
   which the spec forbids.
6. **Page offset overflow** (`list_page`). `GetPaginationParams` computes
   `pageInt * limit` with no overflow check. A wrapped negative offset makes
   GORM omit OFFSET, so the first page is listed. No route calls the listing
   today.
7. **`int32` truncation** (`utils_int32`). `ConvertSliceOfStringToSliceOfInt32`
   parses with `Atoi` and stores `int32(num)`, so a numeral beyond `int32`
   comes back as another number with a nil error. `TestConvertSliceToInt32`
   expects the numerals' values or an error, but lists no such numeral. The
   function has no caller today.
8. **Transaction deadline from configuration** (`utils_deadline`). `Load`
   only checks that `DB_TRANSACTION_TIMEOUT_IN_MS` parses as an `int`. With
   `-1`, `0`, or a value whose product with `time.Millisecond` wraps to 0 or
   below, every owner's `context.WithTimeout` has already expired, so every
   `Begin` fails. The spec says the deadline is set `timeout` from now, and
   nothing bounds the configured value. A product can also wrap to an
   unrelated positive timeout, which no property can tell from a meant one.

## Bounds

**`AtomicLock` and `TxCoordinator`**

* Two requests and two keys are the fewest that show contention and
  lock-order inversion.
* `MaxCalls = 2` gives a nested `Execute`, either reentrant or on the other
  key. The stale-state run needs 3: take the key, release it with a lost
  reply, take it again.
* One `SetNX` or `Del` fault and one crash are enough to orphan a key. A second
  fault only repeats states already reached.
* The retry count is 2, so that a retry follows a failed attempt.
* `lock_main` allows one `SetNX` fault, one `Del` fault and one crash
  together, so a leaked key and a crashed holder can meet.
* Three nested `Transact` levels match the deepest chain in the code: handler,
  then `transactionService.Create`, then `Save`. Three statements let a failure
  come after a success.

**`Handlers`**

* The main run has three requests, each choosing any shape of `AllShapes`.
  `AllShapes` covers every rejection by the router, the decoder and the
  validators. It has one document number (so two creations contend for one
  key), one operation type, and account ids 1 (exists once created) and 2
  (never exists). A transaction on account 1 can therefore race the insert it
  depends on.
* There is one fault of each kind (database, Redis, lost commit) and one
  process exit (`MaxExits = 1`). One exit leaves a leaked key and a
  committed but unanswered row; with one document number, a second exit
  cannot leak a second key.
* `Attempts = 2`, so both kinds of lock error, and mixtures of them, can occur.
* The violation run uses the smallest request sets that reach their paths.

**`ListQuery`**

* `IntWidth = 8`. Overflow behaves the same at every width, and 8 bits keeps
  the numerals few. `Numerals` contains the edges: `IntMin`, `IntMin - 1`,
  `IntMax`, `IntMax + 1`, 0, 1 and -1. It also contains values whose product
  with the limit wraps.
* Sort values are up to 3 words, which is enough for `field:verb`,
  `field:verb:extra` and a field with a suffix word.
* `Queries` varies one parameter group at a time: pagination, ranges and sort.
  The parsers of one group do not read the others' keys, so combining the
  groups would add no behaviour.

**`Parsing`**

* Strings have up to 6 characters over `A`, `a`, space, `_`, `-` and `1`.
  That covers acronyms (`AAa`), a case change after a non-letter (`-aA`),
  and leading, trailing and repeated separators.
* `IntWidth = 8` and `Int32Width = 6`. The numerals lie inside, at and
  beyond both ranges (`32`, `127`, `128`, `-128`, `-129`), and include
  signed, zero-padded, empty and malformed ones. Slices hold up to 2.
* `Load` reads all 38 keys. The environment differs from a working one in
  at most two of eight keys: one read by each kind of getter, `IS_TEST` with
  `TEST_DB_NAME`, and `AL_DEF_RETRY_ATTEMPTS`. Each of those keys is set to
  `7`, `-1`, `x` or `t` in the environment, the file, both or neither. Two
  keys suffice: a property relates at most `IS_TEST` to one other key.
  `DB_TRANSACTION_TIMEOUT_IN_MS` is among the varied keys, and with
  `Millisecond = 32` only 1 to 3 fit: `7` wraps to a negative duration,
  and `-1` stays negative.

## Fairness

**`AtomicLock`**

* Retry attempts follow one another after `RetryDelay`, a work function
  returns, and Redis expires a key whose TTL has elapsed. So `lock`,
  `ExecuteReturns` and `Expire` are weakly fair.
* New requests, nested calls, faults and crashes are never required to happen.

**`TxCoordinator`**

* A txFunc's statements are bounded by the deadline, so the txFunc returns.
  `TxFuncReturns` is weakly fair.

**`Handlers`, `ListQuery` and `Parsing`**

* Their runs check only invariants and assume no fairness.
* They serve a fixed set of requests or calls and stop once every one has
  returned. That is why their cfgs say `CHECK_DEADLOCK FALSE`.

## Not modelled

* **The in-memory cache** (`src/pkg/cache`). It has no caller: `userService`
  holds a cache but never reads it, and no route uses `userService`.
* **Some utilities.** `GetList` and `GetBool` of `url_parser.go`,
  `TrimStrings` (nil and empty slices cannot be told apart in the model),
  and the float and reflection helpers of `strings.go`. None has a caller.
* **Parts of configuration.** `cfg.Init`'s file search and YAML parsing, the
  values of string fields, and the getters no loader calls (floats, JSON,
  number slices, `GetFeature`, `GetUint`). Elsewhere configuration values
  enter the models as constants.
* **Glue with no shared state.** This covers the logger, the statsd
  transport, route registration, migrations and the CLI. Of the server
  lifecycle only the exit that cuts running handlers is modelled.
* **`LatLong`** (`src/pkg/utils/location.go`). It has no caller, and its
  behaviour is float64 arithmetic and `fmt` formatting, which TLC cannot
  reproduce faithfully. Reading it by hand shows three defects: `valid()`
  accepts NaN (every comparison with NaN is false); a latitude just inside
  the tolerance, such as 89.9999695, formats with `%f` as `89.999970`,
  which `Scan` then rejects, so the round trip fails; and `UnmarshalJSON`
  returns nil when `strconv.Unquote` fails.
* **The `ctx` shadowing in `Transact`** (`db_accessor.go:170`). It is
  harmless: the transaction is bound to the deadline context, and the
  txFuncs reach the database only through `GetTx`.
* **Uniqueness of document numbers.** The `doc_number` lock only
  serializes creates (`CriticalSectionsExclusive`). `accountService.Create`
  inserts without looking for an account with that document number, and
  `models.Account` has no unique constraint. So two creates one after the
  other, or a client's retry after an exit cut its 201, store two accounts
  with one document number. No spec text, comment or test says document
  numbers are unique, so no property claims it.
* **Validation errors reaching a response.** `handleError`'s case for
  `*errors.ValidationError` never matches the value `NewValidationError`
  returns, so such an error would be answered 500 with its own text. Only
  `LatLong` builds one, and nothing calls it, so no modelled request
  reaches that case.
* **`DefaultWrapper`'s metrics report.** It runs only when a
  `ReporterEntry` is in the context, and nothing installs one.
* **The string helpers' output format.** `ToUnderScore`,
  `GenerateStoreClient` and the lock-key builders are modelled, but no
  property is claimed for them: no spec text, comment or test states the
  rule their output follows.
* **JSON rendering and decoding.** Decoding enters `Handlers` only as whether
  it succeeded.

## Further work

* Compose `AtomicLock` with `TxCoordinator` for `CreateAccountHandler` under
  an `INSTANCE`, so that `Handlers` can be checked against the detailed lock
  and not just `DistLock`.
* Model `GetList`/`GetBool` and the remaining `url_parser` helpers.
* Check `handleError`'s `ErrorCases` against an abstract "error type to
  status" table as a refinement.
