--------------------------- MODULE MC_Parsing -------------------------------
(* One upper-case letter and its lower-case form, the three characters     *)
(* ToUnderScore singles out and a digit; Go's int reduced to 8 bits and    *)
(* int32 to 6, with numerals inside, at and beyond both ranges, signed,    *)
(* zero-padded, empty and malformed.  For config.Load, every key the       *)
(* loaders read, with nine of them (one per kind of getter, IS_TEST and    *)
(* its test database key, the lock's retry count, the transaction          *)
(* timeout) set to a number, a negative number, garbage or "t" in the      *)
(* environment, the file or both.  time.Millisecond is scaled with the     *)
(* int: 1 to 3 ms fit, 7 ms wraps, as ms > 9223372036854 does on the build.*)
EXTENDS Parsing

MCLowerOf == [c \in {"A"} |-> "a"]

MCNumerals == { <<"1">>, <<"-", "1">>, <<"+", "7">>, <<"0", "0", "7">>,
                <<"-", "0">>, <<"3", "2">>, <<"1", "2", "7">>,
                <<"1", "2", "8">>, <<"-", "1", "2", "8">>,
                <<"-", "1", "2", "9">>, <<"1", "x">>, <<>>, <<"+">> }

MCConfigKeys ==
    {"DB_HOST", "DB_PORT", "DB_NAME", "DB_USER", "DB_PASSWORD", "DB_SSL_MODE",
     "DB_POOL_SIZE", "DB_MAX_IDLE_CONNECTIONS", "DB_CONN_MAX_LIFETIME_MINUTES",
     "DB_TRANSACTION_TIMEOUT_IN_MS", "IS_TEST", "READ_DB_HOST", "READ_DB_PORT",
     "READ_DB_POOL_SIZE", "READ_DB_MAX_IDLE_CONNECTIONS",
     "READ_DB_TRANSACTION_TIMEOUT_IN_MS", "TEST_DB_NAME", "TEST_DB_PASSWORD",
     "AMPHIBIAN_STATSD_ENABLED", "AMPHIBIAN_STATSD_HOST", "AMPHIBIAN_STATSD_PORT",
     "AMPHIBIAN_STATSD_NAMESPACE", "AMPHIBIAN_STATSD_TAGS", "APP_HOST", "APP_PORT",
     "LOG_LEVEL", "LOG_FORMAT", "REDIS_CACHE_HOST", "REDIS_CACHE_MAX_POOL_SIZE",
     "REDIS_CACHE_CONNECT_TIMEOUT_MS", "REDIS_CACHE_QUERY_TIMEOUT_MS",
     "REDIS_CACHE_MAX_IDLE_TIMEOUT_MS", "REDIS_CACHE_UNIQUE_KEY_EXPIRE_TIME_MS",
     "AUTH_USERNAME", "AUTH_PASSWORD", "AL_DEF_LOCK_EXPIRY_MS",
     "AL_DEF_RETRY_ATTEMPTS", "AL_DEF_RETRY_DELAY"}

\* Keys read by each kind of getter, and the pair the lock policy and the
\* test database hang on.
MCVaryKeys ==
    {"DB_HOST", "DB_POOL_SIZE", "IS_TEST", "TEST_DB_NAME", "READ_DB_HOST",
     "READ_DB_POOL_SIZE", "AMPHIBIAN_STATSD_ENABLED", "AL_DEF_RETRY_ATTEMPTS",
     "DB_TRANSACTION_TIMEOUT_IN_MS"}

\* "7", "-1", "x" and "t".
MCConfigValues == {<<"7">>, <<"-", "1">>, <<"x">>, <<"t">>}

\* Everything in application.yaml, IS_TEST false, numbers 1.
MCDefaultEnv ==
    [k \in MCConfigKeys |->
        [env |-> <<>>, inFile |-> TRUE,
         file |-> IF k = "IS_TEST" THEN <<"f">> ELSE <<"1">>]]
=============================================================================
