----------------------------- MODULE Parsing ---------------------------------
(***************************************************************************)
(* The parsing and formatting the service does on text: the string helpers *)
(* of internal/utils (ToUnderScore, GenerateStoreClient, the lock-key      *)
(* builders), the conversions between slices of decimal strings and of     *)
(* integers (int.go, strings.go, helper.go) with strconv.Atoi and Itoa,    *)
(* and config.Load with the getters of pkg/config and internal/config that *)
(* read its keys from the environment and application.yaml.               *)
(*                                                                         *)
(* A Go string is a sequence of one-character strings; every character is  *)
(* ASCII, so a byte index and a rune index coincide, as they do in         *)
(* ToUnderScore's "for i, v := range s" with "s[i+1]".  Go's int, int64    *)
(* and uint are IntWidth bits wide (64 on the build), int32 Int32Width.    *)
(*                                                                         *)
(* The state is one call: which function, its argument and its result.     *)
(* Slices of integers are parsed by one call and formatted by the next, as *)
(* a caller that reads ids from a query and writes them back does.         *)
(***************************************************************************)
EXTENDS Integers, Sequences, SequencesExt

CONSTANTS
    Caps,           \* upper-case ASCII letters of the alphabet
    LowerOf,        \* strings.ToLower on them: a function from Caps
    Others,         \* the other characters of the strings given to ToUnderScore
    MaxLen,         \* characters in a string given to ToUnderScore
    Numerals,       \* strings given, as slice elements, to the conversions
    MaxSlice,       \* elements in one slice
    IntWidth,       \* bits of Go's int (and int64)
    Int32Width,     \* bits of Go's int32
    ConfigKeys,     \* every key Load reads
    VaryKeys,       \* the keys whose setting the model varies
    ConfigValues,   \* values a varied key may hold
    DefaultEnv,     \* a setting of every key with which Load succeeds
    Millisecond     \* int(time.Millisecond): nanoseconds in a millisecond

ASSUME Int32Width < IntWidth

VARIABLES
    call,           \* the helper last called
    arg,            \* its argument
    out             \* its result

vars == <<call, arg, out>>

Lows == {LowerOf[c] : c \in Caps}
DigitChar == <<"0", "1", "2", "3", "4", "5", "6", "7", "8", "9">>
DigitChars == {DigitChar[i] : i \in 1..10}
DigitVal(c) == CHOOSE d \in 0..9 : DigitChar[d + 1] = c
Alphabet == Caps \cup Lows \cup Others

IntMin == -(2^(IntWidth - 1))
IntMax == 2^(IntWidth - 1) - 1
\* Go's conversion int32(x): keep the low Int32Width bits, two's complement.
ToInt32(x) == ((x + 2^(Int32Width - 1)) % (2^Int32Width)) - 2^(Int32Width - 1)

\* strings.Trim(s, cutset) and strings.TrimSpace (cutset the white space).
TrimChars(s, cut) ==
    LET keep == {i \in 1..Len(s) : s[i] \notin cut}
    IN  IF keep = {} THEN <<>> ELSE SubSeq(s, Min(keep), Max(keep))
WhiteSpace == {" "}

(***************************************************************************)
(* strings.go                                                              *)
(***************************************************************************)
IsCap(c) == c \in Caps
IsLow(c) == c \in Lows

checkIgnore(u) == ~(IsCap(u) \/ IsLow(u))

\* One iteration of ToUnderScore's loop, at the 1-based position i of the
\* trimmed string t, appending to the result n built so far.
UnderScoreStep(t, d, i, n) ==
    LET v == t[i]
        changed == i < Len(t) /\ \/ IsCap(v) /\ IsLow(t[i + 1])
                                 \/ IsLow(v) /\ IsCap(t[i + 1])
        nextCaseIsChanged == changed /\ ~(i > 1 /\ checkIgnore(t[i - 1]))
    IN  CASE i > 1 /\ Last(n) # d /\ nextCaseIsChanged ->
               IF IsCap(v) THEN n \o <<d, v>> ELSE n \o <<v, d>>
          [] v \in {" ", "_", "-"} ->
               IF checkIgnore(v) THEN Append(n, v) ELSE Append(n, d)
          [] OTHER -> Append(n, v)

ToUnderScore(s, d) ==
    LET t == TrimChars(s, {" "})
        loop[i \in 0..Len(t)] ==
            IF i = 0 THEN <<>> ELSE UnderScoreStep(t, d, i, loop[i - 1])
    IN  loop[Len(t)]

\* regexp `\s+` replaced by "_": every run of white space becomes one "_".
RECURSIVE ReplaceSpaceRuns(_)
ReplaceSpaceRuns(s) ==
    IF s = <<>> THEN <<>>
    ELSE IF Head(s) \notin WhiteSpace
         THEN <<Head(s)>> \o ReplaceSpaceRuns(Tail(s))
         ELSE LET rest == {i \in 1..Len(s) : s[i] \notin WhiteSpace}
                  from == IF rest = {} THEN Len(s) + 1 ELSE Min(rest)
              IN  <<"_">> \o ReplaceSpaceRuns(SubSeq(s, from, Len(s)))

ToLower(s) == [i \in 1..Len(s) |-> IF IsCap(s[i]) THEN LowerOf[s[i]] ELSE s[i]]

EngineSuffix == <<"-", "e", "n", "g", "i", "n", "e">>

GenerateStoreClient(str) ==
    LET s1 == TrimChars(str, WhiteSpace)
        s2 == ReplaceSpaceRuns(s1)
        s3 == ToUnderScore(s2, "_")
        s4 == ReplaceAll(s3, "_", "-")
    IN  ToLower(s4) \o EngineSuffix

\* fmt.Sprintf("%s-%v", key, arg) over the arguments, from "lock".
BuildLockKey(arguments) ==
    <<"l", "o", "c", "k">> \o FlattenSeq([i \in 1..Len(arguments) |->
                                            <<"-">> \o arguments[i]])

CreateAWBLegTypeLockKey(awbNumber, legType) == awbNumber \o legType

CompareStringSlices(a, b) ==
    Len(a) = Len(b) /\ \A i \in 1..Len(a) : a[i] = b[i]

IsAnyStringInSlice(stringsToFind, searchSlice) ==
    \E i \in 1..Len(stringsToFind) : stringsToFind[i] \in ToSet(searchSlice)

(***************************************************************************)
(* strconv.Atoi and strconv.Itoa                                           *)
(***************************************************************************)
HasSign(s) == s # <<>> /\ Head(s) \in {"+", "-"}
Body(s) == IF HasSign(s) THEN Tail(s) ELSE s
IsNegative(s) == HasSign(s) /\ Head(s) = "-"

RECURSIVE DigitsValue(_)
DigitsValue(b) ==
    IF b = <<>> THEN 0 ELSE DigitsValue(Front(b)) * 10 + DigitVal(Last(b))

\* Atoi: an optional sign, then at least one decimal digit; the value must
\* fit in an int, else ErrRange.  The callers drop the value on any error.
Atoi(s) ==
    LET b == Body(s)
        v == IF IsNegative(s) THEN -DigitsValue(b) ELSE DigitsValue(b)
    IN  CASE b = <<>> \/ \E i \in 1..Len(b) : b[i] \notin DigitChars ->
               [err |-> "syntax", num |-> 0]
          [] v < IntMin \/ v > IntMax -> [err |-> "range", num |-> 0]
          [] OTHER -> [err |-> "none", num |-> v]

RECURSIVE Decimal(_)
Decimal(m) ==
    IF m < 10 THEN <<DigitChar[m + 1]>>
    ELSE Decimal(m \div 10) \o <<DigitChar[(m % 10) + 1]>>

Itoa(n) == IF n < 0 THEN <<"-">> \o Decimal(-n) ELSE Decimal(n)

(***************************************************************************)
(* int.go, helper.go, strings.go: slice conversions                        *)
(***************************************************************************)
\* The loop returns at the first element Atoi rejects, with Atoi's error;
\* narrow says whether every accepted number is converted to int32.
ConvertSlice(s, narrow) ==
    LET bad == SelectInSeq(s, LAMBDA str : Atoi(str).err # "none")
    IN  IF bad # 0 THEN [err |-> Atoi(s[bad]).err, vals |-> <<>>]
        ELSE [err |-> "none",
              vals |-> [i \in 1..Len(s) |->
                          IF narrow THEN ToInt32(Atoi(s[i]).num) ELSE Atoi(s[i]).num]]

ConvertSliceOfStringToSliceOfInt(s) == ConvertSlice(s, FALSE)
ConvertSliceOfStringToSliceOfInt64(s) == ConvertSlice(s, FALSE)
ConvertSliceOfStringToSliceOfInt32(s) == ConvertSlice(s, TRUE)

\* Same loop; the error is wrapped in "route_index should be ...".
GetRouteIndexFromParam(routeSeqArray) ==
    LET r == ConvertSlice(routeSeqArray, FALSE)
    IN  IF r.err = "none" THEN r ELSE [r EXCEPT !.err = "route_index"]

ConvertSliceOfIntToSliceOfString(s) == [i \in 1..Len(s) |-> Itoa(s[i])]
ConvertSliceOfInt32ToSliceOfString(s) == [i \in 1..Len(s) |-> Itoa(s[i])]

CheckValueExistsInIntSlice(inputVal, intSlice) ==
    Len(intSlice) > 0 /\ \E i \in 1..Len(intSlice) : intSlice[i] = inputVal

(***************************************************************************)
(* Configuration getters (pkg/config, internal/config/utils.go) and Load   *)
(***************************************************************************)
\* A key as the process sees it: an environment variable (empty is unset,
\* as viper.AutomaticEnv and os.Getenv both treat it) and an entry of
\* application.yaml.
Settings == [env : {<<>>} \cup ConfigValues, inFile : {FALSE}, file : {<<>>}]
            \cup [env : {<<>>} \cup ConfigValues, inFile : {TRUE},
                  file : {<<>>} \cup ConfigValues]

\* viper.IsSet with AutomaticEnv.
IsSet(st) == st.env # <<>> \/ st.inFile

\* viper.GetString: the environment overrides the file.
ViperGetString(st) ==
    IF st.env # <<>> THEN st.env ELSE IF st.inFile THEN st.file ELSE <<>>

GetString(st) == IF st.env # <<>> THEN st.env ELSE ViperGetString(st)

ParseBoolTrue == {<<"1">>, <<"t">>, <<"T">>, <<"T", "R", "U", "E">>,
                  <<"t", "r", "u", "e">>, <<"T", "r", "u", "e">>}
ParseBoolFalse == {<<"0">>, <<"f">>, <<"F">>, <<"F", "A", "L", "S", "E">>,
                   <<"f", "a", "l", "s", "e">>, <<"F", "a", "l", "s", "e">>}

\* What a getter returns: stop is "none", "fatal" (log.Fatalf: the process
\* exits) or "panic"; val is the string, number or boolean read.
Got(v) == [stop |-> "none", val |-> v]
Stop(kind) == [stop |-> kind, val |-> <<>>]

mustHaveKey(st) == ~IsSet(st) /\ st.env = <<>>

\* mustParseKey: log.Fatalf on a parse error, else the number.
mustParseKey(r) == IF r.err # "none" THEN Stop("fatal") ELSE Got(r.num)

MustGetString(st) == IF mustHaveKey(st) THEN Stop("fatal") ELSE Got(GetString(st))

\* Variant that drops mustParseKey and keeps whatever Atoi returned.
MustGetInt_NoParseCheck(st) ==
    IF mustHaveKey(st) THEN Stop("fatal") ELSE Got(Atoi(GetString(st)).num)

MustGetInt(st) ==
    IF mustHaveKey(st) THEN Stop("fatal") ELSE mustParseKey(Atoi(GetString(st)))

\* time.Duration(MustGetInt(key)) * time.Millisecond, kept in milliseconds.
MustGetTimeoutInMS(st) == MustGetInt(st)

\* A value ParseBool rejects reads as false; nothing stops.
MustGetBool(st) ==
    IF mustHaveKey(st) THEN Stop("fatal") ELSE Got(GetString(st) \in ParseBoolTrue)

checkKey(st) == ~IsSet(st)

getStringOrPanic(st) == IF checkKey(st) THEN Stop("panic") ELSE Got(ViperGetString(st))

\* panicIfErrorForKey: panic on a parse error.
panicIfErrorForKey(r) == IF r.err # "none" THEN Stop("panic") ELSE Got(r.num)

getIntOrPanic(st) ==
    IF checkKey(st) THEN Stop("panic") ELSE panicIfErrorForKey(Atoi(ViperGetString(st)))

getBool(st) ==
    IF checkKey(st) THEN Stop("panic") ELSE Got(ViperGetString(st) \in ParseBoolTrue)

\* Without a default, only the presence check can stop it.
getStringSliceOrPanic(st) == IF checkKey(st) THEN Stop("panic") ELSE Got(<<>>)

Getter(g, st) ==
    CASE g = "MustGetString"         -> MustGetString(st)
      [] g = "MustGetInt"            -> MustGetInt(st)
      [] g = "MustGetTimeoutInMS"    -> MustGetTimeoutInMS(st)
      [] g = "MustGetBool"           -> MustGetBool(st)
      [] g = "getStringOrPanic"      -> getStringOrPanic(st)
      [] g = "getIntOrPanic"         -> getIntOrPanic(st)
      [] g = "getBool"               -> getBool(st)
      [] g = "getStringSliceOrPanic" -> getStringSliceOrPanic(st)
      [] OTHER                       -> Got(GetString(st))

R(k, g) == [key |-> k, getter |-> g]

\* initDBConfig: dbCfg, then readDBCfg, then the test overrides.
dbCfgReads ==
    << R("DB_HOST", "MustGetString"), R("DB_PORT", "MustGetString"),
       R("DB_NAME", "MustGetString"), R("DB_USER", "MustGetString"),
       R("DB_PASSWORD", "MustGetString"), R("DB_SSL_MODE", "MustGetString"),
       R("DB_POOL_SIZE", "MustGetInt"), R("DB_MAX_IDLE_CONNECTIONS", "MustGetInt"),
       R("DB_CONN_MAX_LIFETIME_MINUTES", "MustGetInt"),
       R("DB_TRANSACTION_TIMEOUT_IN_MS", "MustGetInt"), R("IS_TEST", "MustGetBool") >>
readDBCfgReads ==
    << R("READ_DB_HOST", "getStringOrPanic"), R("READ_DB_PORT", "getStringOrPanic"),
       R("DB_NAME", "getStringOrPanic"), R("DB_USER", "getStringOrPanic"),
       R("DB_PASSWORD", "getStringOrPanic"), R("DB_SSL_MODE", "getStringOrPanic"),
       R("READ_DB_POOL_SIZE", "getIntOrPanic"),
       R("READ_DB_MAX_IDLE_CONNECTIONS", "getIntOrPanic"),
       R("DB_CONN_MAX_LIFETIME_MINUTES", "MustGetInt"),
       R("READ_DB_TRANSACTION_TIMEOUT_IN_MS", "getIntOrPanic") >>
testDBReads ==
    << R("TEST_DB_NAME", "MustGetString"), R("TEST_DB_PASSWORD", "MustGetString"),
       R("TEST_DB_NAME", "MustGetString"), R("TEST_DB_PASSWORD", "MustGetString") >>
initStatsDConfigReads ==
    << R("AMPHIBIAN_STATSD_ENABLED", "getBool"),
       R("AMPHIBIAN_STATSD_HOST", "getStringOrPanic"),
       R("AMPHIBIAN_STATSD_PORT", "getIntOrPanic"),
       R("AMPHIBIAN_STATSD_NAMESPACE", "getStringOrPanic"),
       R("AMPHIBIAN_STATSD_TAGS", "getStringSliceOrPanic") >>
newAppConfigReads == << R("APP_HOST", "MustGetString"), R("APP_PORT", "MustGetInt") >>
loggerNewConfigReads == << R("LOG_LEVEL", "MustGetString"), R("LOG_FORMAT", "GetString") >>
NewCacheConfigReads ==
    << R("REDIS_CACHE_HOST", "MustGetString"), R("REDIS_CACHE_MAX_POOL_SIZE", "MustGetInt"),
       R("REDIS_CACHE_CONNECT_TIMEOUT_MS", "MustGetTimeoutInMS"),
       R("REDIS_CACHE_QUERY_TIMEOUT_MS", "MustGetTimeoutInMS"),
       R("REDIS_CACHE_QUERY_TIMEOUT_MS", "MustGetTimeoutInMS"),
       R("REDIS_CACHE_MAX_IDLE_TIMEOUT_MS", "MustGetTimeoutInMS"),
       R("REDIS_CACHE_UNIQUE_KEY_EXPIRE_TIME_MS", "MustGetTimeoutInMS") >>
newAuthConfigReads == << R("AUTH_USERNAME", "MustGetString"), R("AUTH_PASSWORD", "MustGetString") >>
newAtomicLockConfigReads ==
    << R("AL_DEF_LOCK_EXPIRY_MS", "MustGetInt"), R("AL_DEF_RETRY_ATTEMPTS", "MustGetInt"),
       R("AL_DEF_RETRY_DELAY", "MustGetInt") >>

\* Load's reads in order; the test overrides follow when IS_TEST read true.
LoadReads(env) ==
    LET isTest == MustGetBool(env["IS_TEST"])
    IN  dbCfgReads \o readDBCfgReads
          \o (IF isTest.stop = "none" /\ isTest.val THEN testDBReads ELSE << >>)
          \o initStatsDConfigReads \o newAppConfigReads \o loggerNewConfigReads
          \o NewCacheConfigReads \o newAuthConfigReads \o newAtomicLockConfigReads

\* Go's uint(x) for an int x of the same width.
ToUint(x) == x % (2^IntWidth)

newAtomicLockConfig(env) ==
    [LockExpiry    |-> MustGetInt(env["AL_DEF_LOCK_EXPIRY_MS"]).val,
     RetryAttempts |-> ToUint(MustGetInt(env["AL_DEF_RETRY_ATTEMPTS"]).val),
     RetryDelay    |-> MustGetInt(env["AL_DEF_RETRY_DELAY"]).val]

\* Go's int arithmetic: the exact result wrapped into IntWidth bits.
WrapInt(x) == ((x - IntMin) % (2^IntWidth)) + IntMin

\* NewAccessor(config.DB()) keeps TransactionTimoutInMS(), the value
\* initDBConfig read with MustGetInt.
NewAccessor(env) == [txTimeoutMS |-> MustGetInt(env["DB_TRANSACTION_TIMEOUT_IN_MS"]).val]

\* accessor.Transact: the timeout TransactWithTimeout hands to
\* context.WithTimeout, time.Duration(acc.txTimeoutMS*int(time.Millisecond)),
\* a product taken in int.
Transact(acc) == WrapInt(acc.txTimeoutMS * Millisecond)

\* config.Load: the first read that stops ends the process there.  A
\* process that starts builds its accessor from the loaded DBConfig.
Load(env) ==
    LET reads == LoadReads(env)
        res(i) == Getter(reads[i].getter, env[reads[i].key])
        first == SelectInSeq([i \in 1..Len(reads) |-> res(i).stop],
                             LAMBDA st : st # "none")
    IN  IF first # 0
        THEN [stop |-> res(first).stop, key |-> reads[first].key, lock |-> <<>>,
              txTimeout |-> 0]
        ELSE [stop |-> "none", key |-> "", lock |-> newAtomicLockConfig(env),
              txTimeout |-> Transact(NewAccessor(env))]

(***************************************************************************)
(* The calls                                                               *)
(***************************************************************************)
Strings == BoundedSeq(Alphabet, MaxLen)
NumeralSlices == BoundedSeq(Numerals, MaxSlice)
Parsers == {"Int", "Int64", "Int32", "RouteIndex"}

Parse(f, s) ==
    CASE f = "Int"   -> ConvertSliceOfStringToSliceOfInt(s)
      [] f = "Int64" -> ConvertSliceOfStringToSliceOfInt64(s)
      [] f = "Int32" -> ConvertSliceOfStringToSliceOfInt32(s)
      [] OTHER       -> GetRouteIndexFromParam(s)

\* The process environment of a start-up: the default with at most two of
\* the varied keys set otherwise.
Envs == {[DefaultEnv EXCEPT ![k1] = s1, ![k2] = s2] :
            k1 \in VaryKeys, k2 \in VaryKeys, s1 \in Settings, s2 \in Settings}

\* The argument of one call: a string, a slice of numerals or an environment.
Args == [kind : {"text"}, val : Strings] \cup [kind : {"slice"}, val : NumeralSlices]
        \cup [kind : {"env"}, val : Envs]

Init ==
    /\ call = "none"
    /\ arg \in Args
    /\ out = <<>>

CallToUnderScore ==
    /\ call = "none"
    /\ arg.kind = "text"
    /\ call' = "ToUnderScore"
    /\ out' = ToUnderScore(arg.val, "_")
    /\ UNCHANGED arg

CallGenerateStoreClient ==
    /\ call = "none"
    /\ arg.kind = "text"
    /\ call' = "GenerateStoreClient"
    /\ out' = GenerateStoreClient(arg.val)
    /\ UNCHANGED arg

\* Parse a slice of query strings into numbers with one of the four loops.
CallParse ==
    /\ call = "none"
    /\ arg.kind = "slice"
    /\ \E f \in Parsers :
          /\ call' = f
          /\ out' = Parse(f, arg.val)
    /\ UNCHANGED arg

\* Write the numbers of a successful parse back as strings.
CallFormat ==
    /\ call \in Parsers
    /\ out.err = "none"
    /\ call' = "Format" \o call
    /\ out' = IF call = "Int32" THEN ConvertSliceOfInt32ToSliceOfString(out.vals)
              ELSE ConvertSliceOfIntToSliceOfString(out.vals)
    /\ UNCHANGED arg

\* Start the process: config.Load over the environment.
CallLoad ==
    /\ call = "none"
    /\ arg.kind = "env"
    /\ call' = "Load"
    /\ out' = Load(arg.val)
    /\ UNCHANGED arg

Next ==
    \/ CallLoad
    \/ CallToUnderScore
    \/ CallGenerateStoreClient
    \/ CallParse
    \/ CallFormat

Spec == Init /\ [][Next]_vars

(***************************************************************************)
(* Properties                                                              *)
(***************************************************************************)
Ints == IntMin..IntMax
Int32s == -(2^(Int32Width - 1))..(2^(Int32Width - 1) - 1)

TypeOK ==
    /\ call \in {"none", "Load", "ToUnderScore", "GenerateStoreClient"}
                  \cup Parsers \cup {"Format" \o f : f \in Parsers}
    /\ arg \in Args
    /\ call \in Parsers => /\ out.err \in {"none", "syntax", "range", "route_index"}
                           /\ out.vals \in Seq(IF call = "Int32" THEN Int32s ELSE Ints)
    /\ call \in {"ToUnderScore", "GenerateStoreClient"} => out \in Seq(STRING)
    /\ call \in {"Format" \o f : f \in Parsers} => out \in Seq(Seq(STRING))
    /\ call = "Load" => /\ out.stop \in {"none", "fatal", "panic"}
                        /\ out.stop = "none" =>
                              out.lock \in [LockExpiry : Ints, RetryAttempts : 0..(2^IntWidth - 1),
                                            RetryDelay : Ints]
    /\ call = "Load" => out.txTimeout \in Ints

\* The value an operator configured for a key: the environment variable
\* when it is not empty, else the file entry.
Configured(st) == IF st.env # <<>> THEN st.env ELSE st.file
Present(st) == st.env # <<>> \/ st.inFile

TestKeys == {"TEST_DB_NAME", "TEST_DB_PASSWORD"}
NumberKeys ==
    {"DB_POOL_SIZE", "DB_MAX_IDLE_CONNECTIONS", "DB_CONN_MAX_LIFETIME_MINUTES",
     "DB_TRANSACTION_TIMEOUT_IN_MS", "READ_DB_POOL_SIZE", "READ_DB_MAX_IDLE_CONNECTIONS",
     "READ_DB_TRANSACTION_TIMEOUT_IN_MS", "AMPHIBIAN_STATSD_PORT", "APP_PORT",
     "REDIS_CACHE_MAX_POOL_SIZE", "REDIS_CACHE_CONNECT_TIMEOUT_MS",
     "REDIS_CACHE_QUERY_TIMEOUT_MS", "REDIS_CACHE_MAX_IDLE_TIMEOUT_MS",
     "REDIS_CACHE_UNIQUE_KEY_EXPIRE_TIME_MS", "AL_DEF_LOCK_EXPIRY_MS",
     "AL_DEF_RETRY_ATTEMPTS", "AL_DEF_RETRY_DELAY"}
SignedValue(s) == IF IsNegative(s) THEN -DigitsValue(Body(s)) ELSE DigitsValue(Body(s))
IsIntNumeral(s) ==
    /\ Body(s) # <<>>
    /\ \A i \in 1..Len(Body(s)) : Body(s)[i] \in DigitChars
    /\ SignedValue(s) \in IntMin..IntMax

\* config.Load lets the process start exactly when every key but
\* LOG_FORMAT is present (the test database keys only when IS_TEST holds
\* a true value) and every numeric key holds an int; the two getter
\* families (pkg/config's Must* and internal/config's *OrPanic) agree on
\* presence, whichever of the environment and the file holds the key.
LoadAcceptsExactly ==
    call = "Load" =>
        LET env == arg.val
            required == (ConfigKeys \ ({"LOG_FORMAT"} \cup TestKeys))
                        \cup (IF Configured(env["IS_TEST"]) \in ParseBoolTrue
                              THEN TestKeys ELSE {})
        IN  out.stop = "none"
              <=> /\ \A k \in required : Present(env[k])
                  /\ \A k \in NumberKeys : IsIntNumeral(Configured(env[k]))

\* ConvertSliceOfStringToSliceOfInt32 either fails or returns the values
\* of the numerals it was given, as TestConvertSliceToInt32 expects of it
\* (int_test.go); int32(num) truncates a numeral Atoi accepts but int32
\* cannot hold, and the loop returns the truncated value with a nil error.
Int32ValuesKept ==
    call = "Int32" /\ out.err = "none" =>
        out.vals = [i \in 1..Len(arg.val) |-> SignedValue(arg.val[i])]

\* A process that starts gives every transaction it owns a deadline in the
\* future: Transact passes acc.txTimeoutMS*int(time.Millisecond) to
\* context.WithTimeout as the time "from now" the transaction may run.
\* Load accepts any int for DB_TRANSACTION_TIMEOUT_IN_MS; a value of 0 or
\* below, or one whose product wraps to 0 or below, makes every Begin run
\* on a context whose deadline has already passed.
TxDeadlineInFuture ==
    call = "Load" /\ out.stop = "none" => out.txTimeout > 0
=============================================================================
