------------------------------ MODULE ListQuery ------------------------------
(***************************************************************************)
(* The listing path of internal/utils and internal/repository: the query   *)
(* parameters of a request are read by URLParser (url_parser.go) and       *)
(* ValidateSortVerb (helper.go), carried in a repository.FilterRequest      *)
(* (filter_scopes.go), and applied by transactionRepository.GetAllWithCount *)
(* as GORM scopes: a created_at range, an ORDER BY and LIMIT/OFFSET, then a *)
(* COUNT of the same query with the offset removed.                         *)
(*                                                                         *)
(* Go's int and int64 are IntWidth bits wide here instead of 64: Atoi's     *)
(* range check and the wrap-around of pageInt * limit behave the same way   *)
(* at any width.  A time.Time made by time.Unix(epoch, 0) is its epoch.     *)
(* A sort string is a sequence of words (SortTokens), ":" being one of      *)
(* them; a field name is a sequence of words too, so "created_atx" is the   *)
(* sequence <<"created_at", "x">> and compares unequal to "created_at".     *)
(***************************************************************************)
EXTENDS Integers, Sequences, SequencesExt

CONSTANTS
    IntWidth,       \* bits of Go's int and int64
    Numerals,       \* integers written as query values, some out of range
    SortTokens,     \* words a sort query value is made of
    MaxSortLen,     \* words in one sort query value
    AllowedFields,  \* the allowedValues argument of ValidateSortVerb
    Table           \* created_at epochs of the rows that match the query

ASSUME IntWidth \in Nat \ {0, 1}

VARIABLES
    query,          \* the url.Values of the request
    pagination,     \* what GetPaginationParams returned
    ranges,         \* what each range parser returned
    sortBy,         \* what ValidateSortVerb / ValidateSellerViewSortVerb returned
    result          \* what GetAllWithCount returned

vars == <<query, pagination, ranges, sortBy, result>>

IntMin == -(2^(IntWidth - 1))
IntMax == 2^(IntWidth - 1) - 1

(* Two's-complement wrap-around of Go's signed integer arithmetic.         *)
Wrap(x) == ((x - IntMin) % (2^IntWidth)) + IntMin

(* url.Values.Get returns "" for a missing key, else the text given: a     *)
(* decimal numeral or anything else.                                       *)
Absent == [kind |-> "absent", n |-> 0]
Numeral(n) == [kind |-> "numeral", n |-> n]
Garbage == [kind |-> "text", n |-> 0]
Values == {Absent, Garbage} \cup {Numeral(n) : n \in Numerals}

(* strconv.Atoi and ParseInt(v, 10, 64) succeed on a numeral in range;     *)
(* ErrRange out of it, ErrSyntax on other text.                            *)
Parses(v) == v.kind = "numeral" /\ v.n \in IntMin..IntMax

(* A *time.Time: nil is {}, time.Unix(e, 0).UTC() is {e}.                  *)
Nil == {}
TimeOf(v) == IF v = Absent THEN Nil ELSE {v.n}

RECURSIVE Split(_, _)
(* strings.Split(s, sep) for a one-word separator: the pieces between the  *)
(* separators, so that <<>> splits into one empty piece.                   *)
Split(s, sep) ==
    LET i == SelectInSeq(s, LAMBDA t : t = sep)
    IN IF i = 0 THEN <<s>>
       ELSE <<SubSeq(s, 1, i - 1)>> \o Split(SubSeq(s, i + 1, Len(s)), sep)

-----------------------------------------------------------------------------
(* Pagination                                                              *)

DefaultLimit == 10
DefaultOffset == 0

PageErr(e) == [err |-> e, limit |-> 0, offset |-> 0]
PageOk(l, o) == [err |-> "none", limit |-> l, offset |-> o]

(* Variant without the per_page >= 1 check.                               *)
GetPaginationParams_NoMinCheck(perPageVal, pageVal) ==
    LET limit == IF perPageVal = Absent THEN DefaultLimit ELSE perPageVal.n
        pageInt == Wrap(pageVal.n - 1)
    IN CASE perPageVal # Absent /\ ~Parses(perPageVal) -> PageErr("per_page_nan")
         [] pageVal # Absent /\ ~Parses(pageVal)       -> PageErr("page_nan")
         [] pageVal # Absent /\ pageInt < 0            -> PageErr("page_small")
         [] pageVal # Absent -> PageOk(limit, Wrap(pageInt * limit))
         [] OTHER            -> PageOk(limit, DefaultOffset)

(* GetPaginationParams: per_page must be a number >= 1; page is turned     *)
(* into pageInt = page - 1, which must be >= 0, and offset = pageInt *     *)
(* limit, both in Go's int arithmetic.                                     *)
GetPaginationParams(perPageVal, pageVal) ==
    LET limit == IF perPageVal = Absent THEN DefaultLimit ELSE perPageVal.n
        pageInt == Wrap(pageVal.n - 1)
    IN CASE perPageVal # Absent /\ ~Parses(perPageVal) -> PageErr("per_page_nan")
         [] perPageVal # Absent /\ perPageVal.n < 1    -> PageErr("per_page_small")
         [] pageVal # Absent /\ ~Parses(pageVal)       -> PageErr("page_nan")
         [] pageVal # Absent /\ pageInt < 0            -> PageErr("page_small")
         [] pageVal # Absent -> PageOk(limit, Wrap(pageInt * limit))
         [] OTHER            -> PageOk(limit, DefaultOffset)

-----------------------------------------------------------------------------
(* Time ranges                                                             *)

RangeErr(e) == [err |-> e, from |-> Nil, to |-> Nil]
RangeOk(fromVal, toVal) == [err |-> "none", from |-> TimeOf(fromVal), to |-> TimeOf(toVal)]

(* Variant that forgets to require the upper bound once a lower bound is   *)
(* given.                                                                  *)
ToCreatedRange_NoPairCheck(fromVal, toVal) ==
    CASE fromVal # Absent /\ ~Parses(fromVal) -> RangeErr("from_nan")
      [] toVal # Absent /\ ~Parses(toVal)     -> RangeErr("to_nan")
      [] toVal # Absent /\ fromVal = Absent   -> RangeErr("from_missing")
      [] OTHER -> RangeOk(fromVal, toVal)

(* ToCreatedRange: each bound given must be an epoch, and a bound given    *)
(* without the other is an error; the checks run from, then to.            *)
ToCreatedRange(fromVal, toVal) ==
    CASE fromVal # Absent /\ ~Parses(fromVal) -> RangeErr("from_nan")
      [] fromVal # Absent /\ toVal = Absent   -> RangeErr("to_missing")
      [] toVal # Absent /\ ~Parses(toVal)     -> RangeErr("to_nan")
      [] toVal # Absent /\ fromVal = Absent   -> RangeErr("from_missing")
      [] OTHER -> RangeOk(fromVal, toVal)

(* GetRpuAtRangeParams and GetInboundedRangeParams repeat ToCreatedRange's *)
(* code for their own parameter names.                                     *)
GetRpuAtRangeParams(fromVal, toVal) == ToCreatedRange(fromVal, toVal)

GetInboundedRangeParams(fromVal, toVal) == ToCreatedRange(fromVal, toVal)

(* GetTimeRangeParams: both bounds required, then both parsed.             *)
GetTimeRangeParams(fromVal, toVal) ==
    CASE fromVal = Absent     -> RangeErr("from_missing")
      [] toVal = Absent       -> RangeErr("to_missing")
      [] ~Parses(fromVal)     -> RangeErr("from_nan")
      [] ~Parses(toVal)       -> RangeErr("to_nan")
      [] OTHER -> RangeOk(fromVal, toVal)

(* Variant without the final "need to be provided together" check.        *)
GetOptionalTimeRangeParams_NoTogether(fromVal, toVal) ==
    CASE fromVal # Absent /\ ~Parses(fromVal)   -> RangeErr("from_nan")
      [] toVal # Absent /\ ~Parses(toVal)       -> RangeErr("to_nan")
      [] OTHER -> RangeOk(fromVal, toVal)

(* GetOptionalTimeRangeParams: each bound given is parsed, then one nil    *)
(* and the other not is an error.                                          *)
GetOptionalTimeRangeParams(fromVal, toVal) ==
    CASE fromVal # Absent /\ ~Parses(fromVal)   -> RangeErr("from_nan")
      [] toVal # Absent /\ ~Parses(toVal)       -> RangeErr("to_nan")
      [] (fromVal = Absent) # (toVal = Absent)  -> RangeErr("together")
      [] OTHER -> RangeOk(fromVal, toVal)

RangeParsers == {"created", "rpu", "inbounded", "required", "optional"}

-----------------------------------------------------------------------------
(* Sorting                                                                 *)

DefaultSortParam == <<"created_at", " ", "DESC">>
DefaultSellerViewSortParam ==
    <<"seller_group", " ", "DESC", ", ", "rpu", " ", "DESC", ", ",
      "allocated", " ", "DESC", ", ", "name", " ", "ASC">>

ToUpper == [t \in {"asc", "desc"} |-> IF t = "asc" THEN "ASC" ELSE "DESC"]

SortErr(e) == [err |-> e, clause |-> <<>>]
SortOk(c) == [err |-> "none", clause |-> c]

(* Variant that takes the field's membership in allowedValues for granted. *)
StringInSlice_Any(strSlice, s) == TRUE

(* StringInSlice: s is one of the slice's strings.                         *)
StringInSlice(strSlice, s) == \E i \in DOMAIN strSlice : strSlice[i] = s

(* ValidateSortVerb: "" gives the default; else "field:order" split on     *)
(* ":" into exactly two pieces, order asc or desc, field allowed, and the  *)
(* clause is Sprintf("%s %s", field, strings.ToUpper(order)).              *)
ValidateSortVerb(sort, allowedValues) ==
    LET splits == Split(sort, ":")
        field == splits[1]
        order == splits[2]
    IN CASE sort = <<>>                                   -> SortOk(DefaultSortParam)
         [] Len(splits) # 2                               -> SortErr("format")
         [] order \notin {<<"desc">>, <<"asc">>}          -> SortErr("direction")
         [] ~StringInSlice(allowedValues, field)          -> SortErr("field")
         [] OTHER -> SortOk(field \o <<" ", ToUpper[order[1]]>>)

ValidateSellerViewSortVerb(sort, allowedValues) ==
    IF sort = <<>> THEN SortOk(DefaultSellerViewSortParam)
    ELSE ValidateSortVerb(sort, allowedValues)

-----------------------------------------------------------------------------
(* The repository                                                          *)

(* FilterRequest.CreatedAtRange: the WHERE only when both bounds are set.  *)
CreatedAtRange(fr, rows) ==
    IF fr.CreatedFrom # Nil /\ fr.CreatedTo # Nil
    THEN SelectSeq(rows, LAMBDA t : \A f \in fr.CreatedFrom, e \in fr.CreatedTo : f <= t /\ t <= e)
    ELSE rows

(* The rows a query with LIMIT l and OFFSET o returns: GORM writes LIMIT   *)
(* for l >= 0 and OFFSET only for o > 0.                                   *)
Window(rows, l, o) ==
    LET skip == IF o > 0 THEN o ELSE 0
        last == IF skip + l < Len(rows) THEN skip + l ELSE Len(rows)
    IN SubSeq(rows, skip + 1, last)

(* FilterRequest.Pagination: LIMIT and OFFSET only when Limit > 0.         *)
Pagination(fr, rows) == IF fr.Limit > 0 THEN Window(rows, fr.Limit, fr.Offset) ELSE rows

(* Variant that counts with the Find's OFFSET still in place.              *)
CountOffset_Kept(fr) == fr.Offset

(* The OFFSET of the COUNT query: .Offset(-1) removes it.                  *)
CountOffset(fr) == -1

(* GetAllWithCount: Find with the three scopes, then Count on the same     *)
(* statement.  The count query returns one row, which its LIMIT keeps and  *)
(* an OFFSET > 0 skips, leaving count at 0.                                *)
GetAllWithCount(fr) ==
    LET matching == CreatedAtRange(fr, Table)
    IN [done  |-> TRUE,
        rows  |-> Pagination(fr, matching),
        count |-> IF CountOffset(fr) > 0 THEN 0 ELSE Len(matching),
        order |-> fr.SortBy]

-----------------------------------------------------------------------------
(* The request                                                             *)

SortValues == UNION {[1..k -> SortTokens] : k \in 0..MaxSortLen}

NoQuery == [perPage |-> Absent, page |-> Absent, from |-> Absent, to |-> Absent, sort |-> <<>>]

(* Requests that vary one group of parameters at a time: the groups are    *)
(* read by separate functions that share nothing.                          *)
Queries ==
    {[NoQuery EXCEPT !.perPage = a, !.page = b] : a, b \in Values}
    \cup {[NoQuery EXCEPT !.from = a, !.to = b] : a, b \in Values}
    \cup {[NoQuery EXCEPT !.sort = s] : s \in SortValues}

Pending == "pending"
NoResult == [done |-> FALSE, rows |-> <<>>, count |-> 0, order |-> <<>>]

PageErrors == {Pending, "per_page_nan", "per_page_small", "page_nan", "page_small"}
RangeErrors == {Pending, "from_nan", "to_nan", "from_missing", "to_missing", "together"}

TypeOK ==
    /\ {query.perPage, query.page, query.from, query.to} \subseteq Values
    /\ query.sort \in Seq(SortTokens) /\ Len(query.sort) <= MaxSortLen
    /\ \/ pagination.err \in PageErrors /\ pagination.limit = 0 /\ pagination.offset = 0
       \/ pagination.err = "none" /\ pagination.limit \in 1..IntMax
          /\ pagination.offset \in IntMin..IntMax
    /\ \A p \in RangeParsers :
          \/ ranges[p].err \in RangeErrors /\ ranges[p].from = Nil /\ ranges[p].to = Nil
          \/ ranges[p].err = "none"
    /\ sortBy.verb.err \in {Pending, "none", "format", "direction", "field"}
    /\ result.done \in BOOLEAN /\ result.count \in Nat

(* The request's handler reads the page parameters.                        *)
ParsePagination ==
    /\ pagination.err = Pending
    /\ pagination' = GetPaginationParams(query.perPage, query.page)
    /\ UNCHANGED <<query, ranges, sortBy, result>>

(* It reads a time range, with each of the parsers.                        *)
ParseRanges ==
    /\ ranges.created.err = Pending
    /\ ranges' = [created   |-> ToCreatedRange(query.from, query.to),
                  rpu       |-> GetRpuAtRangeParams(query.from, query.to),
                  inbounded |-> GetInboundedRangeParams(query.from, query.to),
                  required  |-> GetTimeRangeParams(query.from, query.to),
                  optional  |-> GetOptionalTimeRangeParams(query.from, query.to)]
    /\ UNCHANGED <<query, pagination, sortBy, result>>

(* It validates the sort parameter.                                        *)
ParseSort ==
    /\ sortBy.verb.err = Pending
    /\ sortBy' = [verb   |-> ValidateSortVerb(query.sort, AllowedFields),
                  seller |-> ValidateSellerViewSortVerb(query.sort, AllowedFields)]
    /\ UNCHANGED <<query, pagination, ranges, result>>

(* With no error, it passes what it read to GetAllWithCount.               *)
List ==
    /\ pagination.err = "none" /\ ranges.created.err = "none" /\ sortBy.verb.err = "none"
    /\ ~result.done
    /\ result' = GetAllWithCount([SortBy      |-> sortBy.verb.clause,
                                  Limit       |-> pagination.limit,
                                  Offset      |-> pagination.offset,
                                  CreatedFrom |-> ranges.created.from,
                                  CreatedTo   |-> ranges.created.to])
    /\ UNCHANGED <<query, pagination, ranges, sortBy>>

Init ==
    /\ query \in Queries
    /\ pagination = PageErr(Pending)
    /\ ranges = [p \in RangeParsers |-> RangeErr(Pending)]
    /\ sortBy = [verb |-> SortErr(Pending), seller |-> SortErr(Pending)]
    /\ result = NoResult

Next == ParsePagination \/ ParseRanges \/ ParseSort \/ List

Spec == Init /\ [][Next]_vars

-----------------------------------------------------------------------------
(* Properties                                                              *)

SafeClauses ==
    {DefaultSortParam, DefaultSellerViewSortParam}
    \cup {AllowedFields[i] \o <<" ", d>> : i \in DOMAIN AllowedFields, d \in {"ASC", "DESC"}}

(* Whatever the sort parameter holds, the text ValidateSortVerb and        *)
(* ValidateSellerViewSortVerb accept, and FilterRequest.Sort hands to      *)
(* db.Order, is a default clause or an allowed column followed by ASC or   *)
(* DESC: no query text reaches the ORDER BY.                               *)
SortClauseSafe ==
    /\ \A v \in {sortBy.verb, sortBy.seller} : v.err = "none" => v.clause \in SafeClauses
    /\ result.done => result.order \in SafeClauses

(* Every range parser that accepts the query returns exactly the bounds    *)
(* the query gave, and both or neither: FilterRequest.CreatedAtRange       *)
(* filters only when both are set, so a half range would be dropped        *)
(* without an error.                                                       *)
RangeComplete ==
    \A p \in RangeParsers :
        ranges[p].err = "none" =>
            /\ ranges[p].from = TimeOf(query.from)
            /\ ranges[p].to = TimeOf(query.to)
            /\ (ranges[p].from = Nil) = (ranges[p].to = Nil)

(* The rows GetAllWithCount lists for a request lie within every           *)
(* created_at bound the request gave.                                      *)
ListedRowsInRange ==
    result.done =>
        \A i \in DOMAIN result.rows :
            /\ \A f \in TimeOf(query.from) : f <= result.rows[i]
            /\ \A e \in TimeOf(query.to) : result.rows[i] <= e

(* The count GetAllWithCount returns beside a page is at least the number  *)
(* of rows on the page, on every page: the Count after Find must not keep  *)
(* the page's OFFSET.                                                      *)
PageWithinCount == result.done => Len(result.rows) <= result.count

(* The page GetPaginationParams's comment promises: page p of per_page     *)
(* rows starts after (p - 1) * per_page rows of the ordered result.        *)
DocumentedPage ==
    LET limit == IF query.perPage = Absent THEN DefaultLimit ELSE query.perPage.n
        page == IF query.page = Absent THEN 1 ELSE query.page.n
        matching == CreatedAtRange([CreatedFrom |-> TimeOf(query.from),
                                    CreatedTo |-> TimeOf(query.to)], Table)
    IN Window(matching, limit, (page - 1) * limit)

(* A listing that GetPaginationParams accepted returns the documented page *)
(* of rows.                                                                *)
PageAsDocumented == result.done => result.rows = DocumentedPage

=============================================================================
