---------------------------- MODULE QueryResponse ----------------------------
(***************************************************************************)
(* What the functors of impl/cli/ make of a response to /query: a failure, *)
(* or the value the operation returns.                                     *)
(*                                                                         *)
(* A row of a table is what the loops over it tell apart. "complete": all  *)
(* the columns the loop reads, of the types it wants; "mistyped": one of   *)
(* them has another type; "short": fewer columns than the loop needs.      *)
(***************************************************************************)
EXTENDS Naturals, Sequences, FiniteSets, Loops

CONSTANTS
    Names,          \* names of databases and retention policies
    Unparsable      \* a body that is not JSON or has another structure

LibraryCodes ==
    {"NotImplemented", "InvalidArgument", "NoAvailableServer",
     "UnexpectedStatusCode", "ErrorResult", "Unexpected"}
Codes == LibraryCodes \cup {"System"}

Row          == [shape : {"complete", "mistyped", "short"}, name : Names]
SeriesResult == [series : Seq(Seq(Row)), error : BOOLEAN]
QueryResult  == [results : Seq(SeriesResult), error : BOOLEAN]
Statuses     == {"ok", "no_content", "other"}
Response     == [status : Statuses, body : QueryResult \cup {Unparsable}]

(* How an operation ends: with an exception, or with a value. "foreign" is *)
(* an exception that is not the library's, "crash" the end of the program. *)
Outcome    == [error : Codes \cup {"none", "foreign", "crash"}, value : Seq(Names)]
Failure(e) == [error |-> e, value |-> <<>>]
Success(v) == [error |-> "none", value |-> v]

-----------------------------------------------------------------------------
(* An error anywhere in the result. Before it, one that looks at the top   *)
(* level only, and one that looks at the first result only.                *)
HasErrorOnTop(q) == q.error

HasErrorInFirst(q) == q.error \/ (q.results # <<>> /\ q.results[1].error)

HasError(q) == q.error \/ \E i \in DOMAIN q.results : q.results[i].error

(* What ParseQueryRsp throws, if it does.                                  *)
ParseQueryRsp(rsp) ==
    IF rsp.status # "ok" THEN "UnexpectedStatusCode"
    ELSE IF rsp.body = Unparsable THEN "foreign"
    ELSE "none"

(* The same followed by the functor's test for errors in the result.       *)
(* Before it, a functor that forgets the test.                             *)
VerdictUnchecked(rsp) == ParseQueryRsp(rsp)

Verdict(rsp) ==
    IF ParseQueryRsp(rsp) # "none" THEN ParseQueryRsp(rsp)
    ELSE IF HasError(rsp.body) THEN "ErrorResult"
    ELSE "none"

-----------------------------------------------------------------------------
Readable(row) == row.shape = "complete"

(* The loop over the rows appends the names it can read and skips what it  *)
(* cannot. Before it, one that stops there.                                *)
Before(rows, odd) ==
    SubSeq(rows, 1, CHOOSE n \in 0 .. Len(rows) :
                        /\ \A i \in odd : n < i
                        /\ n = Len(rows) \/ n + 1 \in odd)

NamesOf(rows) ==
    Collect(Len(rows), {i \in DOMAIN rows : Readable(rows[i])},
            [i \in DOMAIN rows |-> rows[i].name])

DatabasesUntilOdd(rows) == NamesOf(Before(rows, {i \in DOMAIN rows : ~Readable(rows[i])}))

(* The rows of SHOW DATABASES.                                             *)
DatabasesOf(rows) == NamesOf(rows)

(* Those of SHOW RETENTION POLICIES: the loop stops at a row that has too  *)
(* few columns. Before it, one that skips that too.                        *)
PoliciesSkippingShort(rows) == NamesOf(rows)

PoliciesOf(rows) == NamesOf(Before(rows, {i \in DOMAIN rows : rows[i].shape = "short"}))

(* names are those of the rows that count, in order, one each.             *)
ReadsExactly(rows, counts, names) ==
    /\ Len(names) = Cardinality(counts)
    /\ \A i \in counts :
        names[Cardinality({j \in counts : j <= i})] = rows[i].name

(* The rows a functor goes through: those of the first series of the first *)
(* result. results.front() is taken before results is tested for being     *)
(* empty: with the checks of a hardened standard library that is the end   *)
(* of the program, without them the reference is bound and not used.       *)
FirstRows(q) ==
    IF q.results = <<>> \/ q.results[1].series = <<>> THEN <<>>
    ELSE q.results[1].series[1]

Crashes(q) == IF q.results = <<>> THEN {Failure("crash")} ELSE {}

-----------------------------------------------------------------------------
(* How the functors can end after the response rsp.                        *)
RunStatement(rsp) ==
    {IF Verdict(rsp) = "none" THEN Success(<<>>) ELSE Failure(Verdict(rsp))}

RunShowDatabase(rsp) ==
    IF Verdict(rsp) = "none"
    THEN {Success(DatabasesOf(FirstRows(rsp.body)))} \cup Crashes(rsp.body)
    ELSE {Failure(Verdict(rsp))}

RunShowRetentionPolicies(rsp) ==
    IF Verdict(rsp) = "none"
    THEN {Success(PoliciesOf(FirstRows(rsp.body)))} \cup Crashes(rsp.body)
    ELSE {Failure(Verdict(rsp))}

(* RunQueryGet alone: errors in the result are the caller's to look for.   *)
RunQueryGet(rsp) ==
    {IF ParseQueryRsp(rsp) = "none" THEN Success(<<>>)
     ELSE Failure(ParseQueryRsp(rsp))}

(* Ping and Write read nothing but the status.                             *)
RunNoContent(rsp) ==
    {IF rsp.status = "no_content" THEN Success(<<>>)
     ELSE Failure("UnexpectedStatusCode")}

(* ConvertException: the token gets the library's exceptions as they are   *)
(* and Unexpected for any other. Before it, one that passes all of them.   *)
ConvertNothing(e) == e

ConvertException(e) == IF e = "foreign" THEN "Unexpected" ELSE e
=============================================================================
