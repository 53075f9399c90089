--------------------------- MODULE ResponseHandling ---------------------------
(***************************************************************************)
(* One functor of impl/cli/ interprets one response.                       *)
(***************************************************************************)
EXTENDS QueryResponse

CONSTANT Responses      \* those that may come
ASSUME ResponsesAssumption == Responses \subseteq Response

VARIABLES
    response,           \* the response
    functor,            \* the functor that has interpreted it
    ending              \* how that functor ended
rvars == <<response, functor, ending>>

RInit ==
    /\ response \in Responses
    /\ functor = "none"
    /\ ending = Failure("none")

Handle(name, outcomes) ==
    /\ functor = "none"
    /\ functor' = name
    /\ ending' \in outcomes
    /\ UNCHANGED response

RNext ==
    \/ Handle("statement", RunStatement(response))
    \/ Handle("databases", RunShowDatabase(response))
    \/ Handle("policies", RunShowRetentionPolicies(response))
    \/ Handle("query", RunQueryGet(response))
    \/ Handle("no content", RunNoContent(response))

RSpec == RInit /\ [][RNext]_rvars

-----------------------------------------------------------------------------
Read == functor \in {"databases", "policies"} /\ ending.error = "none"
FirstTable == FirstRows(response.body)

(* No error of the server gets lost: an operation other than a query that  *)
(* ends without an exception did so on a body without any error, neither   *)
(* of the whole response nor of one of its results, wherever that is.      *)
ErrorsSurface ==
    functor \in {"statement", "databases", "policies"} /\ ending.error = "none" =>
        /\ response.status = "ok" /\ response.body # Unparsable /\ ~response.body.error
        /\ \A i \in DOMAIN response.body.results : ~response.body.results[i].error

(* ShowDatabase returns the name of every row that has one, in the order   *)
(* of the table, whatever stands between them.                             *)
DatabasesExact ==
    Read /\ functor = "databases" =>
        ReadsExactly(FirstTable, {i \in DOMAIN FirstTable : FirstTable[i].shape = "complete"}, ending.value)

(* ShowRetentionPolicies returns a policy for every well typed row before  *)
(* the first row that is too short, and for none from there on.            *)
PoliciesExact ==
    Read /\ functor = "policies" =>
        ReadsExactly(FirstTable,
            {i \in DOMAIN FirstTable :
                /\ FirstTable[i].shape = "complete"
                /\ \A j \in 1 .. i : FirstTable[j].shape # "short"},
            ending.value)

(* Database_Test.cpp: ShowDatabase of the body {} is the empty list.       *)
EmptyResponseIsEmptyList ==
    functor = "databases" /\ response.status = "ok"
        /\ response.body = [results |-> <<>>, error |-> FALSE]
    => ending = Success(<<>>)
=============================================================================
