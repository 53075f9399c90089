--------------------------- MODULE MCQueryResponse ---------------------------
(***************************************************************************)
(* Every functor on every small response: up to two results of up to two   *)
(* series, the first of them with up to three rows.                        *)
(***************************************************************************)
EXTENDS ResponseHandling

Rows(n) == UNION {[1 .. m -> Row] : m \in 0 .. n}

FirstResult ==
    [series : {<<>>} \cup {<<rows>> : rows \in Rows(3)}
                     \cup {<<rows, more>> : rows \in Rows(1), more \in Rows(1)},
     error : BOOLEAN]
OtherResult == [series : {<<>>} \cup {<<rows>> : rows \in Rows(1)}, error : BOOLEAN]

Bodies ==
    {Unparsable} \cup
    [results : {<<>>} \cup {<<r>> : r \in FirstResult}
                      \cup {<<r, s>> : r \in FirstResult, s \in OtherResult},
     error : BOOLEAN]

MCResponses ==
    [status : {"ok"}, body : Bodies] \cup [status : Statuses, body : {Unparsable}]
=============================================================================
