--------------------------- MODULE MCLineProtocol ---------------------------
EXTENDS LineProtocol, TLC

MCTimeToken(t) == ToString(t)

MCMinTime == -14

Words == UNION {[1 .. n -> Chars] : n \in 0 .. 3}

Text(s)   == [kind |-> "string", text |-> s]
Number(n) == [kind |-> "number", text |-> <<n>>]
Field(k, v) == [key |-> k, value |-> v]
Plain == <<"a">>

Base ==
    [measurement |-> Plain, tags |-> <<Field(Plain, Plain)>>,
     fields |-> <<Field(Plain, Number("1i"))>>, time |-> 3, precision |-> 1]

(* Every string of up to three characters in each position, with something *)
(* behind it that it could run into.                                       *)
OneWord ==
    {[Base EXCEPT !.measurement = w] : w \in Words}
    \cup {[Base EXCEPT !.measurement = w, !.tags = <<>>] : w \in Words}
    \cup {[Base EXCEPT !.tags = <<Field(w, Plain)>>] : w \in Words}
    \cup {[Base EXCEPT !.tags = <<Field(Plain, w), Field(<<"a", "a">>, Plain)>>] : w \in Words}
    \cup {[Base EXCEPT !.fields = <<Field(w, Number("T")), Field(Plain, Text(Plain))>>] : w \in Words}
    \cup {[Base EXCEPT !.fields = <<Field(Plain, Text(w)), Field(<<"a", "a">>, Number("1u"))>>] : w \in Words}
    \cup {[Base EXCEPT !.fields = <<Field(Plain, Number("0.5")), Field(<<"a", "a">>, Text(w))>>] : w \in Words}

Timed == {[Base EXCEPT !.time = t, !.precision = u] : t \in Times, u \in Units}

Some ==
    {Base, [Base EXCEPT !.measurement = <<>>], [Base EXCEPT !.fields = <<>>],
     [Base EXCEPT !.fields = <<Field(Plain, Text(<<LF>>))>>, !.time = 0]}

MCBatches ==
    {<<>>} \cup {<<p>> : p \in OneWord \cup Timed}
    \cup {<<p, q>> : p, q \in Some} \cup {<<p, q, r>> : p, q, r \in Some}

=============================================================================
