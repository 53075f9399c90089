----------------------------- MODULE QueryTarget -----------------------------
(***************************************************************************)
(* The targets of the requests to /query and /write: how the functors put  *)
(* names and commands into the query component of a URL, and how a server  *)
(* takes it apart again.                                                   *)
(*                                                                         *)
(* A text is a sequence of characters; a parameter's name is one of them.  *)
(***************************************************************************)
EXTENDS Naturals, SequencesExt, FiniteSetsExt

CONSTANTS
    Texts,          \* the names users may pass
    Commands,       \* the commands users may pass
    Missing         \* a parameter the server does not find

(* Characters that a query component may contain as they are, the digits   *)
(* of escapes among them (as one character), and the escape of the others. *)
AMPERSAND == "&"
EQUALS == "="
Escapes == [c \in {" ", "%", "#"} |->
                CASE c = " " -> "20" [] c = "%" -> "25" [] c = "#" -> "23"]
Digits == {"20", "25", "23"}
Chars == {"a", AMPERSAND, EQUALS} \cup Digits \cup DOMAIN Escapes
Names == {"db", "q", "rp", "epoch"}

ASSUME TextsAssumption == Texts \cup Commands \subseteq Seq(Chars)

Precision == {"ns", "u", "ms", "s", "m", "h"}
Query == [database : Texts, command : Commands, retentionPolicy : Texts, precision : Precision]

VARIABLES
    query,          \* what the user asks for
    target,         \* the query component of the request's target
    sent,           \* the parameters that the functor puts into it
    received        \* what the server takes them for

vars == <<query, target, sent, received>>

Init ==
    /\ query \in Query
    /\ target = <<>>
    /\ sent = {}
    /\ received = <<>>

-----------------------------------------------------------------------------
(* boost::url::set_query: what is not allowed in a query is escaped, and   *)
(* separators are allowed. With it, set_encoded_query, which takes what    *)
(* looks like an escape for one.                                           *)
Escape(char) == IF char \in DOMAIN Escapes THEN <<"%", Escapes[char]>> ELSE <<char>>

IsEscape(text, i) ==
    i \in 1 .. Len(text) - 1 /\ text[i] = "%" /\ text[i + 1] \in Digits

SetEncodedQuery(text) ==
    FlattenSeq([i \in DOMAIN text |-> IF IsEscape(text, i) THEN <<"%">> ELSE Escape(text[i])])

SetQuery(text) == FlattenSeq([i \in DOMAIN text |-> Escape(text[i])])

Param(name, value) == <<name, EQUALS>> \o value

(* A functor builds its target. Before it, one that says set_encoded_query. *)
BuildEncoded(text, names) ==
    /\ sent = {}
    /\ target' = SetEncodedQuery(text)
    /\ sent' = names
    /\ UNCHANGED <<query, received>>

Build(text, names) ==
    /\ sent = {}
    /\ target' = SetQuery(text)
    /\ sent' = names
    /\ UNCHANGED <<query, received>>

(* CheckQuery: an empty command throws, and no target is built.            *)
CheckQuery == query.command # <<>>

RunQueryGet ==
    /\ CheckQuery
    /\ Build(Param("db", query.database) \o <<AMPERSAND>> \o Param("q", query.command)
                 \o <<AMPERSAND>> \o Param("rp", query.retentionPolicy)
                 \o <<AMPERSAND>> \o Param("epoch", <<query.precision>>),
             {"db", "q", "rp", "epoch"})

RunQueryPost ==
    /\ CheckQuery
    /\ Build(Param("db", query.database) \o <<AMPERSAND>> \o Param("q", query.command), {"db", "q"})

RunWrite ==
    Build(Param("db", query.database) \o <<AMPERSAND>> \o Param("rp", query.retentionPolicy),
          {"db", "rp"})

-----------------------------------------------------------------------------
(* The server: parameters are separated by ampersands, the first equals    *)
(* sign of each ends its name, and the first of two with one name counts.  *)
Decode(text) ==
    FlattenSeq([i \in DOMAIN text |->
        IF IsEscape(text, i) THEN <<CHOOSE c \in DOMAIN Escapes : Escapes[c] = text[i + 1]>>
        ELSE IF IsEscape(text, i - 1) THEN <<>>
        ELSE <<text[i]>>])

Value(text, name) ==
    LET starts == {i \in 1 .. Len(text) - 1 :
                        /\ text[i] = name /\ text[i + 1] = EQUALS
                        /\ i = 1 \/ text[i - 1] = AMPERSAND}
        start  == Min(starts)
        ends   == {i \in start .. Len(text) : text[i] = AMPERSAND} \cup {Len(text) + 1}
    IN  IF starts = {} THEN Missing ELSE Decode(SubSeq(text, start + 2, Min(ends) - 1))

Receive ==
    /\ sent # {} /\ received = <<>>
    /\ received' = [name \in Names |-> Value(target, name)]
    /\ UNCHANGED <<query, target, sent>>

Next == RunQueryGet \/ RunQueryPost \/ RunWrite \/ Receive

Spec == Init /\ [][Next]_vars

-----------------------------------------------------------------------------
Meant ==
    [name \in Names |->
        CASE name = "db" -> query.database
          [] name = "q" -> query.command
          [] name = "rp" -> query.retentionPolicy
          [] name = "epoch" -> <<query.precision>>]

Arrive == received # <<>> => \A name \in Names :
    received[name] = IF name \in sent THEN Meant[name] ELSE Missing

Separable(text) == \A i \in DOMAIN text : text[i] # AMPERSAND

(* Names and commands without ampersands arrive as they were given,        *)
(* whatever spaces, percent or equals signs they contain, and no parameter *)
(* arrives that was not sent.                                              *)
SeparableArrive ==
    Separable(query.database) /\ Separable(query.command) /\ Separable(query.retentionPolicy)
    => Arrive
=============================================================================
