---------------------------- MODULE MCQueryTarget ----------------------------
EXTENDS QueryTarget

MCCommands == UNION {[1 .. n -> Chars] : n \in 0 .. 2}
MCTexts    == {<<>>, <<"a">>, <<"&">>, <<"=">>, <<"%", "20">>, <<"%", " ">>}
=============================================================================
