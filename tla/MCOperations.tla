---------------------------- MODULE MCOperations ----------------------------
EXTENDS Operations

MCChar == Digit \cup {"-", " ", "x"}

MCTextsOf ==
    [A |-> {<<"7">>, <<"-", "9">>, <<"-", "4">>, <<"x", " ", "1">>, <<"1", "2">>, <<" ", "3", " ">>},
     B |-> {<<"0">>, <<"0", "0">>, <<"1">>, <<"2">>, <<"-", "1">>, <<"-">>, <<" ">>, <<"x", " ">>},
     C |-> {<<>>, <<" ">>, <<" ", "x">>},
     D |-> {<<>>, <<"1">>}]
=============================================================================
