-------------------------- MODULE MCControlBlocks ---------------------------
EXTENDS ControlBlocks

MCChar     == Digit \cup ToSet(Words) \cup {"-", " ", "r", "p", "x"}
MCName     == {<<"x">>}
MCPriority == {<<"2", "0">>}
=============================================================================
