---------------------------- MODULE MCAssembler ----------------------------
EXTENDS Assembler

CONSTANT Quotes \* whether comments hold text in quotes

MCSymbol == [REG_A              |-> [t |-> "reg", v |-> 2],
             OP_ADD             |-> [t |-> "opr", v |-> 0],
             KEYBOARD_READ_LINE |-> [t |-> "mod", v |-> "KeyboardReadLine"]]

Tok(p, f, x) == [p |-> p, form |-> f, text |-> x]
Word(x) == Tok("_", "word", x)
To      == Word("to")
Quote   == Tok("_", "quoted", "5")

Plain(tokens) == [tokens |-> tokens, rest |-> "comment", quote |-> NoQuote]

Sources ==
    { <<>>,                                                \* a comment
      <<Word("var"), Word("x")>>,
      <<Word("var"), Word("y")>>,
      <<Word("label"), Word("x")>>,
      <<Word("label"), Word("to")>>,                       \* a reserved word
      <<Word("cpu_exec")>>,
      <<Word("jump"), Tok("_", "label:", "x")>>,
      <<Word("jump_if"), Tok("star", "var:", "x")>>,
      <<Word("write"), Tok("_", "digits", 5), To, Tok("_", "var:", "y")>>,
      <<Word("write"), Quote, To, Tok("star", "digits", 7)>>,
      <<Word("write"), Tok("_", "label:", "x"), To, Word("REG_A")>>,
      <<Word("write"), Word("OP_ADD"), To, Word("REG_A")>>,
      <<Word("write"), Word("KEYBOARD_READ_LINE"), To, Word("REG_A")>>,
      <<Word("copy"), Tok("at", "var:", "x"), To, Tok("star", "var:", "y")>>,
      <<Word("copy"), Word("REG_A"), To>>,                 \* no destination
      <<Tok("at", "word", "cpu_exec")>> }                   \* no command

MCLine ==
    {Plain(s) : s \in Sources}
        \cup {[Plain(<<Word("cpu_exec")>>) EXCEPT !.rest = "junk"]}
        \cup IF Quotes THEN {[Plain(s) EXCEPT !.quote = Quote] : s \in Sources \ {<<>>}} ELSE {}
=============================================================================
