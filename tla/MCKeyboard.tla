----------------------------- MODULE MCKeyboard -----------------------------
EXTENDS Keyboard

CONSTANT Word \* the letters of the text KeyboardReadChar

MCCharWord == SetToSeq(Word)
=============================================================================
