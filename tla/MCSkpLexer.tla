----------------------------- MODULE MCSkpLexer -----------------------------
EXTENDS SkpLexer

MCAlphabets == {
  [bytes |-> {"#", "NL", " ", "a", "+"}, max |-> 6],
  [bytes |-> {"QUOTE", "TICK", "ESC", "n", "NL"}, max |-> 6],
  [bytes |-> {"QUOTE", "#", "NL", "1", "."}, max |-> 5],
  [bytes |-> {"1", ".", "a", "_", " "}, max |-> 5],
  [bytes |-> {"+", "-", "*", "=", ">", "!"}, max |-> 4],
  [bytes |-> {"<", ">", "/", "=", "%"}, max |-> 4],
  [bytes |-> {"D8", "D9", "88", "A3"}, max |-> 4],
  [bytes |-> {"D9", "88", "QUOTE", " ", "_"}, max |-> 4],
  [bytes |-> {"(", ")", "{", "}", "[", "]", ",", ";", ":", "@"}, max |-> 3]}
=============================================================================
