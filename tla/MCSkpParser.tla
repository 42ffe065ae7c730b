---------------------------- MODULE MCSkpParser -----------------------------
EXTENDS SkpTree

MCVocabularies == {
  [words |-> {"IDENTIFIER", "PLUS", "MUL", "LPAREN", "RPAREN"}, max |-> 6],
  [words |-> {"IDENTIFIER", "OR", "AND", "EQ", "LT", "PLUS", "MUL"}, max |-> 7],
  [words |-> {"IDENTIFIER", "ASSIGN", "PLUS_ASSIGN", "QUESTION", "COLON"}, max |-> 6],
  [words |-> {"IDENTIFIER", "LPAREN", "RPAREN", "COMMA", "DOT"}, max |-> 5],
  [words |-> {"NUMBER", "MINUS", "INC", "LBRACKET", "RBRACKET"}, max |-> 5],
  [words |-> {"NUMBER", "LBRACKET", "LBRACE", "RBRACE", "COLON"}, max |-> 6],
  [words |-> {"NUMBER", "LBRACKET", "RBRACKET", "COMMA"}, max |-> 5],
  [words |-> {"IDENTIFIER", "FUNC", "LPAREN", "RPAREN", "LBRACE", "RBRACE"}, max |-> 6],
  [words |-> {"IDENTIFIER", "FUNC", "LPAREN", "RPAREN", "ARROW", "ASSIGN"}, max |-> 7],
  [words |-> {"NUMBER", "IF", "ELSE", "LPAREN", "RPAREN"}, max |-> 7],
  [words |-> {"NUMBER", "WHILE", "LPAREN", "RPAREN"}, max |-> 5],
  [words |-> {"IDENTIFIER", "FOR", "LPAREN", "SEMICOLON", "RPAREN", "VAR"}, max |-> 7],
  [words |-> {"IDENTIFIER", "FOR", "IN", "LPAREN", "RPAREN"}, max |-> 9],
  [words |-> {"NUMBER", "RETURN", "BREAK", "CONTINUE", "LBRACE", "RBRACE", "SEMICOLON"}, max |-> 4],
  [words |-> {"IDENTIFIER", "VAR", "ASSIGN", "SEMICOLON"}, max |-> 6],
  [words |-> {"IDENTIFIER", "CLASS", "COLON", "LBRACE", "RBRACE"}, max |-> 6],
  [words |-> {"STRING", "IDENTIFIER", "IMPORT", "LBRACE", "RBRACE"}, max |-> 6],
  [words |-> {"IDENTIFIER", "EXPORT", "LBRACE", "RBRACE", "COMMA"}, max |-> 5]}
=============================================================================
