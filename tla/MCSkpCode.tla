----------------------------- MODULE MCSkpCode ------------------------------
(* The programs of the run: kinds of node that are hard together.          *)
EXTENDS SkpCode

\* operators, assignments and conditional expressions
Arithmetic == [nodes |-> 3, kinds |-> {"expression", "number", "identifier", "binary", "unary",
                                       "increment", "assignment", "member", "index", "ternary"}]
\* calls, literals and lambdas
Collections == [nodes |-> 3, kinds |-> {"expression", "null", "number", "call", "list", "dict",
                                        "lambda", "return", "block"}]
\* branches and loops around variables
Branches == [nodes |-> 4, kinds |-> {"expression", "null", "identifier", "var", "if", "while",
                                     "block", "break"}]
\* every form of the three-part loop
Rounds == [nodes |-> 3, kinds |-> {"null", "for", "var", "block", "break"}]
\* for-each loops beside and inside other scopes
Eachs == [nodes |-> 4, kinds |-> {"null", "foreach", "func", "var", "block"}]
\* nested functions
Procedures == [nodes |-> 4, kinds |-> {"func", "lambda", "block", "var", "return", "identifier",
                                       "expression", "if"}]
\* functions declared in a branch
Helpers == [nodes |-> 5, kinds |-> {"func", "if", "block", "null"}]
\* classes, imports and exports
Modules == [nodes |-> 3, kinds |-> {"import", "export", "class", "func", "block", "var",
                                    "number", "null"}]

MCVocabularies ==
  {Arithmetic, Collections, Branches, Rounds, Eachs, Procedures, Helpers, Modules}
=============================================================================
