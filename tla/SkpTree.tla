------------------------------- MODULE SkpTree -------------------------------
(* What the tree that SkpParser builds says of the tokens it was built     *)
(* from: operators that walk it, and the properties that use them.         *)
EXTENDS SkpParser

Concat(ss) == FlattenSeq(ss)
Count(test(_)) == Cardinality({i \in DOMAIN read : test(i)})

(* The nodes that ast_destroy_node frees, in its order.                    *)
RECURSIVE Freed(_)
Freed(n) ==
  IF n \in {Null, Absent} THEN <<>>
  ELSE Concat([i \in DOMAIN n.kids |-> Freed(n.kids[i])]) \o <<[kind |-> n.kind, tok |-> n.tok]>>

(* The tokens a tree stands for, from left to right. Brackets, separators  *)
(* and the keywords inside a statement leave no node of their own.         *)
Unrecorded == {"LPAREN", "RPAREN", "LBRACE", "RBRACE", "LBRACKET", "RBRACKET",
               "COMMA", "SEMICOLON", "COLON", "DOT", "ASSIGN", "ELSE", "ARROW",
               "VAR", "IMPORT", "IN", "EOF"}
Infix == {"binary", "ternary", "assign", "postfix", "call", "index", "member"}

(* The tokens a node stands for itself. A for-each node is made where the  *)
(* parenthesis behind its FOR has been taken, and stands at that.          *)
Own(n) == IF n.tok = 0 \/ n.kind = "expression_stmt" THEN <<>>
          ELSE IF n.kind = "foreach" THEN <<n.tok - 1>>
          ELSE IF read[n.tok] \in Unrecorded THEN <<>> ELSE <<n.tok>>

RECURSIVE Spelling(_)
Spelling(n) ==
  LET parts == [i \in DOMAIN n.kids |-> Spelling(n.kids[i])]
  IN IF n.kind \in Infix THEN Head(parts) \o Own(n) \o Concat(Tail(parts))
     ELSE Own(n) \o Concat(parts)

RECURSIVE HasNull(_)
HasNull(n) == n = Null \/ \E i \in DOMAIN n.kids : HasNull(n.kids[i])

RECURSIVE Nodes(_, _)
Nodes(kind, n) == (IF n.kind = kind THEN 1 ELSE 0)
                  + FoldSeq(+, 0, [i \in DOMAIN n.kids |-> Nodes(kind, n.kids[i])])

(* The grammar read off the tree: the level of a node, and the level that  *)
(* the grammar asks of its i-th part unless that is in parentheses.        *)
Level(n) == CASE n.kind = "binary" -> LevelOf(read[n.tok])
              [] n.kind = "ternary" -> TernaryLevel
              [] n.kind = "assign" -> AssignmentLevel
              [] n.kind = "unary" -> UnaryLevel
              [] OTHER -> PrimaryLevel

Asked(n, i) ==
  CASE n.kind = "binary" /\ Level(n) > AssignmentLevel -> Level(n) + i - 1
    [] n.kind = "ternary" -> <<TernaryLevel + 1, AssignmentLevel, TernaryLevel>>[i]
    [] n.kind = "assign" -> <<TernaryLevel, AssignmentLevel>>[i]
    [] n.kind = "unary" -> UnaryLevel
    [] n.kind \in {"postfix", "call", "index", "member"} /\ i = 1 -> PrimaryLevel
    [] OTHER -> AssignmentLevel

RECURSIVE First(_)
First(n) == IF n.kind \in Infix THEN First(n.kids[1]) ELSE n.tok
Bracketed(n) == First(n) > 1 /\ read[First(n) - 1] = "LPAREN"

RECURSIVE Grammatical(_)
Grammatical(n) ==
  \A i \in DOMAIN n.kids :
    /\ Level(n.kids[i]) >= Asked(n, i) \/ Bracketed(n.kids[i])
    /\ Grammatical(n.kids[i])

-----------------------------------------------------------------------------
Parsed == mode = "done" /\ ~hadError
Lost(i) == freed[i] = 0 /\ i \notin {cur, prev}
Used(T) == \E i \in DOMAIN read : read[i] \in T /\ ~Lost(i)

(* A part that is missing from the tree, and the NULL pointer that is read *)
(* for its line, come after a reported error: a tree that goes on to the   *)
(* compiler is whole.                                                      *)
MissingReported ==
  mode = "crashed" \/ (mode = "done" /\ HasNull(val)) => hadError

(* A tree that goes on to the compiler says what the source says, in its   *)
(* order: every token is in it once, but for those that parse_for's        *)
(* look-ahead dropped. Compound assignments repeat their target.           *)
TreeSpellsSource ==
  Parsed /\ ~Used(Compound) =>
    Spelling(val) = SelectSeq([i \in 1..cur |-> i],
                              LAMBDA i : read[i] \notin Unrecorded /\ ~Lost(i))

(* Operators take their operands by level, and equal levels from the left, *)
(* except inside parentheses.                                              *)
BindsByLevel == Parsed => Grammatical(val)

(* What an accepted program has too much of: a closing brace for each      *)
(* function, because parse_func_declaration calls parse_block without      *)
(* taking the brace that opens the body, and an IN for each for-each loop, *)
(* because the look-ahead destroys the one that parse_foreach_statement    *)
(* then asks for.                                                          *)
ExtraTokensNeeded ==
  LET Kept(w) == Count(LAMBDA i : read[i] = w /\ ~Lost(i))
  IN Parsed => /\ Kept("RBRACE") = Kept("LBRACE") + Nodes("func", val)
               /\ Kept("IN") = 2 * Nodes("foreach", val)

(* ast_destroy_node frees a node twice exactly in a tree with a compound   *)
(* assignment, whose target stands in two places.                          *)
SharedOnlyByCompound ==
  Parsed => (~IsInjective(Freed(val)) <=> Used(Compound))
=============================================================================
