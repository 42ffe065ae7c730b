-------------------------- MODULE SkpParser_proofs --------------------------
(* Proofs about SkpParser, for any vocabularies and inputs of any length:  *)
(* the tables lead from step to step, and the account of tokens is right.  *)
EXTENDS SkpParser, SequenceTheorems, TLAPS

-----------------------------------------------------------------------------
(* The tables.                                                             *)

(* A step of a table leads to steps of it that hold as many tokens as the  *)
(* step leaves, and to the look-ahead of parse_for only from before it.    *)
To(fn, pc, l, n) ==
  /\ l \in DOMAIN Code[fn] /\ Holds(fn, l) = n
  /\ fn = "for" /\ l <= 2 => pc = 1

HopTo(pc, l) == IF l = 0 THEN pc + 1 ELSE l

Sound(fn, pc, s, h) ==
  /\ s.do = "need" => To(fn, pc, pc + 1, h)
  /\ s.do = "take" => /\ To(fn, pc, pc + 1, h + 1)
                      /\ s.miss # Crash => To(fn, pc, s.miss, h)
  /\ s.do = "match" => To(fn, pc, HopTo(pc, s.hit), h) /\ To(fn, pc, HopTo(pc, s.miss), h)
  /\ s.do \in {"check", "optional"} => To(fn, pc, s.hit, h) /\ To(fn, pc, pc + 1, h)
  /\ s.do \in {"goto", "round"} => To(fn, pc, s.hit, h)
  /\ s.do = "parse" => /\ To(fn, pc, pc + 1, h)
                       /\ s.arg # "same" /\ (s.arg = "tighter" => fn = "binary")
  /\ s.do = "copy" => h > 0 /\ To(fn, pc, pc + 1, h)
  /\ s.do \in {"drop", "spend"} => h > 0 /\ To(fn, pc, pc + 1, h - 1)
  /\ s.do = "look" => fn = "for" /\ pc = 2 /\ h = 0 /\ To(fn, pc, pc + 1, h)
  /\ s.do \in {"make", "makeAt", "makeUnary", "give", "fail"} => h = 0
  /\ s.do = "makeNamed" => h = 1
  /\ fn = "for" /\ pc <= 2 => s.do = IF pc = 1 THEN "need" ELSE "look"

TableSound(fn) ==
  \A pc \in DOMAIN Code[fn] : Sound(fn, pc, Code[fn][pc], Holds(fn, pc))

(* The functions of the parser.                                            *)
LEMMA Functions ==
  DOMAIN Code = {"program", "var", "func", "class", "if", "while", "for",
    "foreach", "return", "break", "continue", "import", "export", "block",
    "statement", "paren", "list", "dict", "lambda", "call", "member", "index",
    "ternary", "assign", "compound", "unary", "binary"}
  BY DEF Code

(* Only the tables of Held take tokens.                                    *)
LEMMA Takers ==
  DOMAIN Held = {"var", "func", "class", "for", "foreach", "import", "export",
    "lambda", "member"}
  BY DEF Held

(* The others hold none.                                                   *)
LEMMA HoldingNone == ASSUME NEW fn, fn \notin DOMAIN Held PROVE \A pc : Holds(fn, pc) = 0
  BY DEF Holds

(* Every table leads from step to step.                                    *)
LEMMA TablesSound == \A fn \in DOMAIN Code : TableSound(fn)
  <1>1. TableSound("program")
    <2>1. Code["program"] = Program /\ DOMAIN Code["program"] = 1..4
      BY DEF Code, Program
    <2>2. \A pc \in 1..4 : Holds("program", pc) = 0
      BY HoldingNone, Takers
    <2>3. ASSUME NEW pc \in 1..4
          PROVE  Sound("program", pc, Program[pc], Holds("program", pc))
      BY <2>1, <2>2 DEF Program, Sound, To, HopTo, Step, Crash, Make, Parse,
        Round, Unless
    <2> QED
      BY <2>1, <2>3 DEF TableSound
  <1>2. TableSound("var")
    <2>1. Code["var"] = VarDeclaration /\ DOMAIN Code["var"] = 1..6
      BY DEF Code, VarDeclaration
    <2>2. \A pc \in 1..6 : Holds("var", pc) = IF pc \in 2..5 THEN 1 ELSE 0
      BY DEF Holds, Held
    <2>3. ASSUME NEW pc \in 1..6
          PROVE  Sound("var", pc, VarDeclaration[pc], Holds("var", pc))
      BY <2>1, <2>2 DEF VarDeclaration, Sound, To, HopTo, Step, Crash, Fail,
        MakeNamed, Match, Parse, Take
    <2> QED
      BY <2>1, <2>3 DEF TableSound
  <1>3. TableSound("func")
    <2>1. Code["func"] = FuncDeclaration /\ DOMAIN Code["func"] = 1..14
      BY DEF Code, FuncDeclaration
    <2>2. \A pc \in 1..14 : Holds("func", pc) = IF pc \in 5..8 THEN 2
                                             ELSE IF pc \in 2..13 THEN 1 ELSE 0
      BY DEF Holds, Held
    <2>3. ASSUME NEW pc \in 1..14
          PROVE  Sound("func", pc, FuncDeclaration[pc], Holds("func", pc))
      BY <2>1, <2>2 DEF FuncDeclaration, Sound, To, HopTo, Step, Crash, Again,
        Copy, Drop, Fail, MakeNamed, Match, Need, Parse, Take, Unless
    <2> QED
      BY <2>1, <2>3 DEF TableSound
  <1>4. TableSound("class")
    <2>1. Code["class"] = ClassDeclaration /\ DOMAIN Code["class"] = 1..11
      BY DEF Code, ClassDeclaration
    <2>2. \A pc \in 1..11 : Holds("class", pc) = IF pc = 4 THEN 2
                                             ELSE IF pc \in 2..10 THEN 1 ELSE 0
      BY DEF Holds, Held
    <2>3. ASSUME NEW pc \in 1..11
          PROVE  Sound("class", pc, ClassDeclaration[pc], Holds("class", pc))
      BY <2>1, <2>2 DEF ClassDeclaration, Sound, To, HopTo, Step, Crash, Fail,
        Goto, MakeNamed, Match, Need, Parse, Spend, Take, Unless
    <2> QED
      BY <2>1, <2>3 DEF TableSound
  <1>5. TableSound("if")
    <2>1. Code["if"] = IfStatement /\ DOMAIN Code["if"] = 1..7
      BY DEF Code, IfStatement
    <2>2. \A pc \in 1..7 : Holds("if", pc) = 0
      BY HoldingNone, Takers
    <2>3. ASSUME NEW pc \in 1..7
          PROVE  Sound("if", pc, IfStatement[pc], Holds("if", pc))
      BY <2>1, <2>2 DEF IfStatement, Sound, To, HopTo, Step, Crash, Make,
        Match, Need, Parse
    <2> QED
      BY <2>1, <2>3 DEF TableSound
  <1>6. TableSound("while")
    <2>1. Code["while"] = WhileStatement /\ DOMAIN Code["while"] = 1..5
      BY DEF Code, WhileStatement
    <2>2. \A pc \in 1..5 : Holds("while", pc) = 0
      BY HoldingNone, Takers
    <2>3. ASSUME NEW pc \in 1..5
          PROVE  Sound("while", pc, WhileStatement[pc], Holds("while", pc))
      BY <2>1, <2>2 DEF WhileStatement, Sound, To, HopTo, Step, Crash, Make,
        Need, Parse
    <2> QED
      BY <2>1, <2>3 DEF TableSound
  <1>7. TableSound("for")
    <2>1. Code["for"] = ForStatement /\ DOMAIN Code["for"] = 1..17
      BY DEF Code, ForStatement
    <2>2. \A pc \in 1..17 : Holds("for", pc) = IF pc = 6 THEN 1 ELSE 0
      BY DEF Holds, Held
    <2>3. ASSUME NEW pc \in 1..17
          PROVE  Sound("for", pc, ForStatement[pc], Holds("for", pc))
      BY <2>1, <2>2 DEF ForStatement, Sound, To, HopTo, Step, Crash, Given,
        Look, Make, Match, Need, Parse, Spend, Take
    <2> QED
      BY <2>1, <2>3 DEF TableSound
  <1>8. TableSound("foreach")
    <2>1. Code["foreach"] = ForeachStatement /\ DOMAIN Code["foreach"] = 1..7
      BY DEF Code, ForeachStatement
    <2>2. \A pc \in 1..7 : Holds("foreach", pc) = IF pc \in 2..6 THEN 1 ELSE 0
      BY DEF Holds, Held
    <2>3. ASSUME NEW pc \in 1..7
          PROVE  Sound("foreach", pc, ForeachStatement[pc], Holds("foreach", pc))
      BY <2>1, <2>2 DEF ForeachStatement, Sound, To, HopTo, Step, Crash, Fail,
        MakeNamed, Need, Parse, Take
    <2> QED
      BY <2>1, <2>3 DEF TableSound
  <1>9. TableSound("return")
    <2>1. Code["return"] = ReturnStatement /\ DOMAIN Code["return"] = 1..4
      BY DEF Code, ReturnStatement
    <2>2. \A pc \in 1..4 : Holds("return", pc) = 0
      BY HoldingNone, Takers
    <2>3. ASSUME NEW pc \in 1..4
          PROVE  Sound("return", pc, ReturnStatement[pc], Holds("return", pc))
      BY <2>1, <2>2 DEF ReturnStatement, Sound, To, HopTo, Step, Crash, Make,
        Match, Parse, Unless
    <2> QED
      BY <2>1, <2>3 DEF TableSound
  <1>10. TableSound("break")
    <2>1. Code["break"] = BreakStatement /\ DOMAIN Code["break"] = 1..2
      BY DEF Code, BreakStatement
    <2>2. \A pc \in 1..2 : Holds("break", pc) = 0
      BY HoldingNone, Takers
    <2>3. ASSUME NEW pc \in 1..2
          PROVE  Sound("break", pc, BreakStatement[pc], Holds("break", pc))
      BY <2>1, <2>2 DEF BreakStatement, Sound, To, HopTo, Step, Crash, Make,
        Match
    <2> QED
      BY <2>1, <2>3 DEF TableSound
  <1>11. TableSound("continue")
    <2>1. Code["continue"] = ContinueStatement /\ DOMAIN Code["continue"] = 1..2
      BY DEF Code, ContinueStatement
    <2>2. \A pc \in 1..2 : Holds("continue", pc) = 0
      BY HoldingNone, Takers
    <2>3. ASSUME NEW pc \in 1..2
          PROVE  Sound("continue", pc, ContinueStatement[pc], Holds("continue", pc))
      BY <2>1, <2>2 DEF ContinueStatement, Sound, To, HopTo, Step, Crash,
        Make, Match
    <2> QED
      BY <2>1, <2>3 DEF TableSound
  <1>12. TableSound("import")
    <2>1. Code["import"] = ImportStatement /\ DOMAIN Code["import"] = 1..10
      BY DEF Code, ImportStatement
    <2>2. \A pc \in 1..10 : Holds("import", pc) = IF pc = 5 THEN 2
                                             ELSE IF pc \in 2..9 THEN 1 ELSE 0
      BY DEF Holds, Held
    <2>3. ASSUME NEW pc \in 1..10
          PROVE  Sound("import", pc, ImportStatement[pc], Holds("import", pc))
      BY <2>1, <2>2 DEF ImportStatement, Sound, To, HopTo, Step, Crash, Again,
        Fail, MakeNamed, Match, Need, Spend, Take
    <2> QED
      BY <2>1, <2>3 DEF TableSound
  <1>13. TableSound("export")
    <2>1. Code["export"] = ExportStatement /\ DOMAIN Code["export"] = 1..7
      BY DEF Code, ExportStatement
    <2>2. \A pc \in 1..7 : Holds("export", pc) = IF pc = 3 THEN 1 ELSE 0
      BY DEF Holds, Held
    <2>3. ASSUME NEW pc \in 1..7
          PROVE  Sound("export", pc, ExportStatement[pc], Holds("export", pc))
      BY <2>1, <2>2 DEF ExportStatement, Sound, To, HopTo, Step, Crash, Again,
        Make, Match, Need, Spend, Take
    <2> QED
      BY <2>1, <2>3 DEF TableSound
  <1>14. TableSound("block")
    <2>1. Code["block"] = Block /\ DOMAIN Code["block"] = 1..5
      BY DEF Code, Block
    <2>2. \A pc \in 1..5 : Holds("block", pc) = 0
      BY HoldingNone, Takers
    <2>3. ASSUME NEW pc \in 1..5
          PROVE  Sound("block", pc, Block[pc], Holds("block", pc))
      BY <2>1, <2>2 DEF Block, Sound, To, HopTo, Step, Crash, Make, Need,
        Parse, Round, Unless
    <2> QED
      BY <2>1, <2>3 DEF TableSound
  <1>15. TableSound("statement")
    <2>1. Code["statement"] = ExpressionStatement /\ DOMAIN Code["statement"] = 1..3
      BY DEF Code, ExpressionStatement
    <2>2. \A pc \in 1..3 : Holds("statement", pc) = 0
      BY HoldingNone, Takers
    <2>3. ASSUME NEW pc \in 1..3
          PROVE  Sound("statement", pc, ExpressionStatement[pc], Holds("statement", pc))
      BY <2>1, <2>2 DEF ExpressionStatement, Sound, To, HopTo, Step, Crash,
        Make, Match, Parse
    <2> QED
      BY <2>1, <2>3 DEF TableSound
  <1>16. TableSound("paren")
    <2>1. Code["paren"] = ParenExpression /\ DOMAIN Code["paren"] = 1..3
      BY DEF Code, ParenExpression
    <2>2. \A pc \in 1..3 : Holds("paren", pc) = 0
      BY HoldingNone, Takers
    <2>3. ASSUME NEW pc \in 1..3
          PROVE  Sound("paren", pc, ParenExpression[pc], Holds("paren", pc))
      BY <2>1, <2>2 DEF ParenExpression, Sound, To, HopTo, Step, Crash, Give,
        Need, Parse
    <2> QED
      BY <2>1, <2>3 DEF TableSound
  <1>17. TableSound("list")
    <2>1. Code["list"] = ListLiteral /\ DOMAIN Code["list"] = 1..5
      BY DEF Code, ListLiteral
    <2>2. \A pc \in 1..5 : Holds("list", pc) = 0
      BY HoldingNone, Takers
    <2>3. ASSUME NEW pc \in 1..5
          PROVE  Sound("list", pc, ListLiteral[pc], Holds("list", pc))
      BY <2>1, <2>2 DEF ListLiteral, Sound, To, HopTo, Step, Crash, Again,
        Make, Need, Parse, Unless
    <2> QED
      BY <2>1, <2>3 DEF TableSound
  <1>18. TableSound("dict")
    <2>1. Code["dict"] = DictLiteral /\ DOMAIN Code["dict"] = 1..7
      BY DEF Code, DictLiteral
    <2>2. \A pc \in 1..7 : Holds("dict", pc) = 0
      BY HoldingNone, Takers
    <2>3. ASSUME NEW pc \in 1..7
          PROVE  Sound("dict", pc, DictLiteral[pc], Holds("dict", pc))
      BY <2>1, <2>2 DEF DictLiteral, Sound, To, HopTo, Step, Crash, Again,
        Make, Need, Parse, Unless
    <2> QED
      BY <2>1, <2>3 DEF TableSound
  <1>19. TableSound("lambda")
    <2>1. Code["lambda"] = Lambda /\ DOMAIN Code["lambda"] = 1..12
      BY DEF Code, Lambda
    <2>2. \A pc \in 1..12 : Holds("lambda", pc) = IF pc = 4 THEN 1 ELSE 0
      BY DEF Holds, Held
    <2>3. ASSUME NEW pc \in 1..12
          PROVE  Sound("lambda", pc, Lambda[pc], Holds("lambda", pc))
      BY <2>1, <2>2 DEF Lambda, Sound, To, HopTo, Step, Crash, Again, Goto,
        Make, Match, Need, Parse, Spend, Take, Unless
    <2> QED
      BY <2>1, <2>3 DEF TableSound
  <1>20. TableSound("call")
    <2>1. Code["call"] = CallArguments /\ DOMAIN Code["call"] = 1..5
      BY DEF Code, CallArguments
    <2>2. \A pc \in 1..5 : Holds("call", pc) = 0
      BY HoldingNone, Takers
    <2>3. ASSUME NEW pc \in 1..5
          PROVE  Sound("call", pc, CallArguments[pc], Holds("call", pc))
      BY <2>1, <2>2 DEF CallArguments, Sound, To, HopTo, Step, Crash, Again,
        MakeAt, Need, Parse, Unless
    <2> QED
      BY <2>1, <2>3 DEF TableSound
  <1>21. TableSound("member")
    <2>1. Code["member"] = MemberAccess /\ DOMAIN Code["member"] = 1..4
      BY DEF Code, MemberAccess
    <2>2. \A pc \in 1..4 : Holds("member", pc) = IF pc = 2 THEN 1 ELSE 0
      BY DEF Holds, Held
    <2>3. ASSUME NEW pc \in 1..4
          PROVE  Sound("member", pc, MemberAccess[pc], Holds("member", pc))
      BY <2>1, <2>2 DEF MemberAccess, Sound, To, HopTo, Step, Crash, Give,
        MakeAt, Spend, Take
    <2> QED
      BY <2>1, <2>3 DEF TableSound
  <1>22. TableSound("index")
    <2>1. Code["index"] = IndexAccess /\ DOMAIN Code["index"] = 1..3
      BY DEF Code, IndexAccess
    <2>2. \A pc \in 1..3 : Holds("index", pc) = 0
      BY HoldingNone, Takers
    <2>3. ASSUME NEW pc \in 1..3
          PROVE  Sound("index", pc, IndexAccess[pc], Holds("index", pc))
      BY <2>1, <2>2 DEF IndexAccess, Sound, To, HopTo, Step, Crash, MakeAt,
        Need, Parse
    <2> QED
      BY <2>1, <2>3 DEF TableSound
  <1>23. TableSound("ternary")
    <2>1. Code["ternary"] = Ternary /\ DOMAIN Code["ternary"] = 1..4
      BY DEF Code, Ternary
    <2>2. \A pc \in 1..4 : Holds("ternary", pc) = 0
      BY HoldingNone, Takers
    <2>3. ASSUME NEW pc \in 1..4
          PROVE  Sound("ternary", pc, Ternary[pc], Holds("ternary", pc))
      BY <2>1, <2>2 DEF Ternary, Sound, To, HopTo, Step, Crash, MakeAt, Need,
        Parse
    <2> QED
      BY <2>1, <2>3 DEF TableSound
  <1>24. TableSound("assign")
    <2>1. Code["assign"] = Assignment /\ DOMAIN Code["assign"] = 1..2
      BY DEF Code, Assignment
    <2>2. \A pc \in 1..2 : Holds("assign", pc) = 0
      BY HoldingNone, Takers
    <2>3. ASSUME NEW pc \in 1..2
          PROVE  Sound("assign", pc, Assignment[pc], Holds("assign", pc))
      BY <2>1, <2>2 DEF Assignment, Sound, To, HopTo, Step, Crash, MakeAt,
        Parse
    <2> QED
      BY <2>1, <2>3 DEF TableSound
  <1>25. TableSound("compound")
    <2>1. Code["compound"] = CompoundAssignment /\ DOMAIN Code["compound"] = 1..2
      BY DEF Code, CompoundAssignment
    <2>2. \A pc \in 1..2 : Holds("compound", pc) = 0
      BY HoldingNone, Takers
    <2>3. ASSUME NEW pc \in 1..2
          PROVE  Sound("compound", pc, CompoundAssignment[pc], Holds("compound", pc))
      BY <2>1, <2>2 DEF CompoundAssignment, Sound, To, HopTo, Step, Crash,
        MakeAt, Parse
    <2> QED
      BY <2>1, <2>3 DEF TableSound
  <1>26. TableSound("unary")
    <2>1. Code["unary"] = UnaryOperator /\ DOMAIN Code["unary"] = 1..2
      BY DEF Code, UnaryOperator
    <2>2. \A pc \in 1..2 : Holds("unary", pc) = 0
      BY HoldingNone, Takers
    <2>3. ASSUME NEW pc \in 1..2
          PROVE  Sound("unary", pc, UnaryOperator[pc], Holds("unary", pc))
      BY <2>1, <2>2 DEF UnaryOperator, Sound, To, HopTo, Step, Crash,
        MakeUnary, Parse
    <2> QED
      BY <2>1, <2>3 DEF TableSound
  <1>27. TableSound("binary")
    <2>1. Code["binary"] = BinaryOperator /\ DOMAIN Code["binary"] = 1..2
      BY DEF Code, BinaryOperator
    <2>2. \A pc \in 1..2 : Holds("binary", pc) = 0
      BY HoldingNone, Takers
    <2>3. ASSUME NEW pc \in 1..2
          PROVE  Sound("binary", pc, BinaryOperator[pc], Holds("binary", pc))
      BY <2>1, <2>2 DEF BinaryOperator, Sound, To, HopTo, Step, Crash, MakeAt,
        Parse
    <2> QED
      BY <2>1, <2>3 DEF TableSound
  <1> QED
    BY Functions, <1>1, <1>2, <1>3, <1>4, <1>5, <1>6, <1>7, <1>8, <1>9, <1>10,
      <1>11, <1>12, <1>13, <1>14, <1>15, <1>16, <1>17, <1>18, <1>19, <1>20,
      <1>21, <1>22, <1>23, <1>24, <1>25, <1>26, <1>27

-----------------------------------------------------------------------------
(* Levels of the grammar.                                                  *)

(* There are thirteen levels of operators, the last one without any.       *)
LEMMA OperatorLevels == DOMAIN Operators = 1..13 /\ Operators[13] = {}
  BY DEF Operators

(* A binary operator has a level, and there is one above it.               *)
LEMMA BinaryLevel ==
  ASSUME NEW t \in Binary
  PROVE  LevelOf(t) \in 1..12
  <1>1. \E j \in DOMAIN Operators : t \in Operators[j]
    <2>1. PICK j \in 3..12 : t \in Operators[j]
      BY DEF Binary
    <2> QED
      BY <2>1, OperatorLevels
  <1>2. LevelOf(t) \in 1..13 /\ t \in Operators[LevelOf(t)]
    BY <1>1, OperatorLevels DEF LevelOf
  <1>3. LevelOf(t) # 13
    BY <1>2, OperatorLevels
  <1> QED
    BY <1>2, <1>3

(* The operators that are not assignments or conditionals are binary.      *)
LEMMA BinaryOperators ==
  ASSUME NEW j \in 1..13, NEW t \in Operators[j],
         t \notin {"ASSIGN", "QUESTION"} \cup Compound
  PROVE  t \in Binary
  <1>1. Operators[1] = {"ASSIGN"} \cup Compound /\ Operators[2] = {"QUESTION"}
    BY DEF Operators
  <1>2. j \in 3..12
    BY <1>1, OperatorLevels
  <1> QED
    BY <1>2 DEF Binary

-----------------------------------------------------------------------------
(* The stack of activations is a sequence of whatever it holds.            *)
IsStack(s) == s \in Seq({s[d] : d \in DOMAIN s})

(* It has places 1 to its length.                                          *)
LEMMA StackIs ==
  ASSUME NEW s, IsStack(s)
  PROVE  DOMAIN s = 1..Len(s) /\ Len(s) \in Nat /\ (s # <<>> => Len(s) \in DOMAIN s)
  <1>1. DOMAIN s = 1..Len(s) /\ Len(s) \in Nat
    BY LenProperties DEF IsStack
  <1>2. s # <<>> => Len(s) \in Nat \ {0}
    BY EmptySeq DEF IsStack
  <1> QED
    BY <1>1, <1>2

(* Any sequence is one of its own elements.                                *)
LEMMA OwnElements ==
  ASSUME NEW S, NEW s \in Seq(S)
  PROVE  IsStack(s)
  <1>1. Len(s) \in Nat /\ s \in [1..Len(s) -> S] /\ DOMAIN s = 1..Len(s)
    BY LenProperties
  <1>2. s \in [1..Len(s) -> {s[d] : d \in DOMAIN s}]
    BY <1>1
  <1> QED
    BY <1>1, <1>2, SeqDef DEF IsStack

(* A call adds an activation.                                              *)
LEMMA Pushed ==
  ASSUME NEW s, IsStack(s), NEW f
  PROVE  /\ IsStack(Append(s, f)) /\ Len(Append(s, f)) = Len(s) + 1
         /\ Append(s, f)[Len(s) + 1] = f
         /\ \A d \in 1..Len(s) : Append(s, f)[d] = s[d]
  <1> DEFINE S == {s[d] : d \in DOMAIN s} \cup {f}
  <1>1. s \in Seq(S) /\ f \in S
    BY SeqMonotonic DEF IsStack
  <1> HIDE DEF S
  <1>2. /\ Append(s, f) \in Seq(S) /\ Len(Append(s, f)) = Len(s) + 1
        /\ Append(s, f)[Len(s) + 1] = f
        /\ \A d \in 1..Len(s) : Append(s, f)[d] = s[d]
    BY <1>1, AppendProperties
  <1>3. IsStack(Append(s, f))
    BY <1>2, OwnElements
  <1> QED
    BY <1>2, <1>3

(* A step changes the last one.                                            *)
WithTop(s, f) == [s EXCEPT ![Len(s)] = f]

(* The others stay.                                                        *)
LEMMA Replaced ==
  ASSUME NEW s, IsStack(s), s # <<>>, NEW f, NEW t, t = WithTop(s, f)
  PROVE  /\ IsStack(t) /\ Len(t) = Len(s) /\ t # <<>> /\ t[Len(s)] = f
         /\ \A d \in 1..Len(s) : d # Len(s) => t[d] = s[d]
  <1> DEFINE S == {s[d] : d \in DOMAIN s} \cup {f}
  <1>1. s \in Seq(S) /\ f \in S
    BY SeqMonotonic DEF IsStack
  <1>2. Len(s) \in 1..Len(s) /\ Len(s) \in Nat
    BY StackIs
  <1> HIDE DEF S
  <1>3. /\ t \in Seq(S) /\ Len(t) = Len(s)
        /\ \A d \in 1..Len(s) : t[d] = IF d = Len(s) THEN f ELSE s[d]
    BY <1>1, <1>2, ExceptSeq DEF WithTop
  <1>4. t # <<>>
    BY <1>2, <1>3, EmptySeq
  <1>5. IsStack(t)
    BY <1>3, OwnElements
  <1> QED
    BY <1>2, <1>3, <1>4, <1>5

(* A return takes it away.                                                 *)
LEMMA Dropped ==
  ASSUME NEW s, IsStack(s), s # <<>>
  PROVE  /\ IsStack(Front(s)) /\ Len(Front(s)) = Len(s) - 1
         /\ \A d \in 1..Len(s) - 1 : Front(s)[d] = s[d]
         /\ Front(s) = <<>> <=> Len(s) = 1
  <1> DEFINE S == {s[d] : d \in DOMAIN s}
  <1>1. PICK n \in Nat : n + 1 = Len(s)
    <2>1. Len(s) \in Nat /\ Len(s) \in 1..Len(s)
      BY StackIs
    <2> QED
      BY <2>1
  <1>2. \A d \in 1..n : s[d] \in S
    <2>1. DOMAIN s = 1..Len(s)
      BY StackIs
    <2>2. \A d \in 1..n : d \in 1..Len(s)
      BY <1>1
    <2> QED
      BY <2>1, <2>2
  <1> HIDE DEF S
  <1>3. Len(s) - 1 = n
    BY <1>1
  <1>4. Front(s) = SubSeq(s, 1, n)
    BY <1>3 DEF Front
  <1>5. /\ SubSeq(s, 1, n) \in Seq(S)
        /\ Len(SubSeq(s, 1, n)) = IF 1 <= n THEN n - 1 + 1 ELSE 0
        /\ \A d \in 1..n - 1 + 1 : SubSeq(s, 1, n)[d] = s[1 + d - 1]
    BY <1>2, SubSeqProperties
  <1>6. Len(SubSeq(s, 1, n)) = n /\ \A d \in 1..n : SubSeq(s, 1, n)[d] = s[d]
    BY <1>5
  <1>7. SubSeq(s, 1, n) = <<>> <=> n = 0
    BY <1>5, <1>6, EmptySeq
  <1>8. IsStack(SubSeq(s, 1, n))
    BY <1>5, OwnElements
  <1>9. n = 0 <=> Len(s) = 1
    BY <1>1
  <1> QED
    BY <1>3, <1>4, <1>6, <1>7, <1>8, <1>9

-----------------------------------------------------------------------------
(* The window.                                                             *)

(* Only more tokens come, and more of them are taken.                      *)
Grows ==
  /\ cur <= cur' /\ handed \subseteq handed' /\ Len(read) <= Len(read')
  /\ \A i \in 1..Len(read) : read'[i] = read[i]

Numbers ==
  /\ Len(read) \in Nat \ {0} /\ cur \in Nat \ {0} /\ prev \in Nat
  /\ prev < cur /\ cur <= Len(read) /\ prev \in 0..Len(read)
  /\ handed \subseteq 1..prev

(* The window's pointers are numbers of tokens received.                   *)
LEMMA NumbersIs ==
  ASSUME WindowOK
  PROVE  Numbers
  <1>1. Len(read) \in Nat /\ cur \in 1..Len(read) /\ prev \in 0..cur - 1
    BY LenProperties DEF WindowOK
  <1> QED
    BY <1>1 DEF WindowOK, Numbers

(* The lexer hands over a word of the vocabulary, or the end.              *)
LEMMA Received ==
  ASSUME WindowOK, vocab' = vocab, NEW w \in Incoming, Receive(w)
  PROVE  /\ read' \in Seq(vocab'.words \cup {"EOF"}) /\ Len(read') = Len(read) + 1
         /\ read'[Len(read) + 1] = w
         /\ \A i \in 1..Len(read) : read'[i] = read[i]
         /\ grace' \in 0..MaxAfterError
  <1>1. w \in vocab.words \cup {"EOF"} /\ read' = Append(read, w)
    BY DEF Incoming, Receive
  <1>2. read \in Seq(vocab.words \cup {"EOF"})
    BY DEF WindowOK
  <1>3. grace' \in 0..MaxAfterError
    <2>1. grace \in 0..MaxAfterError /\ MaxAfterError \in Nat
      BY ParserAssumption DEF WindowOK
    <2> QED
      BY <2>1 DEF Receive
  <1> QED
    BY <1>1, <1>2, <1>3, AppendProperties

(* A token is destroyed once more.                                         *)
LEMMA DestroyIs ==
  ASSUME WindowOK, NEW f \in Seq(Nat), Len(f) = Len(read), NEW n \in 0..Len(read)
  PROVE  /\ Destroy(f, n) \in Seq(Nat) /\ Len(Destroy(f, n)) = Len(read)
         /\ \A i \in 1..Len(read) : Destroy(f, n)[i] = IF i = n THEN f[i] + 1 ELSE f[i]
  <1>1. Len(read) \in Nat
    BY LenProperties DEF WindowOK
  <1>2. CASE n = 0
    BY <1>1, <1>2 DEF Destroy
  <1>3. CASE n # 0
    <2>1. n \in 1..Len(f) /\ f[n] + 1 \in Nat
      BY <1>1, <1>3, ElementOfSeq
    <2>2. Destroy(f, n) = [f EXCEPT ![n] = f[n] + 1]
      BY <1>3 DEF Destroy
    <2> QED
      BY <1>1, <2>1, <2>2, ExceptSeq
  <1> QED
    BY <1>2, <1>3

(* parser_advance.                                                         *)
LEMMA AdvanceIs ==
  ASSUME WindowOK, Advance, vocab' = vocab
  PROVE  /\ Len(read') = Len(read) + 1 /\ cur' = Len(read) + 1 /\ prev' = cur
         /\ read' \in Seq(vocab'.words \cup {"EOF"})
         /\ \A i \in 1..Len(read) : read'[i] = read[i]
         /\ grace' \in 0..MaxAfterError
         /\ freed' \in Seq(Nat) /\ Len(freed') = Len(read')
         /\ freed'[Len(read) + 1] = 0
         /\ \A i \in 1..Len(read) :
              freed'[i] = IF i = prev THEN freed[i] + 1 ELSE freed[i]
  <1>1. PICK w \in Incoming :
          /\ Receive(w) /\ freed' = Append(Destroy(freed, prev), 0)
          /\ prev' = cur /\ cur' = Len(read) + 1
    BY DEF Advance
  <1>2. PICK f : f = Destroy(freed, prev)
    OBVIOUS
  <1>3. /\ f \in Seq(Nat) /\ Len(f) = Len(read)
        /\ \A i \in 1..Len(read) : f[i] = IF i = prev THEN freed[i] + 1 ELSE freed[i]
    <2>1. freed \in Seq(Nat) /\ Len(freed) = Len(read) /\ prev \in 0..Len(read)
      BY NumbersIs DEF Numbers, WindowOK
    <2> QED
      BY <1>2, <2>1, DestroyIs
  <1>4. /\ Append(f, 0) \in Seq(Nat) /\ Len(Append(f, 0)) = Len(read) + 1
        /\ Append(f, 0)[Len(read) + 1] = 0
        /\ \A i \in 1..Len(read) : Append(f, 0)[i] = f[i]
    BY <1>3, AppendProperties
  <1> QED
    BY <1>1, <1>2, <1>3, <1>4, Received

(* parser_advance keeps the window sound.                                  *)
LEMMA WindowAdvanced ==
  ASSUME WindowOK, Advance, vocab' = vocab, handed \subseteq handed',
         handed' \subseteq handed \cup {cur}, stale' \subseteq handed',
         hadError' \in BOOLEAN, panic' \in BOOLEAN
  PROVE  WindowOK' /\ Grows
  <1>1. /\ Numbers /\ Len(read') = Len(read) + 1 /\ cur' = Len(read) + 1 /\ prev' = cur
        /\ \A i \in 1..Len(read) : read'[i] = read[i]
    BY NumbersIs, AdvanceIs
  <1>2. /\ cur' \in 1..Len(read') /\ prev' \in 0..cur' - 1 /\ handed' \subseteq 1..prev'
        /\ cur <= cur' /\ Len(read) <= Len(read')
    BY <1>1 DEF Numbers
  <1> QED
    BY <1>1, <1>2, AdvanceIs DEF WindowOK, Grows

(* So does what leaves the pointers alone.                                 *)
LEMMA WindowKept ==
  ASSUME WindowOK, UNCHANGED <<vocab, read, cur, prev, grace, handed>>,
         freed' \in Seq(Nat), Len(freed') = Len(read), stale' \subseteq handed,
         hadError' \in BOOLEAN, panic' \in BOOLEAN
  PROVE  WindowOK' /\ Grows
  <1>1. Len(read) \in Nat /\ cur \in Nat
    BY NumbersIs DEF Numbers
  <1> QED
    BY <1>1 DEF WindowOK, Grows

(* An activation's place and tokens stay those of its step.                *)
LEMMA FrameGrown ==
  ASSUME WindowOK, WindowOK', Grows, NEW f, FrameOK(f)
  PROVE  FrameOK(f)'
  <1>1. f.start \in 0..cur' /\ (f.start # 0 => read'[f.start] = read[f.start])
    <2>1. cur \in Nat /\ cur' \in Nat /\ cur <= cur' /\ Len(read) \in Nat /\ cur <= Len(read)
      BY NumbersIs DEF Numbers, WindowOK, Grows
    <2>2. f.start \in 0..cur
      BY DEF FrameOK
    <2>3. f.start # 0 => f.start \in 1..Len(read)
      BY <2>1, <2>2
    <2> QED
      BY <2>1, <2>2, <2>3 DEF Grows
  <1>2. f.names \in Seq(handed')
    BY SeqMonotonic DEF FrameOK, Grows
  <1> QED
    BY <1>1, <1>2 DEF FrameOK

-----------------------------------------------------------------------------
(* The stack.                                                              *)

(* What a step of a table is to itself.                                    *)
LEMMA StepSound ==
  ASSUME NEW f, FrameOK(f)
  PROVE  Sound(f.fn, f.pc, Code[f.fn][f.pc], Len(f.names))
  <1>1. f.fn \in DOMAIN Code /\ f.pc \in DOMAIN Code[f.fn] /\ Len(f.names) = Holds(f.fn, f.pc)
    BY DEF FrameOK
  <1> QED
    BY <1>1, TablesSound DEF TableSound

(* A call is not where parse_for_statement begins.                         *)
LEMMA CallNotFor ==
  ASSUME NEW f, FrameOK(f), Code[f.fn][f.pc].do = "parse"
  PROVE  ~(f.fn = "for" /\ f.pc <= 2)
  <1>1. f.fn = "for" /\ f.pc <= 2 =>
          Code[f.fn][f.pc].do = IF f.pc = 1 THEN "need" ELSE "look"
    BY StepSound DEF Sound
  <1> QED
    BY <1>1

(* The innermost activation, and those that called it.                     *)
LEMMA TopIs ==
  ASSUME IInv, stack # <<>>
  PROVE  /\ IsStack(stack) /\ Len(stack) \in Nat \ {0} /\ DOMAIN stack = 1..Len(stack)
         /\ Len(stack) \in DOMAIN stack /\ Len(stack) \in 1..Len(stack)
         /\ Top = stack[Len(stack)]
  <1>1. IsStack(stack)
    BY DEF IInv, StackOK, IsStack
  <1>2. DOMAIN stack = 1..Len(stack) /\ Len(stack) \in Nat /\ Len(stack) \in DOMAIN stack
    BY <1>1, StackIs
  <1> QED
    BY <1>1, <1>2 DEF Top

(* They are at steps of their tables.                                      *)
LEMMA FramesOK ==
  ASSUME IInv, stack # <<>>
  PROVE  FrameOK(Top) /\ \A d \in DOMAIN stack : FrameOK(stack[d])
  <1>1. \A d \in DOMAIN stack : FrameOK(stack[d])
    BY DEF IInv, StackOK
  <1>2. Top = stack[Len(stack)] /\ Len(stack) \in DOMAIN stack
    BY TopIs
  <1> QED
    BY <1>1, <1>2

(* What a step of the innermost activation does to the stack.              *)
LEMMA TopSet ==
  ASSUME IInv, stack # <<>>, NEW f, NEW t, t = SetTop(f)
  PROVE  /\ IsStack(t) /\ Len(t) = Len(stack) /\ t # <<>>
         /\ DOMAIN t = 1..Len(stack) /\ t[Len(stack)] = f
         /\ \A d \in 1..Len(stack) : d # Len(stack) => t[d] = stack[d]
  <1>1. t = WithTop(stack, f)
    BY DEF SetTop, WithTop
  <1>2. IsStack(stack)
    BY TopIs
  <1>3. /\ IsStack(t) /\ Len(t) = Len(stack) /\ t # <<>> /\ t[Len(stack)] = f
        /\ \A d \in 1..Len(stack) : d # Len(stack) => t[d] = stack[d]
    BY <1>1, <1>2, Replaced
  <1>4. DOMAIN t = 1..Len(stack)
    BY <1>3, StackIs
  <1> QED
    BY <1>3, <1>4

(* The same, of the next state's stack.                                    *)
LEMMA SetTopIs ==
  ASSUME IInv, stack # <<>>, NEW f, stack' = SetTop(f)
  PROVE  /\ IsStack(stack') /\ Len(stack') = Len(stack) /\ stack' # <<>>
         /\ DOMAIN stack' = 1..Len(stack) /\ stack'[Len(stack)] = f
         /\ \A d \in 1..Len(stack) : d # Len(stack) => stack'[d] = stack[d]
  BY TopSet

(* The innermost activation does nothing.                                  *)
LEMMA TopKept ==
  ASSUME IInv, stack # <<>>
  PROVE  SetTop(Top) = stack
  <1>1. PICK t : t = SetTop(Top)
    OBVIOUS
  <1>2. IsStack(t) /\ Len(t) = Len(stack) /\ \A d \in 1..Len(stack) : t[d] = stack[d]
    <2>1. /\ IsStack(t) /\ Len(t) = Len(stack) /\ t[Len(stack)] = Top
          /\ \A d \in 1..Len(stack) : d # Len(stack) => t[d] = stack[d]
      BY <1>1, TopSet
    <2>2. Top = stack[Len(stack)]
      BY TopIs
    <2> QED
      BY <2>1, <2>2
  <1>3. PICK S : S = {stack[d] : d \in DOMAIN stack} /\ stack \in Seq(S)
    BY TopIs DEF IsStack
  <1>4. PICK T : T = {t[d] : d \in DOMAIN t} /\ t \in Seq(T)
    BY <1>2 DEF IsStack
  <1>5. stack \in Seq(S \cup T) /\ t \in Seq(S \cup T)
    BY <1>3, <1>4, SeqMonotonic
  <1>6. t = stack
    BY <1>2, <1>5, SeqEqual
  <1> QED
    BY <1>1, <1>6

(* A call, from the innermost activation as it waits.                      *)
LEMMA PushedIs ==
  ASSUME IInv, stack # <<>>, NEW g, NEW f, stack' = Append(SetTop(g), f)
  PROVE  /\ IsStack(stack') /\ Len(stack') = Len(stack) + 1 /\ stack' # <<>>
         /\ DOMAIN stack' = 1..Len(stack) + 1
         /\ stack'[Len(stack) + 1] = f /\ stack'[Len(stack)] = g
         /\ \A d \in 1..Len(stack) : d # Len(stack) => stack'[d] = stack[d]
  <1>1. PICK t : t = SetTop(g)
    OBVIOUS
  <1>2. /\ IsStack(t) /\ Len(t) = Len(stack) /\ t[Len(stack)] = g
        /\ \A d \in 1..Len(stack) : d # Len(stack) => t[d] = stack[d]
    BY <1>1, TopSet
  <1>3. PICK u : u = Append(t, f)
    OBVIOUS
  <1>4. /\ IsStack(u) /\ Len(u) = Len(stack) + 1 /\ u[Len(stack) + 1] = f
        /\ \A d \in 1..Len(stack) : u[d] = t[d]
    BY <1>2, <1>3, Pushed
  <1>5. Len(stack) \in Nat \ {0} /\ Len(stack) \in 1..Len(stack)
    BY TopIs
  <1>6. DOMAIN u = 1..Len(u) /\ u # <<>>
    <2>1. Len(u) # 0
      BY <1>4, <1>5
    <2> QED
      BY <1>4, <2>1, StackIs
  <1>7. u = stack'
    BY <1>1, <1>3
  <1> QED
    BY <1>2, <1>4, <1>5, <1>6, <1>7

(* A return.                                                               *)
LEMMA DroppedIs ==
  ASSUME IInv, stack # <<>>, stack' = Front(stack)
  PROVE  /\ IsStack(stack') /\ Len(stack') = Len(stack) - 1
         /\ DOMAIN stack' = 1..Len(stack) - 1
         /\ \A d \in 1..Len(stack) - 1 : stack'[d] = stack[d]
         /\ stack' = <<>> <=> Len(stack) = 1
  <1>1. IsStack(stack)
    BY TopIs
  <1>2. PICK t : t = Front(stack)
    OBVIOUS
  <1>3. /\ IsStack(t) /\ Len(t) = Len(stack) - 1
        /\ \A d \in 1..Len(stack) - 1 : t[d] = stack[d]
        /\ t = <<>> <=> Len(stack) = 1
    BY <1>1, <1>2, Dropped
  <1>4. DOMAIN t = 1..Len(t)
    BY <1>3, StackIs
  <1> QED
    BY <1>2, <1>3, <1>4

(* Where an activation of parse_for_statement may be at its start.         *)
ForStart(f) ==
  /\ mode = "run" /\ cur = Len(read)
  /\ f.start \in 1..cur - 1 /\ read[f.start] = "FOR"

NewMode == mode' \in Modes \ {"done", "ended"} /\ lvl' \in AssignmentLevel..PrimaryLevel

(* The names of f are those of the innermost activation, without the last  *)
(* or with the current token.                                              *)
NamesFrom(f) ==
  \A i \in DOMAIN f.names :
    \/ i \in DOMAIN Top.names /\ f.names[i] = Top.names[i]
    \/ i = Len(Top.names) + 1 /\ f.names[i] = cur

(* The innermost activation makes a step.                                  *)
LEMMA StepStack ==
  ASSUME IInv, stack # <<>>, WindowOK', Grows, NewMode, NEW f, stack' = SetTop(f), FrameOK(f)',
         mode' \in Calling => Code[f.fn][f.pc].do = "parse",
         f.fn = "for" /\ f.pc <= 2 => ForStart(f)'
  PROVE  StackOK' /\ ForOK'
  <1>1. /\ IsStack(stack) /\ Len(stack) \in Nat \ {0}
        /\ \A d \in 1..Len(stack) : FrameOK(stack[d])
        /\ \A d \in 1..Len(stack) : d # Len(stack) =>
              Code[stack[d].fn][stack[d].pc].do = "parse"
    <2>1. IsStack(stack) /\ Len(stack) \in Nat \ {0} /\ DOMAIN stack = 1..Len(stack)
      BY TopIs
    <2>2. \A d \in DOMAIN stack : d # Len(stack) => Code[stack[d].fn][stack[d].pc].do = "parse"
      BY DEF IInv, StackOK
    <2> QED
      BY <2>1, <2>2, FramesOK
  <1>2. PICK n \in Nat \ {0} : n = Len(stack)
    BY <1>1
  <1>3. /\ IsStack(stack') /\ Len(stack') = n /\ stack' # <<>> /\ stack'[n] = f
        /\ \A d \in 1..n : d # n => stack'[d] = stack[d]
    BY <1>2, SetTopIs
  <1>4. DOMAIN stack' = 1..n
    BY <1>3, StackIs
  <1>5. ASSUME NEW d \in 1..n
        PROVE  /\ FrameOK(stack[d])'
               /\ d # n => /\ Code[stack'[d].fn][stack'[d].pc].do = "parse"
                          /\ ~(stack'[d].fn = "for" /\ stack'[d].pc <= 2)
    <2>1. PICK g : g = stack'[d]
      OBVIOUS
    <2>2. d # n => FrameOK(g) /\ Code[g.fn][g.pc].do = "parse"
      BY <1>1, <1>2, <1>3, <2>1
    <2>3. FrameOK(g)'
      BY <1>3, <2>1, <2>2, FrameGrown DEF IInv
    <2>4. d # n => ~(g.fn = "for" /\ g.pc <= 2)
      BY <2>2, CallNotFor
    <2>5. FrameOK(stack[d])'
      BY <2>1, <2>3 DEF FrameOK
    <2> QED
      BY <2>1, <2>2, <2>4, <2>5
  <1>6. StackOK'
    <2>1. mode' \in Modes /\ mode' \notin {"done", "ended"} /\ lvl' \in AssignmentLevel..PrimaryLevel
      BY DEF NewMode
    <2>2. \A d \in DOMAIN stack' : FrameOK(stack[d])'
      BY <1>4, <1>5
    <2>3. \A d \in DOMAIN stack' : d # Len(stack') \/ mode' \in Calling =>
            Code[stack'[d].fn][stack'[d].pc].do = "parse"
      BY <1>3, <1>4, <1>5
    <2>4. stack' \in Seq({stack'[d] : d \in DOMAIN stack'})
      BY <1>3 DEF IsStack
    <2> QED
      BY <1>3, <2>1, <2>2, <2>3, <2>4 DEF StackOK
  <1>7. ForOK'
    <2>1. ASSUME NEW d \in DOMAIN stack', stack'[d].fn = "for", stack'[d].pc <= 2
          PROVE  d = n
      BY <1>4, <1>5, <2>1
    <2>2. f.fn = "for" /\ f.pc <= 2 =>
            /\ mode' = "run" /\ cur' = Len(read')
            /\ f.start \in 1..cur' - 1 /\ read'[f.start] = "FOR"
      BY DEF ForStart
    <2> QED
      BY <1>3, <2>1, <2>2 DEF ForOK
  <1> QED
    BY <1>6, <1>7

(* What callers wait at is at a call, and stays there.                     *)
LEMMA CallersOK ==
  ASSUME IInv, WindowOK', Grows, NEW d \in DOMAIN stack, d # Len(stack)
  PROVE  /\ FrameOK(stack[d]) /\ (\A g : g = stack[d] => FrameOK(g)')
         /\ Code[stack[d].fn][stack[d].pc].do = "parse"
         /\ ~(stack[d].fn = "for" /\ stack[d].pc <= 2)
  <1>1. FrameOK(stack[d]) /\ Code[stack[d].fn][stack[d].pc].do = "parse"
    BY DEF IInv, StackOK
  <1>2. PICK g : g = stack[d]
    OBVIOUS
  <1>3. FrameOK(g)' /\ ~(g.fn = "for" /\ g.pc <= 2)
    BY <1>1, <1>2, FrameGrown, CallNotFor DEF IInv
  <1> QED
    BY <1>1, <1>2, <1>3

(* The innermost activation, as it waits, calls another.                   *)
LEMMA CallStack ==
  ASSUME IInv, stack # <<>>, WindowOK', Grows, mode' = "run", lvl' = 1,
         NEW g, FrameOK(g)', Code[g.fn][g.pc].do = "parse",
         NEW f, FrameOK(f)', f.fn = "for" /\ f.pc <= 2 => ForStart(f)',
         stack' = Append(SetTop(g), f)
  PROVE  StackOK' /\ ForOK'
  <1>1. PICK n \in Nat \ {0} : n = Len(stack) /\ DOMAIN stack = 1..n
    BY TopIs
  <1>2. /\ IsStack(stack') /\ Len(stack') = n + 1 /\ stack' # <<>> /\ DOMAIN stack' = 1..n + 1
        /\ stack'[n + 1] = f /\ stack'[n] = g
        /\ \A d \in 1..n : d # n => stack'[d] = stack[d]
    BY <1>1, PushedIs
  <1>3. ~(g.fn = "for" /\ g.pc <= 2)
    <2>1. Sound(g.fn, g.pc, Code[g.fn][g.pc], Holds(g.fn, g.pc))
      BY TablesSound DEF FrameOK, TableSound
    <2> QED
      BY <2>1 DEF Sound
  <1>4. ASSUME NEW d \in 1..n + 1
        PROVE  /\ \A h : h = stack'[d] => FrameOK(h)'
               /\ d # n + 1 => /\ Code[stack'[d].fn][stack'[d].pc].do = "parse"
                              /\ ~(stack'[d].fn = "for" /\ stack'[d].pc <= 2)
    <2>1. CASE d = n + 1
      BY <1>2, <2>1
    <2>2. CASE d = n
      BY <1>1, <1>2, <1>3, <2>2
    <2>3. CASE d # n /\ d # n + 1
      <3>1. d \in DOMAIN stack /\ d # Len(stack) /\ stack'[d] = stack[d]
        BY <1>1, <1>2, <2>3
      <3> QED
        BY <2>3, <3>1, CallersOK
    <2> QED
      BY <2>1, <2>2, <2>3
  <1>5. \A d \in 1..n + 1 : FrameOK(stack[d])'
    BY <1>4 DEF FrameOK
  <1>6. StackOK'
    <2>1. stack' \in Seq({stack'[d] : d \in DOMAIN stack'})
      BY <1>2 DEF IsStack
    <2>2. \A d \in DOMAIN stack' : d # Len(stack') \/ mode' \in Calling =>
            Code[stack'[d].fn][stack'[d].pc].do = "parse"
      BY <1>2, <1>4 DEF Calling
    <2>3. /\ mode' \in Modes /\ mode' \notin {"done", "ended"}
          /\ lvl' \in AssignmentLevel..PrimaryLevel
      BY DEF Modes, AssignmentLevel, PrimaryLevel
    <2> QED
      BY <1>2, <1>5, <2>1, <2>2, <2>3 DEF StackOK
  <1>7. ForOK'
    <2>1. ASSUME NEW d \in DOMAIN stack', stack'[d].fn = "for", stack'[d].pc <= 2
          PROVE  d = n + 1
      BY <1>2, <1>4, <2>1
    <2>2. f.fn = "for" /\ f.pc <= 2 =>
            /\ mode' = "run" /\ cur' = Len(read')
            /\ f.start \in 1..cur' - 1 /\ read'[f.start] = "FOR"
      BY DEF ForStart
    <2> QED
      BY <1>2, <2>1, <2>2 DEF ForOK
  <1> QED
    BY <1>6, <1>7

(* The innermost activation returns.                                       *)
LEMMA ReturnStack ==
  ASSUME IInv, stack # <<>>, WindowOK', Grows, stack' = Front(stack),
         lvl' \in AssignmentLevel..PrimaryLevel,
         mode' = IF Len(stack) = 1 THEN "done" ELSE "value"
  PROVE  StackOK' /\ ForOK'
  <1>1. PICK n \in Nat \ {0} : n = Len(stack) /\ DOMAIN stack = 1..n
    BY TopIs
  <1>2. /\ IsStack(stack') /\ Len(stack') = n - 1 /\ DOMAIN stack' = 1..n - 1
        /\ \A d \in 1..n - 1 : stack'[d] = stack[d]
        /\ stack' = <<>> <=> n = 1
    BY <1>1, DroppedIs
  <1>3. ASSUME NEW d \in 1..n - 1
        PROVE  /\ \A h : h = stack'[d] => FrameOK(h)'
               /\ Code[stack'[d].fn][stack'[d].pc].do = "parse"
               /\ ~(stack'[d].fn = "for" /\ stack'[d].pc <= 2)
    <2>1. d \in DOMAIN stack /\ d # Len(stack) /\ stack'[d] = stack[d]
      BY <1>1, <1>2
    <2> QED
      BY <2>1, CallersOK
  <1>4. \A d \in 1..n - 1 : FrameOK(stack[d])'
    BY <1>3 DEF FrameOK
  <1>5. StackOK'
    <2>1. stack' \in Seq({stack'[d] : d \in DOMAIN stack'})
      BY <1>2 DEF IsStack
    <2>2. \A d \in DOMAIN stack' : Code[stack'[d].fn][stack'[d].pc].do = "parse"
      BY <1>2, <1>3
    <2>3. mode' \in Modes /\ (mode' \in {"done", "ended"} <=> n = 1)
      BY <1>1 DEF Modes
    <2> QED
      BY <1>2, <1>4, <2>1, <2>2, <2>3 DEF StackOK
  <1>6. ForOK'
    BY <1>2, <1>3 DEF ForOK
  <1> QED
    BY <1>5, <1>6

-----------------------------------------------------------------------------
(* The tokens that activations hold.                                       *)
In(f, i) == \E k \in DOMAIN f.names : f.names[k] = i
HeldAt(i) == \E d \in DOMAIN stack : In(stack[d], i)
Below(i) == \E d \in DOMAIN stack : d # Len(stack) /\ In(stack[d], i)

(* A token is spent when it was handed over and nobody holds it.           *)
LEMMA SpentIs ==
  \A i : /\ Spent(i) <=> i \in handed /\ ~HeldAt(i)
         /\ Spent(i)' <=> i \in handed' /\ ~HeldAt(i)'
  BY DEF Spent, HeldAt, In

(* They were handed to them.                                               *)
LEMMA NamesHanded ==
  ASSUME NEW f, FrameOK(f)
  PROVE  /\ DOMAIN f.names = 1..Len(f.names) /\ Len(f.names) \in Nat
         /\ \A k \in DOMAIN f.names : f.names[k] \in handed
         /\ \A i : In(f, i) => i \in handed
  <1>1. f.names \in Seq(handed)
    BY DEF FrameOK
  <1>2. DOMAIN f.names = 1..Len(f.names) /\ Len(f.names) \in Nat
    BY <1>1, LenProperties
  <1>3. \A k \in DOMAIN f.names : f.names[k] \in handed
    BY <1>1, <1>2, ElementOfSeq
  <1> QED
    BY <1>2, <1>3 DEF In

(* The current token is nobody's yet.                                      *)
LEMMA CurrentFree ==
  ASSUME IInv
  PROVE  cur \notin handed
  BY NumbersIs DEF IInv, Numbers

(* Tokens are held by the innermost activation, or below it.               *)
LEMMA HeldTop ==
  ASSUME IInv, stack # <<>>
  PROVE  \A i : HeldAt(i) <=> Below(i) \/ In(Top, i)
  <1>1. Top = stack[Len(stack)] /\ Len(stack) \in DOMAIN stack
    BY TopIs
  <1> QED
    BY <1>1 DEF HeldAt, Below

(* After its step too, with the tokens it holds then.                      *)
LEMMA HeldStep ==
  ASSUME IInv, stack # <<>>, NEW f, stack' = SetTop(f)
  PROVE  \A i : HeldAt(i)' <=> Below(i) \/ In(f, i)
  <1>1. /\ DOMAIN stack' = 1..Len(stack) /\ stack'[Len(stack)] = f
        /\ \A d \in 1..Len(stack) : d # Len(stack) => stack'[d] = stack[d]
    BY SetTopIs
  <1>2. DOMAIN stack = 1..Len(stack) /\ Len(stack) \in 1..Len(stack)
    BY TopIs
  <1>3. ASSUME NEW i, HeldAt(i)'
        PROVE  Below(i) \/ In(f, i)
    <2>1. PICK d \in DOMAIN stack' : In(stack'[d], i)
      BY <1>3 DEF HeldAt, In
    <2>2. CASE d = Len(stack)
      BY <1>1, <2>1, <2>2
    <2>3. CASE d # Len(stack)
      BY <1>1, <1>2, <2>1, <2>3 DEF Below
    <2> QED
      BY <2>2, <2>3
  <1>4. ASSUME NEW i, Below(i) \/ In(f, i)
        PROVE  HeldAt(i)'
    <2>1. PICK d \in DOMAIN stack' : In(stack'[d], i)
      <3>1. CASE Below(i)
        BY <1>1, <1>2, <3>1 DEF Below
      <3>2. CASE In(f, i)
        BY <1>1, <1>2, <3>2
      <3> QED
        BY <1>4, <3>1, <3>2
    <2> QED
      BY <2>1 DEF HeldAt, In
  <1> QED
    BY <1>3, <1>4

(* The last name of an activation stands nowhere else.                     *)
LEMMA NameAlone ==
  ASSUME IInv, stack # <<>>, Len(Top.names) > 0
  PROVE  /\ Name \in handed /\ In(Top, Name) /\ ~Below(Name)
         /\ Name = Top.names[Len(Top.names)]
         /\ \A k \in 1..Len(Top.names) - 1 : Top.names[k] # Name
  <1>1. /\ Top = stack[Len(stack)] /\ Len(stack) \in DOMAIN stack /\ FrameOK(Top)
    BY TopIs, FramesOK
  <1>2. /\ DOMAIN Top.names = 1..Len(Top.names) /\ Len(Top.names) \in Nat
        /\ \A k \in DOMAIN Top.names : Top.names[k] \in handed
    BY <1>1, NamesHanded
  <1>3. PICK n \in Nat \ {0} : n = Len(Top.names)
    BY <1>2
  <1>4. n \in DOMAIN Top.names /\ Name = Top.names[n]
    BY <1>2, <1>3 DEF Name, Last
  <1>5. \A d \in DOMAIN stack : \A k \in DOMAIN stack[d].names :
          stack[d].names[k] = Name => d = Len(stack) /\ k = n
    BY <1>1, <1>4 DEF IInv, NamesApart
  <1>6. ~Below(Name)
    BY <1>5 DEF Below, In
  <1>7. \A k \in 1..n - 1 : Top.names[k] # Name
    <2>1. \A k \in 1..n - 1 : k \in DOMAIN Top.names /\ k # n
      BY <1>2, <1>3
    <2> QED
      BY <1>1, <1>5, <2>1
  <1> QED
    BY <1>2, <1>3, <1>4, <1>6, <1>7 DEF In

(* A step that takes a token into names, or gives one away, or neither.    *)
LEMMA StepNames ==
  ASSUME IInv, stack # <<>>, NEW f, stack' = SetTop(f), NamesFrom(f)
  PROVE  NamesApart'
  <1>1. /\ DOMAIN stack' = 1..Len(stack) /\ stack'[Len(stack)] = f
        /\ \A d \in 1..Len(stack) : d # Len(stack) => stack'[d] = stack[d]
    BY SetTopIs
  <1>2. /\ DOMAIN stack = 1..Len(stack) /\ Len(stack) \in 1..Len(stack) /\ Top = stack[Len(stack)]
        /\ \A d \in 1..Len(stack) : FrameOK(stack[d])
    BY TopIs, FramesOK
  <1>3. \A d \in 1..Len(stack) : \A k \in DOMAIN stack[d].names : stack[d].names[k] # cur
    BY <1>2, NamesHanded, CurrentFree
  <1>4. \A d, e \in 1..Len(stack) : \A i \in DOMAIN stack[d].names, j \in DOMAIN stack[e].names :
          stack[d].names[i] = stack[e].names[j] => d = e /\ i = j
    BY <1>2 DEF IInv, NamesApart
  <1>5. \A i \in DOMAIN f.names :
          \/ i \in DOMAIN Top.names /\ f.names[i] = Top.names[i]
          \/ i = Len(Top.names) + 1 /\ f.names[i] = cur
    BY DEF NamesFrom
  <1>6. ASSUME NEW i \in DOMAIN f.names, NEW e \in 1..Len(stack), e # Len(stack),
               NEW j \in DOMAIN stack[e].names, f.names[i] = stack[e].names[j]
        PROVE  FALSE
    <2>1. f.names[i] # cur
      BY <1>3, <1>6
    <2>2. i \in DOMAIN Top.names /\ Top.names[i] = stack[e].names[j]
      BY <1>5, <1>6, <2>1
    <2> QED
      BY <1>2, <1>4, <1>6, <2>2
  <1>7. ASSUME NEW i \in DOMAIN f.names, NEW j \in DOMAIN f.names, f.names[i] = f.names[j]
        PROVE  i = j
    <2>1. \A k \in DOMAIN Top.names : Top.names[k] # cur
      BY <1>2, <1>3
    <2>2. \A k, l \in DOMAIN Top.names : Top.names[k] = Top.names[l] => k = l
      BY <1>2, <1>4
    <2> QED
      BY <1>5, <1>7, <2>1, <2>2
  <1>8. ASSUME NEW d \in 1..Len(stack), NEW e \in 1..Len(stack),
               NEW i \in DOMAIN stack'[d].names, NEW j \in DOMAIN stack'[e].names,
               stack'[d].names[i] = stack'[e].names[j]
        PROVE  d = e /\ i = j
    <2>1. CASE d # Len(stack) /\ e # Len(stack)
      BY <1>1, <1>4, <1>8, <2>1
    <2>2. CASE d = Len(stack) /\ e # Len(stack)
      BY <1>1, <1>6, <1>8, <2>2
    <2>3. CASE d # Len(stack) /\ e = Len(stack)
      BY <1>1, <1>6, <1>8, <2>3
    <2>4. CASE d = Len(stack) /\ e = Len(stack)
      BY <1>1, <1>7, <1>8, <2>4
    <2> QED
      BY <2>1, <2>2, <2>3, <2>4
  <1> QED
    BY <1>1, <1>8 DEF NamesApart

(* Activations that come or go hold nothing, or go.                        *)
LEMMA NamesKept ==
  ASSUME IInv,
         \A d \in DOMAIN stack' : \/ stack'[d].names = <<>>
                                  \/ d \in DOMAIN stack /\ stack'[d].names = stack[d].names
  PROVE  NamesApart'
  <1>1. ASSUME NEW d \in DOMAIN stack', NEW i \in DOMAIN stack'[d].names
        PROVE  d \in DOMAIN stack /\ stack'[d].names = stack[d].names
    BY <1>1
  <1> QED
    BY <1>1 DEF IInv, NamesApart

(* A call hands no token over.                                             *)
LEMMA CallNames ==
  ASSUME IInv, stack # <<>>, NEW g, g.names = Top.names, NEW f, f.names = <<>>,
         stack' = Append(SetTop(g), f)
  PROVE  NamesApart' /\ \A i : HeldAt(i)' <=> HeldAt(i)
  <1>1. PICK n \in Nat \ {0} : n = Len(stack) /\ DOMAIN stack = 1..n /\ Top = stack[n]
    BY TopIs
  <1>2. /\ DOMAIN stack' = 1..n + 1 /\ stack'[n + 1] = f /\ stack'[n] = g
        /\ \A d \in 1..n : d # n => stack'[d] = stack[d]
    BY <1>1, PushedIs
  <1>3. /\ \A d \in 1..n : stack'[d].names = stack[d].names
        /\ stack'[n + 1].names = <<>>
    BY <1>1, <1>2
  <1>4. DOMAIN stack' = 1..n + 1 /\ \A d \in 1..n + 1 : d \in 1..n \/ d = n + 1
    BY <1>2
  <1>5. NamesApart'
    BY <1>1, <1>3, <1>4, NamesKept
  <1>6. \A i : HeldAt(i)' <=> HeldAt(i)
    <2>1. ASSUME NEW i, HeldAt(i)'
          PROVE  HeldAt(i)
      <3>1. PICK d \in DOMAIN stack' : \E k \in DOMAIN stack'[d].names : stack'[d].names[k] = i
        BY <2>1 DEF HeldAt, In
      <3>2. d \in 1..n
        BY <1>3, <1>4, <3>1
      <3> QED
        BY <1>1, <1>3, <3>1, <3>2 DEF HeldAt, In
    <2>2. ASSUME NEW i, HeldAt(i)
          PROVE  HeldAt(i)'
      <3>1. PICK d \in 1..n : \E k \in DOMAIN stack[d].names : stack[d].names[k] = i
        BY <1>1, <2>2 DEF HeldAt, In
      <3>2. d \in DOMAIN stack' /\ stack'[d].names = stack[d].names
        BY <1>1, <1>3, <1>4
      <3> QED
        BY <3>1, <3>2 DEF HeldAt, In
    <2> QED
      BY <2>1, <2>2
  <1> QED
    BY <1>5, <1>6

(* A return leaves the tokens held below.                                  *)
LEMMA ReturnNames ==
  ASSUME IInv, stack # <<>>, stack' = Front(stack)
  PROVE  NamesApart' /\ \A i : HeldAt(i)' <=> Below(i)
  <1>1. PICK n \in Nat \ {0} : n = Len(stack) /\ DOMAIN stack = 1..n
    BY TopIs
  <1>2. DOMAIN stack' = 1..n - 1 /\ \A d \in 1..n - 1 : stack'[d] = stack[d]
    BY <1>1, DroppedIs
  <1>3. \A d : d \in 1..n - 1 <=> d \in DOMAIN stack /\ d # Len(stack)
    BY <1>1
  <1>4. NamesApart'
    BY <1>2, <1>3, NamesKept
  <1>5. \A i : HeldAt(i)' <=> Below(i)
    BY <1>2, <1>3 DEF HeldAt, Below, In
  <1> QED
    BY <1>4, <1>5

-----------------------------------------------------------------------------
(* How often tokens were destroyed.                                        *)

(* What the invariant says of one token.                                   *)
FreedAt(i) ==
  IF i \in {cur, prev} /\ mode # "ended" THEN freed[i] = ByOwner(i)
  ELSE \/ freed[i] = 1 + ByOwner(i)
       \/ freed[i] = 0 /\ i \notin handed /\ LookedAt(i)

(* The invariant says it of every token.                                   *)
LEMMA FreedAll == FreedOK <=> \A i \in 1..Len(read) : FreedAt(i)
  BY DEF FreedOK, FreedAt

(* The tokens stay where they are; an owner may destroy one.               *)
LEMMA FreedOwned ==
  ASSUME IInv, mode # "ended", mode' # "ended", NEW n,
         UNCHANGED <<read, cur, prev, handed>>,
         \A i \in 1..Len(read) : freed'[i] = IF i = n THEN freed[i] + 1 ELSE freed[i],
         n \in 1..Len(read) => n \in handed /\ HeldAt(n) /\ ~HeldAt(n)',
         \A i : i # n => (HeldAt(i)' <=> HeldAt(i))
  PROVE  FreedOK'
  <1>1. ASSUME NEW i \in 1..Len(read)
        PROVE  FreedAt(i)'
    <2>1. FreedAt(i)
      BY FreedAll DEF IInv
    <2>2. freed[i] \in Nat
      BY ElementOfSeq DEF IInv, WindowOK
    <2>3. /\ Spent(i) <=> i \in handed /\ ~HeldAt(i)
          /\ Spent(i)' <=> i \in handed /\ ~HeldAt(i)'
      BY SpentIs
    <2>4. LookedAt(i)' <=> LookedAt(i)
      BY DEF LookedAt
    <2>5. CASE i = n
      <3>1. ByOwner(i) = 0 /\ ByOwner(i)' = 1 /\ i \in handed
        BY <2>3, <2>5 DEF ByOwner
      <3>2. freed'[i] = freed[i] + 1
        BY <2>5
      <3> QED
        BY <2>1, <2>2, <3>1, <3>2 DEF FreedAt
    <2>6. CASE i # n
      <3>1. ByOwner(i)' = ByOwner(i) /\ freed'[i] = freed[i]
        BY <2>3, <2>6 DEF ByOwner
      <3> QED
        BY <2>1, <2>4, <3>1 DEF FreedAt
    <2> QED
      BY <2>5, <2>6
  <1>2. (FreedOK <=> \A i \in 1..Len(read) : FreedAt(i))'
    BY FreedAll, PTL
  <1> QED
    BY <1>1, <1>2

(* Nothing is destroyed or handed over.                                    *)
LEMMA FreedKept ==
  ASSUME IInv, mode # "ended", mode' # "ended", UNCHANGED <<window, handed>>,
         \A i : HeldAt(i)' <=> HeldAt(i)
  PROVE  FreedOK'
  <1>1. UNCHANGED <<read, cur, prev, handed>> /\ \A i \in 1..Len(read) : freed'[i] = freed[i]
    BY DEF window
  <1>2. 0 \notin 1..Len(read)
    BY NumbersIs DEF IInv, Numbers
  <1> QED
    BY <1>1, <1>2, FreedOwned

(* The window advances; the current token may be taken.                    *)
LEMMA FreedAdvanced ==
  ASSUME IInv, mode # "ended", mode' # "ended", Advance, vocab' = vocab,
         handed \subseteq handed', handed' \subseteq handed \cup {cur},
         \A i : i # cur => (HeldAt(i)' <=> HeldAt(i)),
         \A i : i = cur /\ i \in handed' => HeldAt(i)'
  PROVE  FreedOK'
  <1>1. PICK n \in Nat \ {0} :
          /\ n = Len(read) /\ Len(read') = n + 1 /\ cur' = n + 1 /\ prev' = cur
          /\ \A i \in 1..n : read'[i] = read[i]
          /\ freed'[n + 1] = 0
          /\ \A i \in 1..n : freed'[i] = IF i = prev THEN freed[i] + 1 ELSE freed[i]
    <2>1. Len(read) \in Nat \ {0}
      BY NumbersIs DEF IInv, Numbers
    <2> QED
      BY <2>1, AdvanceIs DEF IInv
  <1>2. cur \in 1..n /\ prev \in 0..n /\ prev < cur /\ handed \subseteq 1..prev
    BY <1>1, NumbersIs DEF IInv, Numbers
  <1>3. /\ \A i : Spent(i) <=> i \in handed /\ ~HeldAt(i)
        /\ \A i : Spent(i)' <=> i \in handed' /\ ~HeldAt(i)'
    BY SpentIs
  <1>4. cur \notin handed /\ n + 1 \notin handed'
    BY <1>2
  <1>5. FreedAt(n + 1)'
    <2>1. ~Spent(n + 1)'
      BY <1>3, <1>4
    <2>2. ByOwner(n + 1)' = 0
      BY <2>1 DEF ByOwner
    <2> QED
      BY <1>1, <2>2 DEF FreedAt
  <1>6. ASSUME NEW i \in 1..n
        PROVE  FreedAt(i)'
    <2>1. FreedAt(i) /\ freed[i] \in Nat /\ i # n + 1
      BY <1>1, FreedAll, ElementOfSeq DEF IInv, WindowOK
    <2>2. ByOwner(i)' = ByOwner(i)
      <3>1. i # cur => (Spent(i)' <=> Spent(i))
        BY <1>3
      <3>2. i = cur => ~Spent(i) /\ ~Spent(i)'
        BY <1>3, <1>4
      <3>3. Spent(i)' <=> Spent(i)
        BY <3>1, <3>2
      <3> QED
        BY <3>3 DEF ByOwner
    <2>3. CASE i = cur
      <3>1. freed'[i] = freed[i]
        BY <1>1, <1>2, <2>3
      <3>2. freed[i] = ByOwner(i)
        BY <2>1, <2>3 DEF FreedAt
      <3> QED
        BY <1>1, <2>2, <2>3, <3>1, <3>2 DEF FreedAt
    <2>4. CASE i = prev
      <3>1. freed'[i] = freed[i] + 1 /\ i # cur
        BY <1>1, <1>2, <2>4
      <3>2. freed[i] = ByOwner(i)
        BY <2>1, <2>4 DEF FreedAt
      <3>3. freed'[i] = 1 + ByOwner(i)'
        BY <2>1, <2>2, <3>1, <3>2
      <3> QED
        BY <1>1, <2>1, <3>1, <3>3 DEF FreedAt
    <2>5. CASE i # cur /\ i # prev
      <3>1. freed'[i] = freed[i] /\ (i \in handed' <=> i \in handed)
        BY <1>1, <2>5
      <3>2. LookedAt(i) => LookedAt(i)'
        <4>1. ASSUME i > 2
              PROVE  /\ i - 1 \in 1..n /\ read'[i - 1] = read[i - 1]
                     /\ \A k \in 1..i - 2 : k \in 1..n /\ read'[k] = read[k]
          BY <1>1, <4>1
        <4> QED
          BY <4>1 DEF LookedAt
      <3> QED
        BY <1>1, <2>1, <2>2, <2>5, <3>1, <3>2 DEF FreedAt
    <2> QED
      BY <2>3, <2>4, <2>5
  <1>7. (FreedOK <=> \A i \in 1..Len(read) : FreedAt(i))'
    BY FreedAll, PTL
  <1>8. \A i \in 1..n + 1 : i \in 1..n \/ i = n + 1
    OBVIOUS
  <1> QED
    BY <1>1, <1>5, <1>6, <1>7, <1>8

(* The window stays sound when nothing is handed over.                     *)
LEMMA WindowStep ==
  ASSUME IInv, vocab' = vocab, Advance \/ UNCHANGED window, handed' = handed,
         stale' \subseteq handed, hadError' \in BOOLEAN, panic' \in BOOLEAN
  PROVE  WindowOK' /\ Grows
  <1>1. CASE Advance
    BY <1>1, WindowAdvanced DEF IInv
  <1>2. CASE UNCHANGED window
    <2>1. freed' \in Seq(Nat) /\ Len(freed') = Len(read)
      BY <1>2 DEF IInv, WindowOK, window
    <2> QED
      BY <1>2, <2>1, WindowKept DEF IInv, window
  <1> QED
    BY <1>1, <1>2

(* The account stays right when nothing is handed over.                    *)
LEMMA FreedStep ==
  ASSUME IInv, mode # "ended", mode' # "ended", vocab' = vocab,
         Advance \/ UNCHANGED window, handed' = handed, \A i : HeldAt(i)' <=> HeldAt(i)
  PROVE  FreedOK'
  <1>1. CASE Advance
    <2>1. cur \notin handed'
      BY CurrentFree
    <2> QED
      BY <1>1, <2>1, FreedAdvanced
  <1>2. CASE UNCHANGED window
    BY <1>2, FreedKept
  <1> QED
    BY <1>1, <1>2

-----------------------------------------------------------------------------
(* The kinds of steps.                                                     *)

(* f is the innermost activation, gone on to step l of its table.          *)
Follows(f, l) ==
  /\ DOMAIN f = DOMAIN Top /\ f.fn = Top.fn /\ f.pc = l /\ f.start = Top.start
  /\ f.names = Top.names /\ f.want = Top.want

(* What the actions make of the innermost activation is it, further on.    *)
LEMMA MovedFollows ==
  ASSUME IInv, stack # <<>>, NEW l, NEW k
  PROVE  Follows(Moved(l), l) /\ Follows([Moved(l) EXCEPT !.kids = k], l)
  <1>1. DOMAIN Top = {"fn", "pc", "start", "kids", "names", "want"}
    BY FramesOK DEF FrameOK
  <1> QED
    BY <1>1 DEF Follows, Moved

(* The activation is at a step of its table that does this.                *)
LEMMA FollowsOK ==
  ASSUME IInv, stack # <<>>, WindowOK', Grows, NEW l, NEW f, Follows(f, l),
         To(Top.fn, Top.pc, l, Len(Top.names))
  PROVE  FrameOK(f)'
  <1>1. PICK g : g = Top
    OBVIOUS
  <1>2. FrameOK(g)
    BY <1>1, FramesOK
  <1>3. FrameOK(g)'
    BY <1>2, FrameGrown DEF IInv
  <1>4. /\ l \in DOMAIN Code[g.fn] /\ Holds(g.fn, l) = Len(g.names)
        /\ DOMAIN f = DOMAIN g /\ f.fn = g.fn /\ f.pc = l /\ f.start = g.start
        /\ f.names = g.names /\ f.want = g.want
    BY <1>1 DEF Follows, To
  <1> QED
    BY <1>3, <1>4 DEF FrameOK

(* What the innermost activation is at, when it is at its start.           *)
LEMMA TopFor ==
  ASSUME IInv, stack # <<>>, Top.fn = "for", Top.pc <= 2
  PROVE  ForStart(Top)
  <1>1. Top = stack[Len(stack)] /\ Len(stack) \in DOMAIN stack
    BY TopIs
  <1> QED
    BY <1>1 DEF IInv, ForOK, ForStart

(* parse_for_statement stays at its start when the window advances.        *)
LEMMA ForStartKept ==
  ASSUME IInv, NEW f, NEW g, ForStart(g), f.start = g.start, mode' = "run", vocab' = vocab,
         Advance \/ UNCHANGED window
  PROVE  ForStart(f)'
  <1>1. cur' = Len(read') /\ f.start \in 1..cur' - 1 /\ read'[f.start] = read[f.start]
    <2>1. CASE Advance
      <3>1. PICK n \in Nat \ {0} :
              /\ n = Len(read) /\ Len(read') = n + 1 /\ cur' = n + 1
              /\ \A i \in 1..n : read'[i] = read[i]
        <4>1. Len(read) \in Nat \ {0}
          BY NumbersIs DEF IInv, Numbers
        <4> QED
          BY <2>1, <4>1, AdvanceIs DEF IInv
      <3>2. cur = n /\ f.start \in 1..n - 1
        BY <3>1 DEF ForStart
      <3> QED
        BY <3>1, <3>2
    <2>2. CASE UNCHANGED window
      BY <2>2 DEF window, ForStart
    <2> QED
      BY <2>1, <2>2
  <1> QED
    BY <1>1 DEF ForStart

(* What every step that takes nothing and gives nothing away leaves.       *)
Ordinary ==
  /\ vocab' = vocab /\ handed' = handed /\ stale' \subseteq handed
  /\ Advance \/ UNCHANGED window
  /\ hadError' \in BOOLEAN /\ panic' \in BOOLEAN

(* The innermost activation goes to another step, its names in its hands.  *)
LEMMA MoveStep ==
  ASSUME IInv, stack # <<>>, Ordinary, mode # "ended",
         mode' \in {"run", "synchronize"}, lvl' \in AssignmentLevel..PrimaryLevel,
         mode' # "run" => ~(Top.fn = "for" /\ Top.pc <= 2),
         NEW l, To(Top.fn, Top.pc, l, Len(Top.names)), NEW f, Follows(f, l), stack' = SetTop(f)
  PROVE  IInv'
  <1>1. WindowOK' /\ Grows
    BY WindowStep DEF Ordinary
  <1>2. FrameOK(f)'
    BY <1>1, FollowsOK
  <1>3. f.fn = "for" /\ f.pc <= 2 => ForStart(f)'
    <2>1. ASSUME f.fn = "for", f.pc <= 2
          PROVE  ForStart(f)'
      <3>1. Top.fn = "for" /\ Top.pc = 1 /\ f.start = Top.start
        BY <2>1 DEF Follows, To
      <3>2. ForStart(Top) /\ mode' = "run"
        BY <3>1, TopFor
      <3> QED
        BY <3>1, <3>2, ForStartKept DEF Ordinary
    <2> QED
      BY <2>1
  <1>4. NewMode /\ mode' \notin Calling /\ mode' # "ended"
    BY DEF NewMode, Modes, Calling
  <1>5. StackOK' /\ ForOK'
    BY <1>1, <1>2, <1>3, <1>4, StepStack
  <1>6. NamesFrom(f)
    BY DEF NamesFrom, Follows
  <1>7. NamesApart'
    BY <1>6, StepNames
  <1>8. \A i : HeldAt(i)' <=> HeldAt(i)
    <2>1. \A i : In(f, i) <=> In(Top, i)
      BY DEF In, Follows
    <2> QED
      BY <2>1, HeldTop, HeldStep
  <1>9. FreedOK'
    BY <1>4, <1>8, FreedStep DEF Ordinary
  <1> QED
    BY <1>1, <1>5, <1>7, <1>9 DEF IInv

(* f is the innermost activation where it is, on some level.               *)
Waits(f) ==
  /\ DOMAIN f = DOMAIN Top /\ f.fn = Top.fn /\ f.pc = Top.pc /\ f.start = Top.start
  /\ f.names = Top.names /\ f.want \in AssignmentLevel..UnaryLevel

(* The innermost activation stays where it is, or waits there.             *)
LEMMA StayStep ==
  ASSUME IInv, stack # <<>>, Ordinary, mode # "ended", NewMode,
         mode # "run" \/ Instr.do \notin {"need", "look"},
         mode' \in Calling => Code[Top.fn][Top.pc].do = "parse",
         NEW f, Waits(f), stack' = SetTop(f)
  PROVE  IInv'
  <1>1. WindowOK' /\ Grows
    BY WindowStep DEF Ordinary
  <1>2. PICK g : g = Top
    OBVIOUS
  <1>3. FrameOK(g) /\ FrameOK(g)'
    <2>1. FrameOK(g)
      BY <1>2, FramesOK
    <2> QED
      BY <1>1, <2>1, FrameGrown DEF IInv
  <1>4. /\ DOMAIN f = DOMAIN g /\ f.want \in AssignmentLevel..UnaryLevel
        /\ f.fn = g.fn /\ f.pc = g.pc /\ f.start = g.start /\ f.names = g.names
    BY <1>2 DEF Waits
  <1>5. FrameOK(f)'
    BY <1>3, <1>4 DEF FrameOK
  <1>6. ~(Top.fn = "for" /\ Top.pc <= 2)
    <2>1. ASSUME Top.fn = "for", Top.pc <= 2
          PROVE  FALSE
      <3>1. mode = "run"
        BY <2>1, TopFor DEF ForStart
      <3>2. Code[Top.fn][Top.pc].do = IF Top.pc = 1 THEN "need" ELSE "look"
        BY <2>1, FramesOK, StepSound DEF Sound
      <3> QED
        BY <3>1, <3>2 DEF Instr
    <2> QED
      BY <2>1
  <1>7. StackOK' /\ ForOK'
    <2>1. mode' \in Calling => Code[f.fn][f.pc].do = "parse"
      BY <1>2, <1>4
    <2>2. ~(f.fn = "for" /\ f.pc <= 2)
      BY <1>2, <1>4, <1>6
    <2> QED
      BY <1>1, <1>5, <2>1, <2>2, StepStack
  <1>8. NamesFrom(f)
    BY <1>2, <1>4 DEF NamesFrom
  <1>9. NamesApart'
    BY <1>8, StepNames
  <1>10. \A i : HeldAt(i)' <=> HeldAt(i)
    <2>1. \A i : In(f, i) <=> In(Top, i)
      BY <1>2, <1>4 DEF In
    <2> QED
      BY <2>1, HeldTop, HeldStep
  <1>11. FreedOK'
    <2>1. mode' # "ended"
      BY DEF NewMode
    <2> QED
      BY <1>10, <2>1, FreedStep DEF Ordinary
  <1> QED
    BY <1>1, <1>7, <1>9, <1>11 DEF IInv

(* An activation stays as it is.                                           *)
LEMMA IdleStep ==
  ASSUME IInv, stack # <<>>, Ordinary, mode # "ended", NewMode,
         mode # "run" \/ Instr.do \notin {"need", "look"},
         mode' \in Calling => Code[Top.fn][Top.pc].do = "parse", UNCHANGED stack
  PROVE  IInv'
  <1>1. Waits(Top)
    BY FramesOK DEF FrameOK, Waits
  <1>2. stack' = SetTop(Top)
    BY TopKept
  <1> QED
    BY <1>1, <1>2, StayStep

(* Every function begins with nothing in its hands.                        *)
LEMMA Starts == \A fn \in DOMAIN Code : 1 \in DOMAIN Code[fn] /\ Holds(fn, 1) = 0
  <1>1. \A fn \in DOMAIN Code : 1 \in DOMAIN Code[fn]
    BY DEF Code, Program, VarDeclaration, FuncDeclaration, ClassDeclaration, IfStatement,
      WhileStatement, ForStatement, ForeachStatement, ReturnStatement, BreakStatement,
      ContinueStatement, ImportStatement, ExportStatement, Block, ExpressionStatement,
      ParenExpression, ListLiteral, DictLiteral, Lambda, CallArguments, MemberAccess,
      IndexAccess, Ternary, Assignment, CompoundAssignment, UnaryOperator, BinaryOperator
  <1>2. \A fn \in DOMAIN Held : Held[fn][1] = 0
    BY DEF Held
  <1> QED
    BY <1>1, <1>2 DEF Holds

(* The parts of a new activation.                                          *)
LEMMA FrameIs ==
  ASSUME NEW fn, NEW start, NEW kids
  PROVE  /\ DOMAIN Frame(fn, start, kids) = {"fn", "pc", "start", "kids", "names", "want"}
         /\ Frame(fn, start, kids).fn = fn /\ Frame(fn, start, kids).pc = 1
         /\ Frame(fn, start, kids).start = start /\ Frame(fn, start, kids).names = <<>>
         /\ Frame(fn, start, kids).want = 1
  BY DEF Frame

(* A function that begins.                                                 *)
LEMMA BeginsOK ==
  ASSUME NEW fn \in DOMAIN Code, NEW start, start \in 0..cur', NEW kids,
         fn = "binary" => start # 0 /\ read'[start] \in Binary
  PROVE  FrameOK(Frame(fn, start, kids))'
  <1>1. PICK f : f = Frame(fn, start, kids)
    OBVIOUS
  <1>2. /\ DOMAIN f = {"fn", "pc", "start", "kids", "names", "want"}
        /\ f.fn = fn /\ f.pc = 1 /\ f.start = start /\ f.names = <<>> /\ f.want = 1
    BY <1>1, FrameIs
  <1>3. 1 \in DOMAIN Code[fn] /\ Holds(fn, 1) = 0
    BY Starts
  <1>4. f.names \in Seq(handed') /\ Len(f.names) = 0
    BY <1>2
  <1>5. FrameOK(f)'
    BY <1>2, <1>3, <1>4 DEF FrameOK, AssignmentLevel, UnaryLevel
  <1> QED
    BY <1>1, <1>5 DEF FrameOK

(* The innermost activation calls fn.                                      *)
LEMMA CallStep ==
  ASSUME IInv, stack # <<>>, Ordinary, mode # "ended", mode' = "run", lvl' = 1,
         NEW g, Waits(g), Code[Top.fn][Top.pc].do = "parse",
         NEW fn \in DOMAIN Code, NEW start, start \in 0..cur', NEW kids,
         fn = "binary" => start # 0 /\ read'[start] \in Binary,
         fn = "for" => cur' = Len(read') /\ start \in 1..cur' - 1 /\ read'[start] = "FOR",
         stack' = Append(SetTop(g), Frame(fn, start, kids))
  PROVE  IInv'
  <1>1. WindowOK' /\ Grows
    BY WindowStep DEF Ordinary
  <1>2. PICK h : h = Top
    OBVIOUS
  <1>3. FrameOK(h) /\ FrameOK(h)'
    <2>1. FrameOK(h)
      BY <1>2, FramesOK
    <2> QED
      BY <1>1, <2>1, FrameGrown DEF IInv
  <1>4. /\ DOMAIN g = DOMAIN h /\ g.want \in AssignmentLevel..UnaryLevel
        /\ g.fn = h.fn /\ g.pc = h.pc /\ g.start = h.start /\ g.names = h.names
    BY <1>2 DEF Waits
  <1>5. FrameOK(g)' /\ Code[g.fn][g.pc].do = "parse"
    BY <1>2, <1>3, <1>4 DEF FrameOK
  <1>6. PICK f : f = Frame(fn, start, kids)
    OBVIOUS
  <1>7. FrameOK(f)'
    <2>1. FrameOK(Frame(fn, start, kids))'
      BY BeginsOK
    <2> QED
      BY <1>6, <2>1 DEF FrameOK
  <1>8. f.fn = fn /\ f.start = start /\ f.names = <<>>
    BY <1>6, FrameIs
  <1>9. f.fn = "for" /\ f.pc <= 2 => ForStart(f)'
    BY <1>8 DEF ForStart
  <1>10. stack' = Append(SetTop(g), f)
    BY <1>6
  <1>11. StackOK' /\ ForOK'
    BY <1>1, <1>5, <1>7, <1>9, <1>10, CallStack
  <1>12. NamesApart' /\ \A i : HeldAt(i)' <=> HeldAt(i)
    BY <1>2, <1>4, <1>8, <1>10, CallNames
  <1>13. FreedOK'
    BY <1>12, FreedStep DEF Ordinary
  <1> QED
    BY <1>1, <1>11, <1>12, <1>13 DEF IInv

(* The level of a result is one of the grammar's.                          *)
LEMMA ResultLevelIs ==
  ASSUME IInv, stack # <<>>
  PROVE  ResultLevel \in AssignmentLevel..PrimaryLevel
  <1>1. Top.fn = "binary" => LevelOf(read[Top.start]) \in 1..12
    <2>1. Top.fn = "binary" => read[Top.start] \in Binary
      BY FramesOK DEF FrameOK
    <2> QED
      BY <2>1, BinaryLevel
  <1>2. CASE Top.fn = "binary"
    <2>1. PICK j \in 1..12 : j = LevelOf(read[Top.start])
      BY <1>1, <1>2
    <2>2. ResultLevel = j + 1
      BY <1>2, <2>1 DEF ResultLevel
    <2> QED
      BY <2>1, <2>2 DEF AssignmentLevel, PrimaryLevel
  <1>3. CASE Top.fn # "binary"
    BY <1>3 DEF ResultLevel, AssignmentLevel, TernaryLevel, UnaryLevel, PrimaryLevel
  <1> QED
    BY <1>2, <1>3

(* The innermost activation returns; it destroyed what it still held.      *)
LEMMA ReturnStep ==
  ASSUME IInv, stack # <<>>, mode = "run", NEW v, Return(v),
         UNCHANGED <<vocab, read, cur, prev, grace, handed, flags>>, stale' \subseteq handed,
         freed' \in Seq(Nat), Len(freed') = Len(read),
         NEW n, \A i \in 1..Len(read) : freed'[i] = IF i = n THEN freed[i] + 1 ELSE freed[i],
         n \in 1..Len(read) => n \in handed /\ In(Top, n) /\ ~Below(n),
         \A i : i # n => ~In(Top, i)
  PROVE  IInv'
  <1>1. WindowOK' /\ Grows
    <2>1. hadError' \in BOOLEAN /\ panic' \in BOOLEAN
      BY DEF IInv, WindowOK, flags
    <2> QED
      BY <2>1, WindowKept DEF IInv
  <1>2. /\ lvl' = ResultLevel /\ stack' = Front(stack)
        /\ mode' = IF Len(stack) = 1 THEN "done" ELSE "value"
    BY DEF Return
  <1>3. lvl' \in AssignmentLevel..PrimaryLevel
    BY <1>2, ResultLevelIs
  <1>4. StackOK' /\ ForOK'
    BY <1>1, <1>2, <1>3, ReturnStack
  <1>5. NamesApart' /\ \A i : HeldAt(i)' <=> Below(i)
    BY <1>2, ReturnNames
  <1>6. /\ n \in 1..Len(read) => n \in handed /\ HeldAt(n) /\ ~HeldAt(n)'
        /\ \A i : i # n => (HeldAt(i)' <=> HeldAt(i))
    BY <1>5, HeldTop
  <1>7. FreedOK'
    <2>1. mode # "ended" /\ mode' # "ended"
      BY <1>2
    <2> QED
      BY <1>6, <2>1, FreedOwned
  <1> QED
    BY <1>1, <1>4, <1>5, <1>7 DEF IInv

(* A return of an activation that holds nothing.                           *)
LEMMA PlainReturn ==
  ASSUME IInv, stack # <<>>, mode = "run", Len(Top.names) = 0, NEW v, Return(v),
         UNCHANGED <<vocab, window, handed, flags>>, stale' \subseteq handed
  PROVE  IInv'
  <1>1. \A i : ~In(Top, i)
    BY FramesOK, NamesHanded DEF In
  <1>2. /\ freed' \in Seq(Nat) /\ Len(freed') = Len(read) /\ 0 \notin 1..Len(read)
        /\ \A i \in 1..Len(read) : freed'[i] = freed[i]
    BY NumbersIs DEF IInv, WindowOK, window, Numbers
  <1>3. UNCHANGED <<vocab, read, cur, prev, grace, handed, flags>>
    BY DEF window
  <1> QED
    BY <1>1, <1>2, <1>3, ReturnStep

-----------------------------------------------------------------------------
(* The actions.                                                            *)

(* There is an activation until parse_program has returned.                *)
LEMMA Active ==
  ASSUME IInv, mode \notin {"done", "ended"}
  PROVE  stack # <<>>
  BY DEF IInv, StackOK

(* The step it is at is one of a sound table.                              *)
LEMMA InstrSound ==
  ASSUME IInv, stack # <<>>
  PROVE  /\ Sound(Top.fn, Top.pc, Instr, Len(Top.names))
         /\ Instr = Code[Top.fn][Top.pc] /\ Len(Top.names) \in Nat
  <1>1. FrameOK(Top)
    BY FramesOK
  <1> QED
    BY <1>1, StepSound, NamesHanded DEF Instr

(* Something is read after it was destroyed only if an owner destroyed it. *)
LEMMA StalePrev ==
  ASSUME IInv, mode # "ended", IsStale(prev)
  PROVE  prev \in handed
  <1>1. prev \in 1..Len(read) /\ freed[prev] > 0
    BY NumbersIs DEF IInv, Numbers, IsStale
  <1>2. FreedAt(prev)
    BY <1>1, FreedAll DEF IInv
  <1>3. ByOwner(prev) # 0
    BY <1>1, <1>2 DEF FreedAt
  <1> QED
    BY <1>3 DEF ByOwner, Spent

(* Parts of the invariant that every action keeps.                         *)
LEMMA TypedFlags ==
  ASSUME IInv
  PROVE  /\ hadError \in BOOLEAN /\ panic \in BOOLEAN /\ stale \subseteq handed
         /\ lvl \in AssignmentLevel..PrimaryLevel /\ vocab \in Vocabularies
  BY DEF IInv, WindowOK, StackOK

(* parser_consume advances the window or leaves it.                        *)
LEMMA ConsumeIs ==
  ASSUME IInv, NEW T, Consume(T)
  PROVE  /\ Advance \/ UNCHANGED window
         /\ hadError' \in BOOLEAN /\ panic' \in BOOLEAN
  BY TypedFlags DEF Consume, flags

(* parser_consume, its result not used.                                    *)
LEMMA NeedTokenStep ==
  ASSUME IInv, NeedToken
  PROVE  IInv'
  <1>1. mode = "run" /\ stack # <<>> /\ Instr.do = "need" /\ Consume({Instr.arg})
        /\ stack' = SetTop(Moved(Top.pc + 1)) /\ vocab' = vocab /\ handed' = handed
        /\ stale' = stale /\ mode' = mode /\ lvl' = lvl
    BY Active DEF NeedToken, At, GoTo, Hop, result
  <1>2. To(Top.fn, Top.pc, Top.pc + 1, Len(Top.names))
    BY <1>1, InstrSound DEF Sound
  <1>3. Follows(Moved(Top.pc + 1), Top.pc + 1)
    BY <1>1, MovedFollows
  <1>4. Ordinary
    BY <1>1, ConsumeIs, TypedFlags DEF Ordinary
  <1> QED
    BY <1>1, <1>2, <1>3, <1>4, TypedFlags, MoveStep

(* parser_match.                                                           *)
LEMMA MatchTokenStep ==
  ASSUME IInv, MatchToken
  PROVE  IInv'
  <1>1. mode = "run" /\ stack # <<>> /\ Instr.do = "match" /\ (Advance \/ UNCHANGED window)
        /\ vocab' = vocab /\ handed' = handed /\ stale' = stale /\ mode' = mode /\ lvl' = lvl
        /\ hadError' = hadError /\ panic' = panic
    BY Active DEF MatchToken, At, flags, result
  <1>2. PICK l : /\ l \in {HopTo(Top.pc, Instr.hit), HopTo(Top.pc, Instr.miss)}
                 /\ stack' = SetTop(Moved(l))
    BY DEF MatchToken, GoTo, Hop, HopTo
  <1>3. To(Top.fn, Top.pc, l, Len(Top.names))
    BY <1>1, <1>2, InstrSound DEF Sound
  <1>4. Follows(Moved(l), l)
    BY <1>1, MovedFollows
  <1>5. Ordinary
    BY <1>1, TypedFlags DEF Ordinary
  <1> QED
    BY <1>1, <1>2, <1>3, <1>4, <1>5, TypedFlags, MoveStep

(* parser_check.                                                           *)
LEMMA CheckTokenStep ==
  ASSUME IInv, CheckToken
  PROVE  IInv'
  <1>1. mode = "run" /\ stack # <<>> /\ Instr.do \in {"check", "goto", "optional"}
        /\ UNCHANGED window
        /\ vocab' = vocab /\ handed' = handed /\ stale' = stale /\ mode' = mode /\ lvl' = lvl
        /\ hadError' = hadError /\ panic' = panic
    BY Active DEF CheckToken, At, flags, result
  <1>2. PICK l, k : /\ l \in {Top.pc + 1, Instr.hit} /\ (Instr.do = "goto" => l = Instr.hit)
                    /\ \/ stack' = SetTop(Moved(l))
                       \/ stack' = SetTop([Moved(l) EXCEPT !.kids = k])
    BY DEF CheckToken, At, GoTo, Hop
  <1>3. To(Top.fn, Top.pc, l, Len(Top.names))
    BY <1>1, <1>2, InstrSound DEF Sound
  <1>4. Follows(Moved(l), l) /\ Follows([Moved(l) EXCEPT !.kids = k], l)
    BY <1>1, MovedFollows
  <1>5. PICK f : stack' = SetTop(f) /\ Follows(f, l)
    BY <1>2, <1>4
  <1>6. Ordinary
    BY <1>1, TypedFlags DEF Ordinary
  <1> QED
    BY <1>1, <1>3, <1>5, <1>6, TypedFlags, MoveStep

(* The result of a call.                                                   *)
LEMMA DeliverStep ==
  ASSUME IInv, Deliver
  PROVE  IInv'
  <1>1. mode = "value" /\ stack # <<>> /\ UNCHANGED window
        /\ vocab' = vocab /\ handed' = handed /\ stale' = stale /\ mode' = "run" /\ lvl' = 1
        /\ hadError' = hadError /\ panic' = panic
    BY Active DEF Deliver, flags, Running
  <1>2. PICK k : stack' = SetTop([Moved(Top.pc + 1) EXCEPT !.kids = k])
    BY DEF Deliver, Hop
  <1>3. Instr.do = "parse"
    <2>1. Top = stack[Len(stack)] /\ Len(stack) \in DOMAIN stack
      BY <1>1, TopIs
    <2> QED
      BY <1>1, <2>1 DEF IInv, StackOK, Calling, Instr
  <1>4. To(Top.fn, Top.pc, Top.pc + 1, Len(Top.names))
    BY <1>1, <1>3, InstrSound DEF Sound
  <1>5. Follows([Moved(Top.pc + 1) EXCEPT !.kids = k], Top.pc + 1)
    BY <1>1, MovedFollows
  <1>6. Ordinary /\ lvl' \in AssignmentLevel..PrimaryLevel
    BY <1>1, TypedFlags DEF Ordinary, AssignmentLevel, PrimaryLevel
  <1> QED
    BY <1>1, <1>2, <1>4, <1>5, <1>6, MoveStep

(* The end of a round of a statement loop.                                 *)
LEMMA EndRoundStep ==
  ASSUME IInv, EndRound
  PROVE  IInv'
  <1>1. mode = "run" /\ stack # <<>> /\ Instr.do = "round" /\ UNCHANGED window
        /\ vocab' = vocab /\ handed' = handed /\ stale' = stale /\ lvl' = lvl
        /\ mode' \in {"run", "synchronize"} /\ hadError' = hadError /\ panic' = FALSE
    BY Active DEF EndRound, At
  <1>2. PICK k : stack' = SetTop([Moved(Instr.hit) EXCEPT !.kids = k])
    BY DEF EndRound
  <1>3. /\ To(Top.fn, Top.pc, Instr.hit, Len(Top.names))
        /\ ~(Top.fn = "for" /\ Top.pc <= 2)
    BY <1>1, InstrSound DEF Sound
  <1>4. Follows([Moved(Instr.hit) EXCEPT !.kids = k], Instr.hit)
    BY <1>1, MovedFollows
  <1>5. Ordinary
    BY <1>1, TypedFlags DEF Ordinary
  <1> QED
    BY <1>1, <1>2, <1>3, <1>4, <1>5, TypedFlags, MoveStep

(* parser_synchronize.                                                     *)
LEMMA SynchronizeStep ==
  ASSUME IInv, Synchronize
  PROVE  IInv'
  <1>1. mode = "synchronize" /\ stack # <<>> /\ (Advance \/ UNCHANGED window)
        /\ vocab' = vocab /\ handed' = handed /\ UNCHANGED stack /\ lvl' = lvl
        /\ mode' \in {"run", "synchronize"} /\ hadError' = hadError /\ panic' = panic
    BY Active DEF Synchronize, flags
  <1>2. stale' \subseteq handed
    BY <1>1, StalePrev, TypedFlags DEF Synchronize
  <1>3. Ordinary
    BY <1>1, <1>2, TypedFlags DEF Ordinary
  <1>4. NewMode /\ mode' \notin Calling
    BY <1>1, TypedFlags DEF NewMode, Modes, Calling
  <1> QED
    BY <1>1, <1>3, <1>4, IdleStep

(* An activation that waits for a value is at a call.                      *)
LEMMA AtCall ==
  ASSUME IInv, mode \in Calling
  PROVE  /\ stack # <<>> /\ Code[Top.fn][Top.pc].do = "parse" /\ Instr.do = "parse"
         /\ Waits(Top) /\ SetTop(Top) = stack
  <1>1. stack # <<>>
    BY Active DEF Calling
  <1>2. Top = stack[Len(stack)] /\ Len(stack) \in DOMAIN stack
    BY <1>1, TopIs
  <1>3. Code[Top.fn][Top.pc].do = "parse"
    BY <1>2 DEF IInv, StackOK
  <1>4. Waits(Top)
    BY <1>1, FramesOK DEF FrameOK, Waits
  <1> QED
    BY <1>1, <1>3, <1>4, TopKept DEF Instr

(* The level that a call asks for.                                         *)
LEMMA CallLevel ==
  ASSUME IInv, stack # <<>>, Instr.do = "parse"
  PROVE  (CASE Instr.arg = "ternary" -> TernaryLevel
            [] Instr.arg = "unary" -> UnaryLevel
            [] Instr.arg = "same" -> LevelOf(read[Top.start])
            [] Instr.arg = "tighter" -> LevelOf(read[Top.start]) + 1
            [] OTHER -> AssignmentLevel) \in AssignmentLevel..UnaryLevel
  <1>1. Instr.arg # "same" /\ (Instr.arg = "tighter" => Top.fn = "binary")
    BY InstrSound DEF Sound
  <1>2. Instr.arg = "tighter" => LevelOf(read[Top.start]) \in 1..12
    <2>1. Top.fn = "binary" => read[Top.start] \in Binary
      BY FramesOK DEF FrameOK
    <2> QED
      BY <1>1, <2>1, BinaryLevel
  <1>3. CASE Instr.arg = "tighter"
    <2>1. PICK j \in 1..12 : j = LevelOf(read[Top.start])
      BY <1>2, <1>3
    <2>2. j + 1 \in AssignmentLevel..UnaryLevel
      BY DEF AssignmentLevel, UnaryLevel
    <2> QED
      BY <1>3, <2>1, <2>2
  <1>4. CASE Instr.arg # "tighter"
    BY <1>1, <1>4 DEF AssignmentLevel, TernaryLevel, UnaryLevel
  <1> QED
    BY <1>3, <1>4

(* A caller that asks for a level waits where it is.                       *)
LEMMA WantWaits ==
  ASSUME IInv, stack # <<>>, NEW w \in AssignmentLevel..UnaryLevel
  PROVE  Waits([Top EXCEPT !.want = w])
  <1>1. DOMAIN Top = {"fn", "pc", "start", "kids", "names", "want"}
    BY FramesOK DEF FrameOK
  <1> QED
    BY <1>1 DEF Waits

(* A call.                                                                 *)
LEMMA ParsePartStep ==
  ASSUME IInv, ParsePart
  PROVE  IInv'
  <1>1. mode = "run" /\ stack # <<>> /\ Instr.do = "parse" /\ UNCHANGED window
        /\ vocab' = vocab /\ handed' = handed /\ hadError' = hadError /\ panic' = panic
    BY Active DEF ParsePart, At, flags
  <1>2. PICK w : w = CASE Instr.arg = "ternary" -> TernaryLevel
                       [] Instr.arg = "unary" -> UnaryLevel
                       [] Instr.arg = "same" -> LevelOf(read[Top.start])
                       [] Instr.arg = "tighter" -> LevelOf(read[Top.start]) + 1
                       [] OTHER -> AssignmentLevel
    OBVIOUS
  <1>3. w \in AssignmentLevel..UnaryLevel
    BY <1>1, <1>2, CallLevel
  <1>4. PICK g : g = [Top EXCEPT !.want = w]
    OBVIOUS
  <1>5. Waits(g)
    BY <1>1, <1>3, <1>4, WantWaits
  <1>6. Code[Top.fn][Top.pc].do = "parse"
    BY <1>1 DEF Instr
  <1>7. IF Instr.arg = "block"
        THEN /\ stack' = Append(SetTop(g), Frame("block", prev, <<>>))
             /\ stale' = stale \cup IF IsStale(prev) THEN {prev} ELSE {}
             /\ Running
        ELSE /\ stack' = SetTop(g)
             /\ mode' = IF Instr.arg \in {"declaration", "statement"} THEN Instr.arg ELSE "operand"
             /\ UNCHANGED <<stale, val, lvl>>
    BY <1>2, <1>4 DEF ParsePart, Push
  <1>8. CASE Instr.arg = "block"
    <2>1. stale' \subseteq handed
      BY <1>1, <1>7, <1>8, StalePrev, TypedFlags
    <2>2. Ordinary
      BY <1>1, <2>1, TypedFlags DEF Ordinary
    <2>3. prev \in 0..cur'
      BY <1>1, NumbersIs DEF IInv, Numbers, window
    <2>4. "block" \in DOMAIN Code
      BY Functions
    <2>5. /\ mode # "ended" /\ mode' = "run" /\ lvl' = 1
          /\ stack' = Append(SetTop(g), Frame("block", prev, <<>>))
      BY <1>1, <1>7, <1>8 DEF Running
    <2> QED
      BY <1>1, <1>5, <1>6, <2>2, <2>3, <2>4, <2>5, CallStep
  <1>9. CASE Instr.arg # "block"
    <2>1. /\ stack' = SetTop(g) /\ mode' \in {"declaration", "statement", "operand"}
          /\ stale' = stale /\ lvl' = lvl
      BY <1>7, <1>9
    <2>2. Ordinary
      BY <1>1, <2>1, TypedFlags DEF Ordinary
    <2>3. NewMode
      BY <2>1, TypedFlags DEF NewMode, Modes
    <2> QED
      BY <1>1, <1>5, <1>6, <2>1, <2>2, <2>3, StayStep
  <1> QED
    BY <1>8, <1>9

(* What a call starts with begins a function, at the token it starts with. *)
LEMMA BeginStep ==
  ASSUME IInv, mode \in Calling, Advance \/ UNCHANGED window,
         UNCHANGED <<vocab, handed, stale, flags>>, Running,
         NEW fn \in DOMAIN Code, NEW kids, Push(stack, Frame(fn, cur, kids)),
         fn = "binary" => Current \in Binary,
         fn = "for" => Advance /\ Current = "FOR"
  PROVE  IInv'
  <1>1. Ordinary
    BY TypedFlags DEF Ordinary, flags
  <1>2. WindowOK' /\ Grows
    BY <1>1, WindowStep DEF Ordinary
  <1>3. cur \in 1..Len(read) /\ read'[cur] = read[cur] /\ cur \in 0..cur' /\ cur # 0
    <2>1. cur \in 1..Len(read) /\ cur \in Nat \ {0}
      BY NumbersIs DEF IInv, Numbers
    <2>2. cur' \in Nat /\ cur <= cur'
      BY <1>2 DEF WindowOK, Grows
    <2> QED
      BY <1>2, <2>1, <2>2 DEF Grows
  <1>4. fn = "for" => /\ cur' = Len(read') /\ cur \in 1..cur' - 1 /\ read'[cur] = "FOR"
    <2>1. ASSUME Advance
          PROVE  cur' = Len(read') /\ cur \in 1..cur' - 1
      <3>1. PICK n \in Nat : n = Len(read) /\ Len(read') = n + 1 /\ cur' = n + 1
        BY <2>1, AdvanceIs, NumbersIs DEF IInv, Numbers
      <3> QED
        BY <1>3, <3>1
    <2> QED
      BY <1>3, <2>1 DEF Current
  <1>5. fn = "binary" => cur # 0 /\ read'[cur] \in Binary
    BY <1>3 DEF Current
  <1>6. /\ stack # <<>> /\ Waits(Top) /\ Code[Top.fn][Top.pc].do = "parse"
        /\ stack' = Append(SetTop(Top), Frame(fn, cur, kids))
    BY AtCall DEF Push
  <1>7. mode # "ended" /\ mode' = "run" /\ lvl' = 1
    BY DEF Calling, Running
  <1> QED
    BY <1>1, <1>3, <1>4, <1>5, <1>6, <1>7, CallStep

(* What the keywords of declarations start.                                *)
LEMMA DeclarationsAre ==
  ASSUME NEW t \in DOMAIN Declarations
  PROVE  Declarations[t] \in DOMAIN Code \ {"binary", "for"}
  <1>1. DOMAIN Declarations = {"VAR", "CONST", "FUNC", "CLASS", "IMPORT", "EXPORT"}
    BY DEF Declarations
  <1>2. Declarations[t] \in {"var", "func", "class", "import", "export"}
    BY <1>1 DEF Declarations
  <1> QED
    BY <1>2, Functions

(* What those of statements start; FOR alone starts parse_for.             *)
LEMMA StatementsAre ==
  ASSUME NEW t \in DOMAIN Statements
  PROVE  /\ Statements[t] \in DOMAIN Code \ {"binary"}
         /\ Statements[t] = "for" => t = "FOR"
  <1>1. DOMAIN Statements = {"IF", "WHILE", "FOR", "RETURN", "BREAK", "CONTINUE", "LBRACE"}
    BY DEF Statements
  <1>2. /\ Statements[t] \in {"if", "while", "for", "return", "break", "continue", "block"}
        /\ Statements[t] = "for" => t = "FOR"
    BY <1>1 DEF Statements
  <1> QED
    BY <1>2, Functions

(* What brackets and the lambda keyword start.                             *)
LEMMA PrimariesAre ==
  ASSUME NEW t \in DOMAIN Primaries
  PROVE  Primaries[t] \in DOMAIN Code \ {"binary", "for"}
  <1>1. DOMAIN Primaries = {"LPAREN", "LBRACKET", "LBRACE", "FUNC"}
    BY DEF Primaries
  <1>2. Primaries[t] \in {"paren", "list", "dict", "lambda"}
    BY <1>1 DEF Primaries
  <1> QED
    BY <1>2, Functions

(* parse_declaration and parse_statement.                                  *)
LEMMA ParseStatementStep ==
  ASSUME IInv, ParseStatement
  PROVE  IInv'
  <1>1. mode \in Calling /\ Running /\ UNCHANGED <<vocab, handed, stale, flags>>
    BY DEF ParseStatement, Calling
  <1>2. CASE Current \in DOMAIN Declarations /\ Advance
             /\ Push(stack, Frame(Declarations[Current], cur, <<>>))
    BY <1>1, <1>2, DeclarationsAre, BeginStep
  <1>3. CASE Current \in DOMAIN Statements /\ Advance
             /\ Push(stack, Frame(Statements[Current], cur, <<>>))
    BY <1>1, <1>3, StatementsAre, BeginStep
  <1>4. CASE Push(stack, Frame("statement", cur, <<>>)) /\ UNCHANGED window
    BY <1>1, <1>4, Functions, BeginStep
  <1> QED
    BY <1>2, <1>3, <1>4 DEF ParseStatement

(* parse_unary and parse_primary.                                          *)
LEMMA ParseOperandStep ==
  ASSUME IInv, ParseOperand
  PROVE  IInv'
  <1>1. mode = "operand" /\ mode \in Calling /\ UNCHANGED <<vocab, handed, stale>>
    BY DEF ParseOperand, Calling
  <1>2. CASE Advance /\ Push(stack, Frame("unary", cur, <<>>)) /\ Running /\ UNCHANGED flags
    BY <1>1, <1>2, Functions, BeginStep
  <1>3. CASE /\ mode' = "value" /\ lvl' = PrimaryLevel /\ UNCHANGED stack
             /\ \/ Advance /\ UNCHANGED flags
                \/ hadError' = TRUE /\ UNCHANGED <<window, panic>>
    <2>1. Ordinary
      BY <1>1, <1>3, TypedFlags DEF Ordinary, flags
    <2>2. NewMode /\ stack # <<>> /\ Code[Top.fn][Top.pc].do = "parse"
      BY <1>1, <1>3, AtCall DEF NewMode, Modes, AssignmentLevel, PrimaryLevel
    <2> QED
      BY <1>1, <1>3, <2>1, <2>2, IdleStep
  <1>4. CASE /\ Check(DOMAIN Primaries) /\ Advance
             /\ Push(stack, Frame(Primaries[Current], cur, <<>>)) /\ Running /\ UNCHANGED flags
    BY <1>1, <1>4, PrimariesAre, BeginStep DEF Check
  <1> QED
    BY <1>2, <1>3, <1>4 DEF ParseOperand

(* parse_postfix.                                                          *)
LEMMA ParsePostfixStep ==
  ASSUME IInv, ParsePostfix
  PROVE  IInv'
  <1>1. mode = "value" /\ mode \in Calling /\ Advance
        /\ UNCHANGED <<vocab, handed, stale, flags>>
    BY DEF ParsePostfix, Calling
  <1>2. CASE \E fn \in {"call", "member", "index"} :
               Push(stack, Frame(fn, cur, <<val>>)) /\ Running
    <2>1. PICK fn \in {"call", "member", "index"} :
            Push(stack, Frame(fn, cur, <<val>>)) /\ Running
      BY <1>2
    <2> QED
      BY <1>1, <2>1, Functions, BeginStep
  <1>3. CASE UNCHANGED stack /\ (Crashes \/ UNCHANGED <<mode, lvl>>)
    <2>1. Ordinary
      BY <1>1, TypedFlags DEF Ordinary, flags
    <2>2. NewMode
      <3>1. 1 \in AssignmentLevel..PrimaryLevel
        BY DEF AssignmentLevel, PrimaryLevel
      <3> QED
        BY <1>1, <1>3, <3>1, TypedFlags DEF NewMode, Modes, Crashes
    <2>3. stack # <<>> /\ Code[Top.fn][Top.pc].do = "parse"
      BY <1>1, AtCall
    <2> QED
      BY <1>1, <1>3, <2>1, <2>2, <2>3, IdleStep
  <1> QED
    BY <1>2, <1>3 DEF ParsePostfix

(* The loops of the levels of the grammar.                                 *)
LEMMA ParseOperatorStep ==
  ASSUME IInv, ParseOperator
  PROVE  IInv'
  <1>1. /\ mode \in Calling /\ Applies /\ Advance /\ Running
        /\ UNCHANGED <<vocab, handed, stale, flags>>
    BY DEF ParseOperator, Calling
  <1>2. PICK fn : /\ fn = CASE Current = "ASSIGN" -> "assign"
                            [] Current \in Compound -> "compound"
                            [] Current = "QUESTION" -> "ternary"
                            [] OTHER -> "binary"
                  /\ Push(stack, Frame(fn, cur, <<val>>))
    BY DEF ParseOperator
  <1>3. /\ fn \in {"assign", "compound", "ternary", "binary"}
        /\ fn = "binary" => Current \notin {"ASSIGN", "QUESTION"} \cup Compound
    BY <1>2
  <1>4. fn = "binary" => Current \in Binary
    <2>1. PICK j \in Top.want .. lvl - 1 : Current \in Operators[j]
      BY <1>1 DEF Applies, Check
    <2>2. j \in 1..13
      <3>1. Top.want \in 1..13 /\ lvl \in 1..14
        BY <1>1, AtCall, FramesOK, TypedFlags
          DEF FrameOK, AssignmentLevel, UnaryLevel, PrimaryLevel
      <3> QED
        BY <2>1, <3>1
    <2> QED
      BY <1>3, <2>1, <2>2, BinaryOperators
  <1> QED
    BY <1>1, <1>2, <1>3, <1>4, Functions, BeginStep

(* The end of a function.                                                  *)
LEMMA BuildNodeStep ==
  ASSUME IInv, BuildNode
  PROVE  IInv'
  <1>1. mode = "run" /\ stack # <<>>
    BY Active DEF BuildNode, At
  <1>2. Instr.do \in {"make", "makeAt", "makeUnary", "give", "fail"} => Len(Top.names) = 0
    BY <1>1, InstrSound DEF Sound
  <1>3. CASE /\ Instr.do \in {"make", "makeAt", "makeUnary", "give", "fail"}
             /\ \E v : Return(v)
             /\ UNCHANGED <<vocab, window, handed, flags>>
             /\ stale' = stale \cup IF Instr.do = "makeUnary" /\ IsStale(prev) THEN {prev} ELSE {}
    <2>1. stale' \subseteq handed
      BY <1>1, <1>3, StalePrev, TypedFlags
    <2> QED
      BY <1>1, <1>2, <1>3, <2>1, PlainReturn
  <1>4. CASE /\ At("makeAt") /\ Crashes
             /\ UNCHANGED <<vocab, window, handed, stale, flags, stack>>
    <2>1. Ordinary
      BY <1>4, TypedFlags DEF Ordinary, flags
    <2>2. NewMode /\ mode' \notin Calling
      <3>1. 1 \in AssignmentLevel..PrimaryLevel
        BY DEF AssignmentLevel, PrimaryLevel
      <3> QED
        BY <1>4, <3>1 DEF NewMode, Modes, Crashes, Calling
    <2>3. Instr.do \notin {"need", "look"}
      BY <1>4 DEF At
    <2> QED
      BY <1>1, <1>4, <2>1, <2>2, <2>3, IdleStep
  <1>5. CASE At("makeNamed")
    <2>1. /\ \E v : Return(v)
          /\ stale' = stale \cup IF IsStale(Name) THEN {Name} ELSE {}
          /\ freed' = Destroy(freed, Name)
          /\ UNCHANGED <<vocab, read, cur, prev, grace, handed, flags>>
      BY <1>5 DEF BuildNode, At
    <2>2. Len(Top.names) = 1
      BY <1>1, <1>5, InstrSound DEF Sound, At
    <2>3. Name \in handed /\ In(Top, Name) /\ ~Below(Name) /\ Name = Top.names[1]
      BY <1>1, <2>2, NameAlone
    <2>4. \A i : i # Name => ~In(Top, i)
      <3>1. DOMAIN Top.names = 1..1
        BY <1>1, <2>2, FramesOK, NamesHanded
      <3> QED
        BY <2>3, <3>1 DEF In
    <2>5. Name \in 0..Len(read)
      BY <2>3, NumbersIs DEF IInv, Numbers
    <2>6. /\ freed' \in Seq(Nat) /\ Len(freed') = Len(read)
          /\ \A i \in 1..Len(read) : freed'[i] = IF i = Name THEN freed[i] + 1 ELSE freed[i]
      <3>1. freed \in Seq(Nat) /\ Len(freed) = Len(read)
        BY DEF IInv, WindowOK
      <3> QED
        BY <2>1, <2>5, <3>1, DestroyIs DEF IInv
    <2>7. stale' \subseteq handed
      BY <2>1, <2>3, TypedFlags
    <2>8. PICK n : n = Name
      OBVIOUS
    <2> QED
      BY <1>1, <2>1, <2>3, <2>4, <2>6, <2>7, <2>8, ReturnStep
  <1>6. \/ At("make") \/ At("makeAt") \/ At("makeUnary") \/ At("give") \/ At("fail")
        \/ At("makeNamed")
    BY DEF BuildNode
  <1> QED
    <2>1. CASE /\ At("make") \/ (At("makeAt") /\ Top.kids[1] # Null)
               /\ Return(Build(Instr.arg))
               /\ UNCHANGED <<vocab, window, handed, stale, flags>>
      BY <1>3, <2>1 DEF At
    <2>2. CASE At("makeUnary") /\ ~At("makeNamed")
      <3>1. /\ Return(Build(Instr.arg))
            /\ stale' = stale \cup IF IsStale(prev) THEN {prev} ELSE {}
            /\ UNCHANGED <<vocab, window, handed, flags>>
        BY <2>2 DEF BuildNode, At
      <3> QED
        BY <1>3, <2>2, <3>1 DEF At
    <2>3. CASE /\ At("give") \/ At("fail")
               /\ Return(IF Instr.do = "give" THEN Top.kids[1] ELSE Null)
               /\ UNCHANGED <<vocab, window, handed, stale, flags>>
      BY <1>3, <2>3 DEF At
    <2> QED
      BY <1>4, <1>5, <2>1, <2>2, <2>3 DEF BuildNode, At

(* parser_consume, its result taken: it is the caller's to destroy.        *)
LEMMA TakeTokenStep ==
  ASSUME IInv, TakeToken
  PROVE  IInv'
  <1>1. mode = "run" /\ stack # <<>> /\ Instr.do = "take" /\ Consume({Instr.arg})
        /\ vocab' = vocab /\ stale' = stale
    BY Active DEF TakeToken, At
  <1>2. /\ To(Top.fn, Top.pc, Top.pc + 1, Len(Top.names) + 1)
        /\ Instr.miss # Crash => To(Top.fn, Top.pc, Instr.miss, Len(Top.names))
        /\ ~(Top.fn = "for" /\ Top.pc <= 2)
    BY <1>1, InstrSound DEF Sound
  <1>3. CASE ~Check({Instr.arg}) /\ Instr.miss = Crash
    <2>1. Crashes /\ UNCHANGED <<handed, stack>>
      BY <1>3 DEF TakeToken
    <2>2. Ordinary
      BY <1>1, <2>1, ConsumeIs, TypedFlags DEF Ordinary
    <2>3. NewMode /\ mode' \notin Calling
      <3>1. 1 \in AssignmentLevel..PrimaryLevel
        BY DEF AssignmentLevel, PrimaryLevel
      <3> QED
        BY <2>1, <3>1 DEF NewMode, Modes, Crashes, Calling
    <2> QED
      BY <1>1, <2>1, <2>2, <2>3, IdleStep
  <1>4. CASE ~Check({Instr.arg}) /\ Instr.miss # Crash
    <2>1. /\ stack' = SetTop(Moved(Instr.miss)) /\ handed' = handed
          /\ mode' = mode /\ lvl' = lvl
      BY <1>4 DEF TakeToken, GoTo, result
    <2>2. Ordinary
      BY <1>1, <2>1, ConsumeIs, TypedFlags DEF Ordinary
    <2>3. Follows(Moved(Instr.miss), Instr.miss)
      BY <1>1, MovedFollows
    <2> QED
      BY <1>1, <1>2, <1>4, <2>1, <2>2, <2>3, TypedFlags, MoveStep
  <1>5. CASE Check({Instr.arg})
    <2>1. /\ Advance /\ hadError' = hadError /\ panic' = panic
          /\ handed' = handed \cup {cur} /\ mode' = mode /\ lvl' = lvl
      BY <1>1, <1>5 DEF TakeToken, Consume, flags, result
    <2>2. PICK l, f : /\ l = Top.pc + 1
                      /\ f = [Moved(l) EXCEPT !.names = Append(Top.names, cur)]
                      /\ stack' = SetTop(f)
      BY <1>5 DEF TakeToken, Hop, Moved
    <2>3. WindowOK' /\ Grows
      <3>1. hadError' \in BOOLEAN /\ panic' \in BOOLEAN /\ stale' \subseteq handed'
        BY <1>1, <2>1, TypedFlags
      <3> QED
        BY <1>1, <2>1, <3>1, WindowAdvanced DEF IInv
    <2>4. PICK g : g = Top
      OBVIOUS
    <2>5. FrameOK(g) /\ FrameOK(g)'
      <3>1. FrameOK(g)
        BY <1>1, <2>4, FramesOK
      <3> QED
        BY <2>3, <3>1, FrameGrown DEF IInv
    <2>6. /\ DOMAIN f = DOMAIN g /\ f.fn = g.fn /\ f.pc = l /\ f.start = g.start
          /\ f.want = g.want /\ f.names = Append(g.names, cur)
      BY <2>2, <2>4, <2>5 DEF Moved, FrameOK
    <2>7. PICK m \in Nat : m = Len(g.names) /\ DOMAIN g.names = 1..m
      BY <2>5, NamesHanded
    <2>8. /\ f.names \in Seq(handed') /\ Len(f.names) = m + 1
          /\ DOMAIN f.names = 1..m + 1 /\ f.names[m + 1] = cur
          /\ \A k \in 1..m : f.names[k] = g.names[k]
      <3>1. g.names \in Seq(handed') /\ cur \in handed'
        BY <2>1, <2>5 DEF FrameOK
      <3>2. Append(g.names, cur) \in Seq(handed')
        BY <3>1, AppendProperties
      <3> QED
        BY <2>6, <2>7, <3>1, <3>2, AppendProperties, LenProperties
    <2>9. l \in DOMAIN Code[g.fn] /\ Holds(g.fn, l) = m + 1 /\ ~(g.fn = "for" /\ l <= 2)
      <3>1. To(g.fn, g.pc, l, m + 1) /\ ~(g.fn = "for" /\ g.pc <= 2)
        BY <1>2, <2>2, <2>4, <2>7
      <3> QED
        BY <3>1 DEF To
    <2>10. FrameOK(f)'
      BY <2>5, <2>6, <2>8, <2>9 DEF FrameOK
    <2>11. NewMode /\ mode' \notin Calling /\ mode # "ended" /\ mode' # "ended"
      BY <1>1, <2>1, TypedFlags DEF NewMode, Modes, Calling
    <2>12. StackOK' /\ ForOK'
      BY <1>1, <2>2, <2>3, <2>6, <2>9, <2>10, <2>11, StepStack
    <2>13. NamesFrom(f)
      BY <2>4, <2>7, <2>8 DEF NamesFrom
    <2>14. NamesApart'
      BY <1>1, <2>2, <2>13, StepNames
    <2>15. \A i : In(f, i) <=> In(Top, i) \/ i = cur
      <3>1. \A k : k \in 1..m + 1 <=> k \in 1..m \/ k = m + 1
        OBVIOUS
      <3> QED
        BY <2>4, <2>7, <2>8, <3>1 DEF In
    <2>16. \A i : HeldAt(i)' <=> HeldAt(i) \/ i = cur
      BY <1>1, <2>2, <2>15, HeldTop, HeldStep
    <2>17. FreedOK'
      BY <1>1, <2>1, <2>11, <2>16, FreedAdvanced
    <2> QED
      BY <2>3, <2>12, <2>14, <2>17 DEF IInv
  <1> QED
    BY <1>3, <1>4, <1>5

(* A name that was taken is copied, or destroyed.                          *)
LEMMA UseNameStep ==
  ASSUME IInv, UseName
  PROVE  IInv'
  <1>1. mode = "run" /\ stack # <<>> /\ Instr.do \in {"copy", "drop", "spend"}
        /\ UNCHANGED <<vocab, read, cur, prev, grace, handed, stale, flags, result>>
    BY Active DEF UseName
  <1>2. PICK l, k, f :
          /\ l = Top.pc + 1
          /\ f = [Moved(l) EXCEPT !.kids = k,
                   !.names = IF Instr.do = "copy" THEN @ ELSE Front(@)]
          /\ stack' = SetTop(f)
    <2>1. stack' = SetTop([Moved(Top.pc + 1) EXCEPT
            !.kids = IF Instr.do = "drop" THEN @ ELSE Append(@, Leaf("name", Name)),
            !.names = IF Instr.do = "copy" THEN @ ELSE Front(@)])
      BY DEF UseName, Hop
    <2> QED
      BY <2>1
  <1>3. /\ Len(Top.names) \in Nat \ {0}
        /\ To(Top.fn, Top.pc, l, IF Instr.do = "copy" THEN Len(Top.names)
                                 ELSE Len(Top.names) - 1)
        /\ ~(Top.fn = "for" /\ Top.pc <= 2)
    <2>1. Len(Top.names) > 0 /\ Len(Top.names) \in Nat
      BY <1>1, InstrSound DEF Sound
    <2> QED
      BY <1>1, <1>2, <2>1, InstrSound DEF Sound
  <1>4. PICK g : g = Top
    OBVIOUS
  <1>5. FrameOK(g)
    BY <1>1, <1>4, FramesOK
  <1>6. /\ DOMAIN f = DOMAIN g /\ f.fn = g.fn /\ f.pc = l /\ f.start = g.start
        /\ f.want = g.want
        /\ f.names = IF Instr.do = "copy" THEN g.names ELSE Front(g.names)
    BY <1>2, <1>4, <1>5 DEF Moved, FrameOK
  <1>7. CASE Instr.do = "copy"
    <2>1. UNCHANGED window /\ Ordinary
      BY <1>1, <1>7, TypedFlags DEF UseName, Ordinary, window, flags
    <2>2. Follows(f, l)
      BY <1>4, <1>6, <1>7 DEF Follows
    <2>3. mode' \in {"run", "synchronize"} /\ lvl' \in AssignmentLevel..PrimaryLevel
          /\ mode' = "run"
      BY <1>1, TypedFlags DEF result
    <2> QED
      BY <1>1, <1>2, <1>3, <1>7, <2>1, <2>2, <2>3, MoveStep
  <1>8. CASE Instr.do # "copy"
    <2>1. freed' = Destroy(freed, Name)
      BY <1>8 DEF UseName
    <2>2. PICK n : n = Name
      OBVIOUS
    <2>3. PICK m \in Nat : m + 1 = Len(g.names) /\ DOMAIN g.names = 1..m + 1
      <3>1. Len(g.names) \in Nat \ {0} /\ DOMAIN g.names = 1..Len(g.names)
        BY <1>3, <1>4, <1>5, NamesHanded
      <3>2. Len(g.names) - 1 \in Nat /\ Len(g.names) - 1 + 1 = Len(g.names)
        BY <3>1
      <3> QED
        BY <3>1, <3>2
    <2>4. /\ n \in handed /\ In(g, n) /\ ~Below(n) /\ n = g.names[m + 1]
          /\ \A i \in 1..m : g.names[i] # n
      <3>1. Len(Top.names) > 0 /\ Len(Top.names) = m + 1 /\ m + 1 - 1 = m
        BY <1>4, <2>3
      <3>2. /\ Name \in handed /\ In(Top, Name) /\ ~Below(Name)
            /\ Name = Top.names[Len(Top.names)]
            /\ \A i \in 1..Len(Top.names) - 1 : Top.names[i] # Name
        BY <1>1, <3>1, NameAlone
      <3> QED
        BY <1>4, <2>2, <3>1, <3>2
    <2>5. n \in 0..Len(read)
      BY <2>4, NumbersIs DEF IInv, Numbers
    <2>6. /\ freed' \in Seq(Nat) /\ Len(freed') = Len(read)
          /\ \A i \in 1..Len(read) : freed'[i] = IF i = n THEN freed[i] + 1 ELSE freed[i]
      <3>1. freed \in Seq(Nat) /\ Len(freed) = Len(read)
        BY DEF IInv, WindowOK
      <3> QED
        BY <2>1, <2>2, <2>5, <3>1, DestroyIs DEF IInv
    <2>7. WindowOK' /\ Grows
      <3>1. hadError' \in BOOLEAN /\ panic' \in BOOLEAN /\ stale' \subseteq handed
        BY <1>1, TypedFlags DEF flags
      <3> QED
        BY <1>1, <2>6, <3>1, WindowKept DEF IInv
    <2>8. FrameOK(g)'
      BY <1>5, <2>7, FrameGrown DEF IInv
    <2>9. /\ f.names \in Seq(handed') /\ Len(f.names) = m /\ DOMAIN f.names = 1..m
          /\ \A i \in 1..m : f.names[i] = g.names[i]
      <3>1. g.names \in Seq(handed') /\ g.names # <<>>
        <4>1. g.names \in Seq(handed')
          BY <2>8 DEF FrameOK
        <4> QED
          BY <2>3, <4>1, EmptySeq
      <3>2. f.names = SubSeq(g.names, 1, m)
        <4>1. Len(g.names) - 1 = m
          BY <2>3
        <4> QED
          BY <1>6, <1>8, <4>1 DEF Front
      <3>3. \A i \in 1..m : g.names[i] \in handed'
        BY <2>3, <3>1, ElementOfSeq
      <3>4. /\ SubSeq(g.names, 1, m) \in Seq(handed')
            /\ Len(SubSeq(g.names, 1, m)) = IF 1 <= m THEN m - 1 + 1 ELSE 0
            /\ \A i \in 1..m - 1 + 1 : SubSeq(g.names, 1, m)[i] = g.names[1 + i - 1]
        BY <3>3, SubSeqProperties
      <3>5. Len(f.names) = m /\ \A i \in 1..m : f.names[i] = g.names[i]
        BY <3>2, <3>4
      <3> QED
        BY <3>2, <3>4, <3>5, LenProperties
    <2>10. l \in DOMAIN Code[g.fn] /\ Holds(g.fn, l) = m /\ ~(g.fn = "for" /\ l <= 2)
      <3>1. To(g.fn, g.pc, l, m) /\ ~(g.fn = "for" /\ g.pc <= 2)
        BY <1>3, <1>4, <1>8, <2>3
      <3> QED
        BY <3>1 DEF To
    <2>11. FrameOK(f)'
      BY <1>6, <2>8, <2>9, <2>10 DEF FrameOK
    <2>12. NewMode /\ mode' \notin Calling /\ mode # "ended" /\ mode' # "ended"
      BY <1>1, TypedFlags DEF NewMode, Modes, Calling, result
    <2>13. StackOK' /\ ForOK'
      BY <1>1, <1>2, <1>6, <2>7, <2>10, <2>11, <2>12, StepStack
    <2>14. NamesFrom(f)
      BY <1>4, <2>3, <2>9 DEF NamesFrom
    <2>15. NamesApart'
      BY <1>1, <1>2, <2>14, StepNames
    <2>16. \A i : In(f, i) <=> In(Top, i) /\ i # n
      <3>1. \A q : q \in 1..m + 1 <=> q \in 1..m \/ q = m + 1
        OBVIOUS
      <3> QED
        BY <1>4, <2>3, <2>4, <2>9, <3>1 DEF In
    <2>17. /\ HeldAt(n) /\ ~HeldAt(n)'
           /\ \A i : i # n => (HeldAt(i)' <=> HeldAt(i))
      <3>1. /\ \A i : HeldAt(i) <=> Below(i) \/ In(Top, i)
            /\ \A i : HeldAt(i)' <=> Below(i) \/ In(f, i)
        BY <1>1, <1>2, HeldTop, HeldStep
      <3> QED
        BY <1>4, <2>4, <2>16, <3>1
    <2>18. FreedOK'
      BY <1>1, <2>4, <2>6, <2>12, <2>17, FreedOwned
    <2> QED
      BY <2>7, <2>13, <2>15, <2>18 DEF IInv
  <1> QED
    BY <1>7, <1>8

(* The look-ahead of parse_for_statement: the token behind the window is   *)
(* destroyed if it is IN, and left alone otherwise.                        *)
LEMMA LookAheadStep ==
  ASSUME IInv, LookAhead
  PROVE  IInv'
  <1>1. mode = "run" /\ stack # <<>> /\ Instr.do = "look" /\ mode' = mode /\ lvl' = lvl
        /\ UNCHANGED <<vocab, handed, stale, flags, result>>
    BY Active DEF LookAhead, At, result
  <1>2. /\ Top.fn = "for" /\ Top.pc = 2 /\ Len(Top.names) = 0
        /\ To("for", 2, 3, 0)
    BY <1>1, InstrSound DEF Sound
  <1>3. Hop(0) = 3
    BY <1>2 DEF Hop
  <1>4. CASE ~Check({"IDENTIFIER"})
    <2>1. UNCHANGED window /\ stack' = SetTop(Moved(3))
      BY <1>3, <1>4 DEF LookAhead, GoTo
    <2>2. Ordinary /\ Follows(Moved(3), 3)
      BY <1>1, <2>1, MovedFollows, TypedFlags DEF Ordinary, flags
    <2> QED
      BY <1>1, <1>2, <2>1, <2>2, TypedFlags, MoveStep
  <1>5. CASE Check({"IDENTIFIER"})
    <2>1. PICK w \in Incoming :
            /\ Receive(w) /\ freed' = Append(freed, IF w = "IN" THEN 1 ELSE 0)
            /\ IF w = "IN" THEN stack' = SetTop(Frame("foreach", prev, <<>>))
               ELSE stack' = SetTop(Moved(3))
            /\ UNCHANGED <<cur, prev>>
      BY <1>3, <1>5 DEF LookAhead, GoTo
    <2>2. PICK n \in Nat \ {0} : n = Len(read)
      BY NumbersIs DEF IInv, Numbers
    <2>3. /\ read' \in Seq(vocab'.words \cup {"EOF"}) /\ Len(read') = n + 1
          /\ \A i \in 1..n : read'[i] = read[i]
          /\ grace' \in 0..MaxAfterError
      BY <1>1, <2>1, <2>2, Received DEF IInv
    <2>4. /\ freed' \in Seq(Nat) /\ Len(freed') = n + 1
          /\ freed'[n + 1] \in {0, 1}
          /\ \A i \in 1..n : freed'[i] = freed[i]
      <3>1. PICK z \in {0, 1} : freed' = Append(freed, z)
        BY <2>1
      <3>2. freed \in Seq(Nat) /\ Len(freed) = n /\ z \in Nat
        BY <2>2 DEF IInv, WindowOK
      <3> QED
        BY <3>1, <3>2, AppendProperties
    <2>5. WindowOK' /\ Grows
      <3>1. /\ cur \in 1..n /\ prev \in 0..cur - 1 /\ handed \subseteq 1..prev /\ cur \in Nat
            /\ vocab \in Vocabularies
        BY <2>2, NumbersIs DEF IInv, Numbers, WindowOK
      <3>2. cur' \in 1..n + 1
        BY <2>1, <3>1
      <3>3. hadError' \in BOOLEAN /\ panic' \in BOOLEAN /\ stale' \subseteq handed'
        BY <1>1, TypedFlags DEF flags
      <3> QED
        BY <1>1, <2>1, <2>2, <2>3, <2>4, <3>1, <3>2, <3>3 DEF WindowOK, Grows
    <2>6. PICK g : g = Top
      OBVIOUS
    <2>7. FrameOK(g) /\ DOMAIN g.names = {}
      <3>1. FrameOK(g)
        BY <1>1, <2>6, FramesOK
      <3>2. DOMAIN g.names = 1..0
        BY <1>2, <2>6, <3>1, NamesHanded
      <3> QED
        BY <3>1, <3>2
    <2>8. PICK f : stack' = SetTop(f) /\ (f = Frame("foreach", prev, <<>>) \/ f = Moved(3))
      BY <2>1
    <2>9. FrameOK(f)' /\ DOMAIN f.names = {} /\ ~(f.fn = "for" /\ f.pc <= 2)
      <3>1. CASE f = Frame("foreach", prev, <<>>)
        <4>1. "foreach" \in DOMAIN Code /\ prev \in 0..cur'
          BY <2>1, Functions, NumbersIs DEF IInv, Numbers
        <4>2. FrameOK(Frame("foreach", prev, <<>>))'
          <5>1. PICK p : p = prev
            OBVIOUS
          <5>2. FrameOK(Frame("foreach", p, <<>>))'
            BY <4>1, <5>1, BeginsOK
          <5> QED
            BY <2>1, <5>1, <5>2 DEF FrameOK
        <4> QED
          BY <2>1, <3>1, <4>2, FrameIs DEF FrameOK
      <3>2. CASE f = Moved(3)
        <4>1. Follows(f, 3)
          BY <1>1, <3>2, MovedFollows
        <4>2. To(Top.fn, Top.pc, 3, Len(Top.names))
          BY <1>2
        <4>3. FrameOK(f)'
          BY <1>1, <2>5, <4>1, <4>2, FollowsOK
        <4> QED
          BY <2>6, <2>7, <4>1, <4>3 DEF Follows
      <3> QED
        BY <2>8, <3>1, <3>2
    <2>10. NewMode /\ mode' \notin Calling /\ mode # "ended" /\ mode' # "ended"
      BY <1>1, TypedFlags DEF NewMode, Modes, Calling
    <2>11. StackOK' /\ ForOK'
      BY <1>1, <2>5, <2>8, <2>9, <2>10, StepStack
    <2>12. NamesFrom(f)
      BY <2>9 DEF NamesFrom
    <2>13. NamesApart'
      BY <1>1, <2>8, <2>12, StepNames
    <2>14. \A i : HeldAt(i)' <=> HeldAt(i)
      <3>1. \A i : ~In(f, i) /\ ~In(Top, i)
        BY <2>6, <2>7, <2>9 DEF In
      <3> QED
        BY <1>1, <2>8, <3>1, HeldTop, HeldStep
    <2>15. /\ cur = n /\ Top.start \in 1..n - 1 /\ read[Top.start] = "FOR"
           /\ read[n] = "IDENTIFIER"
      <3>1. ForStart(Top)
        BY <1>1, <1>2, TopFor
      <3> QED
        BY <1>5, <2>2, <3>1 DEF ForStart, Check, Current
    <2>16. \A i : ByOwner(i)' = ByOwner(i)
      <3>1. handed' = handed
        BY <1>1
      <3>2. \A i : Spent(i)' <=> Spent(i)
        BY <2>14, <3>1, SpentIs
      <3> QED
        BY <3>2 DEF ByOwner
    <2>17. ASSUME NEW i \in 1..n
           PROVE  FreedAt(i)'
      <3>1. FreedAt(i)
        BY <2>2, FreedAll DEF IInv
      <3>2. LookedAt(i) => LookedAt(i)'
        <4>1. ASSUME i > 2
              PROVE  /\ i - 1 \in 1..n /\ read'[i - 1] = read[i - 1]
                     /\ \A k \in 1..i - 2 : k \in 1..n /\ read'[k] = read[k]
          BY <2>3, <4>1
        <4> QED
          BY <4>1 DEF LookedAt
      <3>3. freed'[i] = freed[i] /\ ByOwner(i)' = ByOwner(i) /\ handed' = handed
            /\ cur' = cur /\ prev' = prev
        BY <1>1, <2>1, <2>4, <2>16
      <3> QED
        BY <2>10, <3>1, <3>2, <3>3 DEF FreedAt
    <2>18. FreedAt(n + 1)'
      <3>1. n + 1 \notin handed /\ n + 1 \notin {cur, prev}
        BY <2>2, <2>15, NumbersIs DEF IInv, Numbers
      <3>2. ByOwner(n + 1)' = 0
        <4>1. ByOwner(n + 1) = 0
          BY <3>1 DEF ByOwner, Spent
        <4> QED
          BY <2>16, <4>1
      <3>3. LookedAt(n + 1)'
        <4>1. n + 1 \in Nat /\ n + 1 > 2 /\ n + 1 - 1 = n /\ n + 1 - 2 = n - 1
          BY <2>15
        <4>2. read'[n] = "IDENTIFIER" /\ read'[Top.start] = "FOR"
          BY <2>3, <2>15
        <4> QED
          BY <2>15, <4>1, <4>2 DEF LookedAt
      <3> QED
        BY <1>1, <2>1, <2>4, <3>1, <3>2, <3>3 DEF FreedAt
    <2>19. FreedOK'
      <3>1. (FreedOK <=> \A i \in 1..Len(read) : FreedAt(i))'
        BY FreedAll, PTL
      <3>2. \A i \in 1..n + 1 : i \in 1..n \/ i = n + 1
        OBVIOUS
      <3> QED
        BY <2>3, <2>17, <2>18, <3>1, <3>2
    <2> QED
      BY <2>5, <2>11, <2>13, <2>19 DEF IInv
  <1> QED
    BY <1>4, <1>5

(* parser_destroy gives back the two tokens of the window.                 *)
LEMMA DestroyParserStep ==
  ASSUME IInv, DestroyParser
  PROVE  IInv'
  <1>1. mode = "done" /\ mode' = "ended" /\ freed' = Destroy(Destroy(freed, cur), prev)
        /\ UNCHANGED <<vocab, read, cur, prev, grace, handed, stale, flags, stack, lvl>>
    BY DEF DestroyParser
  <1>2. stack = <<>>
    BY <1>1 DEF IInv, StackOK
  <1>3. PICK f : f = Destroy(freed, cur)
    OBVIOUS
  <1>4. cur \in 0..Len(read) /\ prev \in 0..Len(read) /\ prev < cur /\ cur \in Nat \ {0}
    BY NumbersIs DEF IInv, Numbers
  <1>5. /\ f \in Seq(Nat) /\ Len(f) = Len(read)
        /\ \A i \in 1..Len(read) : f[i] = IF i = cur THEN freed[i] + 1 ELSE freed[i]
    <2>1. freed \in Seq(Nat) /\ Len(freed) = Len(read)
      BY DEF IInv, WindowOK
    <2> QED
      BY <1>3, <1>4, <2>1, DestroyIs DEF IInv
  <1>6. /\ freed' \in Seq(Nat) /\ Len(freed') = Len(read)
        /\ \A i \in 1..Len(read) : freed'[i] = IF i = prev THEN f[i] + 1 ELSE f[i]
    BY <1>1, <1>3, <1>4, <1>5, DestroyIs DEF IInv
  <1>7. WindowOK'
    <2>1. hadError' \in BOOLEAN /\ panic' \in BOOLEAN /\ stale' \subseteq handed
      BY <1>1, TypedFlags DEF flags
    <2> QED
      BY <1>1, <1>6, <2>1, WindowKept DEF IInv
  <1>8. StackOK' /\ ForOK' /\ NamesApart'
    BY <1>1, <1>2 DEF IInv, StackOK, ForOK, NamesApart, Modes, Calling
  <1>9. ASSUME NEW i \in 1..Len(read)
        PROVE  FreedAt(i)'
    <2>1. FreedAt(i) /\ freed[i] \in Nat
      BY FreedAll, ElementOfSeq DEF IInv, WindowOK
    <2>2. ByOwner(i)' = ByOwner(i) /\ (LookedAt(i)' <=> LookedAt(i))
      BY <1>1 DEF ByOwner, Spent, LookedAt
    <2>3. CASE i \in {cur, prev}
      <3>1. freed'[i] = freed[i] + 1
        BY <1>4, <1>5, <1>6, <2>3
      <3>2. freed[i] = ByOwner(i)
        BY <1>1, <2>1, <2>3 DEF FreedAt
      <3>3. freed'[i] = 1 + ByOwner(i)'
        BY <2>1, <2>2, <3>1, <3>2
      <3> QED
        BY <1>1, <3>3 DEF FreedAt
    <2>4. CASE i \notin {cur, prev}
      <3>1. freed'[i] = freed[i]
        BY <1>5, <1>6, <2>4
      <3> QED
        BY <1>1, <2>1, <2>2, <2>4, <3>1 DEF FreedAt
    <2> QED
      BY <2>3, <2>4
  <1>10. (FreedOK <=> \A i \in 1..Len(read) : FreedAt(i))'
    BY FreedAll, PTL
  <1> QED
    BY <1>1, <1>7, <1>8, <1>9, <1>10 DEF IInv

-----------------------------------------------------------------------------
(* The specification.                                                      *)

(* parser_create and the call of parse_program.                            *)
LEMMA InitOK == Init => IInv
  <1> SUFFICES ASSUME Init
               PROVE  IInv
    OBVIOUS
  <1>1. PICK w \in vocab.words \cup {"EOF"} : read = <<w>>
    BY DEF Init
  <1>2. /\ vocab \in Vocabularies /\ freed = <<0>> /\ cur = 1 /\ prev = 0
        /\ grace = MaxAfterError /\ handed = {} /\ stale = {}
        /\ hadError = FALSE /\ panic = FALSE /\ mode = "run" /\ lvl = 1
        /\ stack = <<Frame("program", 0, <<>>)>>
    BY DEF Init
  <1>3. WindowOK
    <2>1. read \in Seq(vocab.words \cup {"EOF"}) /\ Len(read) = 1
      BY <1>1
    <2>2. freed \in Seq(Nat) /\ Len(freed) = 1
      BY <1>2
    <2>3. MaxAfterError \in 0..MaxAfterError
      BY ParserAssumption
    <2>4. cur \in 1..Len(read) /\ prev \in 0..cur - 1 /\ Len(freed) = Len(read)
      BY <1>2, <2>1, <2>2
    <2>5. /\ vocab \in Vocabularies /\ grace \in 0..MaxAfterError
          /\ handed \subseteq 1..prev /\ stale \subseteq handed
          /\ hadError \in BOOLEAN /\ panic \in BOOLEAN
      BY <1>2, <2>3
    <2> QED
      BY <2>1, <2>2, <2>4, <2>5 DEF WindowOK
  <1>4. PICK f : f = Frame("program", 0, <<>>)
    OBVIOUS
  <1>5. /\ DOMAIN f = {"fn", "pc", "start", "kids", "names", "want"}
        /\ f.fn = "program" /\ f.pc = 1 /\ f.start = 0 /\ f.names = <<>> /\ f.want = 1
    BY <1>4, FrameIs
  <1>6. FrameOK(f)
    <2>1. "program" \in DOMAIN Code
      BY Functions
    <2>2. 1 \in DOMAIN Code["program"] /\ Holds("program", 1) = 0
      BY <2>1, Starts
    <2> QED
      BY <1>2, <1>5, <2>1, <2>2 DEF FrameOK, AssignmentLevel, UnaryLevel
  <1>7. stack = <<f>> /\ stack # <<>> /\ Len(stack) = 1 /\ DOMAIN stack = {1} /\ stack[1] = f
    BY <1>2, <1>4
  <1>8. StackOK
    <2>1. stack \in Seq({stack[d] : d \in DOMAIN stack})
      <3>1. {stack[d] : d \in DOMAIN stack} = {f}
        BY <1>7
      <3>2. <<f>> \in Seq({f})
        OBVIOUS
      <3> QED
        BY <1>7, <3>1, <3>2
    <2> QED
      BY <1>2, <1>6, <1>7, <2>1 DEF StackOK, Modes, Calling, AssignmentLevel, PrimaryLevel
  <1>9. ForOK /\ NamesApart
    BY <1>5, <1>7 DEF ForOK, NamesApart
  <1>10. FreedOK
    BY <1>1, <1>2 DEF FreedOK, ByOwner, Spent
  <1> QED
    BY <1>3, <1>8, <1>9, <1>10 DEF IInv

(* Nothing changes.                                                        *)
LEMMA Stutter == IInv /\ UNCHANGED vars => IInv'
  <1> SUFFICES ASSUME IInv, UNCHANGED vars
               PROVE  IInv'
    OBVIOUS
  <1>1. UNCHANGED <<vocab, read, freed, cur, prev, grace, handed, stale, hadError, panic,
                    stack, mode, lvl>>
    BY DEF vars, window, flags, result
  <1>2. WindowOK'
    BY <1>1 DEF IInv, WindowOK
  <1>3. StackOK'
    <2>1. ASSUME NEW d \in DOMAIN stack
          PROVE  FrameOK(stack[d])'
      <3>1. FrameOK(stack[d])
        BY DEF IInv, StackOK
      <3> QED
        BY <1>1, <3>1 DEF FrameOK
    <2> QED
      BY <1>1, <2>1 DEF IInv, StackOK
  <1>4. ForOK' /\ NamesApart'
    BY <1>1 DEF IInv, ForOK, NamesApart
  <1>5. FreedOK'
    BY <1>1 DEF IInv, FreedOK, ByOwner, Spent, LookedAt
  <1> QED
    BY <1>2, <1>3, <1>4, <1>5 DEF IInv

(* The parser's state is sound whatever it reads.                          *)
THEOREM Invariance == Spec => []IInv
  <1>1. IInv /\ [Next]_vars => IInv'
    <2> SUFFICES ASSUME IInv, [Next]_vars
                 PROVE  IInv'
      OBVIOUS
    <2>1. CASE Next
      BY <2>1, NeedTokenStep, TakeTokenStep, MatchTokenStep, CheckTokenStep, UseNameStep,
        LookAheadStep, ParsePartStep, ParseStatementStep, ParseOperandStep, ParsePostfixStep,
        ParseOperatorStep, DeliverStep, BuildNodeStep, EndRoundStep, SynchronizeStep,
        DestroyParserStep DEF Next
    <2>2. CASE UNCHANGED vars
      BY <2>2, Stutter
    <2> QED
      BY <2>1, <2>2
  <1> QED
    BY InitOK, <1>1, PTL DEF Spec

(* Activations are at steps of their tables with tokens that callers took, *)
(* pointers are at tokens received, and nothing is destroyed three times.  *)
THEOREM TypeCorrect == Spec => []TypeOK
  <1>1. IInv => TypeOK
    <2> SUFFICES ASSUME IInv
                 PROVE  TypeOK
      OBVIOUS
    <2>1. DOMAIN read = 1..Len(read) /\ \A i \in DOMAIN read : read[i] \in vocab.words \cup {"EOF"}
      BY LenProperties, ElementOfSeq DEF IInv, WindowOK
    <2>2. freed \in [DOMAIN read -> 0..2]
      <3>1. /\ freed \in [1..Len(read) -> Nat]
            /\ \A i \in 1..Len(read) : freed[i] \in Nat
        BY LenProperties, ElementOfSeq DEF IInv, WindowOK
      <3>2. \A i \in 1..Len(read) : freed[i] \in {0, 1, 2}
        BY DEF IInv, FreedOK, ByOwner
      <3>3. \A i \in 1..Len(read) : freed[i] \in 0..2
        BY <3>2
      <3> QED
        BY <2>1, <3>1, <3>3
    <2>3. ASSUME NEW d \in DOMAIN stack
          PROVE  /\ stack[d].fn \in DOMAIN Code /\ stack[d].pc \in DOMAIN Code[stack[d].fn]
                 /\ stack[d].start \in 0..cur
                 /\ stack[d].want \in AssignmentLevel..UnaryLevel
                 /\ \A i \in DOMAIN stack[d].names : stack[d].names[i] \in handed
      <3>1. FrameOK(stack[d])
        BY DEF IInv, StackOK
      <3> QED
        BY <3>1, NamesHanded DEF FrameOK
    <2>4. stale \subseteq 1..prev
      BY DEF IInv, WindowOK
    <2>5. cur \in DOMAIN read
      BY <2>1 DEF IInv, WindowOK
    <2> QED
      BY <2>1, <2>2, <2>3, <2>4, <2>5 DEF IInv, WindowOK, StackOK, TypeOK
  <1> QED
    BY Invariance, <1>1, PTL

(* Only what a caller of parser_consume destroyed as its own is destroyed  *)
(* again or read afterwards; in the end every token has been destroyed,    *)
(* but for those that parse_for_statement looked at behind the window.     *)
THEOREM TokensAccounted == Spec => []TokenAccount
  <1>1. IInv => TokenAccount
    <2> SUFFICES ASSUME IInv
                 PROVE  TokenAccount
      OBVIOUS
    <2>1. DOMAIN read = 1..Len(read) /\ stale \subseteq handed
      BY LenProperties DEF IInv, WindowOK
    <2>2. ASSUME NEW i \in 1..Len(read), freed[i] = 2
          PROVE  i \in handed
      <3>1. ByOwner(i) # 0
        BY <2>2 DEF IInv, FreedOK, ByOwner
      <3> QED
        BY <3>1 DEF ByOwner, Spent
    <2>3. ASSUME mode = "ended", NEW i \in 1..Len(read)
          PROVE  \/ freed[i] = IF i \in handed THEN 2 ELSE 1
                 \/ /\ freed[i] = 0 /\ i > 2
                    /\ read[i - 1] = "IDENTIFIER" /\ \E k \in 1..i - 2 : read[k] = "FOR"
      <3>1. stack = <<>>
        BY <2>3 DEF IInv, StackOK
      <3>2. Spent(i) <=> i \in handed
        BY <3>1 DEF Spent
      <3>3. freed[i] = 1 + ByOwner(i) \/ (freed[i] = 0 /\ LookedAt(i))
        BY <2>3 DEF IInv, FreedOK
      <3> QED
        BY <3>2, <3>3 DEF ByOwner, LookedAt
    <2> QED
      BY <2>1, <2>2, <2>3 DEF TokenAccount
  <1> QED
    BY Invariance, <1>1, PTL
=============================================================================
