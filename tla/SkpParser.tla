------------------------------ MODULE SkpParser ------------------------------
(* The recursive-descent parser, parser.c: its window of two tokens, the   *)
(* tokens it owns and gives back, the tree it builds, and its recovery.    *)
(*                                                                         *)
(* A parse_ function that calls others in its middle is a table of steps   *)
(* (consume, match, parse, build a node); stack is the C call stack, one   *)
(* frame per activation with the nodes it holds so far. The tables name    *)
(* the calls in the order of the code; the actions say what each call does.*)
(* Tokens come from the lexer one at a time and may be any of a vocabulary.*)
EXTENDS Integers, Sequences, FiniteSets, SequencesExt

CONSTANTS
  Vocabularies,   \* sets of token types that inputs are written with, each
                  \* with the length of the longest input: [words, max]
  MaxAfterError,  \* tokens before the end of the input, after the first error
  MaxKids         \* after an error, the statements of a list that are kept

ASSUME ParserAssumption ==
  /\ \A v \in Vocabularies : "EOF" \notin v.words /\ v.max \in Nat \ {0}
  /\ MaxAfterError \in Nat /\ MaxKids \in Nat

VARIABLES
  vocab,     \* the vocabulary of this input
  read,      \* types of the tokens taken from the lexer; a token is its place
  freed,     \* how often each of them was destroyed
  cur, prev, \* parser->current and parser->previous; 0 is NULL
  grace,     \* how many tokens may still come after an error
  handed,    \* tokens that a caller of parser_consume took as its own
  stale,     \* tokens that were read after they had been destroyed
  hadError, panic,   \* had_error and panic_mode
  stack,     \* activations, innermost last
  mode,      \* what the innermost activation is about to do
  val, lvl   \* the node just returned, and the level of the grammar it has

window == <<read, freed, cur, prev, grace>>
flags == <<hadError, panic>>
result == <<mode, val, lvl>>
vars == <<vocab, window, handed, stale, flags, stack, result>>

-----------------------------------------------------------------------------
(* Nodes. tok is the token a node stands for: the operator, the keyword,   *)
(* the name.                                                               *)
Node(kind, tok, kids) == [kind |-> kind, tok |-> tok, kids |-> kids]
Leaf(kind, tok) == Node(kind, tok, <<>>)
Null == Leaf("NULL", 0)          \* a parse_ function returned NULL
Absent == Leaf("absent", 0)      \* an optional part that was left out

(* The levels of the expression grammar: the operators each function's     *)
(* loop looks for, parse_assignment first. Levels 13 and 14 are            *)
(* parse_unary and parse_postfix.                                          *)
Compound == {"PLUS_ASSIGN", "MINUS_ASSIGN", "MUL_ASSIGN", "DIV_ASSIGN"}
Signs == {"NOT", "MINUS", "BIT_NOT", "INC", "DEC"}
Postfixes == {"LPAREN", "DOT", "LBRACKET", "INC", "DEC"}
Literals == {"NUMBER", "STRING", "TRUE", "FALSE", "NULL", "IDENTIFIER", "THIS"}
AssignmentLevel == 1
TernaryLevel == 2
UnaryLevel == 13
PrimaryLevel == 14

Operators ==
  << {"ASSIGN"} \cup Compound, {"QUESTION"}, {"OR"}, {"AND"}, {"EQ", "NE"},
     {"LT", "GT", "LE", "GE"}, {"BIT_OR"}, {"BIT_XOR"}, {"BIT_AND"},
     {"SHL", "SHR"}, {"PLUS", "MINUS"}, {"MUL", "DIV", "MOD", "POW"}, {} >>

LevelOf(t) == CHOOSE j \in DOMAIN Operators : t \in Operators[j]
Binary == UNION {Operators[j] : j \in 3..12}

-----------------------------------------------------------------------------
(* The steps a table is made of. hit and miss say where to go on; 0 is the *)
(* next step.                                                              *)
Step(do, arg, hit, miss) == [do |-> do, arg |-> arg, hit |-> hit, miss |-> miss]
Crash == -1

Need(t) == Step("need", t, 0, 0)           \* parser_consume, result unused
Take(t, l) == Step("take", t, 0, l)        \* token = parser_consume; NULL: l
Match(t, l) == Step("match", t, 0, l)      \* if (parser_match), else l
Again(t, l) == Step("match", t, l, 0)      \* while (parser_match), back to l
Unless(T, l) == Step("check", T, l, 0)     \* if parser_check of one of T: l
Given(T, l) == Step("optional", T, l, 0)   \* the same for an optional part
Goto(l) == Step("goto", "none", l, 0)
Parse(what) == Step("parse", what, 0, 0)
Copy == Step("copy", "none", 0, 0)             \* strdup(token->value)
Drop == Step("drop", "none", 0, 0)             \* token_destroy(token)
Spend == Step("spend", "none", 0, 0)           \* both
Look == Step("look", "none", 0, 0)             \* the look-ahead of parse_for
Round(l) == Step("round", "none", l, 0)        \* the end of a statement loop's body
Make(kind) == Step("make", kind, 0, 0)     \* return a new node
MakeAt(kind) == Step("makeAt", kind, 0, 0) \* the same, at its first part's line
MakeNamed(kind) == Step("makeNamed", kind, 0, 0)  \* with token->value, dropped
MakeUnary == Step("makeUnary", "unary", 0, 0)     \* at parser->previous's line
Give == Step("give", "none", 0, 0)             \* return the first part
Fail == Step("fail", "none", 0, 0)             \* return NULL

Program == << Unless({"EOF"}, 4), Parse("declaration"), Round(1), Make("program") >>

VarDeclaration ==
  << Take("IDENTIFIER", 6), Match("ASSIGN", 4), Parse("expression"),
     Match("SEMICOLON", 5), MakeNamed("var"), Fail >>

(* Mutant: the body's opening brace is taken first, as the block expects.  *)
FuncDeclarationBraced ==
  << Take("IDENTIFIER", 15), Need("LPAREN"), Unless({"RPAREN"}, 10),
     Take("IDENTIFIER", 14), Copy, Match("ASSIGN", 8), Parse("expression"),
     Drop, Again("COMMA", 4), Need("RPAREN"), Need("LBRACE"), Parse("block"),
     MakeNamed("func"), Drop, Fail >>

FuncDeclaration ==
  << Take("IDENTIFIER", 14), Need("LPAREN"), Unless({"RPAREN"}, 10),
     Take("IDENTIFIER", 13), Copy, Match("ASSIGN", 8), Parse("expression"),
     Drop, Again("COMMA", 4), Need("RPAREN"), Parse("block"), MakeNamed("func"),
     Drop, Fail >>

ClassDeclaration ==
  << Take("IDENTIFIER", 11), Match("COLON", 5), Take("IDENTIFIER", 5), Spend,
     Need("LBRACE"), Unless({"RBRACE", "EOF"}, 9), Parse("declaration"), Goto(6),
     Need("RBRACE"), MakeNamed("class"), Fail >>

(* Mutant: the else branch is jumped over, one step too far.               *)
IfStatementPastEnd ==
  << Need("LPAREN"), Parse("expression"), Need("RPAREN"), Parse("statement"),
     Match("ELSE", 8), Parse("statement"), Make("if") >>

IfStatement ==
  << Need("LPAREN"), Parse("expression"), Need("RPAREN"), Parse("statement"),
     Match("ELSE", 7), Parse("statement"), Make("if") >>

WhileStatement ==
  << Need("LPAREN"), Parse("expression"), Need("RPAREN"), Parse("statement"),
     Make("while") >>

ForStatement ==
  << Need("LPAREN"), Look, Given({"SEMICOLON"}, 9), Match("VAR", 8),
     Take("IDENTIFIER", Crash), Spend, Match("ASSIGN", 9), Parse("expression"),
     Need("SEMICOLON"), Given({"SEMICOLON"}, 12), Parse("expression"),
     Need("SEMICOLON"), Given({"RPAREN"}, 15), Parse("expression"),
     Need("RPAREN"), Parse("statement"), Make("for") >>

ForeachStatement ==
  << Take("IDENTIFIER", 7), Need("IN"), Parse("expression"), Need("RPAREN"),
     Parse("statement"), MakeNamed("foreach"), Fail >>

ReturnStatement ==
  << Unless({"SEMICOLON", "RBRACE"}, 3), Parse("expression"),
     Match("SEMICOLON", 4), Make("return") >>

BreakStatement == << Match("SEMICOLON", 2), Make("break") >>
ContinueStatement == << Match("SEMICOLON", 2), Make("continue") >>

ImportStatement ==
  << Take("STRING", 10), Match("IMPORT", 8), Need("LBRACE"),
     Take("IDENTIFIER", 6), Spend, Again("COMMA", 4), Need("RBRACE"),
     Match("SEMICOLON", 9), MakeNamed("import"), Fail >>

ExportStatement ==
  << Match("LBRACE", 6), Take("IDENTIFIER", 4), Spend, Again("COMMA", 2),
     Need("RBRACE"), Match("SEMICOLON", 7), Make("export") >>

Block ==
  << Unless({"RBRACE", "EOF"}, 4), Parse("declaration"), Round(1),
     Need("RBRACE"), Make("block") >>

ExpressionStatement ==
  << Parse("expression"), Match("SEMICOLON", 3), Make("expression_stmt") >>

ParenExpression == << Parse("expression"), Need("RPAREN"), Give >>

ListLiteral ==
  << Unless({"RBRACKET"}, 4), Parse("expression"), Again("COMMA", 2),
     Need("RBRACKET"), Make("list") >>

DictLiteral ==
  << Unless({"RBRACE"}, 6), Parse("expression"), Need("COLON"),
     Parse("expression"), Again("COMMA", 2), Need("RBRACE"), Make("dict") >>

Lambda ==
  << Need("LPAREN"), Unless({"RPAREN"}, 6), Take("IDENTIFIER", 5), Spend,
     Again("COMMA", 3), Need("RPAREN"), Match("LBRACE", 10), Parse("block"),
     Goto(12), Need("ARROW"), Parse("expression"), Make("lambda") >>

(* These begin with the expression that stands before the operator.        *)
CallArguments ==
  << Unless({"RPAREN"}, 4), Parse("expression"), Again("COMMA", 2),
     Need("RPAREN"), MakeAt("call") >>

MemberAccess == << Take("IDENTIFIER", 4), Spend, MakeAt("member"), Give >>
IndexAccess == << Parse("expression"), Need("RBRACKET"), MakeAt("index") >>
Ternary == << Parse("expression"), Need("COLON"), Parse("ternary"), MakeAt("ternary") >>
Assignment == << Parse("expression"), MakeAt("assign") >>
CompoundAssignment == << Parse("expression"), MakeAt("compound") >>
UnaryOperator == << Parse("unary"), MakeUnary >>

(* Mutant: the right operand is parsed on the operator's own level.        *)
BinaryOperatorRight == << Parse("same"), MakeAt("binary") >>

BinaryOperator == << Parse("tighter"), MakeAt("binary") >>

Code == [program |-> Program, var |-> VarDeclaration, func |-> FuncDeclaration,
         class |-> ClassDeclaration, if |-> IfStatement, while |-> WhileStatement,
         for |-> ForStatement, foreach |-> ForeachStatement,
         return |-> ReturnStatement, break |-> BreakStatement,
         continue |-> ContinueStatement, import |-> ImportStatement,
         export |-> ExportStatement, block |-> Block,
         statement |-> ExpressionStatement, paren |-> ParenExpression,
         list |-> ListLiteral, dict |-> DictLiteral, lambda |-> Lambda,
         call |-> CallArguments, member |-> MemberAccess, index |-> IndexAccess,
         ternary |-> Ternary, assign |-> Assignment,
         compound |-> CompoundAssignment, unary |-> UnaryOperator,
         binary |-> BinaryOperator]

(* What a keyword or bracket starts: parse_declaration, parse_statement,   *)
(* and the longer cases of parse_primary.                                  *)
Declarations == [VAR |-> "var", CONST |-> "var", FUNC |-> "func",
                 CLASS |-> "class", IMPORT |-> "import", EXPORT |-> "export"]
Statements == [IF |-> "if", WHILE |-> "while", FOR |-> "for", RETURN |-> "return",
               BREAK |-> "break", CONTINUE |-> "continue", LBRACE |-> "block"]
Primaries == [LPAREN |-> "paren", LBRACKET |-> "list", LBRACE |-> "dict",
              FUNC |-> "lambda"]

-----------------------------------------------------------------------------
(* The window of tokens.                                                   *)
Current == read[cur]
Check(T) == Current \in T

(* lexer_next_token: the end of the input comes after any token, and again *)
(* whenever it is asked for.                                               *)
Incoming == IF \/ Last(read) = "EOF"
               \/ Len(read) >= vocab.max
               \/ hadError /\ grace = 0
            THEN {"EOF"}
            ELSE vocab.words \cup {"EOF"}

Destroy(f, token) == IF token = 0 THEN f ELSE [f EXCEPT ![token] = @ + 1]
IsStale(token) == token # 0 /\ freed[token] > 0

(* Another token is taken from the lexer.                                  *)
Receive(w) ==
  /\ read' = Append(read, w)
  /\ grace' = IF hadError /\ grace > 0 THEN grace - 1 ELSE grace

(* Mutant: the token that leaves the window is not given back.             *)
AdvanceLeaking ==
  \E w \in Incoming :
    /\ Receive(w)
    /\ freed' = Append(freed, 0)
    /\ prev' = cur
    /\ cur' = Len(read) + 1

(* parser_advance, and parser_match where it applies: previous is          *)
(* destroyed, current becomes previous.                                    *)
Advance ==
  \E w \in Incoming :
    /\ Receive(w)
    /\ freed' = Append(Destroy(freed, prev), 0)
    /\ prev' = cur
    /\ cur' = Len(read) + 1

(* Mutant: a token that is not the expected one raises no error.           *)
ConsumeQuietly(T) ==
  IF Check(T) THEN Advance /\ UNCHANGED flags
  ELSE UNCHANGED <<window, flags>>

(* parser_consume.                                                         *)
Consume(T) ==
  IF Check(T) THEN Advance /\ UNCHANGED flags
  ELSE hadError' = TRUE /\ panic' = TRUE /\ UNCHANGED window

-----------------------------------------------------------------------------
(* Activations.                                                            *)
Top == stack[Len(stack)]
Instr == Code[Top.fn][Top.pc]
At(do) == mode = "run" /\ Instr.do = do
Hop(l) == IF l = 0 THEN Top.pc + 1 ELSE l
Name == Last(Top.names)

Frame(fn, start, kids) ==
  [fn |-> fn, pc |-> 1, start |-> start, kids |-> kids, names |-> <<>>, want |-> 1]

SetTop(f) == [stack EXCEPT ![Len(stack)] = f]
Moved(l) == [Top EXCEPT !.pc = l]
GoTo(l) == stack' = SetTop(Moved(l))
Push(s, f) == stack' = Append(s, f)
Running == mode' = "run" /\ val' = Null /\ lvl' = 1
Crashes == mode' = "crashed" /\ val' = Null /\ lvl' = 1

(* The level of the grammar that an activation's result belongs to.        *)
ResultLevel ==
  CASE Top.fn = "binary" -> LevelOf(read[Top.start]) + 1
    [] Top.fn = "unary" -> UnaryLevel
    [] Top.fn = "ternary" -> TernaryLevel
    [] Top.fn \in {"paren", "list", "dict", "lambda", "call", "member", "index"} -> PrimaryLevel
    [] OTHER -> AssignmentLevel

Return(v) ==
  /\ val' = v /\ lvl' = ResultLevel
  /\ stack' = Front(stack)
  /\ mode' = IF Len(stack) = 1 THEN "done" ELSE "value"

-----------------------------------------------------------------------------
(* The steps of the tables.                                                *)
NeedToken ==
  /\ At("need")
  /\ Consume({Instr.arg})
  /\ GoTo(Hop(0))
  /\ UNCHANGED <<vocab, handed, stale, result>>

TakeToken ==
  /\ At("take")
  /\ Consume({Instr.arg})
  /\ IF Check({Instr.arg})
     THEN /\ handed' = handed \cup {cur}
          /\ stack' = SetTop([Moved(Hop(0)) EXCEPT !.names = Append(@, cur)])
          /\ UNCHANGED result
     ELSE IF Instr.miss = Crash
     THEN Crashes /\ UNCHANGED <<handed, stack>>
     ELSE GoTo(Instr.miss) /\ UNCHANGED <<handed, result>>
  /\ UNCHANGED <<vocab, stale>>

MatchToken ==
  /\ At("match")
  /\ IF Check({Instr.arg}) THEN Advance /\ GoTo(Hop(Instr.hit))
     ELSE GoTo(Hop(Instr.miss)) /\ UNCHANGED window
  /\ UNCHANGED <<vocab, handed, stale, flags, result>>

CheckToken ==
  /\ \/ At("check") /\ GoTo(IF Check(Instr.arg) THEN Instr.hit ELSE Hop(0))
     \/ At("goto") /\ GoTo(Instr.hit)
     \/ /\ At("optional")
        /\ IF Check(Instr.arg)
           THEN stack' = SetTop([Moved(Instr.hit) EXCEPT !.kids = Append(@, Absent)])
           ELSE GoTo(Hop(0))
  /\ UNCHANGED <<vocab, window, handed, stale, flags, result>>

(* A name that was taken is copied into the node, or destroyed, or both.   *)
UseName ==
  /\ mode = "run" /\ Instr.do \in {"copy", "drop", "spend"}
  /\ stack' = SetTop([Moved(Hop(0)) EXCEPT
       !.kids = IF Instr.do = "drop" THEN @ ELSE Append(@, Leaf("name", Name)),
       !.names = IF Instr.do = "copy" THEN @ ELSE Front(@)])
  /\ freed' = IF Instr.do = "copy" THEN freed ELSE Destroy(freed, Name)
  /\ UNCHANGED <<vocab, read, cur, prev, grace, handed, stale, flags, result>>

(* The look-ahead of parse_for_statement: a token is taken from the lexer  *)
(* past the window. IN is destroyed and the loop is parsed as for-each;    *)
(* any other is not kept.                                                  *)
LookAhead ==
  /\ At("look")
  /\ IF Check({"IDENTIFIER"})
     THEN \E w \in Incoming :
            /\ Receive(w)
            /\ freed' = Append(freed, IF w = "IN" THEN 1 ELSE 0)
            /\ IF w = "IN" THEN stack' = SetTop(Frame("foreach", prev, <<>>))
               ELSE GoTo(Hop(0))
            /\ UNCHANGED <<cur, prev>>
     ELSE GoTo(Hop(0)) /\ UNCHANGED window
  /\ UNCHANGED <<vocab, handed, stale, flags, result>>

(* A call: what it starts with decides the activation. parse_block reads   *)
(* the line of parser->previous first.                                     *)
ParsePart ==
  /\ At("parse")
  /\ LET what == Instr.arg
         level == CASE what = "ternary" -> TernaryLevel
                    [] what = "unary" -> UnaryLevel
                    [] what = "same" -> LevelOf(read[Top.start])
                    [] what = "tighter" -> LevelOf(read[Top.start]) + 1
                    [] OTHER -> AssignmentLevel
         caller == SetTop([Top EXCEPT !.want = level])
     IN IF what = "block"
        THEN /\ Push(caller, Frame("block", prev, <<>>))
             /\ stale' = stale \cup IF IsStale(prev) THEN {prev} ELSE {}
             /\ Running
        ELSE /\ stack' = caller
             /\ mode' = IF what \in {"declaration", "statement"} THEN what ELSE "operand"
             /\ UNCHANGED <<stale, val, lvl>>
  /\ UNCHANGED <<vocab, window, handed, flags>>

(* parse_declaration and parse_statement.                                  *)
ParseStatement ==
  /\ mode \in {"declaration", "statement"}
  /\ \/ /\ mode = "declaration" /\ Current \in DOMAIN Declarations
        /\ Advance
        /\ Push(stack, Frame(Declarations[Current], cur, <<>>))
     \/ /\ Current \in DOMAIN Statements
        /\ Advance
        /\ Push(stack, Frame(Statements[Current], cur, <<>>))
     \/ /\ Current \notin DOMAIN Statements
        /\ mode = "statement" \/ Current \notin DOMAIN Declarations
        /\ Push(stack, Frame("statement", cur, <<>>))
        /\ UNCHANGED window
  /\ Running
  /\ UNCHANGED <<vocab, handed, stale, flags>>

(* Mutant: an operand that is missing is not an error.                     *)
ParseOperandSilently ==
  /\ mode = "operand"
  /\ \/ /\ Check(Signs)
        /\ Advance
        /\ Push(stack, Frame("unary", cur, <<>>))
        /\ Running
     \/ /\ Check(Literals)
        /\ Advance
        /\ mode' = "value" /\ val' = Leaf("literal", cur) /\ lvl' = PrimaryLevel
        /\ UNCHANGED stack
     \/ /\ Check(DOMAIN Primaries)
        /\ Advance
        /\ Push(stack, Frame(Primaries[Current], cur, <<>>))
        /\ Running
     \/ /\ ~Check(Signs \cup Literals \cup DOMAIN Primaries)
        /\ mode' = "value" /\ val' = Null /\ lvl' = PrimaryLevel
        /\ UNCHANGED <<window, stack>>
  /\ UNCHANGED <<vocab, handed, stale, flags>>

(* parse_unary and parse_primary. What is none of these is reported, and   *)
(* left where it is.                                                       *)
ParseOperand ==
  /\ mode = "operand"
  /\ \/ /\ Check(Signs)
        /\ Advance
        /\ Push(stack, Frame("unary", cur, <<>>))
        /\ Running
        /\ UNCHANGED flags
     \/ /\ Check(Literals)
        /\ Advance
        /\ mode' = "value" /\ val' = Leaf("literal", cur) /\ lvl' = PrimaryLevel
        /\ UNCHANGED <<stack, flags>>
     \/ /\ Check(DOMAIN Primaries)
        /\ Advance
        /\ Push(stack, Frame(Primaries[Current], cur, <<>>))
        /\ Running
        /\ UNCHANGED flags
     \/ /\ ~Check(Signs \cup Literals \cup DOMAIN Primaries)
        /\ hadError' = TRUE
        /\ mode' = "value" /\ val' = Null /\ lvl' = PrimaryLevel
        /\ UNCHANGED <<window, stack, panic>>
  /\ UNCHANGED <<vocab, handed, stale>>

(* The loop of parse_postfix: a call, a member, an index, or ++ and --,    *)
(* which read the operand's line.                                          *)
ParsePostfix ==
  /\ mode = "value" /\ lvl = PrimaryLevel /\ Check(Postfixes)
  /\ Advance
  /\ LET opened(fn) == Push(stack, Frame(fn, cur, <<val>>)) /\ Running
     IN \/ Current = "LPAREN" /\ opened("call")
        \/ Current = "DOT" /\ opened("member")
        \/ Current = "LBRACKET" /\ opened("index")
        \/ /\ Current \in {"INC", "DEC"}
           /\ IF val = Null THEN Crashes
              ELSE /\ val' = Node("postfix", cur, <<val>>)
                   /\ UNCHANGED <<mode, lvl>>
           /\ UNCHANGED stack
  /\ UNCHANGED <<vocab, handed, stale, flags>>

(* The loops of parse_or to parse_multiplicative, and the optional parts   *)
(* of parse_ternary and parse_assignment: the value returned on level lvl  *)
(* passes every level down to the one the activation asked for; the first  *)
(* that looks for the current token takes the value as its left operand.   *)
Applies == \E j \in Top.want .. lvl - 1 : Check(Operators[j])

ParseOperator ==
  /\ mode = "value" /\ Applies
  /\ Advance
  /\ LET fn == CASE Current = "ASSIGN" -> "assign"
                 [] Current \in Compound -> "compound"
                 [] Current = "QUESTION" -> "ternary"
                 [] OTHER -> "binary"
     IN Push(stack, Frame(fn, cur, <<val>>))
  /\ Running
  /\ UNCHANGED <<vocab, handed, stale, flags>>

(* Mutant: a list has room for MaxKids entries only.                       *)
DeliverBounded ==
  /\ mode = "value" /\ ~Applies
  /\ ~(lvl = PrimaryLevel /\ Check(Postfixes))
  /\ stack' = SetTop([Moved(Hop(0)) EXCEPT
       !.kids = IF Len(@) >= MaxKids THEN @ ELSE Append(@, val)])
  /\ Running
  /\ UNCHANGED <<vocab, window, handed, stale, flags>>

(* The call returns to its activation. After an error only MaxKids entries *)
(* of a list are kept: the statement loops can then go on without end.     *)
Deliver ==
  /\ mode = "value" /\ ~Applies
  /\ ~(lvl = PrimaryLevel /\ Check(Postfixes))
  /\ stack' = SetTop([Moved(Hop(0)) EXCEPT
       !.kids = IF hadError /\ Len(@) >= MaxKids THEN @ ELSE Append(@, val)])
  /\ Running
  /\ UNCHANGED <<vocab, window, handed, stale, flags>>

(* Mutant: a compound assignment copies its target.                        *)
BuildUnshared(kind) ==
  Node(kind, Top.start, Top.kids)

(* What a node is built from. A compound assignment puts its target into   *)
(* the tree twice.                                                         *)
Build(kind) ==
  IF kind = "compound"
  THEN Node("assign", Top.start, <<Top.kids[1], Node("binary", Top.start, Top.kids)>>)
  ELSE Node(kind, Top.start, Top.kids)

BuildNode ==
  \/ /\ At("make") \/ (At("makeAt") /\ Top.kids[1] # Null)
     /\ Return(Build(Instr.arg))
     /\ UNCHANGED <<vocab, window, handed, stale, flags>>
  \/ /\ At("makeAt") /\ Top.kids[1] = Null
     /\ Crashes
     /\ UNCHANGED <<vocab, window, handed, stale, flags, stack>>
  \/ /\ At("makeNamed")
     /\ Return(Node(Instr.arg, Top.start, <<Leaf("name", Name)>> \o Top.kids))
     /\ stale' = stale \cup IF IsStale(Name) THEN {Name} ELSE {}
     /\ freed' = Destroy(freed, Name)
     /\ UNCHANGED <<vocab, read, cur, prev, grace, handed, flags>>
  \/ /\ At("makeUnary")
     /\ Return(Build(Instr.arg))
     /\ stale' = stale \cup IF IsStale(prev) THEN {prev} ELSE {}
     /\ UNCHANGED <<vocab, window, handed, flags>>
  \/ /\ At("give") \/ At("fail")
     /\ Return(IF Instr.do = "give" THEN Top.kids[1] ELSE Null)
     /\ UNCHANGED <<vocab, window, handed, stale, flags>>

(* The end of a round of parse_program's and parse_block's loops: a NULL   *)
(* is not kept, and panic mode calls parser_synchronize.                   *)
EndRound ==
  /\ At("round")
  /\ stack' = SetTop([Moved(Instr.hit) EXCEPT
       !.kids = IF @ # <<>> /\ Last(@) = Null THEN Front(@) ELSE @])
  /\ mode' = IF panic THEN "synchronize" ELSE "run"
  /\ panic' = FALSE
  /\ UNCHANGED <<vocab, window, handed, stale, hadError, val, lvl>>

Restarts == {"VAR", "CONST", "FUNC", "CLASS", "IF", "WHILE", "FOR", "RETURN",
             "IMPORT", "EXPORT"}

(* parser_synchronize, one token at a time.                                *)
Synchronize ==
  /\ mode = "synchronize"
  /\ stale' = stale \cup IF ~Check({"EOF"}) /\ IsStale(prev) THEN {prev} ELSE {}
  /\ IF \/ Check({"EOF"} \cup Restarts)
        \/ prev # 0 /\ read[prev] = "SEMICOLON"
     THEN mode' = "run" /\ UNCHANGED window
     ELSE Advance /\ UNCHANGED mode
  /\ UNCHANGED <<vocab, handed, flags, stack, val, lvl>>

(* run_file is done with the tree and the parser: parser_destroy.          *)
DestroyParser ==
  /\ mode = "done"
  /\ freed' = Destroy(Destroy(freed, cur), prev)
  /\ mode' = "ended"
  /\ UNCHANGED <<vocab, read, cur, prev, grace, handed, stale, flags, stack, val, lvl>>

-----------------------------------------------------------------------------
(* parser_create takes the first token; parse_program is called.           *)
Init ==
  /\ vocab \in Vocabularies
  /\ \E w \in vocab.words \cup {"EOF"} : read = <<w>>
  /\ freed = <<0>> /\ cur = 1 /\ prev = 0 /\ grace = MaxAfterError
  /\ handed = {} /\ stale = {}
  /\ hadError = FALSE /\ panic = FALSE
  /\ stack = <<Frame("program", 0, <<>>)>>
  /\ mode = "run" /\ val = Null /\ lvl = 1

Next ==
  \/ NeedToken \/ TakeToken \/ MatchToken \/ CheckToken \/ UseName \/ LookAhead
  \/ ParsePart \/ ParseStatement \/ ParseOperand \/ ParsePostfix \/ ParseOperator
  \/ Deliver \/ BuildNode \/ EndRound \/ Synchronize \/ DestroyParser

(* The parser runs on one thread and the input is finite: whenever it can  *)
(* take a step it takes one.                                               *)
Spec == Init /\ [][Next]_vars /\ WF_vars(Next)

-----------------------------------------------------------------------------
Modes == {"run", "declaration", "statement", "operand", "value", "synchronize",
          "done", "ended", "crashed"}

(* Activations are at a step of their table, pointers at tokens received,  *)
(* and no token is destroyed more than twice.                              *)
TypeOK ==
  /\ vocab \in Vocabularies
  /\ \A i \in DOMAIN read : read[i] \in vocab.words \cup {"EOF"}
  /\ freed \in [DOMAIN read -> 0..2]
  /\ cur \in DOMAIN read /\ prev \in 0..cur - 1
  /\ grace \in 0..MaxAfterError
  /\ handed \subseteq 1..prev /\ stale \subseteq 1..prev
  /\ hadError \in BOOLEAN /\ panic \in BOOLEAN
  /\ mode \in Modes /\ lvl \in AssignmentLevel..PrimaryLevel
  /\ \A d \in DOMAIN stack :
       /\ stack[d].fn \in DOMAIN Code /\ stack[d].pc \in DOMAIN Code[stack[d].fn]
       /\ stack[d].start \in 0..cur /\ stack[d].want \in AssignmentLevel..UnaryLevel
       /\ \A i \in DOMAIN stack[d].names : stack[d].names[i] \in handed

(* Tokens are destroyed twice, or read after that, only if a caller of     *)
(* parser_consume destroyed them as its own; when the parser is destroyed  *)
(* every such token has been destroyed twice, every other one once, and    *)
(* the only ones not at all are looked at by parse_for_statement beyond    *)
(* the window.                                                             *)
TokenAccount ==
  /\ stale \subseteq handed
  /\ \A i \in DOMAIN read : freed[i] = 2 => i \in handed
  /\ mode = "ended" =>
       \A i \in DOMAIN read :
         \/ freed[i] = IF i \in handed THEN 2 ELSE 1
         \/ /\ freed[i] = 0 /\ i > 2
            /\ read[i - 1] = "IDENTIFIER" /\ \E k \in 1..i - 2 : read[k] = "FOR"

(* parser_parse returns, unless an error has been reported: no input       *)
(* without one keeps a statement loop going, or ends in a NULL pointer.    *)
Ends == <>(mode = "ended" \/ hadError)

-----------------------------------------------------------------------------
(* Why the account is right.                                               *)

(* How many tokens an activation holds as its own at each step of its      *)
(* table; elsewhere it holds none.                                         *)
Held ==
  [var |-> <<0, 1, 1, 1, 1, 0>>,
   func |-> <<0, 1, 1, 1, 2, 2, 2, 2, 1, 1, 1, 1, 1, 0>>,
   class |-> <<0, 1, 1, 2, 1, 1, 1, 1, 1, 1, 0>>,
   for |-> <<0, 0, 0, 0, 0, 1, 0, 0, 0, 0, 0, 0, 0, 0, 0, 0, 0>>,
   foreach |-> <<0, 1, 1, 1, 1, 1, 0>>,
   import |-> <<0, 1, 1, 1, 2, 1, 1, 1, 1, 0>>,
   export |-> <<0, 0, 1, 0, 0, 0, 0>>,
   lambda |-> <<0, 0, 0, 1, 0, 0, 0, 0, 0, 0, 0, 0>>,
   member |-> <<0, 1, 0, 0>>]
Holds(fn, pc) == IF fn \in DOMAIN Held THEN Held[fn][pc] ELSE 0

(* The window lies among the tokens received, behind what callers took.    *)
WindowOK ==
  /\ vocab \in Vocabularies
  /\ read \in Seq(vocab.words \cup {"EOF"})
  /\ freed \in Seq(Nat) /\ Len(freed) = Len(read)
  /\ cur \in 1..Len(read) /\ prev \in 0..cur - 1
  /\ grace \in 0..MaxAfterError
  /\ handed \subseteq 1..prev /\ stale \subseteq handed
  /\ hadError \in BOOLEAN /\ panic \in BOOLEAN

(* An activation is at a step of its table with the tokens it holds there; *)
(* one of a binary operator began at the operator.                         *)
FrameOK(f) ==
  /\ DOMAIN f = {"fn", "pc", "start", "kids", "names", "want"}
  /\ f.fn \in DOMAIN Code /\ f.pc \in DOMAIN Code[f.fn]
  /\ f.start \in 0..cur /\ f.want \in AssignmentLevel..UnaryLevel
  /\ f.names \in Seq(handed) /\ Len(f.names) = Holds(f.fn, f.pc)
  /\ f.fn = "binary" => f.start # 0 /\ read[f.start] \in Binary

(* One that another has called, or that waits for a node, is at a call.    *)
Calling == {"declaration", "statement", "operand", "value"}
StackOK ==
  /\ mode \in Modes /\ lvl \in AssignmentLevel..PrimaryLevel
  /\ stack \in Seq({stack[d] : d \in DOMAIN stack})
  /\ stack = <<>> <=> mode \in {"done", "ended"}
  /\ \A d \in DOMAIN stack : FrameOK(stack[d])
  /\ \A d \in DOMAIN stack :
       d # Len(stack) \/ mode \in Calling =>
         Code[stack[d].fn][stack[d].pc].do = "parse"

(* The look-ahead of parse_for_statement is made right behind the window,  *)
(* after the FOR the activation began at.                                  *)
ForOK ==
  \A d \in DOMAIN stack :
    stack[d].fn = "for" /\ stack[d].pc <= 2 =>
      /\ d = Len(stack) /\ mode = "run" /\ cur = Len(read)
      /\ stack[d].start \in 1..cur - 1 /\ read[stack[d].start] = "FOR"

(* No token is held twice.                                                 *)
NamesApart ==
  \A d, e \in DOMAIN stack : \A i \in DOMAIN stack[d].names, j \in DOMAIN stack[e].names :
    stack[d].names[i] = stack[e].names[j] => d = e /\ i = j

(* A token that was taken and is held no more was destroyed by its owner;  *)
(* one that left the window was destroyed by the parser; one was only      *)
(* looked at.                                                              *)
Spent(i) ==
  i \in handed /\ \A d \in DOMAIN stack : \A k \in DOMAIN stack[d].names : stack[d].names[k] # i
ByOwner(i) == IF Spent(i) THEN 1 ELSE 0
LookedAt(i) ==
  /\ i \in Nat /\ i > 2 /\ read[i - 1] = "IDENTIFIER"
  /\ \E k \in 1..i - 2 : read[k] = "FOR"
FreedOK ==
  \A i \in 1..Len(read) :
    IF i \in {cur, prev} /\ mode # "ended" THEN freed[i] = ByOwner(i)
    ELSE \/ freed[i] = 1 + ByOwner(i)
         \/ freed[i] = 0 /\ i \notin handed /\ LookedAt(i)

IInv == WindowOK /\ StackOK /\ ForOK /\ NamesApart /\ FreedOK
=============================================================================
