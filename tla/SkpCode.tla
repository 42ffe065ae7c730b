------------------------------- MODULE SkpCode -------------------------------
(* The code that compiler.c emits, beside SkpScopes, which has its tables  *)
(* of names: bytes, jumps and their patching, and what each construct      *)
(* leaves on the stack when vm_run executes it.                            *)
(*                                                                         *)
(* A compile_ function is the list of what it emits and compiles, in its   *)
(* order (Expressions, Statements); todo is what the visitor has left to   *)
(* do. The syntax tree is chosen on the way: any tree the parser builds.   *)
EXTENDS Integers, Sequences, FiniteSets, SequencesExt

CONSTANTS
  Vocabularies,\* the programs: the kinds of node, how many but for leaves
  MaxParts,    \* bound: arguments, elements, parameters, statements of a list
  MaxIndex,    \* the largest operand of one byte, 255
  MaxJump,     \* the largest operand of two bytes, 65535
  MaxUpvalues  \* bound: upvalues of a function, 256 in the code

ASSUME CodeAssumption ==
  /\ \A v \in Vocabularies : v \in [nodes : Nat, kinds : SUBSET STRING]
  /\ MaxParts \in Nat /\ MaxUpvalues \in Nat
  /\ MaxIndex \in 0..255 /\ MaxJump \in Nat /\ MaxJump < 256 * 256

VARIABLES
  ctxs,   \* compiler->current and its enclosing contexts, innermost last
  todo,   \* the steps left
  program,\* the kinds of node, and how many the program may still have
  ended   \* "compiling"; "done"; "rejected": had_error; "crashed"

vars == <<ctxs, todo, program, ended>>

-----------------------------------------------------------------------------
(* opcode_t, in order: a byte of code is a place in this list.             *)
Opcodes ==
  << "CONST_INT", "CONST_FLOAT", "CONST_STRING", "CONST_TRUE", "CONST_FALSE",
     "CONST_NULL", "CONST_LIST", "CONST_DICT", "GET_LOCAL", "SET_LOCAL",
     "GET_GLOBAL", "SET_GLOBAL", "GET_UPVALUE", "SET_UPVALUE", "GET_FIELD",
     "SET_FIELD", "GET_INDEX", "SET_INDEX", "DEFINE_GLOBAL", "ADD", "SUB", "MUL",
     "DIV", "MOD", "POW", "NEG", "NOT", "AND", "OR", "EQ", "NE", "LT", "GT", "LE",
     "GE", "BIT_AND", "BIT_OR", "BIT_XOR", "BIT_NOT", "SHL", "SHR", "JUMP",
     "JUMP_IF_FALSE", "JUMP_IF_TRUE", "LOOP", "CALL", "RETURN", "RETURN_VOID",
     "CLOSURE", "CLOSE_UPVALUE", "CLASS", "METHOD", "INHERIT", "GET_SUPER",
     "SUPER_INVOKE", "THROW", "TRY_START", "TRY_END", "CATCH", "FINALLY", "POP",
     "DUP", "SWAP", "PRINT", "IMPORT", "EXPORT", "HALT" >>
Number == [op \in Range(Opcodes) |-> CHOOSE i \in 0..Len(Opcodes) - 1 : Opcodes[i + 1] = op]

(* What vm_run reads behind an opcode, and what it does to the height of   *)
(* the stack: n is the operand that is a number of values.                 *)
OneByte == {"CONST_INT", "CONST_FLOAT", "CONST_STRING", "CONST_LIST", "CONST_DICT",
            "GET_LOCAL", "SET_LOCAL", "GET_GLOBAL", "SET_GLOBAL", "GET_UPVALUE",
            "SET_UPVALUE", "GET_FIELD", "SET_FIELD", "DEFINE_GLOBAL", "CALL",
            "CLASS", "METHOD", "IMPORT", "EXPORT"}
TwoBytes == {"JUMP", "JUMP_IF_FALSE", "JUMP_IF_TRUE", "LOOP"}

Pushes == {"CONST_INT", "CONST_NULL", "GET_LOCAL", "GET_GLOBAL", "GET_UPVALUE",
           "CLASS", "CLOSURE", "one"}
Pops == {"SET_FIELD", "GET_INDEX", "DEFINE_GLOBAL", "ADD", "RETURN",
         "CLOSE_UPVALUE", "POP", "METHOD", "INHERIT", "EQ"}
Effect(op, n) ==
  CASE op = "CONST_LIST" -> 1 - n
    [] op = "CONST_DICT" -> 1 - 2 * n
    [] op = "CALL" -> 0 - n
    [] op = "SET_INDEX" -> 0 - 2
    [] op \in Pushes -> 1
    [] op \in Pops -> 0 - 1
    [] OTHER -> 0

-----------------------------------------------------------------------------
(* The steps.                                                              *)
Step(do, arg, n) == [do |-> do, arg |-> arg, n |-> n]
None == "none"
Expr == Step("expr", None, 0)              \* compile_expression of a part
Stmt == Step("stmt", "statement", 0)     \* compile_node of a part: a statement,
Decl == Step("stmt", "declaration", 0)   \* ... or a declaration,
Block == Step("stmt", "block", 0)        \* ... or a block
Op(op) == Step("op", op, 0)              \* emit_opcode
OpN(op, n) == Step("op", op, n)          \* emit_bytes with a number of values
Name(op) == Step("name", op, 0)          \* emit_bytes with an identifier_constant
Constant == Step("constant", None, 0)      \* emit_constant
One == Step("one", None, 0)                \* emit_byte(compiler, 1)
Variable(how) == Step("variable", how, 0)\* named_variable
Begin == Step("begin", None, 0)            \* begin_scope
EndScope == Step("endscope", None, 0)      \* end_scope
Declare == Step("declare", None, 0)        \* declare_variable
Unset == Step("declare", "unset", 0)     \* ... with no define_variable to come
Define(of) == Step("define", of, 0)      \* define_variable
If == Step("if", None, 0)                  \* emit_jump(OP_JUMP_IF_FALSE)
Exit == Step("exit", None, 0)              \* emit_jump(OP_JUMP_IF_TRUE)
Skip == Step("skip", None, 0)              \* emit_jump(OP_JUMP)
Else == Step("else", None, 0)              \* patch_jump of the jump before the last
Join == Step("join", None, 0)              \* patch_jump of the last jump
Start == Step("start", None, 0)            \* loop_start = chunk.count
Loop(n) == Step("loop", None, n)           \* emit_loop; n jumps lead out of it
Enter(type, n) == Step("enter", type, n) \* create_compiler, with n parameters
Leave(type) == Step("leave", type, 0)    \* destroy_compiler
Refuse == Step("refuse", None, 0)          \* had_error
Halt == Step("halt", None, 0)              \* the end of compiler_compile

Times(n, steps) == [i \in 1..n * Len(steps) |-> steps[((i - 1) % Len(steps)) + 1]]
Maybe(steps) == {<<>>, steps}
Parts == 0..MaxParts

(* A lambda's body is an expression, behind an arrow, or a block.          *)
Lambdas == {"arrow", "lambda"}

(* compile_call, compile_list_literal, compile_dict_literal, compile_lambda. *)
CallOf(n) == Times(n, <<Expr>>) \o <<Expr, OpN("CALL", n)>>
ListOf(n) == Times(n, <<Expr>>) \o <<OpN("CONST_LIST", n)>>
DictOf(n) == Times(n, <<Expr, Expr>>) \o <<OpN("CONST_DICT", n)>>
LambdaOf(type, n) ==
  <<Enter(type, n), IF type = "arrow" THEN Expr ELSE Block, Op("RETURN_VOID"), Leave(type)>>

(* compile_expression. A name that is read is compiled as if assigned to.  *)
Expressions ==
  [number |-> {<<Constant>>}, null |-> {<<Op("CONST_NULL")>>},
   identifier |-> {<<Variable("SET")>>},
   binary |-> {<<Expr, Expr, Op("ADD")>>}, unary |-> {<<Expr, Op("NEG")>>},
   increment |-> {<<Expr, One, Op("ADD")>>},
   assignment |-> {<<Expr, Variable("ASSIGN")>>, <<Expr, Expr, Name("SET_FIELD")>>,
                   <<Expr, Expr, Expr, Op("SET_INDEX")>>, <<Expr, Refuse>>},
   call |-> {CallOf(n) : n \in Parts},
   member |-> {<<Expr, Name("GET_FIELD")>>}, index |-> {<<Expr, Expr, Op("GET_INDEX")>>},
   list |-> {ListOf(n) : n \in Parts},
   dict |-> {DictOf(n) : n \in Parts},
   lambda |-> {LambdaOf(type, n) : n \in Parts, type \in Lambdas},
   ternary |-> {<<Expr, If, Expr, Skip, Else, Expr, Join>>}]

Body(type, n) == <<Enter(type, n), Block, Op("RETURN_VOID"), EndScope, Leave(type)>>

(* A variable's first value.                                               *)
Values == {Expr, Op("CONST_NULL")}

(* compile_class_decl, compile_if, compile_for, compile_block,             *)
(* compile_export.                                                         *)
ClassOf(n, parent) ==
  <<Declare, Name("CLASS"), Define("class"), Variable("GET")>> \o parent
    \o Times(n, Body("method", n)) \o <<Op("POP")>>
IfOf(otherwise) == <<Expr, If, Stmt, Skip, Else>> \o otherwise \o <<Join>>
ForOf(init, test, step) ==
  <<Begin>> \o init \o <<Start>> \o test \o <<Stmt>> \o step \o <<Loop(Len(test) \div 2), EndScope>>
BlockOf(n) == <<Begin>> \o Times(n, <<Decl>>) \o <<EndScope>>
ExportOf(n) == Times(n, <<Name("EXPORT")>>)

(* compile_foreach. Its variable gets no depth, and no value of its own    *)
(* lies on the stack.                                                      *)
Foreach ==
  <<Begin, Declare, Expr, Define("iterator"), Unset>>
    \o <<Start, Variable("GET"), Op("CONST_NULL")>> \o <<Op("CONST_NULL"), Op("EQ"), Exit>>
    \o <<Variable("ASSIGN"), Stmt, Loop(1), EndScope>>

Firsts ==
  {<<>>, <<Expr, Op("POP")>>} \cup {<<Declare, value, Define("counter")>> : value \in Values}

(* compile_declaration, compile_statement and the functions they call.     *)
(* break and continue emit nothing.                                        *)
Statements ==
  [expression |-> {<<Expr, Op("POP")>>},
   var |-> {<<Declare, value, Define("var")>> : value \in Values},
   func |-> {Body("function", n) : n \in Parts},
   class |-> {ClassOf(n, parent) : n \in Parts, parent \in Maybe(<<Variable("GET"), Op("INHERIT")>>)},
   if |-> {IfOf(otherwise) : otherwise \in Maybe(<<Stmt>>)},
   while |-> {<<Start, Expr, If, Stmt, Loop(1)>>},
   for |-> {ForOf(init, test, step) : init \in Firsts, test \in Maybe(<<Expr, If>>),
                                     step \in Maybe(<<Expr, Op("POP")>>)},
   foreach |-> {Foreach},
   return |-> {<<Expr, Op("RETURN")>>, <<Op("RETURN_VOID")>>},
   break |-> {<<>>},
   block |-> {BlockOf(n) : n \in Parts},
   import |-> {<<Name("IMPORT")>>},
   export |-> {ExportOf(n) : n \in Parts}]

(* What the parser puts in each place.                                     *)
Leaves == {"number", "null", "identifier"}
Kinds(place) ==
  CASE place = "block" -> {"block"}
    [] place = "statement" -> DOMAIN Statements \ {"var", "func", "class", "import", "export"}
    [] OTHER -> DOMAIN Statements

-----------------------------------------------------------------------------
(* Contexts. The account is what running the code up to here makes of the  *)
(* stack: its height, and by how much that is off from one slot for every  *)
(* local. An instruction is noted with the place it was written to and the *)
(* place it is to go to.                                                   *)
Context(type, n) ==
  [type |-> type, code |-> <<>>, insns |-> <<>>,
   locals |-> IF type = "script" THEN <<>> ELSE
              IF type \in Lambdas THEN <<0>> ELSE <<0>> \o [i \in 1..n |-> 1],
   depth |-> IF type \in {"script"} \cup Lambdas THEN 0 ELSE 1,
   constants |-> 0, marks |-> <<>>,
   account |-> [height |-> IF type = "script" THEN 0 ELSE 1 + n, owed |-> 0]]

Now == ctxs[Len(ctxs)]
Count(c) == Len(c.code)
SetNow(c) == ctxs' = [ctxs EXCEPT ![Len(ctxs)] = c]
At(do) == ended = "compiling" /\ todo # <<>> /\ Head(todo).do = do
Arg == Head(todo).arg
Amount == Head(todo).n
GoOn == todo' = Tail(todo) /\ UNCHANGED <<program, ended>>

(* emit_byte and emit_bytes: op, whose first byte is b, and its operands.  *)
Write(c, op, b, operands, n) ==
  [c EXCEPT !.code = @ \o <<b>> \o operands,
            !.insns = Append(@, [op |-> op, at |-> Count(c), to |-> -1]),
            !.account.height = @ + Effect(op, n)]
Emit(c, op, operands, n) == Write(c, op, Number[op], operands, n)
Owe(c, n) == [c EXCEPT !.account.owed = @ + n]

(* identifier_constant: its index, as the byte it is returned as.          *)
NameIndex(c) == c.constants % (MaxIndex + 1)
LastIndex(c) == (c.constants - 1) % (MaxIndex + 1)
AddName(c) == [c EXCEPT !.constants = @ + 1]

(* patch_jump, given the place of the opcode: the first two bytes there    *)
(* are overwritten. The jump is noted with the place it is meant for.      *)
PatchJump(c, at) ==
  LET jump == Count(c) - at - 2
  IN [c EXCEPT !.code[at + 1] = jump \div 256, !.code[at + 2] = jump % 256,
               !.insns = [i \in DOMAIN @ |-> IF @[i].at = at THEN [@[i] EXCEPT !.to = Count(c)]
                                             ELSE @[i]]]

(* patch_jump and emit_loop refuse a distance beyond two bytes.            *)
CanPatch(c, at) == Count(c) - at - 2 <= MaxJump
CanLoop(c, start) == (Count(c) + 1) - start + 2 <= MaxJump
Reject == ended' = "rejected" /\ UNCHANGED <<ctxs, todo, program>>

(* Mutant: the offset is counted from the opcode.                          *)
EmitLoopShort(c, start) ==
  LET offset == Count(c) + 1 - start
      w == Emit(c, "LOOP", <<offset \div 256, offset % 256>>, 0)
  IN [w EXCEPT !.insns[Len(w.insns)].to = start]

(* emit_loop.                                                              *)
EmitLoop(c, start) ==
  LET offset == (Count(c) + 1) - start + 2
      w == Emit(c, "LOOP", <<offset \div 256, offset % 256>>, 0)
  IN [w EXCEPT !.insns[Len(w.insns)].to = start]

-----------------------------------------------------------------------------
(* compile_expression and compile_statement choose by the node's kind.     *)
Spend == program' = [program EXCEPT !.nodes = @ - 1]

CompileExpression ==
  /\ At("expr")
  /\ \E kind \in DOMAIN Expressions \cap program.kinds :
       /\ IF kind \in Leaves THEN UNCHANGED program ELSE program.nodes > 0 /\ Spend
       /\ \E steps \in Expressions[kind] : todo' = steps \o Tail(todo)
  /\ UNCHANGED <<ctxs, ended>>

(* A body or branch that the bound leaves no node for is an empty block.   *)
CompileStatement ==
  /\ At("stmt")
  /\ \/ /\ program.nodes > 0 /\ Spend
        /\ \E kind \in Kinds(Arg) \cap program.kinds :
             \E steps \in Statements[kind] : todo' = steps \o Tail(todo)
     \/ /\ program.nodes = 0 /\ UNCHANGED program
        /\ todo' = <<Begin, EndScope>> \o Tail(todo)
  /\ UNCHANGED <<ctxs, ended>>

(* A number of values is cut to a byte: what it leaves out stays on the    *)
(* stack.                                                                  *)
EmitOp ==
  /\ At("op")
  /\ LET n == Amount % (MaxIndex + 1)
     IN SetNow(Owe(Emit(Now, Arg, IF Arg \in OneByte THEN <<n>> ELSE <<>>, n),
                   Effect(Arg, n) - Effect(Arg, Amount)))
  /\ GoOn

(* Mutant: an opcode without the index of its name.                        *)
EmitNameBare ==
  /\ At("name")
  /\ SetNow(AddName(Emit(Now, Arg, <<>>, 0)))
  /\ GoOn

EmitName ==
  /\ At("name")
  /\ SetNow(AddName(Emit(Now, Arg, <<NameIndex(Now)>>, 0)))
  /\ GoOn

(* emit_constant: every constant is loaded as an integer; one that has no  *)
(* byte for its index is an error.                                         *)
EmitConstant ==
  /\ At("constant")
  /\ IF Now.constants > MaxIndex
     THEN Reject
     ELSE SetNow(AddName(Emit(Now, "CONST_INT", <<Now.constants>>, 0))) /\ GoOn

(* compile_unary's ++ and --: a byte 1 for "one".                          *)
EmitOne == At("one") /\ SetNow(Write(Now, "one", 1, <<>>, 0)) /\ GoOn

(* named_variable: a local, an upvalue, or a global by its name. A value   *)
(* that is read is not pushed.                                             *)
NamedVariable ==
  /\ At("variable")
  /\ \E where \in {"LOCAL", "UPVALUE", "GLOBAL"} :
       LET op == CASE where = "LOCAL" -> IF Arg = "GET" THEN "GET_LOCAL" ELSE "SET_LOCAL"
                   [] where = "UPVALUE" -> IF Arg = "GET" THEN "GET_UPVALUE" ELSE "SET_UPVALUE"
                   [] OTHER -> IF Arg = "GET" THEN "GET_GLOBAL" ELSE "SET_GLOBAL"
           c == IF where = "GLOBAL" THEN AddName(Emit(Now, op, <<NameIndex(Now)>>, 0))
                ELSE Emit(Now, op, <<0>>, 0)
       IN /\ where = "LOCAL" => Now.locals # <<>>
          /\ where = "UPVALUE" => Len(ctxs) > 1
          /\ SetNow(Owe(c, IF Arg = "SET" THEN -1 ELSE 0))
  /\ GoOn

BeginScope == At("begin") /\ SetNow([Now EXCEPT !.depth = @ + 1]) /\ GoOn

(* Mutant: the locals go, their values stay.                               *)
LeaveScopeSilently ==
  /\ At("endscope")
  /\ LET out == Now.depth - 1
     IN SetNow([Now EXCEPT !.depth = out,
                           !.locals = SelectSeq(@, LAMBDA d : d <= out)])
  /\ GoOn

(* end_scope: one local after the other, captured or not.                  *)
LeaveScope ==
  /\ At("endscope")
  /\ IF Now.locals # <<>> /\ Last(Now.locals) > Now.depth - 1
     THEN /\ \E op \in {"POP", "CLOSE_UPVALUE"} :
               SetNow([Emit(Now, op, <<>>, 0) EXCEPT !.locals = Front(@)])
          /\ UNCHANGED <<todo, program, ended>>
     ELSE SetNow([Now EXCEPT !.depth = @ - 1]) /\ GoOn

(* declare_variable, for a name that its scope does not have yet and a     *)
(* table that is not full: SkpScopes has the refusals. The variable of a   *)
(* for-each loop is a local without a value.                               *)
DeclareVariable ==
  /\ At("declare")
  /\ SetNow(IF Now.depth = 0 THEN Now
            ELSE Owe([Now EXCEPT !.locals = Append(@, -1)], IF Arg = "unset" THEN -1 ELSE 0))
  /\ GoOn

(* define_variable. A local is the value that lies on the stack. A         *)
(* function's name is no local (Arg is then "func"): its closure stays on  *)
(* the stack, and the depth that is set is that of the last local. A       *)
(* variable's name becomes a constant here, the others are one already.    *)
DefineVariable ==
  /\ At("define")
  /\ LET c == IF Arg = "var" THEN AddName(Now) ELSE Now
     IN SetNow(IF c.depth = 0 THEN Emit(c, "DEFINE_GLOBAL", <<LastIndex(c)>>, 0)
               ELSE Owe(IF c.locals = <<>> THEN c
                        ELSE [c EXCEPT !.locals[Len(c.locals)] = c.depth],
                        IF Arg = "func" THEN 1 ELSE 0))
  /\ GoOn

(* The jumps. The condition stays on the stack, that of a for-each loop    *)
(* with the iterator below it. A mark has the account at its place and how *)
(* many locals were below it. Code that is reached from there finds their  *)
(* values, also where the code between has taken locals off the table (see *)
(* DefineVariable).                                                        *)
Mark(c) == [at |-> Count(c), account |-> c.account, locals |-> Len(c.locals)]
LastMark == Last(Now.marks)
Resume(c, m) ==
  [c EXCEPT !.account = [m.account EXCEPT !.owed = @ + (m.locals - Len(c.locals))]]

Jump == [if |-> "JUMP_IF_FALSE", exit |-> "JUMP_IF_TRUE", skip |-> "JUMP"]
Stays == [if |-> 1, exit |-> 2, skip |-> 0]

EmitJump ==
  /\ \E kind \in DOMAIN Jump :
       LET c == Owe(Now, Stays[kind])
       IN /\ At(kind)
          /\ SetNow([Emit(c, Jump[kind], <<255, 255>>, 0) EXCEPT !.marks = Append(@, Mark(c))])
  /\ GoOn

(* The other branch begins with the stack that the first one began with.   *)
PatchElse ==
  /\ At("else")
  /\ LET m == Now.marks[Len(Now.marks) - 1]
     IN IF ~CanPatch(Now, m.at) THEN Reject
        ELSE SetNow([Resume(PatchJump(Now, m.at), m) EXCEPT
                       !.marks = Append(SubSeq(@, 1, Len(@) - 2), Last(@))]) /\ GoOn

(* Either branch may have been taken.                                      *)
PatchEnd ==
  /\ At("join")
  /\ LET c == PatchJump(Now, LastMark.at)
     IN IF ~CanPatch(Now, LastMark.at) THEN Reject
        ELSE (\E d \in {c, Resume(c, LastMark)} : SetNow([d EXCEPT !.marks = Front(@)])) /\ GoOn

StartLoop ==
  /\ At("start")
  /\ SetNow([Now EXCEPT !.marks = Append(@, Mark(Now))])
  /\ GoOn

(* Mutant: the exit jump is not patched.                                   *)
EndLoopOpen ==
  /\ At("loop")
  /\ LET start == Now.marks[Len(Now.marks) - Amount]
     IN SetNow([EmitLoop(Now, start.at) EXCEPT
                  !.marks = SelectSeq(@, LAMBDA m : m # start)])
  /\ GoOn

(* emit_loop, and patch_jump of the exit: the loop is left where its       *)
(* condition is tested.                                                    *)
EndLoop ==
  /\ At("loop")
  /\ LET n == Amount
         start == Now.marks[Len(Now.marks) - n].at
         c == EmitLoop(Now, start)
         d == IF n = 0 THEN c ELSE Resume(PatchJump(c, LastMark.at), LastMark)
     IN IF ~CanLoop(Now, start) \/ (n > 0 /\ ~CanPatch(c, LastMark.at)) THEN Reject
        ELSE SetNow([d EXCEPT !.marks = SubSeq(@, 1, Len(@) - n - 1)]) /\ GoOn

(* compile_assignment to what is neither a name, a member nor an element.  *)
InvalidTarget == At("refuse") /\ Reject

(* create_compiler. A lambda's parameters are no locals: the code stores   *)
(* the arguments as globals.                                               *)
EnterFunction ==
  /\ At("enter")
  /\ ctxs' = Append(ctxs, Context(Arg, Amount))
  /\ todo' = (IF Arg \in Lambdas THEN Times(Amount, <<Step("argument", None, 0)>>) ELSE <<>>)
             \o Tail(todo)
  /\ UNCHANGED <<program, ended>>

StoreArgument ==
  /\ At("argument")
  /\ SetNow(Emit(Now, "DEFINE_GLOBAL", <<0>>, 0))
  /\ GoOn

(* The function's context is destroyed and the closure emitted; a method   *)
(* has none. A lambda's chunk has been given away by then, all but the     *)
(* number of its constants, which are read through NULL.                   *)
LeaveFunction ==
  /\ At("leave")
  /\ IF Arg \in Lambdas /\ Now.constants > 0
     THEN ended' = "crashed" /\ UNCHANGED <<ctxs, todo, program>>
     ELSE /\ \E upvalues \in 0..MaxUpvalues :
               LET out == ctxs[Len(ctxs) - 1]
                   named == IF Arg \in Lambdas THEN out ELSE AddName(out)
                   pairs == Times(upvalues, <<1, 0>>)
                   made == IF Arg = "method" THEN Owe(Emit(named, "METHOD", <<LastIndex(named)>>, 0), -1)
                           ELSE Emit(named, "CLOSURE", <<upvalues % 256>> \o pairs, 0)
               IN ctxs' = [Front(ctxs) EXCEPT ![Len(ctxs) - 1] = made]
          /\ todo' = (IF Arg = "function" THEN <<Define("func")>> ELSE <<>>) \o Tail(todo)
          /\ UNCHANGED <<program, ended>>

CompileEnd ==
  /\ At("halt")
  /\ SetNow(Emit(Now, "HALT", <<>>, 0))
  /\ ended' = "done" /\ todo' = <<>>
  /\ UNCHANGED program

-----------------------------------------------------------------------------
Init ==
  /\ ctxs = <<Context("script", 0)>>
  /\ \E n \in 0..MaxParts : todo = Times(n, <<Decl>>) \o <<Halt>>
  /\ program \in Vocabularies /\ ended = "compiling"

Next ==
  \/ CompileExpression \/ CompileStatement \/ EmitOp \/ EmitName \/ EmitConstant
  \/ EmitOne \/ NamedVariable \/ BeginScope \/ LeaveScope \/ DeclareVariable
  \/ InvalidTarget \/ DefineVariable \/ EmitJump \/ PatchElse \/ PatchEnd \/ StartLoop \/ EndLoop
  \/ EnterFunction \/ StoreArgument \/ LeaveFunction \/ CompileEnd

Spec == Init /\ [][Next]_vars

-----------------------------------------------------------------------------
(* Code is bytes, every jump is patched when its construct is left, and    *)
(* every scope that was begun has ended when a context is.                 *)
TypeOK ==
  /\ ended \in {"compiling", "done", "rejected", "crashed"} /\ program.nodes \in Nat
  /\ \A d \in DOMAIN ctxs :
       /\ \A i \in DOMAIN ctxs[d].code : ctxs[d].code[i] \in 0..255
       /\ \A m \in Range(ctxs[d].marks) : m.at \in 0..Count(ctxs[d])
       /\ ctxs[d].depth \in Nat
  /\ ended = "done" \/ At("leave") => Now.marks = <<>> /\ Now.depth = 0

Finished == ended = "done" \/ At("leave")

(* vm_run reads the instruction at p: its opcode and how far it goes.      *)
Reads(c, p) ==
  IF c.code[p + 1] < Len(Opcodes) THEN Opcodes[c.code[p + 1] + 1] ELSE "unknown"
Byte(c, p) == IF p < Count(c) THEN c.code[p + 1] ELSE 0
Width(c, p) ==
  CASE Reads(c, p) \in OneByte -> 2
    [] Reads(c, p) \in TwoBytes -> 3
    [] Reads(c, p) = "CLOSURE" -> 3 + 2 * Byte(c, p + 2)
    [] OTHER -> 1
NextPlace(c, i) == IF i = Len(c.insns) THEN Count(c) ELSE c.insns[i + 1].at

(* The distance that patch_jump has written over the opcode of a jump has  *)
(* that opcode as its high byte.                                           *)
LooksLikeJump(insn) == (insn.to - insn.at - 2) \div 256 = Number[insn.op]

(* vm_run reads every instruction as it was written, opcode and operands,  *)
(* except the byte for "one" and closures, which it never does, and jumps, *)
(* which it does only where the distance has the opcode's number as its    *)
(* high byte (10496 bytes at least, patch_jump): code stays in step        *)
(* exactly without conditions, for-each loops, ++ and functions.           *)
ReadAsWritten ==
  Finished =>
    \A i \in DOMAIN Now.insns :
      LET insn == Now.insns[i]
      IN (Reads(Now, insn.at) = insn.op /\ insn.at + Width(Now, insn.at) = NextPlace(Now, i))
           <=> /\ insn.op \notin {"one", "CLOSURE"}
               /\ insn.op \in Range(Jump) => LooksLikeJump(insn)

(* A loop goes back to the first byte of its condition, or of its body     *)
(* where it has none: the offset counts the instruction itself.            *)
LoopsReturn ==
  \A i \in DOMAIN Now.insns :
    LET at == Now.insns[i].at
    IN Now.insns[i].op = "LOOP" =>
         /\ at + 3 - (Now.code[at + 2] * 256 + Now.code[at + 3]) = Now.insns[i].to
         /\ \E j \in DOMAIN Now.insns : Now.insns[j].at = Now.insns[i].to

(* Between statements the stack holds a value for each local, and is off   *)
(* by exactly this much: one more for every condition that was tested, in  *)
(* every round of a loop, another one in every round of a for-each loop,   *)
(* one for every function declared in a block, for the value of a lambda's *)
(* expression, for every value that a list's or call's byte of a number    *)
(* leaves out, and for every local that the code of the other branch took  *)
(* off the table; one less for every variable that was read, every         *)
(* for-each loop's variable and every method. The account is that of the   *)
(* instructions as they were written; how vm_run reads them is             *)
(* ReadAsWritten's.                                                        *)
Kept == IF At("leave") /\ Arg = "arrow" THEN 1 ELSE 0
HeightAccount ==
  At("stmt") \/ At("loop") \/ At("halt") \/ At("leave") =>
    Now.account.height = Len(Now.locals) + Now.account.owed + Kept
=============================================================================
