------------------------------ MODULE SkpScopes ------------------------------
(***************************************************************************)
(* Scopes, local variables and upvalues in the SEEKEP compiler             *)
(* (compiler.c): what the visitor of the syntax tree declares, which slot  *)
(* or upvalue a name is compiled to, and what leaves the stack at the end  *)
(* of a block.                                                             *)
(*                                                                         *)
(* The syntax tree is any tree: `nest' is the path of constructs the       *)
(* visitor is inside, and each action is the part of a compile_ function   *)
(* between two of its recursive calls. The names a construct declares are  *)
(* noted in its entry of `nest', which is what the invariants compare the  *)
(* compiler's tables with. Conditions, operators, jumps and the code that  *)
(* is emitted for them leave these tables alone.                           *)
(*                                                                         *)
(* Two functions take the compiler, whose first member is the current      *)
(* context, and are called with a context, whose first member is the       *)
(* enclosing one (compiler.c:268, 274 and 335): they read `enclosing' as   *)
(* `current'. The compilers the Makefile names accept the calls with a     *)
(* warning, and the model does what the compiled code does.                *)
(***************************************************************************)
EXTENDS Integers, Sequences, FiniteSets, SequencesExt

CONSTANTS
  Names,        (* the names programs declare and use                      *)
  This,         (* the name of slot 0 in every function                    *)
  Iter,         (* the name of a for-each loop's hidden variable           *)
  NoName,       (* no name                                                 *)
  Constructs,   (* the constructs programs use                             *)
  LocalsMax,    (* the places in locals[]: 256                             *)
  UpvaluesMax,  (* the places in upvalues[]: 256                           *)
  MaxNest       (* bound: constructs inside each other                     *)

ASSUME NamesAssumption ==
  /\ This \notin Names /\ Iter \notin Names \cup {This}
  /\ NoName \notin Names \cup {This, Iter}
ASSUME LimitsAssumption == LocalsMax \in Nat \ {0, 1} /\ UpvaluesMax \in Nat \ {0}
ASSUME ConstructsAssumption ==
  Constructs \subseteq {"block", "var", "for", "foreach", "function", "inner function",
                        "lambda", "parameters", "class"}

VARIABLES
  ctxs,       (* the contexts of the functions being compiled, the         *)
              (* innermost last: compiler->current and its enclosing chain *)
  nest,       (* the constructs the visitor is inside                      *)
  rejected,   (* compiler->had_error, as the name that was refused         *)
  used        (* the last name compiled and the variable that its code     *)
              (* reaches when it runs                                      *)

vars == <<ctxs, nest, rejected, used>>

Construct(w, s) == [what |-> w, names |-> s]

Here  == ctxs[Len(ctxs)]
Inner == IF nest = <<>> THEN Construct("script", <<>>) ELSE nest[Len(nest)]

(* Local slots are numbered from 1 here. `from' is the length of nest when *)
(* the function was entered.                                               *)
Locals(depths)  == [name : Names \cup {This, Iter}, depth : depths, captured : BOOLEAN]
UpvalueTable    == Seq([index : Nat, is_local : BOOLEAN])
Global          == [ctx |-> 0, slot |-> 0]
Crashed         == [ctx |-> -1, slot |-> 0]   \* a NULL context was read
NotUsed         == [name |-> NoName, at |-> Global]

TypeOK ==
  /\ \A i \in 1 .. Len(ctxs) :
       /\ ctxs[i].locals \in Seq(Locals(-1 .. MaxNest + 2))
       /\ Len(ctxs[i].locals) <= LocalsMax
       /\ ctxs[i].upvalues \in UpvalueTable
       /\ Len(ctxs[i].upvalues) <= UpvaluesMax
       /\ ctxs[i].scope_depth \in Nat
       /\ ctxs[i].from \in 0 .. Len(nest)
  /\ rejected \in Names \cup {NoName, Iter}

(* A script's context starts without locals, a function's with slot 0.     *)
Context(script) ==
  [locals |-> IF script THEN <<>>
              ELSE <<[name |-> This, depth |-> 0, captured |-> FALSE]>>,
   upvalues |-> <<>>, scope_depth |-> 0, from |-> Len(nest)]

Init ==
  /\ nest = <<>>
  /\ ctxs = <<Context(TRUE)>>
  /\ rejected = NoName
  /\ used = NotUsed

-----------------------------------------------------------------------------
(* Scopes and declarations, on one context.                                *)

BeginScope(c) == [c EXCEPT !.scope_depth = @ + 1]

(* Mutant: a local of the scope around counts as left.                     *)
EndScopeTooFar(c) ==
  LET d    == c.scope_depth - 1
      kept == {n \in 0 .. Len(c.locals) : n > 0 => c.locals[n].depth < d}
  IN  [c EXCEPT !.scope_depth = d,
                !.locals = SubSeq(@, 1, CHOOSE n \in kept : \A m \in kept : m <= n)]

(* Mutant: only one local is taken off.                                    *)
EndScopeOnce(c) ==
  [c EXCEPT !.scope_depth = @ - 1,
            !.locals = IF @ # <<>> /\ Last(@).depth >= c.scope_depth THEN Front(@) ELSE @]

(* end_scope takes locals off the end while they belong to the scope.      *)
EndScope(c) ==
  LET d    == c.scope_depth - 1
      kept == {n \in 0 .. Len(c.locals) : n > 0 => c.locals[n].depth <= d}
  IN  [c EXCEPT !.scope_depth = d,
                !.locals = SubSeq(@, 1, CHOOSE n \in kept : \A m \in kept : m <= n)]

(* Mutant: the search goes on into the outer scopes.                       *)
ClashAnywhere(c, n) == \E i \in 1 .. Len(c.locals) : c.locals[i].name = n

(* Mutant: only the last local is looked at.                               *)
ClashWithLast(c, n) == c.locals # <<>> /\ Last(c.locals).name = n

(* declare_variable looks back to the first defined local of an outer      *)
(* scope.                                                                  *)
Clash(c, n) ==
  \E i \in 1 .. Len(c.locals) :
    /\ c.locals[i].name = n
    /\ \A j \in i .. Len(c.locals) :
         c.locals[j].depth = -1 \/ c.locals[j].depth >= c.scope_depth

(* Mutant: add_local does not look at the size of the table.               *)
RejectedWhenClashing(c, n) == c.scope_depth > 0 /\ Clash(c, n)

Rejected(c, n) ==
  c.scope_depth > 0 /\ (Clash(c, n) \/ Len(c.locals) >= LocalsMax)

(* In the global scope nothing is declared.                                *)
Declare(c, n) ==
  IF c.scope_depth = 0 \/ Rejected(c, n) THEN c
  ELSE [c EXCEPT !.locals = Append(@, [name |-> n, depth |-> -1, captured |-> FALSE])]

(* define_variable gives the last local, whichever it is, the depth of the *)
(* scope. A global emits code only; a local table without an entry is      *)
(* written in front of its start, outside the tables modelled here.        *)
Define(c) ==
  IF c.scope_depth = 0 \/ c.locals = <<>> THEN c
  ELSE [c EXCEPT !.locals[Len(c.locals)].depth = c.scope_depth]

-----------------------------------------------------------------------------
(* Names. A context's enclosing one is the one before it; 0 is NULL. Every *)
(* operator is about the contexts cs.                                      *)

(* resolve_local, on the table of one context: the last local with the     *)
(* name, 0 if there is none.                                               *)
ResolveLocal(c, n) == SelectLastInSeq(c.locals, LAMBDA l : l.name = n)

(* add_upvalue: the table, and the index of u in it. A full table answers  *)
(* with its first entry, and had_error is not set.                         *)
AddUpvalue(table, u) ==
  IF Contains(table, u)
    THEN [table |-> table, index |-> SelectInSeq(table, LAMBDA v : v = u)]
  ELSE IF Len(table) >= UpvaluesMax
    THEN [table |-> table, index |-> 1]
    ELSE [table |-> Append(table, u), index |-> Len(table) + 1]

(* resolve_upvalue, unwound: as every context stands in for the compiler   *)
(* whose current context is the enclosing one, each call looks two         *)
(* functions further out. The function whose table has the name, 0 if the  *)
(* search ends in the script's context, -1 if it reads a NULL one.         *)
Owner(cs, n) ==
  LET searched == {i \in 1 .. Len(cs) - 2 : (Len(cs) - i) % 2 = 0}
      having   == {i \in searched : ResolveLocal(cs[i], n) # 0}
  IN  IF having # {} THEN CHOOSE i \in having : \A j \in having : j <= i
      ELSE IF Len(cs) % 2 = 1 THEN 0 ELSE -1

(* What add_upvalue does in every second function from the owner inwards.  *)
Added(cs, o, n) ==
  LET added[i \in o + 1 .. Len(cs)] ==
        AddUpvalue(cs[i].upvalues,
                   IF i <= o + 2
                     THEN [index |-> ResolveLocal(cs[o], n), is_local |-> TRUE]
                     ELSE [index |-> added[i - 2].index, is_local |-> FALSE])
  IN  added

(* The mark goes to the slot of that number in the function inside the     *)
(* owner; a place behind its last local gets it in vain.                   *)
Captured(cs, o, n) ==
  [i \in 1 .. Len(cs) |->
     CASE i = o + 1 /\ ResolveLocal(cs[o], n) <= Len(cs[i].locals) ->
            [cs[i] EXCEPT !.locals[ResolveLocal(cs[o], n)].captured = TRUE]
       [] i > o + 1 /\ (i - o) % 2 = 0 ->
            [cs[i] EXCEPT !.upvalues = Added(cs, o, n)[i].table]
       [] OTHER -> cs[i]]

(* The variable that upvalue k of function i reaches at run time, where    *)
(* OP_CLOSURE takes it from the slots or the upvalues of the function      *)
(* around; Global if there is none.                                        *)
Reached(cs, i, k) ==
  LET step[f \in 1 .. i] ==       \* the upvalue that is taken in function f
        IF f = i THEN k
        ELSE IF step[f + 1] \notin DOMAIN cs[f + 1].upvalues
                  \/ cs[f + 1].upvalues[step[f + 1]].is_local THEN 0
        ELSE cs[f + 1].upvalues[step[f + 1]].index
      ends == {f \in 2 .. i : /\ step[f] \in DOMAIN cs[f].upvalues
                              /\ cs[f].upvalues[step[f]].is_local}
  IN  IF ends = {} THEN Global
      ELSE LET f == CHOOSE g \in ends : TRUE
           IN  [ctx |-> f - 1, slot |-> cs[f].upvalues[step[f]].index]

(* named_variable looks for a local in the enclosing function, and emits   *)
(* its number as a slot of the current one.                                *)
Named(cs, n) ==
  LET here == Len(cs)
      o    == Owner(cs, n)
      at(v) == [ctxs |-> cs, at |-> v]
  IN  IF here = 1 THEN at(Crashed)
      ELSE IF ResolveLocal(cs[here - 1], n) # 0
        THEN at([ctx |-> here, slot |-> ResolveLocal(cs[here - 1], n)])
      ELSE IF o = -1 THEN at(Crashed)
      ELSE IF o = 0 THEN at(Global)
      ELSE LET marked == Captured(cs, o, n)
           IN  [ctxs |-> marked, at |-> Reached(marked, here, Added(cs, o, n)[here].index)]

(* Two names compiled one after the other, or one if m is no name.         *)
NamedAll(cs, n, m) ==
  LET r == Named(cs, n) IN
    IF r.at = Crashed \/ m = NoName THEN r ELSE Named(r.ctxs, m)

-----------------------------------------------------------------------------
(* The visitor. It goes on after an error, but then compiler_compile hands *)
(* out nothing: the model stops at the first one.                          *)

Compiling     == rejected = NoName /\ used.at # Crashed
AtStatement   == Inner.what \in {"script", "block", "for", "foreach"}
AtParameters  == Inner.what \in {"function", "method"}
AtDeclaration == Inner.what \in {"script", "block"}
AtExpression  == AtStatement \/ Inner.what \in {"var", "iterable", "lambda"}

InContext(c) == [ctxs EXCEPT ![Len(ctxs)] = c]

(* The tables and the path after a part of the visit.                      *)
Visit(cs, path) ==
  /\ Len(path) <= MaxNest
  /\ ctxs' = cs
  /\ nest' = path
  /\ used' = NotUsed
  /\ UNCHANGED rejected

(* The same, with the names n and m compiled at the end.                   *)
VisitNaming(cs, path, n, m) ==
  LET r == NamedAll(cs, n, m) IN
    /\ Len(path) <= MaxNest
    /\ ctxs' = r.ctxs
    /\ nest' = path
    /\ used' = IF r.at # Crashed THEN NotUsed
                ELSE [name |-> IF Named(cs, n).at = Crashed THEN n ELSE m, at |-> Crashed]
    /\ UNCHANGED rejected

Reject(n) ==
  /\ rejected' = n
  /\ used' = NotUsed
  /\ UNCHANGED <<ctxs, nest>>

OptionalName(p) == IF p = NoName THEN <<>> ELSE <<p>>

(* The path with a name declared in the innermost construct. What a script *)
(* declares outside any block is global.                                   *)
Noted(path, n) ==
  IF path = <<>> THEN path ELSE [path EXCEPT ![Len(path)].names = Append(@, n)]

EnterVar(n) ==
  /\ Compiling /\ "var" \in Constructs /\ AtDeclaration
  /\ IF Rejected(Here, n) THEN Reject(n)
     ELSE Visit(InContext(Declare(Here, n)),
                Append(Noted(nest, n), Construct("var", <<>>)))

LeaveVar ==
  /\ Compiling /\ Inner.what = "var"
  /\ Visit(InContext(Define(Here)), Front(nest))

EnterBlock ==
  /\ Compiling /\ "block" \in Constructs
  /\ AtStatement \/ Inner.what = "lambda"
  /\ Visit(InContext(BeginScope(Here)), Append(nest, Construct("block", <<>>)))

(* The block that is the body of a function or a method.                   *)
InBody(what) == Inner.what = "block" /\ Len(nest) > 1 /\ nest[Len(nest) - 1].what = what

(* The end of compile_block, compile_for and compile_foreach. A body's end *)
(* belongs to the function.                                                *)
LeaveScope ==
  /\ Compiling /\ Inner.what \in {"block", "for", "foreach"}
  /\ ~InBody("function") /\ ~InBody("method")
  /\ Visit(InContext(EndScope(Here)), Front(nest))

(* A for loop's variable is compiled like a declaration of its own scope.  *)
EnterFor(p) ==
  /\ Compiling /\ "for" \in Constructs /\ AtStatement
  /\ LET c == BeginScope(Here) IN
       IF p = NoName
         THEN Visit(InContext(c), Append(nest, Construct("for", <<>>)))
       ELSE IF Rejected(c, p) THEN Reject(p)
       ELSE Visit(InContext(Declare(c, p)),
                  nest \o <<Construct("for", <<p>>), Construct("var", <<>>)>>)

EnterForeach ==
  /\ Compiling /\ "foreach" \in Constructs /\ AtStatement
  /\ LET c == BeginScope(Here) IN
       IF Rejected(c, Iter) THEN Reject(Iter)
       ELSE Visit(InContext(Declare(c, Iter)),
                  nest \o <<Construct("foreach", <<Iter>>), Construct("iterable", <<>>)>>)

(* The loop's variable is declared and never defined; then the loop's test *)
(* names the hidden variable, and the loop's start its own.                *)
LeaveIterable(n) ==
  /\ Compiling /\ Inner.what = "iterable"
  /\ LET c == Define(Here) IN
       IF Rejected(c, n) THEN Reject(n)
       ELSE VisitNaming(InContext(Declare(c, n)), Noted(Front(nest), n), Iter, n)

(* A function begins with the scope of its parameters.                     *)
EnterCode(what) ==
  Visit(Append(ctxs, BeginScope(Context(FALSE))), Append(nest, Construct(what, <<>>)))

EnterFunction ==
  /\ Compiling /\ AtDeclaration
  /\ (IF nest = <<>> THEN "function" ELSE "inner function") \in Constructs
  /\ EnterCode("function")

(* A parameter is declared and defined at once; one of a name that another *)
(* has is refused.                                                         *)
AddParameter(p) ==
  /\ Compiling /\ AtParameters
  /\ IF Rejected(Here, p) THEN Reject(p)
     ELSE Visit(InContext(Define(Declare(Here, p))), Noted(nest, p))

(* After the last one the body, a block with a scope of its own.           *)
EnterBody ==
  /\ Compiling /\ AtParameters
  /\ Visit(InContext(BeginScope(Here)), Append(nest, Construct("block", <<>>)))

(* The body's scope and the parameters' end with the function, and its     *)
(* context is destroyed. Its name is not declared, but define_variable is  *)
(* called for it.                                                          *)
LeaveFunction(n) ==
  /\ Compiling /\ InBody("function")
  /\ Visit([Front(ctxs) EXCEPT ![Len(ctxs) - 1] = Define(@)], Noted(Front(Front(nest)), n))

(* A lambda opens no scope: in scope depth 0 its parameters are not        *)
(* declared, so that one stands for any number of them. Its body is an     *)
(* expression or a block.                                                  *)
EnterLambda(p) ==
  /\ Compiling /\ "lambda" \in Constructs /\ AtExpression
  /\ p # NoName => "parameters" \in Constructs
  /\ Visit(Append(ctxs, IF p = NoName THEN Context(FALSE)
                        ELSE Define(Declare(Context(FALSE), p))),
           Append(nest, Construct("lambda", OptionalName(p))))

LeaveLambda ==
  /\ Compiling /\ Inner.what = "lambda"
  /\ Visit(Front(ctxs), Front(nest))

(* A class is declared and defined, and then named, and so is the class it *)
(* inherits from.                                                          *)
EnterClass(n, parent) ==
  /\ Compiling /\ "class" \in Constructs /\ AtDeclaration
  /\ IF Rejected(Here, n) THEN Reject(n)
     ELSE VisitNaming(InContext(Define(Declare(Here, n))),
                      Append(Noted(nest, n), Construct("class", <<>>)),
                      n, parent)

EnterMethod ==
  /\ Compiling /\ Inner.what = "class"
  /\ EnterCode("method")

LeaveMethod ==
  /\ Compiling /\ InBody("method")
  /\ Visit(Front(ctxs), Front(Front(nest)))

LeaveClass ==
  /\ Compiling /\ Inner.what = "class"
  /\ Visit(ctxs, Front(nest))

UseName(n) ==
  /\ Compiling /\ AtExpression
  /\ LET r == Named(ctxs, n) IN
       /\ ctxs' = r.ctxs
       /\ used' = [name |-> n, at |-> r.at]
  /\ UNCHANGED <<nest, rejected>>

Next ==
  \/ \E n \in Names : EnterVar(n) \/ LeaveIterable(n) \/ AddParameter(n) \/ LeaveFunction(n)
  \/ \E n \in Names, parent \in Names \cup {NoName} : EnterClass(n, parent)
  \/ \E n \in Names \cup {This} : UseName(n)
  \/ \E p \in Names \cup {NoName} :
       EnterFor(p) \/ EnterLambda(p)
  \/ LeaveVar \/ EnterBlock \/ LeaveScope \/ EnterForeach
  \/ EnterFunction \/ EnterMethod \/ EnterBody
  \/ LeaveLambda \/ LeaveMethod \/ LeaveClass

Spec == Init /\ [][Next]_vars

-----------------------------------------------------------------------------
(* The part of nest that belongs to function i, and what it has declared   *)
(* there, each name with the number of scopes that are open around it.     *)
PathOf(i) ==
  SubSeq(nest, ctxs[i].from + 1, IF i = Len(ctxs) THEN Len(nest) ELSE ctxs[i + 1].from)

ScopesIn(path) ==
  Len(SelectSeq(path, LAMBDA e : e.what \in {"block", "for", "foreach", "function", "method"}))

Declared(i) ==
  LET path == PathOf(i)
      at(k) == [m \in DOMAIN path[k].names |->
                  [name |-> path[k].names[m], depth |-> ScopesIn(SubSeq(path, 1, k))]]
  IN  (IF i = 1 THEN <<>> ELSE <<[name |-> This, depth |-> 0]>>)
        \o FlattenSeq([k \in DOMAIN path |-> at(k)])

(* The table of function i is what it has declared in the open scopes, in  *)
(* the order in which the program pushes it, each with the depth of its    *)
(* scope; only the last can be without, while its value is compiled.       *)
TableIsScopes(i) ==
  LET locals   == ctxs[i].locals
      declared == Declared(i)
  IN  /\ Len(locals) = Len(declared)
      /\ \A k \in DOMAIN declared :
           /\ locals[k].name = declared[k].name
           /\ \/ locals[k].depth = declared[k].depth
              \/ /\ locals[k].depth = -1 /\ k = Len(declared)
                 /\ Last(PathOf(i)).what = "var"

(* Local k is the kth slot of the window when the program runs: the        *)
(* compiler's table is exactly the variables of the open scopes, in order  *)
(* and with their depths, whatever was declared, nested and left before    *)
(* (declare_variable, define_variable, end_scope). A for-each loop leaves  *)
(* its variables behind, so functions that had one are excepted.           *)
LocalsAreScopes ==
  \A i \in 1 .. Len(ctxs) :
    (\E k \in DOMAIN ctxs[i].locals : ctxs[i].locals[k].name = Iter) \/ TableIsScopes(i)

(* The same for every function: a lambda's parameters, too, are locals of  *)
(* it (compile_lambda).                                                    *)
ParametersAreLocals == \A i \in 1 .. Len(ctxs) : TableIsScopes(i)

(* Whatever a for-each loop leaves behind, every variable that is in scope *)
(* still has a local of its own (end_scope, add_local).                    *)
NoVariableLost ==
  \A i \in 1 .. Len(ctxs) :
    LET declared    == Declared(i)
        count(s, n) == Len(SelectSeq(s, LAMBDA e : e.name = n))
    IN  \A n \in Names \cup {This, Iter} : count(ctxs[i].locals, n) >= count(declared, n)

(* A declaration is refused only if its own scope has the name already, or *)
(* the table is full: an outer variable can be hidden (declare_variable).  *)
(* Functions with a for-each loop are excepted.                            *)
OnlyDuplicatesRefused ==
  rejected # NoName =>
    \/ Contains(Inner.names, rejected)
    \/ Len(Here.locals) >= LocalsMax
    \/ \E k \in DOMAIN Here.locals : Here.locals[k].name = Iter

(* No open scope has two variables of one name (declare_variable).         *)
NoDuplicates ==
  \A k \in DOMAIN nest : IsInjective(nest[k].names)

(* A name means the innermost variable of that name: the last one declared *)
(* in the innermost function that has one (named_variable).                *)
ResolvesInnermost ==
  used.name # NoName =>
    LET at(i)  == LET d == Declared(i) IN {k \in DOMAIN d : d[k].name = used.name}
        having == {i \in 1 .. Len(ctxs) : at(i) # {}}
    IN  IF having = {} THEN used.at = Global
        ELSE /\ used.at.ctx = Max(having)
             /\ used.at.slot = Max(at(used.at.ctx))
=============================================================================
