# SEEKEP in TLA+

SEEKEP is a small scripting language with Arabic keywords, written in C. A
source text goes through a lexer, a recursive-descent parser, a single-pass
bytecode compiler and a stack-based virtual machine; an object runtime with
reference counts (`seekep.c`) stands beside them. This directory holds TLA+
modules that model the parts of it, TLC configurations that check them on small
instances and TLAPS proofs about them for every instance.

All paths below are relative to `src/المصدر/` unless they start with `src/`.

## 1. Inventory

The program is single-threaded, keeps nothing on disk and talks to no other
process. What is hard in it is sequence: recursion that runs in the middle of
an operation, memory that is shared and given back, windows that overlap on one
stack, and state that outlives the script that made it.

| part | state | operations | what makes it correct | hard part |
|---|---|---|---|---|
| object runtime `seekep.c` 13-285, 315-325 | the heap: `refcount`, list items, dictionary entries | `skp_new_*`, `skp_incref`, `skp_decref`, `skp_free`, list append/get/set/slice, dict set/get/remove, list `+` | counts equal references, nothing freed while referenced, nothing but cycles leaks, arrays packed, keys unique | the freeing cascade runs inside `skp_list_set`, `skp_dict_set`, `skp_dict_remove`; cycles |
| arithmetic, comparison, conversions `seekep.c` 287-595 | none | `skp_add` .. `skp_pow`, `skp_eq`, `skp_lt`, `skp_to_*` | results by type; division by zero; 64-bit width | boundary values |
| string, math, print helpers `seekep.c` 601-937 | none | wrappers of libc | - | - |
| virtual machine `vm.c` 18-245, 313-824 | stack, frames, open upvalues, globals, error flag | one per opcode, `vm_call_value`, `vm_capture_upvalue`, `vm_close_upvalues`, `vm_reset` | a captured variable keeps its identity and its value; windows nest; the frame limit holds | a variable moves from its slot to its upvalue; scripts that fail half way |
| natives `vm.c` 826-1584 | globals | about forty functions on an argument window | documented results | in-place changes of arguments |
| garbage collector `vm.h` 99-103 | `objects`, `gray_stack` | declared, never implemented | - | - |
| compiler `compiler.c` 15-1018 | function contexts: locals, scope depth, upvalues, chunk | one per node kind | what it emits keeps the stack discipline that `vm_run` expects | stack effect of each construct, jumps, ownership of the chunk |
| parser `parser.c` | current and previous token, error and panic flags, the tree | one per production, `parser_synchronize` | the tree says what the source says, every token destroyed once, an end or a reported error | ownership of tokens, precedence, progress after an error, the look-ahead of `parse_for_statement` |
| lexer `lexer.c` | position, line, column, table of tokens | `lexer_tokenize` and the scanners | nothing lost between tokens, exact positions, strings end where they should | comments, escapes, bytes above 127, a table that is exactly full |
| session `main.c` | the machine | `run_file`, `run_repl` | one script does not disturb the next | failures between scripts |

Interactions: `main.c` calls `vm_interpret`, which builds lexer, parser and
compiler, runs the chunk and frees it; `run_repl` calls `vm_reset` after every
line and keeps globals. The virtual machine calls the object runtime to build
and read values but never counts references. `parser.c` and `vm.c` use a few
functions and fields that no file defines (`skp_new_closure`, `skp_get_index`,
`call_frame_t.closure`, `vm_bind_method`, ...); the models take them for what
their uses say: `frame->closure` is the closure that was called.

`PROJECT.json` lists the components with their status, and the hazards with the
line where each bites and the properties that watch it.

## 2. Modules

| module | models |
|---|---|
| `SkpObjects` | the object runtime: heap, counts, cascades |
| `MCSkpObjects` | symmetry for its runs |
| `SkpObjects_proofs` | the inductive invariant of the reference counts, proved |
| `SkpObjects_safety` | the rest of `SkpObjects`' safety properties, proved from it and a second invariant |
| `SkpVM` | stack, frames, calls, upvalues, errors and resets of the virtual machine |
| `SkpClosures` | the abstract machine: activations with entries of their own, captured variables in cells |
| `MCSkpVM` | symmetry and view for the runs of `SkpVM` |
| `SkpVM_proofs` | the inductive invariant of `SkpVM` and what follows from it |
| `SkpVM_refinement` | the proof that `SkpVM` implements `SkpClosures` |
| `SkpScopes` | the compiler's scopes, locals, upvalues and name resolution |
| `MCSkpScopes` | symmetry for its runs, and a view for `scopes`, whose properties do not look at `used` |
| `SkpScopes_proofs` | the inductive invariant of the tables and the nest; duplicates and refusals, proved |
| `SkpCode` | the bytecode the compiler emits: instructions, constants, jumps, stack heights, the chunks of functions |
| `MCSkpCode` | the programs of its run |
| `SkpCode_proofs` | the frame of every step; heights, loops and instructions, proved |
| `SkpParser` | the parser: its window of tokens, their ownership, the tree, recovery |
| `SkpTree` | operators that walk the tree, and the properties of `SkpParser` that need them |
| `MCSkpParser` | the vocabularies of its run |
| `SkpParser_proofs` | the tables lead from step to step; the account of tokens, proved |
| `SkpLexer` | the lexer: the tokenizing loop and every scanner, byte by byte |
| `MCSkpLexer` | the alphabets of its runs |
| `SkpLexer_proofs` | the lexer's inductive invariant; positions and gaps, proved |

The parser's tokens are any sequence over a vocabulary and the compiler's trees
are any that the parser builds, so that each module is checked for more inputs
than the one before it produces; the modules are not composed in one state
machine, except that `SkpVM` implements `SkpClosures` and `SkpTree` extends
`SkpParser`.

### SkpObjects

An address is free, live or dying (entered by `skp_free`). `rc` is `refcount`;
`cell` and `keyAt` are the items of lists and the entries of dictionaries;
`handle` is the client: C code that keeps what it owns and passes only objects
it owns. `frees` is the stack of `skp_free` activations and `next` their loop
counters, so that a cascade advances one `skp_decref` at a time (`ReleaseNext`,
`FreeObject`). An operation that calls `skp_decref` in its middle is two actions
with its continuation in `op`: `ListSet`/`DictSet` then `FinishStore`,
`DictRemove` then `FinishRemove`; `ListSlice` and `ListConcat` start a copying
loop (`CopyNext`, `CopyDone`). No client action is possible in between
(`Idle`), as in the single-threaded code, but invariants are evaluated in every
such state. Guards that make a C function return at once (NULL, wrong type,
index out of range) are stuttering steps.

Abstractions: numbers, strings and the other leaf types are one kind `leaf`;
keys are model values; capacities and `realloc` are left out (allocation never
fails). A freed address goes back to its initial fields, so a read of freed
memory shows as a violated invariant rather than as an arbitrary value.

### SkpVM and SkpClosures

The stack is a memory of slots and an index `top`; what a popped slot held
stays there, as in the code. A frame is the first slot of its window and the
closure it runs. `open`, `location` and `closed` are the open list and the two
fields of an upvalue; a closed upvalue points to itself (`Own`). Each opcode
that moves values, frames or upvalues is an action; the constant, arithmetic,
comparison and collection opcodes are `Replace` (drop n operands, push a value).
`OP_CLOSURE`'s capture loop is `MakeClosure`, one `CaptureLocal` or
`CaptureOuter` per descriptor, and `ClosureMade`. `vm_call_value` is one action
per kind of callee. In the runs one constant, `val`, is at the same time a
native function, a class with an initializer and a bound method, and an ordinary
value: a step that is possible for one of them is possible for it, so it stands
for every object that is not a closure.

The program that runs is any well-formed bytecode: a local index is inside the
window, operands are not captured variables, and a captured variable leaves the
stack by `OP_CLOSE_UPVALUE` or with its frame (`end_scope`, compiler.c:215-231).
The variable `captured` is that knowledge of the compiler; only guards that
describe the program, and invariants, read it. This is an assumption: the
compiler as it stands does not keep the discipline everywhere (a condition is
left on the stack by `compile_if`, the callee is emitted after its arguments by
`compile_call`, names are looked up in the wrong function), so what holds of
`SkpVM` holds of bytecode that keeps it. `SkpScopes` checks the part of it that
concerns scopes and names, and `SkpCode` says by how much each construct misses
it (`HeightAccount`).

`SkpClosures` is what a programmer relies on: each activation has its own
entries, and a captured variable is a cell that outlives the activation. There
are no overlapping windows, no locations and no closing. `ImplementsClosures`
says that `SkpVM` implements it: the entries of an activation are the slots of
its window, a slot that an open upvalue points to is the cell of that upvalue,
and a cell holds `*location`.

`Repl` is the difference between `run_file` (one script) and `run_repl`
(`vm_reset`, then the next script).

### SkpScopes

`ctxs` is `compiler->current` and its `enclosing` chain, each context with its
`locals`, `upvalues` and `scope_depth`; `nest` is the path of syntax-tree
constructs that the recursive visitor is inside, with the names each has
declared. A `compile_` function that calls itself in its middle is one action
per part: `EnterVar`, the initializer's own actions, `LeaveVar`. The syntax tree
is any tree of the constructs in `Constructs`; conditions, operators and jumps
do not touch these tables and are left out. `rejected` is `had_error`, kept as
the name that was refused; after it, `compiler_compile` hands out nothing and
the model stops.

`resolve_local` and `resolve_upvalue` are called with a `compiler_t *` where
they take an `skp_compiler_t *` (compiler.c:268, 274, 335). The first members of
the two structures are `enclosing` and `current`, so the callee sees the
enclosing context as the current one. The model does this (`Named`, `Owner`),
and reading a NULL context ends the compilation (`Crashed`); it is what gcc's
output for these calls does, with a warning at `-std=c99` as in the Makefile.
Also assumed of the build: `strdup` is declared, so that names are usable.

`Declared(i)` is what function i has declared in its open scopes, computed from
`nest` alone; the properties compare it with the tables. `used.at` is the
variable that the emitted operand reaches when the program runs.

A function or a method has any number of parameters, one `AddParameter` each,
and one whose name another has is refused. `EnterBody` begins the block behind
them; that block's scope and the parameters' end together with the function
(`LeaveFunction`, `LeaveMethod`), where the context is destroyed. The parameters
of a lambda are declared at depth 0, that is, not at all, so `EnterLambda` has at
most one: it stands for any number.

### SkpCode

A `compile_` function is the list of what it emits and compiles, in its order:
`Expressions` and `Statements` hold these lists, one for every way through the
function, and `todo` is what the visitor has left to do. The tree is chosen on
the way. `ctxs` is the chain of contexts with the bytes written so far; an
instruction is noted with the place it was written to, so that the bytes can be
read back as `vm_run` reads them (`Reads`, `Width`). The operators of one shape
stand for each other (`ADD` for nineteen binary ones, `NEG`, `CONST_NULL`), and
names are chosen without the tables of `SkpScopes`: a name may be a local, an
upvalue or a global.

`account` is the stack height that the emitted instructions produce on one path,
and by how much it is known to be off (`owed`). Both branches of a conditional
start from the height at its test (`Resume`); a local that compiling the first
took off the table (a function declared in a branch changes the last local's
depth, and the branch's `end_scope` removes it) is still on the stack of the
second. A loop is left at its test; that the account
also holds where the loop goes back makes it hold for any number of rounds. Code
after an `OP_RETURN` is accounted for as if it were reached.

A for-each loop (`Foreach`) has two locals, its hidden iterator and its variable;
the second gets neither a depth nor a value of its own (`Unset`), and its test is
an `OP_JUMP_IF_TRUE` (`Exit`) that leaves the condition and a copy of the iterator
on the stack. An assignment to what is neither a name, a member nor an element is
`had_error` (`Refuse`, `InvalidTarget`).

`MaxIndex` is the largest index of a constant in a byte (255) and `MaxJump` the
largest distance of a jump or a loop (65535). Past one of them the code sets
`had_error`, which ends the model, since `compiler_compile` then hands out
nothing. The numbers of arguments, elements and upvalues are cut to a byte
without a check, and the model cuts them. `MaxParts` and `MaxUpvalues` are bounds
of the model.

### SkpParser and SkpTree

The parser has one function per production, and most of them are sequences of
`parser_consume`, `parser_match`, `parser_check` and calls of one another. These
sequences are tables of steps (`IfStatement`, `Lambda`, ...); `stack` is the C
call stack with the step each activation is at and the nodes it holds; there is
one action for what each kind of step does. `parse_assignment` to
`parse_postfix`, which hand their operand down and up fourteen levels, are
`ParseOperand`, `ParsePostfix`, `ParseOperator` and `Deliver`: an operand comes
with its level, and the first level between that and the one the caller asked for
whose operators contain the current token takes it.

A token is its place in `read`; `freed` counts its destructions. `parser_consume`
answers with the token that is now `previous` and still the parser's; callers
that call `token_destroy` on it are noted in `handed`. `stale` is what was read
after it had been destroyed. `crashed` is the read of a field of a NULL node or
token.

`lexer_next_token` is not defined anywhere in the repository (`lexer.c` offers
`lexer_tokenize`), and `parser.c` names some token types that `lexer.h` does not
have; both are taken for what their uses say. After an error the rest of the
input is bounded (`MaxAfterError` tokens) and so are the lists of nodes
(`MaxKids`), because the statement loops may then go on without end.

`Freed` is the order in which `ast_destroy_node` frees a tree. `Spelling` reads
the tokens back from the tree, and `Level` and `Asked` the grammar. Most nodes
stand at the token their construct begins with; that of a for-each loop stands at
the parenthesis behind the `for` (parser.c:864), and is read back as that `for`.

### SkpLexer

A source is a sequence of bytes, one `lexer_advance` is a step, and `mode` is the
loop that is running. Bytes that the code treats alike are one: a digit, two
letters (one that an escape changes), a blank, and of the Arabic letters the
bytes of two keywords, of which one ends the other. `isalpha` and `isalnum` are
given a negative `char` for such a byte, so which of them are letters is chosen
in `Init` (`letters`). The value of an operator is the literal that
`lexer_read_operator` returns for it: the Arabic comma and semicolon for `,` and
`;`, and `?` for a byte that begins no token.

Sources have any length. The scanners store a token in buffers of 64, 256 and
1024 bytes (`NumberBuffer`, `WordBuffer`, `StringBuffer`) without looking at their
end; where a byte or the NUL behind it has no room, what the code does is
undefined, and the model ends (`Overrun`, mode `overrun`).

## 3. Runs

Bounds are named in the `.cfg` files and in the modules (`MaxCount`, `Bounds`,
`StackMax`, `Pops`, ...).

| run | instance | shows |
|---|---|---|
| `objects` | 3 objects, 2 handles, 2 keys, 2 entries | counts exact, operands survive, each object freed once, arrays packed, keys unique, only cycles leak, copying loops inside their source, nothing freed while held |
| `objects_live` | 3 objects, 3 handles, 1 key, 1 entry | every call returns; the invariant of the proofs, `SafetyInv` |
| `vm_captures` | 4 slots, 3 frames, 2 closures, 2 upvalues, one script | open upvalues are the captured variables on the stack, captured values are stable, refinement of `SkpClosures` across nested calls |
| `vm_open_list` | 4 slots, 3 frames, 3 upvalues, session of scripts | windows nest, the open list is strictly descending and complete, after failures too |
| `vm_repl_stale_upvalue` | 3 slots, session of scripts | finding: see section 6 |
| `scopes` | 2 names, nesting of 6, 4 locals, 2 upvalues | local tables are the open scopes in order and depth; no variable loses its place; exactly the duplicates of a scope are refused |
| `scopes_names`, `scopes_lambda` | the same tables, fewer constructs | findings: see section 6 |
| `parser` | 18 vocabularies, inputs of 4 to 9 tokens | the tree spells the source and binds by level; which tokens are destroyed how often; a missing part is reported; parsing ends or has reported an error |
| `lexer` | 9 alphabets, sources of 3 to 6 bytes | exact positions, one comment per gap and nothing else lost, longest tokens, the values of strings and operators, tokens as long as their buffers, an end |
| `lexer_comments` | the same | finding: see section 6 |
| `code` | 8 groups of constructs, 3 to 5 nodes, lists of 2, two indices, jumps up to 18 | which instructions are read as written, where loops go back to, how far the stack is from the compiler's slots |

Why the bounds are enough. Three objects with two entries each give shared,
nested, self-containing and mutually cyclic containers, and cascades of depth
three; two entries per container make the first/last distinction, one hole and
one shift; two keys a hit and a miss. Two handles leave one object reachable
only through another, which is where a premature free would show; the third is
needed for concatenation, whose operands and result are three objects. On the
stack, four slots hold a callee with an argument, a captured variable below and
the closure above it; two upvalues are enough for sharing one and confusing two,
three for inserting in the middle of the list; three frames for a call inside a
call and the frame limit. `MCSkpVM` identifies states that differ only in
popped slots that nothing points to, and permutes closures and upvalues; both
are sound because no action or property reads the former or names the latter.
The liveness run uses no symmetry. For the compiler, six levels hold a class
with a method in a block of a lambda in a lambda (its name,
which no enclosing table has, is compiled without a crash only at an odd depth of
functions), and an upvalue chain over five
functions; four locals are slot 0, two variables and one too many; two names are
a name and another one in every combination of hiding.

Each parser vocabulary holds the words of one group of constructs, and an input
is long enough for the longest form of the construct with a part left out, one
in its place, or one too many; the expression vocabularies have three operands
with two operators of different or equal level and parentheses around either
pair. Tokens after an error matter only for where the parser starts again, and
`MaxAfterError` leaves one besides the end. A for-each loop needs eight tokens,
with `in` written twice (section 6); nine let another word stand in or around it.
The lexer's alphabets put together
the bytes that meet in one scanner, and sources reach a second comment, a quote
behind two backslashes, and a table of tokens that grows twice; with buffers of
four bytes every scanner meets a token that fills its buffer and one that is too
long, also with an escape sequence at the end. For `SkpCode`,
three nodes are a loop in a branch or a block in a function with a variable in
it, five a function with a block on either side of a branch, four a for-each loop
beside or inside another, or with a function in its body; two entries are the
first and last of every list; indices pass a limit of two, and jumps and loops
one of 18 bytes.

The passing run `scopes` leaves two constructs out: functions declared inside a
block and parameters of lambdas. `LocalsAreScopes` is false of programs with
either (section 6). `LocalsAreScopes` and `OnlyDuplicatesRefused` except
functions that contain a for-each loop, because the code leaves the loop's
variables in the table; `NoVariableLost` does not except them.

`CHECK_DEADLOCK FALSE`: the client may stop calling, all addresses can be in
leaked cycles, a script can end a session, and lexer, parser and compiler come to
the end of their input, so stopping is allowed.

Fairness. `SkpObjects` assumes weak fairness of `Internal`: once called, the
runtime runs on its caller's thread to its end; nothing is assumed of the client.
`SkpParser` and `SkpLexer` assume weak fairness of `Next`: each is one function
call on the caller's thread, over an input of finite length, and every step is
the program's own. `Ends` (parser) and `Tokenized` (lexer) rest on it. `Ends`
excepts inputs with an error: there the code may go on for ever (section 6).
`SkpVM` has no fairness: a script may loop.

## 4. Proofs

Every theorem holds for all values of the constants that the named ASSUMEs of
its module allow; TLC evaluates those ASSUMEs in every run. The theorems of a
module come from one inductive invariant. The invariants of `SkpObjects` are
checked by the runs `objects` and `objects_live`; those of `SkpVM`, `SkpLexer`
and `SkpParser` (`IInv` at the end of each module), and that of `SkpScopes` (in
its proof module) on a nesting of five, were checked by TLC before they were
proved. That of `SkpCode` speaks of sequences of frames that TLC cannot
enumerate; its four consequences are the properties of the run `code`.

| module | theorems | of a run's properties |
|---|---|---|
| `SkpObjects_proofs` | `Invariance`, `CountsExact`, `TypeCorrect`, `OperandsLive` | `RefCountExact`, `TypeOK`, `OperandsSurvive` |
| `SkpObjects_safety` | `SafetyInvariance`, `EnteredOnce`, `ArraysPacked`, `KeysUnique`, `CopiesInBounds`, `LeaksAreCycles`, `LastReferenceOnly` | `SafetyInv`, `FreedOnce`, `Packed`, `DictKeysUnique`, `CopyInBounds`, `OnlyCyclesLeak`, `NeverFreedWhileHeld` |
| `SkpVM_proofs` | `Invariance`, `TypeCorrect`, `OpenListSorted`, `NoUpvalueMissed`, `WindowsStayNested`, `CapturedAreOpen`, `LiveCapturesKept`, `OnlyAssignmentChanges` | `TypeOK`, `OpenDescends`, `OpenListComplete`, `WindowsNested`, `OpenAreCaptured`, `CapturedKeepsValue` |
| `SkpVM_refinement` | `Implements` | `ImplementsClosures` |
| `SkpLexer_proofs` | `Invariance`, `TypeCorrect`, `PlacesExact`, `NothingElseSkipped` | `TypeOK`, `PositionsExact`, `OneCommentPerGap` |
| `SkpParser_proofs` | `Invariance`, `TypeCorrect`, `TokensAccounted` | `TypeOK`, `TokenAccount` |
| `SkpCode_proofs` | `CodeInvariant`, `CodeTypes`, `HeightAccounted`, `LoopsGoBack`, `CodeReads` | `TypeOK`, `HeightAccount`, `LoopsReturn`, `ReadAsWritten` |
| `SkpScopes_proofs` | `TablesFit`, `ScopesHaveNoDuplicates`, `RefusedWithReason` | `NoDuplicates`, `OnlyDuplicatesRefused` |

### Object runtime

For any finite set of objects and handles, any set of keys and any positive
bound on entries. `RefCountExact` alone is not inductive: `skp_free` gives back
the entry at its counter, which is a reference only if the array is packed from
the counter to `count` (`Packed`, with the hole that an operation in progress
has made); a counter must be at its start when an object is entered
(`FieldsOK`); the object being freed must be on the recursion exactly once
(`FreedOnce`); and the item to be stored after the cascade must be one the
client still holds (`OpOK`), which is the reason why decref-before-incref is
safe here. `IInv` is their conjunction. Counting is by two lemmas
(`CountExcept`, `CountTaken`) on how the number of places that hold a value
changes when one place changes, and `ShiftCount` for the shift of
`skp_dict_remove`, a bijection between the entries before and after.
`DecrefStep` then covers every release and `TakeInv`, `AllocateInv`,
`AddEntryInv`, `EmptyCellInv` the other building blocks; there is one lemma per
action.

`SafetyInv` adds what the copying loops and the keys need: the object being
filled is nobody's operand, its count is the loop's counter, and the keys below
`count` differ from each other, also while `skp_dict_remove` is between its
release and its shift. `LeaksAreCycles` is a counting argument on top of it: the
count of an object that nobody outside a set refers to, and no cascade is about
to give back, is made of entries of members of the set.

### Virtual machine

For any number of slots, frames, closures and upvalues, and for a session of any
number of scripts. `IInv` says that the frames' windows lie above one another and
below `top`, that the open list holds exactly the upvalues that point into the
stack, in strictly descending order, that an upvalue is in one of three states
(unused, open, closed onto itself), that those of closures are in use, and that
the two functions in progress, `OP_CLOSURE`'s capture loop and
`vm_close_upvalues`, are where their arguments say. Sorting is what makes
`vm_capture_upvalue`'s search and `vm_close_upvalues`' early end right: both
stop at the first location that is too low.

What an open upvalue means, a captured variable that is still on the stack, holds
within one script only: `vm_reset` leaves the list alone, and the run
`vm_repl_stale_upvalue` shows what comes of it. `CapturedAreOpen`,
`OnlyAssignmentChanges` and `Implements` therefore assume `Repl = FALSE`, the
program as `run_file` runs it. `LiveCapturesKept` says what is left in a session:
only upvalues that an earlier line left open can change without an assignment.

`Implements` is step by step: every action of `SkpVM` is an action of
`SkpClosures`, or a stutter (a step of a capture or closing loop), under the
mapping of `SkpVM`. One lemma per action computes the four mapped variables from
what the step changes; `EntryFacts`, `WindowFacts`, `EntriesFacts` and `ActsFacts`
say how a changed slot, top or frame shows in them. The heart is that closing an
upvalue changes nothing that the mapping sees: the cell that was the slot
becomes the upvalue's own field with the same value.

### Lexer

For any alphabet, sources of any length, a table of any first capacity and
buffers of any size (up to where a token has no room in its buffer): the position is inside the source,
line and column are those that the newlines before it give, each token starts
where its predecessor and the gap behind it end, and what a gap holds is blanks
and one comment. The proof made one definition disjoint: a `#` is handled by the
comment's branch alone.

### Parser

For any vocabularies, inputs of any length and any number of errors.
`Held` says how many tokens an activation holds as its own at each step of its
table. `TablesSound` proves of the twenty-seven tables that each jump leads to a
step of the same table that holds what the jump leaves, that a token is used only
where one is held, and that nothing is held where a function returns, except the
name that `MakeNamed` gives away. `IInv` lifts this to the stack (`StackOK`),
adds that no token is held twice (`NamesApart`) and gives the account
(`FreedOK`): a token has been destroyed once for having left the window and once
more if its owner is done with it. `ForOK` is there for the one place that takes
a token out of turn: the look-ahead happens right behind the window. There is
one lemma per action, most of them instances of `MoveStep`, `StayStep`,
`CallStep` and `ReturnStep`.

### Compiler scopes

For any names, any limits of the tables and any nesting. The theorems assume
`FunctionsAtTop`, that no function is declared inside another construct: the
name of such a function is noted in its block, but `compile_function` never
declares it, so nothing compares it with the block's other names and
TLC finds both properties false of programs with one (the run `scopes` leaves
it out for the same reason, section 3). Lambdas with parameters, which the run
leaves out too, are included.

Neither property is inductive. `NoDuplicates` speaks of the nest and `Clash` of
a table that the visitor has changed many times since a name was noted, in
scopes that are gone and with loops that left variables behind. `IInv` ties them
together by two numbers for each place of the nest: the context that is
innermost there and its depth (`Climbs`, `Aligned`). `KeepsNames` says that every
name an open block has noted has a local that `Clash` finds: the name is there,
no local of an outer scope is behind it, and no `define_variable` still to come
can give it another depth. `StuckOrInOrder` is the converse for refusals: each
local is noted in a construct of its depth, and depths ascend, or else a for-each
loop has left its hidden variable, after which nothing is claimed. What makes
the proof long is `define_variable`, which changes the last local whichever it
is: `PendsAt` and the order of the nest (a variable's value can only hold
lambdas, `PathOK`) show that the last one is then the one being defined, except
in a loop's context, where the exception is kept by `StuckAt`. A function's or method's own
entry holds its parameters, which are names of its first scope like any other
(`Holding`). Locals are marked
as captured by any use of a name, so every step that names something goes
through `Marked`: depths, names and lengths stay.

### Bytecode

For any programs, lists of any length, and any limits of indices, jumps and
upvalues. None of the four properties says anything of the steps that are left,
and all of them depend on it: a jump that has been emitted is patched by a step
that other constructs, scopes and whole functions come before.

A *frame* is what a step needs to know: for each context the open jumps and loop
starts with the height at each, the scope depth, whether a variable waits for its
value, and how far the stack is above the account. `Flows(f, s, g)` says that
step `s` leads from frame `f` to `g`, and `Chain` that a list of steps does.
`ExpressionAdds` proves of every list in `Expressions` that it leads from any
frame to the same with one value more, and `StatementKeeps` of every list in
`Statements` that it leads back to the frame it began at (`AddsAll`, `Keeps`).
This is a proof about the compile_ functions one at a time, and the visitor needs
no more: when it replaces a node by its list, the rest of `todo` still has its
chain.

`IInv` is that `todo` is a chain from a frame that the contexts fit (`Fits`) to
the end of the script. `Fits` ties the frame to the bytes. `Laid`: the code is a
row of instructions without gaps, each of which lies in it as its step wrote it
(`Lies`), where a jump is open, or patched over its own first two bytes.
`Jumping`: every jump that is not patched has an open mark, so that none is left
behind when the marks are gone. `Marked`: a loop start is the place of
an instruction, or of the next one.

From there `HeightAccount` is the frame's height, which is zero wherever the
property looks; `TypeOK` is that a frame is empty where a function is left;
`LoopsReturn` is `Laid` for the loops. For `ReadAsWritten`, what `vm_run` reads at
the place of an instruction follows from `Laid` by the number of the opcode
(`CodeByte`, `PlainUnderstood`), with a lemma for each of the three that are
misread; the converse, that a conditional is never read right by accident, is that
the high byte of its distance would have to be its opcode.

Proving it corrected the model in five places that small programs do not reach:
the limit of 65535 for jumps and loops, the counts that are cut to a byte, the
number of upvalues that is 0 for 256 of them, locals that compiling one branch
takes from the other, and the distances for which an overwritten jump reads as a jump.

### Only model-checked

* Liveness: `CallsReturn`, `Ends`, `Tokenized` (fairness is out of the prover's
  reach).
* `TokensSpelled` of `SkpLexer` and all of `SkpTree`: what recursive definitions
  compute from a source or a tree needs induction over data.
* `SkpScopes`: `LocalsAreScopes` and `NoVariableLost` compare the tables with a
  selection and a flattening of the nest, which the library defines by recursion;
  what is proved instead is the order and presence of the locals (`TablesFit`).
  `TypeOK` bounds what `Added` computes along the chain of functions, by
  recursion too.

## 5. Mutants

Every property of a passing run has a mutant of a modelled definition in
`PROJECT.json`: a bug of the kind a change to that code could introduce (an
entry not counted, a loop one short, a list without its order, an upvalue closed
without its value). The mutated definitions stand before the originals, under a
comment that starts with "Mutant"; no specification uses them.

## 6. Findings

`vm_repl_stale_upvalue`: `vm_reset` empties the stack and leaves
`open_upvalues` alone (vm.c:65-71). After a script that failed, a closure it had
stored in a global points into the emptied stack, and the next script's values
appear in its captured variable. The closure example of `src/التوثيق.md`
407-425 promises that only the closures that share a variable change it.

`scopes_names`: a name is looked up one function too far out (compiler.c:335,
268, 274). In the script's own code the lookup reads a NULL context, so
`src/التوثيق.md` 74-77 (`متغير س = 5`, `اطبع(س * 2)`) does not compile; in a
function, an enclosing function's local is read as a slot of the inner one, so
the closure example of 409-415 does not reach its counter.

`scopes_lambda`: the parameters of a lambda are declared in scope depth 0, where
`declare_variable` returns at once (compiler.c:296), so they are no locals
(comment at compiler.c:635, `src/التوثيق.md` 384-388).

`lexer_comments`: `lexer_tokenize` skips one comment in a round
(lexer.c:334-336). The second of two comment lines is read as code: its `#` is an
ERROR token and its words are identifiers. All programs under `src/أمثلة/` begin
with several comment lines.

Properties of passing runs that say what the code does where a reader would
expect something else:

* `ExtraTokensNeeded`: `parse_func_declaration` calls `parse_block`, which expects
  the opening brace to be taken (parser.c:706). A function as the documentation
  writes it parses its body as a block inside a block and lacks a closing brace;
  and the look-ahead of `parse_for_statement` destroys the `in` of a for-each loop
  (parser.c:819-822) before `parse_foreach_statement` asks for it (parser.c:870),
  so such a loop is accepted only with the `in` written twice.
* `TokensSpelled`: the value of `,` and `;` is the Arabic comma and semicolon, and
  that of a byte that begins no token is `?` (lexer.c:310, 315, 327).
* `TokenAccount`: every token that a caller of `parser_consume` destroys is
  destroyed again by the parser; a token looked at by `parse_for_statement` is
  dropped from the program and not freed.
* `SharedOnlyByCompound`: `ast_destroy_node` frees the target of a compound
  assignment twice.
* `Ends`: `parse_primary` reports an unexpected token without taking it and
  without panic mode, so that a statement loop stays at it for ever.
* `ReadAsWritten`: `patch_jump` overwrites the opcode of every conditional with
  the high byte of its distance, which is that opcode only from 10496 bytes on; the
  byte 1 that stands for the number one is read as `OP_CONST_FLOAT`; `OP_CLOSURE`
  is written without the constant that `vm_run` reads first (vm.c:713). Code is
  read as written exactly where it has none of these.
* `HeightAccount`: conditions stay on the stack, in every round of a loop, and in
  a for-each loop a copy of the iterator with it, whose variable is counted as a
  local and is none;
  functions declared in a block and values of arrow lambdas stay too; a name that
  is read pushes nothing (compiler.c:454), and a method's closure is never made;
  256 arguments or elements are 0 in the byte of their number, and stay; so does a
  local that compiling the other branch took off the table.

Met while modelling and shown by no property: `compile_foreach` never defines
its loop variable, so `end_scope` leaves it and `@iter` in the table and a second
loop in the function is refused; a function declared inside a block changes the
depth of the last local (compiler.c:771); a lambda with a constant, or with a
global name, ends compilation in a read through NULL (`destroy_compiler` walks
`constant_count` entries of a table that was given away), and so does
`compiler_destroy` after any program with a constant; the chunk of a named
function is destroyed with its context and belongs to no closure; `break` and
`continue` compile to nothing; a comment over several lines between `###` does
not exist in the lexer.

## 7. Not modelled

The garbage collector is declared and not implemented. Disassembler, `ast_print`
and the names of token and node types are output. The helpers of strings, maths
and printing are calls of libc. Files and options of `main.c` are input and
output. What arithmetic, comparison and the natives compute is pure and planned.
Allocation never fails in any module. The repository does not compile as it
stands (undefined token names, functions and fields), so where two files
disagree the models follow the use.

## 8. Plan

1. Done: `SkpObjects`, `SkpVM` with `SkpClosures`, `SkpScopes`,
   `SkpCode`, `SkpParser`, `SkpLexer`.
2. Done: proofs of `SkpObjects`, `SkpVM` with its refinement, `SkpLexer`, and
   the token account of `SkpParser`, `NoDuplicates` and `OnlyDuplicatesRefused`
   of `SkpScopes`, and all properties of `SkpCode`.
3. `SkpValues`: pure operators for arithmetic at a width, comparison, slices,
   substrings and the list natives against reference definitions.
4. `SkpHeap`: an abstract heap (objects live exactly while reachable from a
   handle or on a cycle) refined by `SkpObjects`.
