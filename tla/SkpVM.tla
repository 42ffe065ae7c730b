-------------------------------- MODULE SkpVM --------------------------------
(***************************************************************************)
(* The stack, the call frames and the upvalues of the SEEKEP virtual       *)
(* machine (vm.c). Call windows overlap on one stack: the callee and its   *)
(* arguments, pushed by the caller, are the first slots of the callee. A   *)
(* variable that a closure captures stays in its slot while the activation *)
(* that owns it runs (the upvalue is open and points into the stack) and   *)
(* moves into the upvalue when the slot goes away (the upvalue is closed). *)
(*                                                                         *)
(* The program is any well-formed bytecode: an instruction reaches only    *)
(* slots of the running frame's window, a captured variable leaves the     *)
(* stack by OP_CLOSE_UPVALUE or with its frame (end_scope in compiler.c),  *)
(* and operands and arguments are never captured. What the instructions    *)
(* compute is not told apart: a pushed value is any value.                 *)
(***************************************************************************)
EXTENDS Integers, FiniteSets, Sequences

CONSTANTS
  Values,      (* the values but closures: plain ones, and                 *)
  Natives,     (*   native functions                                       *)
  Classes,     (*   classes with no method "init"                          *)
  InitClasses, (*   classes with one                                       *)
  Methods,     (*   bound methods                                          *)
  Closures,    (* the closures a session can make                          *)
  Upvalues,    (* the upvalues a session can make                          *)
  StackMax,    (* bound: the slots of the stack                            *)
  FramesMax,   (* SKP_FRAMES_MAX                                           *)
  MaxCaptures, (* bound: the captures of one closure                       *)
  Repl,        (* whether the session goes on after a script has ended     *)
  Nil,         (* no object, no closure                                    *)
  Own, Unused  (* a closed upvalue points to itself; one not made yet      *)

ASSUME KindsAssumption ==
  /\ Natives \subseteq Values /\ Classes \subseteq Values
  /\ InitClasses \subseteq Values /\ Methods \subseteq Values
  /\ Values \cap Closures = {} /\ (Values \cup Closures) \cap Upvalues = {}
  /\ Nil \notin Values \cup Closures \cup Upvalues
ASSUME LimitsAssumption ==
  /\ StackMax \in Nat /\ FramesMax \in Nat \ {0} /\ MaxCaptures \in Nat
  /\ Own \notin Int /\ Unused \notin Int /\ Own # Unused /\ Repl \in BOOLEAN

VARIABLES
  stack,      (* vm->stack                                                 *)
  top,        (* vm->stack_top, as an index                                *)
  frames,     (* vm->frames[0 .. frame_count - 1]: slots and closure       *)
  open,       (* vm->open_upvalues, from the head of the list              *)
  location,   (* upvalue->location                                         *)
  closed,     (* upvalue->closed                                           *)
  captures,   (* closure->upvalues                                         *)
  made,       (* the closures made so far                                  *)
  captured,   (* the slots whose variable the bytecode has captured: what  *)
              (* is_captured tells the compiler                            *)
  status      (* between scripts, in vm_run's loop, inside OP_CLOSURE's    *)
              (* loop, or how the script ended                             *)

vars == <<stack, top, frames, open, location, closed, captures, made, captured, status>>
memory == <<location, closed, open, captures, made, captured>>

Slots   == 0 .. StackMax - 1
Objects == Values \cup Closures

TypeOK ==
  /\ stack \in [Slots -> Objects \cup {Nil}]
  /\ top \in -1 .. StackMax
  /\ frames \in Seq([base : Slots \cup {0}, closure : Closures \cup {Nil}])
  /\ Len(frames) <= FramesMax
  /\ open \in Seq(Upvalues)
  /\ location \in [Upvalues -> Slots \cup {Own, Unused}]
  /\ closed \in [Upvalues -> Objects \cup {Nil}]
  /\ captures \in [Closures -> Seq(Upvalues)]
  /\ made \subseteq Closures
  /\ captured \subseteq Slots
  /\ status \in {"idle", "running", "capturing", "halted", "failed"}

Init ==
  /\ stack = [s \in Slots |-> Nil]
  /\ top = 0
  /\ frames = <<>>
  /\ open = <<>>
  /\ location = [u \in Upvalues |-> Unused]
  /\ closed = [u \in Upvalues |-> Nil]
  /\ captures = [c \in Closures |-> <<>>]
  /\ made = {}
  /\ captured = {}
  /\ status = "idle"

Frame == frames[Len(frames)]

(* The first slot instructions may consume: slot 0 of a function's window  *)
(* holds the callee, a script's window has no such slot.                   *)
First == IF Frame.closure = Nil THEN Frame.base ELSE Frame.base + 1

(* The topmost n slots are operands: they exist and are not captured.      *)
Operands(n) == top - n >= First /\ \A s \in captured : s < top - n

Deref(u) == IF location[u] \in Slots THEN stack[location[u]] ELSE closed[u]

-----------------------------------------------------------------------------
(* Scripts. vm_run pushes the script's frame; every line of a session is   *)
(* followed by vm_reset.                                                   *)

RunScript ==
  /\ status = "idle"
  /\ frames' = Append(frames, [base |-> 0, closure |-> Nil])
  /\ status' = "running"
  /\ UNCHANGED <<stack, top, memory>>

(* OP_HALT ends a script outside any block: no local is in scope.          *)
Halt ==
  /\ status = "running" /\ Len(frames) = 1 /\ captured = {}
  /\ status' = "halted"
  /\ UNCHANGED <<stack, top, frames, memory>>

(* An instruction that fails, having popped n operands: vm_runtime_error,  *)
(* then vm_run returns. A callee that cannot be called is n = 0.           *)
Fail(n) ==
  /\ status = "running"
  /\ Operands(n)
  /\ top' = top - n
  /\ status' = "failed"
  /\ UNCHANGED <<stack, frames, memory>>

(* Mutant: the list of open upvalues is dropped without closing them.      *)
ResetDropsList ==
  /\ Repl /\ status \in {"halted", "failed"}
  /\ top' = 0 /\ frames' = <<>> /\ open' = <<>>
  /\ captured' = {} /\ status' = "idle"
  /\ UNCHANGED <<stack, location, closed, captures, made>>

(* vm_reset, which does not look at open_upvalues.                         *)
Reset ==
  /\ Repl /\ status \in {"halted", "failed"}
  /\ top' = 0
  /\ frames' = <<>>
  /\ captured' = {}
  /\ status' = "idle"
  /\ UNCHANGED <<stack, open, location, closed, captures, made>>

-----------------------------------------------------------------------------
(* Values on the stack.                                                    *)

(* Drop n operands, push v: constants and globals (n = 0), the arithmetic, *)
(* comparison and collection instructions.                                 *)
Replace(n, v) ==
  /\ status = "running"
  /\ Operands(n) /\ top - n < StackMax
  /\ stack' = [stack EXCEPT ![top - n] = v]
  /\ top' = top - n + 1
  /\ UNCHANGED <<frames, memory, status>>

Pop ==
  /\ status = "running"
  /\ Operands(1)
  /\ top' = top - 1
  /\ UNCHANGED <<stack, frames, memory, status>>

GetLocal(s) ==
  /\ Frame.base <= s /\ s < top
  /\ Replace(0, stack[s])

SetLocal(s) ==
  /\ status = "running"
  /\ Operands(1)
  /\ Frame.base <= s /\ s < top - 1
  /\ stack' = [stack EXCEPT ![s] = stack[top - 1]]
  /\ UNCHANGED <<top, frames, memory, status>>

GetUpvalue(u) == Replace(0, Deref(u))

SetUpvalue(u) ==
  /\ status = "running"
  /\ Operands(1)
  /\ IF location[u] \in Slots
       THEN /\ stack' = [stack EXCEPT ![location[u]] = stack[top - 1]]
            /\ UNCHANGED closed
       ELSE /\ closed' = [closed EXCEPT ![u] = stack[top - 1]]
            /\ UNCHANGED stack
  /\ UNCHANGED <<top, frames, location, open, captures, made, captured, status>>

-----------------------------------------------------------------------------
(* Closures and upvalues.                                                  *)

(* Where the walk down the open list ends: n upvalues point above slot s.  *)
WalkEnds(s, n) ==
  /\ \A i \in 1 .. n : location[open[i]] > s
  /\ n < Len(open) => location[open[n + 1]] <= s

(* Mutant: a captured variable gets a second upvalue.                      *)
CaptureAgain(s, u) ==
  \E n \in 0 .. Len(open) :
    /\ WalkEnds(s, n)
    /\ location[u] = Unused
    /\ location' = [location EXCEPT ![u] = s]
    /\ open' = SubSeq(open, 1, n) \o <<u>> \o SubSeq(open, n + 1, Len(open))
    /\ UNCHANGED closed

(* Mutant: a new upvalue is linked in at the head.                         *)
CaptureAtHead(s, u) ==
  IF \E i \in 1 .. Len(open) : location[open[i]] = s
    THEN location[u] = s /\ UNCHANGED <<open, location, closed>>
    ELSE /\ location[u] = Unused
         /\ location' = [location EXCEPT ![u] = s]
         /\ open' = <<u>> \o open
         /\ UNCHANGED closed

(* vm_capture_upvalue: the upvalue of slot s, the one in the list or a new *)
(* one linked in where the walk ends.                                      *)
CaptureUpvalue(s, u) ==
  \E n \in 0 .. Len(open) :
    /\ WalkEnds(s, n)
    /\ \/ /\ n < Len(open) /\ location[open[n + 1]] = s
          /\ u = open[n + 1]
          /\ UNCHANGED <<open, location, closed>>
       \/ /\ ~ (n < Len(open) /\ location[open[n + 1]] = s)
          /\ location[u] = Unused
          /\ location' = [location EXCEPT ![u] = s]
          /\ open' = SubSeq(open, 1, n) \o <<u>> \o SubSeq(open, n + 1, Len(open))
          /\ UNCHANGED closed

(* Mutant: the upvalue is detached before its value is taken.              *)
CloseWithoutValue(last) ==
  \E n \in 0 .. Len(open) :
    /\ WalkEnds(last - 1, n)
    /\ location' = [u \in Upvalues |->
                      IF \E i \in 1 .. n : open[i] = u THEN Own ELSE location[u]]
    /\ open' = SubSeq(open, n + 1, Len(open))
    /\ captured' = {s \in captured : s < last}
    /\ UNCHANGED <<closed, captures, made>>

(* Mutant: > for >=, so the last slot's variable stays open.               *)
CloseAbove(last) ==
  \E n \in 0 .. Len(open) :
    /\ WalkEnds(last, n)
    /\ closed' = [u \in Upvalues |->
                    IF \E i \in 1 .. n : open[i] = u THEN Deref(u) ELSE closed[u]]
    /\ location' = [u \in Upvalues |->
                      IF \E i \in 1 .. n : open[i] = u THEN Own ELSE location[u]]
    /\ open' = SubSeq(open, n + 1, Len(open))
    /\ captured' = {s \in captured : s < last}
    /\ UNCHANGED <<captures, made>>

(* vm_close_upvalues: the head of the list, as long as it points to slot   *)
(* `last' or above, takes its variable's value along.                      *)
CloseUpvalues(last) ==
  \E n \in 0 .. Len(open) :
    /\ WalkEnds(last - 1, n)
    /\ LET gone == {open[i] : i \in 1 .. n} IN
         /\ closed' = [u \in Upvalues |-> IF u \in gone THEN Deref(u) ELSE closed[u]]
         /\ location' = [u \in Upvalues |-> IF u \in gone THEN Own ELSE location[u]]
    /\ open' = SubSeq(open, n + 1, Len(open))
    /\ captured' = {s \in captured : s < last}
    /\ UNCHANGED <<captures, made>>

(* OP_CLOSURE: the new closure is pushed, then its captures are filled in, *)
(* one iteration of the loop at a time.                                    *)
MakeClosure(c) ==
  /\ status = "running"
  /\ c \notin made /\ top < StackMax
  /\ made' = made \cup {c}
  /\ stack' = [stack EXCEPT ![top] = c]
  /\ top' = top + 1
  /\ status' = "capturing"
  /\ UNCHANGED <<frames, location, closed, open, captures, captured>>

Capturing ==
  /\ status = "capturing"
  /\ Len(captures[stack[top - 1]]) < MaxCaptures

CaptureLocal(s, u) ==
  /\ Capturing
  /\ Frame.base <= s /\ s < top
  /\ CaptureUpvalue(s, u)
  /\ captures' = [captures EXCEPT ![stack[top - 1]] = Append(@, u)]
  /\ captured' = captured \cup {s}
  /\ UNCHANGED <<stack, top, frames, made, status>>

CaptureOuter(u) ==
  /\ Capturing
  /\ captures' = [captures EXCEPT ![stack[top - 1]] = Append(@, u)]
  /\ UNCHANGED <<stack, top, frames, location, closed, open, made, captured, status>>

ClosureMade ==
  /\ status = "capturing"
  /\ status' = "running"
  /\ UNCHANGED <<stack, top, frames, memory>>

(* OP_CLOSE_UPVALUE: a captured variable goes out of scope.                *)
CloseLocal ==
  /\ status = "running"
  /\ top > First
  /\ CloseUpvalues(top - 1)
  /\ top' = top - 1
  /\ UNCHANGED <<stack, frames, status>>

-----------------------------------------------------------------------------
(* Calls. `s' is the slot of the callee, the slots above it hold the       *)
(* arguments (vm_call_value).                                              *)

Callee(s) ==
  /\ status = "running"
  /\ s < top /\ Operands(top - s)

(* Mutant: no limit on the frames.                                         *)
EnterUnlimited(s, v, c) ==
  /\ stack' = [stack EXCEPT ![s] = v]
  /\ frames' = Append(frames, [base |-> s, closure |-> c])
  /\ UNCHANGED <<top, status, memory>>

(* Mutant: slots = stack_top - arg_count, the callee's slot forgotten.     *)
EnterAboveCallee(s, v, c) ==
  /\ stack' = [stack EXCEPT ![s] = v]
  /\ IF Len(frames) < FramesMax
       THEN frames' = Append(frames, [base |-> s + 1, closure |-> c]) /\ UNCHANGED status
       ELSE status' = "failed" /\ UNCHANGED frames
  /\ UNCHANGED <<top, memory>>

(* vm_call, with v in the slot of the callee.                              *)
Enter(s, v, c) ==
  /\ stack' = [stack EXCEPT ![s] = v]
  /\ \/ /\ Len(frames) < FramesMax
        /\ frames' = Append(frames, [base |-> s, closure |-> c])
        /\ UNCHANGED status
     \/ /\ Len(frames) >= FramesMax
        /\ status' = "failed"
        /\ UNCHANGED frames
  /\ UNCHANGED <<top, memory>>

CallFunction(s) == Callee(s) /\ stack[s] \in Closures /\ Enter(s, stack[s], stack[s])

(* A bound method's window starts with its receiver, a constructor's with  *)
(* the new instance.                                                       *)
CallMethod(s, self, c) ==
  /\ Callee(s) /\ stack[s] \in Methods \cup InitClasses
  /\ Enter(s, self, c)

CallNative(s, result) ==
  /\ Callee(s) /\ stack[s] \in Natives
  /\ stack' = [stack EXCEPT ![s] = result]
  /\ top' = s + 1
  /\ UNCHANGED <<frames, memory, status>>

(* A class without a constructor takes no arguments.                       *)
CallClass(s, instance) ==
  /\ Callee(s) /\ stack[s] \in Classes
  /\ stack' = [stack EXCEPT ![s] = instance]
  /\ status' = IF top = s + 1 THEN "running" ELSE "failed"
  /\ UNCHANGED <<top, frames, memory>>

(* The frame's variables are closed before its window goes. The script's   *)
(* own frame leaves nothing behind.                                        *)
LeaveFrame(result, popped) ==
  /\ CloseUpvalues(Frame.base)
  /\ frames' = SubSeq(frames, 1, Len(frames) - 1)
  /\ IF Len(frames) = 1
       THEN /\ top' = top - popped
            /\ status' = "halted"
            /\ UNCHANGED stack
       ELSE /\ stack' = [stack EXCEPT ![Frame.base] = result]
            /\ top' = Frame.base + 1
            /\ UNCHANGED status

(* At the script's own frame OP_RETURN pops twice.                         *)
Return ==
  /\ status = "running"
  /\ Operands(1)
  /\ LeaveFrame(stack[top - 1], 2)

ReturnVoid(null) ==
  /\ status = "running"
  /\ LeaveFrame(null, 0)

-----------------------------------------------------------------------------
Reachable == Values \cup made

(* Bound: the operands one instruction drops. OP_SET_INDEX drops three; a  *)
(* list or dictionary literal drops as many as it has entries.             *)
Pops == 0 .. 3

Next ==
  \/ RunScript \/ Halt \/ Reset
  \/ \E n \in Pops : Fail(n)
  \/ \E n \in Pops, v \in Reachable : Replace(n, v)
  \/ Pop
  \/ /\ frames # <<>>
     /\ \E s \in Slots : GetLocal(s) \/ SetLocal(s)
  \/ /\ frames # <<>> /\ Frame.closure # Nil
     /\ \E i \in 1 .. Len(captures[Frame.closure]) :
          LET u == captures[Frame.closure][i] IN
            GetUpvalue(u) \/ SetUpvalue(u) \/ CaptureOuter(u)
  \/ \E c \in Closures : MakeClosure(c)
  \/ \E s \in Slots, u \in Upvalues : CaptureLocal(s, u)
  \/ ClosureMade
  \/ CloseLocal
  \/ \E s \in Slots : CallFunction(s)
  \/ \E s \in Slots, self \in Values, c \in made : CallMethod(s, self, c)
  \/ \E s \in Slots, v \in Values : CallNative(s, v) \/ CallClass(s, v)
  \/ Return
  \/ \E v \in Values : ReturnVoid(v)

Spec == Init /\ [][Next]_vars

-----------------------------------------------------------------------------
Active == status \in {"running", "capturing"}

(* The walk of vm_capture_upvalue and the loop of vm_close_upvalues rely   *)
(* on it: the list descends strictly, so every slot has one upvalue and    *)
(* those above a slot are at the head. It also holds of the upvalues a     *)
(* failed script leaves behind.                                            *)
OpenDescends ==
  \A i, j \in 1 .. Len(open) : i < j => location[open[i]] > location[open[j]]

(* The upvalues that point into the stack are those of the list, and a     *)
(* closure has no other: what it captured is reachable for the closing.    *)
OpenListComplete ==
  /\ {u \in Upvalues : location[u] \in Slots} = {open[i] : i \in 1 .. Len(open)}
  /\ \A c \in made : \A i \in 1 .. Len(captures[c]) : location[captures[c][i]] # Unused

(* While a script runs, the open upvalues point exactly to the captured    *)
(* variables that are still on the stack (vm_close_upvalues before every   *)
(* pop of a captured slot).                                                *)
OpenAreCaptured ==
  Active => captured = {location[open[i]] : i \in 1 .. Len(open)}

(* The windows on the stack: the script's starts at the bottom, no callee  *)
(* takes the first slot of the function that calls it, and the stack       *)
(* reaches over the callee's own slot. A captured slot is below the top.   *)
WindowsNested ==
  Active =>
    /\ frames # <<>> /\ frames[1] = [base |-> 0, closure |-> Nil]
    /\ \A i \in 2 .. Len(frames) : frames[i].closure # Nil
    /\ \A i, j \in 1 .. Len(frames) : i < j => frames[i].base < frames[j].base \/ i = 1
    /\ First <= top
    /\ \A s \in captured : s < top

(* What a step can rely on besides: a frame runs a closure that was made,  *)
(* and no slot or upvalue holds another; a closure not made yet has no     *)
(* captures; while captures are filled in, the new closure is on top.      *)
ClosuresMade ==
  /\ \A s \in Slots : stack[s] \in Reachable \cup {Nil}
  /\ \A u \in Upvalues : closed[u] \in Reachable \cup {Nil}
  /\ \A i \in 1 .. Len(frames) : frames[i].closure \in made \cup {Nil}
  /\ \A c \in Closures \ made : captures[c] = <<>>
  /\ status = "capturing" => top > 0 /\ stack[top - 1] \in made

(* Slots below the top and upvalues in use hold an object.                 *)
NothingUndefined ==
  /\ Active => \A s \in Slots : s < top => stack[s] # Nil
  /\ \A u \in Upvalues : location[u] # Unused <=> Deref(u) # Nil

(* Between scripts the stack is empty. What a script that failed leaves in *)
(* the list is there for the next one, so that in a session the list only  *)
(* includes the captured variables.                                        *)
ScriptsApart ==
  /\ status = "idle" => frames = <<>> /\ top = 0 /\ captured = {}
  /\ captured \subseteq {location[open[i]] : i \in 1 .. Len(open)}
  /\ ~ Repl => captured = {location[open[i]] : i \in 1 .. Len(open)}

(* The inductive invariant.                                                *)
IInv ==
  /\ TypeOK /\ OpenDescends /\ OpenListComplete /\ WindowsNested
  /\ ClosuresMade /\ NothingUndefined /\ ScriptsApart

(* A captured variable changes its value only when it is assigned: by its  *)
(* activation or by a closure that shares it. Calls, returns, pushes, the  *)
(* end of a block or of a script leave it alone.                           *)
CapturedKeepsValue ==
  [][\A u \in Upvalues :
       location[u] # Unused /\ Deref(u)' # Deref(u) =>
         \/ \E s \in Slots : SetLocal(s)
         \/ SetUpvalue(u)]_vars

Entry(s) ==
  IF \E i \in 1 .. Len(open) : location[open[i]] = s
    THEN CHOOSE u \in Upvalues : location[u] = s
    ELSE stack[s]

WindowEnd(i) == IF i = Len(frames) THEN top ELSE frames[i + 1].base

(* The slots of a window are the entries of the activation, an open        *)
(* upvalue being the cell of its variable.                                 *)
Entries(i) == [k \in 1 .. WindowEnd(i) - frames[i].base |-> Entry(frames[i].base + k - 1)]

Acts ==
  IF Active
    THEN [i \in 1 .. Len(frames) |-> [entries |-> Entries(i), closure |-> frames[i].closure]]
    ELSE <<>>

Mem == [u \in Upvalues |-> Deref(u)]

Abstract == INSTANCE SkpClosures WITH Cells <- Upvalues, acts <- Acts, mem <- Mem

(* The stack with its overlapping windows and moving variables implements  *)
(* activations with variables of their own and shared cells.               *)
ImplementsClosures == Abstract!Spec
=============================================================================
