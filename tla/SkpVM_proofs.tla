----------------------------- MODULE SkpVM_proofs -----------------------------
(***************************************************************************)
(* Proofs about SkpVM: the stack, its call windows and the open upvalues,  *)
(* for every number of slots, frames, closures and upvalues.               *)
(***************************************************************************)
EXTENDS SkpVM, SequenceTheorems, TLAPS

(* A length is one, or more than one.                                      *)
LEMMA OneOrMore ==
  ASSUME NEW k \in Nat \ {0}
  PROVE  \/ k = 1
         \/ k > 1 /\ k # 1 /\ k - 1 \in 1 .. k - 1 /\ k - 1 \in 1 .. k
              /\ k - 1 \in Nat \ {0} /\ (k - 1) + 1 = k
OBVIOUS

(***************************************************************************)
(* The running frame.                                                      *)
(***************************************************************************)

(* While a script runs there is a running frame, its window starts inside  *)
(* the stack, and only the script's own frame runs no closure.             *)
LEMMA RunningFrame ==
  ASSUME IInv, Active
  PROVE  /\ Len(frames) \in Nat \ {0}
         /\ Frame \in [base : Slots \cup {0}, closure : Closures \cup {Nil}]
         /\ Frame.closure \in made \cup {Nil}
         /\ Frame.base \in Nat /\ First \in Nat /\ Frame.base <= First /\ First <= top
         /\ First <= Frame.base + 1
         /\ top \in 0 .. StackMax
         /\ Frame.closure = Nil => Len(frames) = 1
         /\ Len(frames) > 1 => Frame.closure # Nil
         /\ Len(frames) = 1 => Frame.base = 0 /\ Frame.closure = Nil
<1>1. /\ TypeOK /\ WindowsNested /\ ClosuresMade
      /\ frames \in Seq([base : Slots \cup {0}, closure : Closures \cup {Nil}])
      /\ frames # <<>>
  BY DEF IInv, TypeOK, WindowsNested
<1>2. Len(frames) \in Nat \ {0}
  BY <1>1, EmptySeq
<1>3. Len(frames) \in 1 .. Len(frames)
  BY <1>2
<1>4. Frame \in [base : Slots \cup {0}, closure : Closures \cup {Nil}]
  BY <1>1, <1>3, ElementOfSeq DEF Frame
<1>5. Frame.closure \in made \cup {Nil}
  BY <1>1, <1>3 DEF ClosuresMade, Frame
<1>6. Frame.base \in Nat
  BY <1>4, LimitsAssumption DEF Slots
<1>7. /\ First \in Nat /\ Frame.base <= First /\ First <= Frame.base + 1
      /\ First <= top
  BY <1>1, <1>6 DEF WindowsNested, First
<1>8. top \in 0 .. StackMax
  BY <1>1, <1>7, LimitsAssumption DEF TypeOK
<1>9. Len(frames) > 1 => Frame.closure # Nil
  <2> SUFFICES ASSUME Len(frames) > 1
               PROVE  Frame.closure # Nil
    OBVIOUS
  <2>1. Len(frames) \in 2 .. Len(frames)
    BY <1>2
  <2> QED
    BY <2>1, <1>1 DEF WindowsNested, Frame
<1>10. Len(frames) = 1 => Frame.base = 0 /\ Frame.closure = Nil
  BY <1>1 DEF WindowsNested, Frame
<1>11. Frame.closure = Nil => Len(frames) = 1
  BY <1>2, <1>9
<1> QED
  BY <1>2, <1>4, <1>5, <1>6, <1>7, <1>8, <1>9, <1>10, <1>11

(***************************************************************************)
(* Steps that leave the closures and upvalues alone.                       *)
(***************************************************************************)

(* A value written into one slot: every slot and every upvalue in use      *)
(* still hold an object.                                                   *)
LEMMA SlotWritten ==
  ASSUME IInv, UNCHANGED memory,
         NEW s \in Slots, NEW v \in Reachable,
         stack' = [stack EXCEPT ![s] = v]
  PROVE  /\ stack' \in [Slots -> Objects \cup {Nil}]
         /\ stack'[s] = v /\ v # Nil
         /\ \A t \in Slots : t # s => stack'[t] = stack[t]
         /\ \A t \in Slots : stack'[t] \in Reachable' \cup {Nil}
         /\ \A u \in Upvalues : location'[u] # Unused <=> Deref(u)' # Nil
<1>1. /\ stack \in [Slots -> Objects \cup {Nil}]
      /\ location \in [Upvalues -> Slots \cup {Own, Unused}]
      /\ made \subseteq Closures
  BY DEF IInv, TypeOK
<1>2. /\ v \in Objects /\ v # Nil
      /\ made' = made /\ location' = location /\ closed' = closed
      /\ Reachable' = Reachable
  BY <1>1, KindsAssumption DEF Reachable, Objects, memory
<1>3. \A t \in Slots : stack'[t] = IF t = s THEN v ELSE stack[t]
  BY <1>1
<1>4. stack' \in [Slots -> Objects \cup {Nil}]
  BY <1>1, <1>2
<1>5. \A t \in Slots : stack'[t] \in Reachable' \cup {Nil}
  BY <1>2, <1>3 DEF IInv, ClosuresMade
<1>6. ASSUME NEW u \in Upvalues
      PROVE  location'[u] # Unused <=> Deref(u)' # Nil
  <2>1. location[u] # Unused <=> Deref(u) # Nil
    BY DEF IInv, NothingUndefined
  <2>2. CASE location[u] \in Slots
    <3>1. location[u] # Unused
      BY <2>2, LimitsAssumption DEF Slots
    <3>2. Deref(u)' = stack'[location[u]] /\ Deref(u) = stack[location[u]]
      BY <2>2, <1>2 DEF Deref, Slots
    <3> QED
      BY <1>2, <1>3, <2>1, <2>2, <3>1, <3>2
  <2>3. CASE location[u] \notin Slots
    BY <1>2, <2>1, <2>3 DEF Deref, Slots
  <2> QED
    BY <2>2, <2>3
<1> QED
  BY <1>2, <1>3, <1>4, <1>5, <1>6

(* What is said of the list and of the closures alone holds on.            *)
LEMMA MemoryKept ==
  ASSUME IInv, UNCHANGED memory
  PROVE  /\ open' \in Seq(Upvalues)
         /\ location' \in [Upvalues -> Slots \cup {Own, Unused}]
         /\ closed' \in [Upvalues -> Objects \cup {Nil}]
         /\ captures' \in [Closures -> Seq(Upvalues)]
         /\ made' \subseteq Closures
         /\ captured' \subseteq Slots
         /\ OpenDescends' /\ OpenListComplete'
         /\ \A u \in Upvalues : closed'[u] \in Reachable' \cup {Nil}
         /\ \A c \in Closures \ made' : captures'[c] = <<>>
         /\ captured' \subseteq {location'[open'[i]] : i \in 1 .. Len(open')}
         /\ ~ Repl => captured' = {location'[open'[i]] : i \in 1 .. Len(open')}
BY DEF IInv, TypeOK, OpenDescends, OpenListComplete, ClosuresMade, ScriptsApart,
       memory, Reachable, Slots, Objects

(* The running frame goes on over slots and upvalues in use that hold      *)
(* objects, the captured slots below the new top: the invariant holds.     *)
LEMMA SameFrame ==
  ASSUME IInv, status = "running", UNCHANGED <<frames, memory, status>>,
         stack' \in [Slots -> Objects \cup {Nil}],
         \A t \in Slots : stack'[t] \in Reachable' \cup {Nil},
         \A u \in Upvalues : location'[u] # Unused <=> Deref(u)' # Nil,
         top' \in First .. StackMax,
         \A t \in Slots : t < top' => stack'[t] # Nil,
         \A t \in captured : t < top'
  PROVE  IInv'
<1>1. Active /\ Active'
  BY DEF Active
<1>2. /\ First \in Nat /\ StackMax \in Nat /\ frames' = frames /\ status' = status
      /\ captured' = captured /\ made' = made
      /\ First' = First
  BY <1>1, RunningFrame, LimitsAssumption DEF First, Frame, memory
<1>3. TypeOK'
  BY <1>2, MemoryKept DEF IInv, TypeOK, Slots, Objects
<1>4. WindowsNested'
  BY <1>1, <1>2 DEF IInv, WindowsNested
<1>5. ClosuresMade'
  BY <1>2, MemoryKept DEF IInv, ClosuresMade, Slots
<1>6. NothingUndefined'
  BY DEF NothingUndefined, Slots
<1>7. ScriptsApart'
  BY <1>2, MemoryKept DEF ScriptsApart
<1> QED
  BY <1>3, <1>4, <1>5, <1>6, <1>7, MemoryKept DEF IInv

(* Instructions that drop n operands and push a value.                     *)
LEMMA ReplaceStep ==
  ASSUME IInv, NEW n \in Pops, NEW v \in Reachable, Replace(n, v)
  PROVE  IInv'
<1>1. /\ status = "running" /\ Active
      /\ Operands(n) /\ top - n < StackMax
      /\ stack' = [stack EXCEPT ![top - n] = v]
      /\ top' = top - n + 1
      /\ UNCHANGED <<frames, memory, status>>
  BY DEF Replace, Active
<1>2. /\ First \in Nat /\ top \in 0 .. StackMax /\ n \in Nat /\ StackMax \in Nat
      /\ captured \subseteq Slots
  <2>1. First \in Nat /\ top \in 0 .. StackMax
    BY <1>1, RunningFrame
  <2>2. n \in Nat /\ StackMax \in Nat
    BY LimitsAssumption DEF Pops
  <2>3. captured \subseteq Slots
    BY DEF IInv, TypeOK
  <2> QED
    BY <2>1, <2>2, <2>3
<1>3. /\ top - n >= First
      /\ \A t \in captured : t < top - n
  BY <1>1 DEF Operands
<1>4. top - n \in Slots
  BY <1>1, <1>2, <1>3 DEF Slots
<1>5. top' \in First .. StackMax
  BY <1>1, <1>2, <1>3
<1>6. \A t \in Slots : t < top' => stack'[t] # Nil
  <2>1. SUFFICES ASSUME NEW t \in Slots, t < top'
                 PROVE  stack'[t] # Nil
    OBVIOUS
  <2>2. t = top - n \/ t < top
    BY <1>1, <1>2, <2>1 DEF Slots
  <2> QED
    BY <1>1, <1>4, <2>2, SlotWritten DEF IInv, NothingUndefined
<1>7. \A t \in captured : t < top'
  BY <1>1, <1>2, <1>3 DEF Slots
<1> HIDE DEF Pops
<1> QED
  BY <1>1, <1>4, <1>5, <1>6, <1>7, SlotWritten, SameFrame

(* What a slot below the top or an upvalue in use holds can be pushed.     *)
LEMMA ValuesRead ==
  ASSUME IInv, Active
  PROVE  /\ \A s \in Slots : s < top => stack[s] \in Reachable
         /\ \A u \in Upvalues : location[u] # Unused => Deref(u) \in Reachable
<1>1. \A s \in Slots : s < top => stack[s] \in Reachable
  BY DEF IInv, ClosuresMade, NothingUndefined
<1>2. ASSUME NEW u \in Upvalues, location[u] # Unused
      PROVE  Deref(u) \in Reachable
  <2>1. Deref(u) # Nil
    BY <1>2 DEF IInv, NothingUndefined
  <2>2. Deref(u) \in Reachable \cup {Nil}
    BY DEF Deref, IInv, ClosuresMade
  <2> QED
    BY <2>1, <2>2
<1> QED
  BY <1>1, <1>2

(* The upvalues of the running closure are in use.                         *)
LEMMA OwnCaptures ==
  ASSUME IInv, Active, Frame.closure # Nil,
         NEW i \in 1 .. Len(captures[Frame.closure])
  PROVE  /\ captures[Frame.closure][i] \in Upvalues
         /\ location[captures[Frame.closure][i]] # Unused
<1>1. Frame.closure \in made
  BY RunningFrame
<1>2. Frame.closure \in Closures /\ captures[Frame.closure] \in Seq(Upvalues)
  BY <1>1 DEF IInv, TypeOK
<1>3. captures[Frame.closure][i] \in Upvalues
  BY <1>2, ElementOfSeq
<1>4. location[captures[Frame.closure][i]] # Unused
  BY <1>1 DEF IInv, OpenListComplete
<1> QED
  BY <1>3, <1>4

(* A local variable is read.                                               *)
LEMMA GetLocalStep ==
  ASSUME IInv, frames # <<>>, NEW s \in Slots, GetLocal(s)
  PROVE  IInv'
<1>1. Active /\ s < top /\ Replace(0, stack[s])
  BY DEF GetLocal, Replace, Active
<1>2. stack[s] \in Reachable
  BY <1>1, ValuesRead
<1>3. 0 \in Pops
  BY DEF Pops
<1> QED
  BY <1>1, <1>2, <1>3, ReplaceStep

(* An upvalue of the running closure is read.                              *)
LEMMA GetUpvalueStep ==
  ASSUME IInv, Frame.closure # Nil,
         NEW i \in 1 .. Len(captures[Frame.closure]),
         GetUpvalue(captures[Frame.closure][i])
  PROVE  IInv'
<1> DEFINE u == captures[Frame.closure][i]
<1>1. Active /\ Replace(0, Deref(u))
  BY DEF GetUpvalue, Replace, Active
<1>2. Deref(u) \in Reachable
  BY <1>1, ValuesRead, OwnCaptures
<1>3. 0 \in Pops
  BY DEF Pops
<1> QED
  BY <1>1, <1>2, <1>3, ReplaceStep

(* A value is popped.                                                      *)
LEMMA PopStep ==
  ASSUME IInv, Pop
  PROVE  IInv'
<1>1. /\ status = "running" /\ Active /\ Operands(1) /\ top' = top - 1
      /\ UNCHANGED <<stack, frames, memory, status>>
  BY DEF Pop, Active
<1>2. First \in Nat /\ top \in 0 .. StackMax /\ StackMax \in Nat /\ First <= top
  BY <1>1, RunningFrame, LimitsAssumption
<1>3. top' \in First .. StackMax
  BY <1>1, <1>2 DEF Operands
<1>4. \A t \in Slots : t < top' => stack'[t] # Nil
  BY <1>1, <1>2 DEF IInv, NothingUndefined, Slots
<1>5. \A t \in captured : t < top'
  BY <1>1 DEF Operands
<1>6. /\ location' = location /\ closed' = closed /\ made' = made /\ stack' = stack
  BY <1>1 DEF memory
<1>7. stack' \in [Slots -> Objects \cup {Nil}]
  BY <1>6 DEF IInv, TypeOK
<1>8. \A t \in Slots : stack'[t] \in Reachable' \cup {Nil}
  BY <1>6 DEF IInv, ClosuresMade, Reachable
<1>9. \A u \in Upvalues : location'[u] # Unused <=> Deref(u)' # Nil
  BY <1>6 DEF IInv, NothingUndefined, Deref, Slots
<1> QED
  BY <1>1, <1>3, <1>4, <1>5, <1>7, <1>8, <1>9, SameFrame

(* The topmost value is written into a slot of the running window, by      *)
(* number or through an upvalue that points there.                         *)
LEMMA SlotAssigned ==
  ASSUME IInv, status = "running", Operands(1),
         NEW s \in Slots,
         stack' = [stack EXCEPT ![s] = stack[top - 1]],
         UNCHANGED <<top, frames, memory, status>>
  PROVE  IInv'
<1>1. Active
  BY DEF Active
<1>2. First \in Nat /\ top \in 0 .. StackMax /\ StackMax \in Nat /\ top - 1 >= First
  BY <1>1, RunningFrame, LimitsAssumption DEF Operands
<1>3. top - 1 \in Slots /\ top - 1 < top
  BY <1>2 DEF Slots
<1>4. stack[top - 1] \in Reachable
  BY <1>1, <1>3, ValuesRead
<1>5. top' \in First .. StackMax
  BY <1>2
<1>6. \A t \in Slots : t < top' => stack'[t] # Nil
  BY <1>1, <1>4, SlotWritten DEF IInv, NothingUndefined
<1>7. \A t \in captured : t < top'
  BY <1>1 DEF IInv, WindowsNested
<1> QED
  BY <1>4, <1>5, <1>6, <1>7, SlotWritten, SameFrame

(* A local variable is assigned.                                           *)
LEMMA SetLocalStep ==
  ASSUME IInv, NEW s \in Slots, SetLocal(s)
  PROVE  IInv'
BY SlotAssigned DEF SetLocal

(* An upvalue is assigned: where it points, or in itself.                  *)
LEMMA SetUpvalueStep ==
  ASSUME IInv, Frame.closure # Nil,
         NEW i \in 1 .. Len(captures[Frame.closure]),
         SetUpvalue(captures[Frame.closure][i])
  PROVE  IInv'
<1> DEFINE u == captures[Frame.closure][i]
<1>1. /\ status = "running" /\ Active /\ Operands(1)
      /\ UNCHANGED <<top, frames, location, open, captures, made, captured, status>>
  BY DEF SetUpvalue, Active
<1>2. u \in Upvalues /\ location[u] # Unused
  BY <1>1, OwnCaptures
<1> HIDE DEF u
<1>3. CASE location[u] \in Slots
  BY <1>1, <1>3, SlotAssigned DEF SetUpvalue, memory, u
<1>4. CASE location[u] \notin Slots
  <2>1. closed' = [closed EXCEPT ![u] = stack[top - 1]] /\ UNCHANGED stack
    BY <1>4 DEF SetUpvalue, u
  <2>2. First \in Nat /\ top \in 0 .. StackMax /\ StackMax \in Nat /\ top - 1 >= First
    BY <1>1, RunningFrame, LimitsAssumption DEF Operands
  <2>3. stack[top - 1] \in Reachable
    BY <1>1, <2>2, ValuesRead DEF Slots
  <2>4. /\ closed \in [Upvalues -> Objects \cup {Nil}] /\ made \subseteq Closures
        /\ Reachable' = Reachable
    BY <1>1 DEF IInv, TypeOK, Reachable
  <2>5. stack[top - 1] \in Objects /\ stack[top - 1] # Nil
    BY <2>3, <2>4, KindsAssumption DEF Objects, Reachable
  <2>6. \A w \in Upvalues : closed'[w] = IF w = u THEN stack[top - 1] ELSE closed[w]
    BY <2>1, <2>4
  <2>7. closed' \in [Upvalues -> Objects \cup {Nil}]
    BY <2>1, <2>4, <2>5
  <2>8. TypeOK'
    BY <1>1, <2>1, <2>7 DEF IInv, TypeOK, Slots, Objects
  <2>9. OpenDescends' /\ OpenListComplete' /\ WindowsNested'
    BY <1>1, <2>1 DEF IInv, OpenDescends, OpenListComplete, WindowsNested, Slots,
                      Active, First, Frame
  <2>10. ClosuresMade'
    <3>1. \A w \in Upvalues : closed'[w] \in Reachable' \cup {Nil}
      BY <2>3, <2>4, <2>6 DEF IInv, ClosuresMade
    <3> QED
      BY <1>1, <2>1, <2>4, <3>1 DEF IInv, ClosuresMade, Slots
  <2>11. NothingUndefined'
    <3>1. ASSUME NEW w \in Upvalues
          PROVE  location'[w] # Unused <=> Deref(w)' # Nil
      <4>1. Deref(w)' = IF w = u THEN stack[top - 1] ELSE Deref(w)
        BY <1>1, <1>4, <2>1, <2>6 DEF Deref, Slots
      <4> QED
        BY <1>1, <1>2, <2>5, <4>1 DEF IInv, NothingUndefined
    <3> QED
      BY <1>1, <2>1, <3>1 DEF IInv, NothingUndefined, Active, Slots
  <2>12. ScriptsApart'
    BY <1>1 DEF IInv, ScriptsApart
  <2> QED
    BY <2>8, <2>9, <2>10, <2>11, <2>12 DEF IInv
<1> QED
  BY <1>3, <1>4

(***************************************************************************)
(* Scripts.                                                                *)
(***************************************************************************)

(* Where no script runs nothing is asked of the frames and of the slots.   *)
LEMMA NotActive ==
  ASSUME IInv, UNCHANGED <<stack, location, closed, open, captures, made>>,
         frames' = frames \/ frames' = <<>>,
         status' \in {"halted", "failed"} \/
           (status' = "idle" /\ frames' = <<>> /\ top' = 0 /\ captured' = {}),
         top' \in -1 .. StackMax,
         captured' \subseteq captured,
         ~ Repl => captured' = captured
  PROVE  IInv'
<1>1. ~ Active' /\ status' # "capturing" /\ status' \in {"idle", "halted", "failed"}
  BY DEF Active
<1>2. frames \in Seq([base : Slots \cup {0}, closure : Closures \cup {Nil}])
      /\ Len(frames) <= FramesMax /\ FramesMax \in Nat
  BY LimitsAssumption DEF IInv, TypeOK
<1>3. /\ frames' \in Seq([base : Slots \cup {0}, closure : Closures \cup {Nil}])
      /\ Len(frames') <= FramesMax
      /\ \A i \in 1 .. Len(frames') : frames'[i].closure \in made \cup {Nil}
  <2>1. CASE frames' = frames
    BY <1>2, <2>1 DEF IInv, ClosuresMade
  <2>2. CASE frames' = <<>>
    BY <1>2, <2>2
  <2> QED
    BY <2>1, <2>2
<1>4. TypeOK'
  BY <1>1, <1>3 DEF IInv, TypeOK, Slots, Objects
<1>5. OpenDescends' /\ OpenListComplete' /\ WindowsNested'
  BY <1>1 DEF IInv, OpenDescends, OpenListComplete, WindowsNested, Slots
<1>6. ClosuresMade'
  BY <1>1, <1>3 DEF IInv, ClosuresMade, Reachable, Slots
<1>7. NothingUndefined'
  BY <1>1 DEF IInv, NothingUndefined, Deref, Slots
<1>8. ScriptsApart'
  BY <1>1 DEF IInv, ScriptsApart
<1> QED
  BY <1>4, <1>5, <1>6, <1>7, <1>8 DEF IInv

(* A script starts.                                                        *)
LEMMA RunScriptStep ==
  ASSUME IInv, RunScript
  PROVE  IInv'
<1> DEFINE f == [base |-> 0, closure |-> Nil]
<1>1. /\ frames = <<>> /\ top = 0 /\ captured = {}
      /\ frames' = <<f>> /\ status' = "running" /\ Active'
      /\ UNCHANGED <<stack, top, memory>>
  BY DEF RunScript, IInv, ScriptsApart, Active
<1>2. /\ f \in [base : Slots \cup {0}, closure : Closures \cup {Nil}]
      /\ FramesMax \in Nat \ {0}
  BY LimitsAssumption
<1>3. /\ frames' \in Seq([base : Slots \cup {0}, closure : Closures \cup {Nil}])
      /\ Len(frames') = 1 /\ frames'[1] = f /\ Frame' = f
  BY <1>1, <1>2 DEF Frame
<1>4. First' = 0
  BY <1>3 DEF First
<1>5. TypeOK'
  BY <1>1, <1>2, <1>3, MemoryKept DEF IInv, TypeOK, Slots, Objects
<1>6. WindowsNested'
  BY <1>1, <1>3, <1>4 DEF WindowsNested, memory
<1>7. ClosuresMade'
  BY <1>1, <1>3, MemoryKept DEF IInv, ClosuresMade, Reachable, memory, Slots
<1>8. NothingUndefined'
  BY <1>1 DEF IInv, NothingUndefined, Deref, Slots, memory
<1>9. ScriptsApart'
  BY <1>1, MemoryKept DEF ScriptsApart
<1> QED
  BY <1>1, <1>5, <1>6, <1>7, <1>8, <1>9, MemoryKept DEF IInv

(* A script ends, by OP_HALT or by an error.                               *)
LEMMA HaltStep ==
  ASSUME IInv, Halt
  PROVE  IInv'
<1>1. top' \in -1 .. StackMax
  BY DEF Halt, IInv, TypeOK
<1> QED
  BY <1>1, NotActive DEF Halt, memory

(* A failure, which leaves the operands it has popped.                     *)
LEMMA FailStep ==
  ASSUME IInv, NEW n \in Pops, Fail(n)
  PROVE  IInv'
<1>1. Active /\ status' = "failed" /\ top' = top - n /\ top - n >= First
  BY DEF Fail, Active, Operands
<1>2. top' \in -1 .. StackMax
  BY <1>1, RunningFrame, LimitsAssumption DEF Pops
<1> QED
  BY <1>1, <1>2, NotActive DEF Fail, memory

(* The session gets ready for its next line.                               *)
LEMMA ResetStep ==
  ASSUME IInv, Reset
  PROVE  IInv'
<1>1. top' \in -1 .. StackMax
  BY LimitsAssumption DEF Reset
<1> QED
  BY <1>1, NotActive DEF Reset

(***************************************************************************)
(* Closures.                                                               *)
(***************************************************************************)

(* OP_CLOSURE pushes the new closure.                                      *)
LEMMA MakeClosureStep ==
  ASSUME IInv, NEW c \in Closures, MakeClosure(c)
  PROVE  IInv'
<1>1. /\ status = "running" /\ Active /\ Active' /\ status' = "capturing"
      /\ c \notin made /\ top < StackMax
      /\ made' = made \cup {c}
      /\ stack' = [stack EXCEPT ![top] = c]
      /\ top' = top + 1
      /\ UNCHANGED <<frames, location, closed, open, captures, captured>>
  BY DEF MakeClosure, Active
<1>2. /\ First \in Nat /\ top \in 0 .. StackMax /\ StackMax \in Nat /\ First <= top
      /\ First' = First
  BY <1>1, RunningFrame, LimitsAssumption DEF First, Frame
<1>3. top \in Slots /\ top' \in 0 .. StackMax /\ top' - 1 = top
  BY <1>1, <1>2 DEF Slots
<1>4. stack \in [Slots -> Objects \cup {Nil}] /\ made \subseteq Closures
  BY DEF IInv, TypeOK
<1>5. /\ \A t \in Slots : stack'[t] = IF t = top THEN c ELSE stack[t]
      /\ stack' \in [Slots -> Objects \cup {Nil}]
      /\ c # Nil
  BY <1>1, <1>4, KindsAssumption DEF Objects
<1>6. TypeOK'
  BY <1>1, <1>3, <1>4, <1>5 DEF IInv, TypeOK, Slots, Objects
<1>7. OpenDescends'
  BY <1>1 DEF IInv, OpenDescends
<1>8. OpenListComplete'
  <2>1. \A i \in 1 .. Len(captures[c]) : location[captures[c][i]] # Unused
    BY <1>1 DEF IInv, ClosuresMade
  <2> QED
    BY <1>1, <2>1 DEF IInv, OpenListComplete, Slots
<1>9. WindowsNested'
  <2>1. frames' = frames /\ captured' = captured /\ top' = top + 1 /\ Active
    BY <1>1 DEF Active
  <2>2. First' <= top'
    BY <1>2, <2>1
  <2>3. \A s \in captured : s < top'
    <3> SUFFICES ASSUME NEW s \in captured
                 PROVE  s < top'
      OBVIOUS
    <3>1. s < top
      BY <2>1 DEF IInv, WindowsNested
    <3>2. s \in Slots
      BY DEF IInv, TypeOK
    <3>3. s \in Nat
      BY <3>2, LimitsAssumption DEF Slots
    <3> QED
      BY <1>2, <2>1, <3>1, <3>3
  <2> QED
    BY <2>1, <2>2, <2>3 DEF IInv, WindowsNested
<1>10. ClosuresMade'
  <2>1. Reachable \cup {Nil} \subseteq Reachable' \cup {Nil} /\ c \in Reachable'
    BY <1>1 DEF Reachable
  <2>2. \A s \in Slots : stack'[s] \in Reachable' \cup {Nil}
    BY <1>5, <2>1 DEF IInv, ClosuresMade
  <2>3. stack'[top' - 1] \in made' /\ top' > 0
    BY <1>1, <1>2, <1>3, <1>5
  <2> QED
    BY <1>1, <2>1, <2>2, <2>3 DEF IInv, ClosuresMade, Slots
<1>11. NothingUndefined'
  <2>1. \A s \in Slots : s < top' => stack'[s] # Nil
    <3>1. SUFFICES ASSUME NEW s \in Slots, s < top'
                   PROVE  stack'[s] # Nil
      OBVIOUS
    <3>2. s = top \/ s < top
      BY <1>1, <1>2, <3>1 DEF Slots
    <3> QED
      BY <1>1, <1>5, <3>2 DEF IInv, NothingUndefined
  <2>2. ASSUME NEW u \in Upvalues
        PROVE  location'[u] # Unused <=> Deref(u)' # Nil
    <3>1. location[u] # Unused <=> Deref(u) # Nil
      BY DEF IInv, NothingUndefined
    <3>2. CASE location[u] \in Slots
      <4>1. location[u] # Unused
        BY <3>2, LimitsAssumption DEF Slots
      <4>2. Deref(u)' = stack'[location[u]] /\ Deref(u) = stack[location[u]]
        BY <3>2, <1>1 DEF Deref, Slots
      <4> QED
        BY <1>1, <1>5, <3>1, <3>2, <4>1, <4>2
    <3>3. CASE location[u] \notin Slots
      BY <1>1, <3>1, <3>3 DEF Deref, Slots
    <3> QED
      BY <3>2, <3>3
  <2> QED
    BY <2>1, <2>2 DEF NothingUndefined, Slots
<1>12. ScriptsApart'
  BY <1>1 DEF IInv, ScriptsApart
<1> QED
  BY <1>6, <1>7, <1>8, <1>9, <1>10, <1>11, <1>12 DEF IInv

(* The new closure is complete.                                            *)
LEMMA ClosureMadeStep ==
  ASSUME IInv, ClosureMade
  PROVE  IInv'
<1>1. /\ Active /\ Active' /\ status' = "running"
      /\ UNCHANGED <<stack, top, frames, memory>>
  BY DEF ClosureMade, Active
<1> QED
  BY <1>1, MemoryKept
     DEF IInv, TypeOK, WindowsNested, ClosuresMade, NothingUndefined, ScriptsApart,
         Reachable, Deref, First, Frame, Slots, Objects, memory

(* While captures are filled in, the topmost slot holds the new closure.   *)
LEMMA NewClosure ==
  ASSUME IInv, status = "capturing"
  PROVE  /\ top - 1 \in Slots /\ top \in Nat
         /\ stack[top - 1] \in made /\ stack[top - 1] \in Closures
         /\ captures[stack[top - 1]] \in Seq(Upvalues)
BY LimitsAssumption DEF IInv, ClosuresMade, TypeOK, Slots

(* The new closure gets one more capture: the others keep theirs.          *)
LEMMA CaptureAdded ==
  ASSUME IInv, status = "capturing", NEW u \in Upvalues,
         captures' = [captures EXCEPT ![stack[top - 1]] = Append(@, u)]
  PROVE  /\ captures' \in [Closures -> Seq(Upvalues)]
         /\ \A c \in Closures \ made : captures'[c] = <<>>
         /\ \A c \in made : \A i \in 1 .. Len(captures'[c]) :
              captures'[c][i] = u \/
                (i \in 1 .. Len(captures[c]) /\ captures'[c][i] = captures[c][i])
<1> DEFINE new == stack[top - 1]
<1>1. new \in made /\ new \in Closures /\ captures[new] \in Seq(Upvalues)
  BY NewClosure
<1>2. captures \in [Closures -> Seq(Upvalues)] /\ made \subseteq Closures
  BY DEF IInv, TypeOK
<1> HIDE DEF new
<1>3. Append(captures[new], u) \in Seq(Upvalues)
  BY <1>1
<1>4. captures' = [captures EXCEPT ![new] = Append(captures[new], u)]
  BY DEF new
<1>5. captures' \in [Closures -> Seq(Upvalues)]
  BY <1>2, <1>3, <1>4
<1>6. \A c \in Closures : captures'[c] = IF c = new THEN Append(captures[new], u)
                                                    ELSE captures[c]
  BY <1>2, <1>4
<1>7. \A c \in Closures \ made : captures'[c] = <<>>
  BY <1>1, <1>6 DEF IInv, ClosuresMade
<1>8. ASSUME NEW c \in made, NEW i \in 1 .. Len(captures'[c])
      PROVE  captures'[c][i] = u \/
               (i \in 1 .. Len(captures[c]) /\ captures'[c][i] = captures[c][i])
  <2>1. CASE c = new
    <3>1. captures'[c] = Append(captures[new], u)
      BY <1>1, <1>6, <2>1
    <3> QED
      BY <1>1, <2>1, <3>1
  <2>2. CASE c # new
    BY <1>2, <1>6, <2>2
  <2> QED
    BY <2>1, <2>2
<1> QED
  BY <1>5, <1>7, <1>8

(* A capture of the running closure is handed on to the new one.           *)
LEMMA CaptureOuterStep ==
  ASSUME IInv, Frame.closure # Nil,
         NEW i \in 1 .. Len(captures[Frame.closure]),
         CaptureOuter(captures[Frame.closure][i])
  PROVE  IInv'
<1> DEFINE u == captures[Frame.closure][i]
<1>1. /\ status = "capturing" /\ Active /\ Active'
      /\ captures' = [captures EXCEPT ![stack[top - 1]] = Append(@, u)]
      /\ UNCHANGED <<stack, top, frames, location, closed, open, made, captured, status>>
  BY DEF CaptureOuter, Capturing, Active
<1>2. u \in Upvalues /\ location[u] # Unused
  BY <1>1, OwnCaptures
<1> HIDE DEF u
<1>3. /\ captures' \in [Closures -> Seq(Upvalues)]
      /\ \A c \in Closures \ made : captures'[c] = <<>>
      /\ \A c \in made : \A k \in 1 .. Len(captures'[c]) :
           captures'[c][k] = u \/
             (k \in 1 .. Len(captures[c]) /\ captures'[c][k] = captures[c][k])
  BY <1>1, <1>2, CaptureAdded
<1>4. TypeOK'
  BY <1>1, <1>3 DEF IInv, TypeOK, Slots, Objects
<1>5. OpenListComplete'
  BY <1>1, <1>2, <1>3 DEF IInv, OpenListComplete, Slots
<1>6. OpenDescends' /\ WindowsNested'
  BY <1>1 DEF IInv, OpenDescends, WindowsNested, First, Frame
<1>7. ClosuresMade'
  BY <1>1, <1>3 DEF IInv, ClosuresMade, Reachable, Slots
<1>8. NothingUndefined' /\ ScriptsApart'
  BY <1>1 DEF IInv, NothingUndefined, ScriptsApart, Deref, Slots
<1> QED
  BY <1>4, <1>5, <1>6, <1>7, <1>8 DEF IInv

(***************************************************************************)
(* The list of open upvalues.                                              *)
(***************************************************************************)

(* r is q with e linked in after the first n elements.                     *)
IsInsertion(r, q, e, n) ==
  /\ Len(r) = Len(q) + 1
  /\ \A i \in 1 .. n : r[i] = q[i]
  /\ r[n + 1] = e
  /\ \A i \in n + 2 .. Len(r) : r[i] = q[i - 1]

(* An element linked in after the first n of a sequence.                   *)
LEMMA Inserted ==
  ASSUME NEW S, NEW q \in Seq(S), NEW e \in S, NEW n \in 0 .. Len(q)
  PROVE  LET r == SubSeq(q, 1, n) \o <<e>> \o SubSeq(q, n + 1, Len(q)) IN
           r \in Seq(S) /\ IsInsertion(r, q, e, n)
<1> DEFINE a == SubSeq(q, 1, n)
           b == SubSeq(q, n + 1, Len(q))
           r == SubSeq(q, 1, n) \o <<e>> \o SubSeq(q, n + 1, Len(q))
<1>1. Len(q) \in Nat /\ n \in Nat /\ n <= Len(q)
  OBVIOUS
<1>2. a \in Seq(S) /\ Len(a) = n /\ \A i \in 1 .. n : a[i] = q[i]
  BY <1>1, SubSeqProperties
<1>3. /\ b \in Seq(S) /\ Len(b) = Len(q) - n
      /\ \A i \in 1 .. Len(q) - n : b[i] = q[n + i]
  BY <1>1, SubSeqProperties
<1>4. <<e>> \in Seq(S) /\ Len(<<e>>) = 1 /\ <<e>>[1] = e
  OBVIOUS
<1> HIDE DEF a, b, r
<1> DEFINE c == a \o <<e>>
<1>5. /\ c \in Seq(S) /\ Len(c) = n + 1
      /\ \A i \in 1 .. n + 1 : c[i] = IF i <= n THEN q[i] ELSE e
  <2>1. /\ c \in Seq(S) /\ Len(c) = n + 1
        /\ \A i \in 1 .. n + 1 : c[i] = IF i <= n THEN a[i] ELSE <<e>>[i - n]
    BY <1>2, <1>4, ConcatProperties
  <2> HIDE DEF c
  <2>2. \A i \in 1 .. n + 1 : ~ (i <= n) => i - n = 1
    BY <1>1
  <2> QED
    BY <1>1, <1>2, <1>4, <2>1, <2>2
<1>6. r = c \o b
  BY DEF a, b, c, r
<1> HIDE DEF c, r
<1>7. /\ r \in Seq(S) /\ Len(r) = Len(c) + Len(b)
      /\ \A i \in 1 .. Len(c) + Len(b) : r[i] = IF i <= Len(c) THEN c[i] ELSE b[i - Len(c)]
  BY <1>3, <1>5, <1>6, ConcatProperties, Zenon
<1>8. r \in Seq(S) /\ Len(r) = Len(q) + 1
  BY <1>1, <1>3, <1>5, <1>7
<1>9. \A i \in 1 .. Len(r) : r[i] = IF i <= n + 1 THEN c[i] ELSE b[i - (n + 1)]
  BY <1>1, <1>3, <1>5, <1>7
<1>10. \A i \in 1 .. n : r[i] = q[i]
  BY <1>1, <1>5, <1>8, <1>9
<1>11. r[n + 1] = e
  BY <1>1, <1>5, <1>8, <1>9
<1>12. ASSUME NEW i \in n + 2 .. Len(r)
       PROVE  r[i] = q[i - 1]
  <2>1. i \in 1 .. Len(r) /\ ~ (i <= n + 1) /\ i - (n + 1) \in 1 .. Len(q) - n
    BY <1>1, <1>8
  <2>2. n + (i - (n + 1)) = i - 1
    BY <1>1
  <2> QED
    BY <2>1, <2>2, <1>3, <1>9
<1> QED
  BY <1>8, <1>10, <1>11, <1>12 DEF r, IsInsertion

(* What is left of a sequence without its first n elements.                *)
LEMMA Unlinked ==
  ASSUME NEW S, NEW q \in Seq(S), NEW n \in 0 .. Len(q),
         NEW r, r = SubSeq(q, n + 1, Len(q))
  PROVE  /\ r \in Seq(S) /\ Len(r) = Len(q) - n
         /\ \A i \in 1 .. Len(r) : r[i] = q[n + i]
<1>1. Len(q) \in Nat /\ n \in Nat /\ n <= Len(q)
  OBVIOUS
<1> QED
  BY <1>1, SubSeqProperties

(* The list holds every upvalue that points into the stack once.           *)
LEMMA OpenFacts ==
  ASSUME IInv
  PROVE  /\ open \in Seq(Upvalues) /\ Len(open) \in Nat
         /\ \A i \in 1 .. Len(open) : open[i] \in Upvalues /\ location[open[i]] \in Slots
         /\ \A u \in Upvalues : location[u] \in Slots =>
              \E i \in 1 .. Len(open) : open[i] = u
         /\ \A i, j \in 1 .. Len(open) : i # j => location[open[i]] # location[open[j]]
         /\ Slots \subseteq Nat
<1>1. open \in Seq(Upvalues) /\ Len(open) \in Nat
  BY DEF IInv, TypeOK
<1>2. Slots \subseteq Nat
  BY LimitsAssumption DEF Slots
<1>3. \A i \in 1 .. Len(open) : open[i] \in Upvalues
  BY <1>1, ElementOfSeq
<1>4. \A i \in 1 .. Len(open) : location[open[i]] \in Slots
  BY <1>3 DEF IInv, OpenListComplete
<1>5. \A u \in Upvalues : location[u] \in Slots => \E i \in 1 .. Len(open) : open[i] = u
  BY DEF IInv, OpenListComplete
<1>6. ASSUME NEW i \in 1 .. Len(open), NEW j \in 1 .. Len(open), i # j
      PROVE  location[open[i]] # location[open[j]]
  <2>1. i < j \/ j < i
    BY <1>6, <1>1
  <2>2. location[open[i]] \in Nat /\ location[open[j]] \in Nat
    BY <1>2, <1>4
  <2> QED
    BY <2>1, <2>2 DEF IInv, OpenDescends
<1> QED
  BY <1>1, <1>2, <1>3, <1>4, <1>5, <1>6

(* The walk down the list stops where no later upvalue points above s.     *)
LEMMA WalkSplits ==
  ASSUME IInv, NEW s \in Int, NEW n \in 0 .. Len(open), WalkEnds(s, n)
  PROVE  /\ \A i \in 1 .. n : location[open[i]] > s
         /\ \A i \in n + 1 .. Len(open) : location[open[i]] <= s
<1>1. \A i \in 1 .. n : location[open[i]] > s
  BY DEF WalkEnds
<1>2. ASSUME NEW i \in n + 1 .. Len(open)
      PROVE  location[open[i]] <= s
  <2>1. Len(open) \in Nat /\ n < Len(open) /\ n + 1 \in 1 .. Len(open)
        /\ i \in 1 .. Len(open)
    BY OpenFacts
  <2>2. location[open[n + 1]] <= s
    BY <2>1 DEF WalkEnds
  <2>3. location[open[n + 1]] \in Nat /\ location[open[i]] \in Nat
    BY <2>1, OpenFacts
  <2>4. i = n + 1 \/ n + 1 < i
    BY <2>1
  <2>5. n + 1 < i => location[open[n + 1]] > location[open[i]]
    BY <2>1 DEF IInv, OpenDescends
  <2> QED
    BY <2>2, <2>3, <2>4, <2>5
<1> QED
  BY <1>1, <1>2

(* vm_capture_upvalue: u is the upvalue of slot s afterwards, the others   *)
(* point where they pointed, and the list is in order and complete.        *)
LEMMA UpvalueCaptured ==
  ASSUME IInv, NEW s \in Slots, NEW u \in Upvalues, CaptureUpvalue(s, u)
  PROVE  /\ open' \in Seq(Upvalues)
         /\ location' \in [Upvalues -> Slots \cup {Own, Unused}]
         /\ closed' = closed
         /\ location'[u] = s
         /\ \A w \in Upvalues : w # u => location'[w] = location[w]
         /\ location[u] \in {s, Unused}
         /\ OpenDescends'
         /\ {w \in Upvalues : location'[w] \in Slots} = {open'[i] : i \in 1 .. Len(open')}
         /\ {location'[open'[i]] : i \in 1 .. Len(open')} =
              {location[open[i]] : i \in 1 .. Len(open)} \cup {s}
<1>1. PICK n \in 0 .. Len(open) :
        /\ WalkEnds(s, n)
        /\ \/ /\ n < Len(open) /\ location[open[n + 1]] = s
              /\ u = open[n + 1]
              /\ UNCHANGED <<open, location, closed>>
           \/ /\ ~ (n < Len(open) /\ location[open[n + 1]] = s)
              /\ location[u] = Unused
              /\ location' = [location EXCEPT ![u] = s]
              /\ open' = SubSeq(open, 1, n) \o <<u>> \o SubSeq(open, n + 1, Len(open))
              /\ UNCHANGED closed
  BY DEF CaptureUpvalue
<1>2. /\ location \in [Upvalues -> Slots \cup {Own, Unused}]
      /\ open \in Seq(Upvalues) /\ Len(open) \in Nat
      /\ s \in Nat /\ n \in Nat /\ n <= Len(open)
  BY <1>1, OpenFacts DEF IInv, TypeOK
<1>3. CASE /\ n < Len(open) /\ location[open[n + 1]] = s
           /\ u = open[n + 1]
           /\ UNCHANGED <<open, location, closed>>
  <2>1. n + 1 \in 1 .. Len(open)
    BY <1>2, <1>3
  <2>2. s \in {location[open[i]] : i \in 1 .. Len(open)}
    BY <1>3, <2>1
  <2> QED
    BY <1>2, <1>3, <2>2 DEF IInv, OpenDescends, OpenListComplete
<1>4. CASE /\ ~ (n < Len(open) /\ location[open[n + 1]] = s)
           /\ location[u] = Unused
           /\ location' = [location EXCEPT ![u] = s]
           /\ open' = SubSeq(open, 1, n) \o <<u>> \o SubSeq(open, n + 1, Len(open))
           /\ UNCHANGED closed
  <2>1. /\ open' \in Seq(Upvalues) /\ Len(open') = Len(open) + 1
        /\ \A i \in 1 .. n : open'[i] = open[i]
        /\ open'[n + 1] = u
        /\ \A i \in n + 2 .. Len(open') : open'[i] = open[i - 1]
    <3>1. open' \in Seq(Upvalues) /\ IsInsertion(open', open, u, n)
      BY <1>2, <1>4, Inserted
    <3> QED
      BY <3>1 DEF IsInsertion
  <2>2. /\ location' \in [Upvalues -> Slots \cup {Own, Unused}]
        /\ \A w \in Upvalues : location'[w] = IF w = u THEN s ELSE location[w]
    BY <1>2, <1>4
  <2>3. location[u] \notin Slots
    BY <1>4, LimitsAssumption DEF Slots
  <2>4. \A i \in 1 .. Len(open) : open[i] # u /\ location'[open[i]] = location[open[i]]
    BY <2>2, <2>3, OpenFacts
  <2>5. /\ \A i \in 1 .. n : location[open[i]] > s
        /\ \A i \in n + 1 .. Len(open) : location[open[i]] <= s
    BY <1>1, <1>2, WalkSplits
  <2>6. \A i \in n + 1 .. Len(open) : location[open[i]] < s
    <3> SUFFICES ASSUME NEW i \in n + 1 .. Len(open)
                 PROVE  location[open[i]] < s
      OBVIOUS
    <3>1. /\ i \in 1 .. Len(open) /\ n + 1 \in 1 .. Len(open) /\ n < Len(open)
          /\ i = n + 1 \/ n + 1 < i
      BY <1>2
    <3>2. location[open[i]] \in Nat /\ location[open[n + 1]] \in Nat
      BY <3>1, OpenFacts
    <3>3. location[open[n + 1]] < s
      BY <1>2, <1>4, <2>5, <3>1, <3>2
    <3>4. n + 1 < i => location[open[n + 1]] > location[open[i]]
      BY <3>1 DEF IInv, OpenDescends
    <3> QED
      BY <1>2, <3>1, <3>2, <3>3, <3>4
  <2>7. /\ \A i \in 1 .. n : location'[open'[i]] = location[open[i]]
        /\ location'[open'[n + 1]] = s
        /\ \A i \in n + 2 .. Len(open') : location'[open'[i]] = location[open[i - 1]]
    <3>1. \A i \in 1 .. n : i \in 1 .. Len(open)
      BY <1>2
    <3>2. \A i \in n + 2 .. Len(open') : i - 1 \in 1 .. Len(open)
      BY <1>2, <2>1
    <3> QED
      BY <2>1, <2>2, <2>4, <3>1, <3>2
  <2>8. OpenDescends'
    <3> SUFFICES ASSUME NEW i \in 1 .. Len(open'), NEW j \in 1 .. Len(open'), i < j
                 PROVE  location'[open'[i]] > location'[open'[j]]
      BY DEF OpenDescends
    <3>1. CASE j <= n
      <4>1. i \in 1 .. n /\ j \in 1 .. n /\ i \in 1 .. Len(open) /\ j \in 1 .. Len(open)
        BY <1>2, <3>1
      <4>2. location[open[i]] > location[open[j]]
        BY <4>1 DEF IInv, OpenDescends
      <4> QED
        BY <2>7, <4>1, <4>2
    <3>2. CASE j = n + 1
      <4>1. i \in 1 .. n
        BY <1>2, <3>2
      <4> QED
        BY <2>5, <2>7, <3>2, <4>1
    <3>3. CASE i = n + 1
      <4>1. j \in n + 2 .. Len(open') /\ j - 1 \in n + 1 .. Len(open)
        BY <1>2, <2>1, <3>3
      <4>2. j - 1 \in 1 .. Len(open)
        BY <1>2, <4>1
      <4>3. location[open[j - 1]] < s /\ location[open[j - 1]] \in Nat
        BY <2>6, <4>1, <4>2, OpenFacts
      <4> QED
        BY <1>2, <2>7, <3>3, <4>1, <4>3
    <3>4. CASE i <= n /\ j > n + 1
      <4>1. /\ i \in 1 .. n /\ j \in n + 2 .. Len(open')
            /\ i \in 1 .. Len(open) /\ j - 1 \in 1 .. Len(open) /\ i < j - 1
        BY <1>2, <2>1, <3>4
      <4>2. location[open[i]] > location[open[j - 1]]
        BY <4>1 DEF IInv, OpenDescends
      <4> QED
        BY <2>7, <4>1, <4>2
    <3>5. CASE i > n + 1
      <4>1. /\ i \in n + 2 .. Len(open') /\ j \in n + 2 .. Len(open')
            /\ i - 1 \in 1 .. Len(open) /\ j - 1 \in 1 .. Len(open) /\ i - 1 < j - 1
        BY <1>2, <2>1, <3>5
      <4>2. location[open[i - 1]] > location[open[j - 1]]
        BY <4>1 DEF IInv, OpenDescends
      <4> QED
        BY <2>7, <4>1, <4>2
    <3> QED
      BY <1>2, <3>1, <3>2, <3>3, <3>4, <3>5
  <2>9. \A i \in 1 .. Len(open) : \E k \in 1 .. Len(open') : open'[k] = open[i]
    <3> SUFFICES ASSUME NEW i \in 1 .. Len(open)
                 PROVE  \E k \in 1 .. Len(open') : open'[k] = open[i]
      OBVIOUS
    <3>1. CASE i <= n
      BY <1>2, <2>1, <3>1
    <3>2. CASE i > n
      <4>1. i + 1 \in n + 2 .. Len(open') /\ i + 1 \in 1 .. Len(open') /\ (i + 1) - 1 = i
        BY <1>2, <2>1, <3>2
      <4> QED
        BY <2>1, <4>1
    <3> QED
      BY <1>2, <3>1, <3>2
  <2>10. \A k \in 1 .. Len(open') : open'[k] = u \/ \E i \in 1 .. Len(open) : open[i] = open'[k]
    <3> SUFFICES ASSUME NEW k \in 1 .. Len(open')
                 PROVE  open'[k] = u \/ \E i \in 1 .. Len(open) : open[i] = open'[k]
      OBVIOUS
    <3>1. CASE k <= n
      BY <1>2, <2>1, <3>1
    <3>2. CASE k = n + 1
      BY <2>1, <3>2
    <3>3. CASE k > n + 1
      <4>1. k \in n + 2 .. Len(open') /\ k - 1 \in 1 .. Len(open)
        BY <1>2, <2>1, <3>3
      <4> QED
        BY <2>1, <4>1
    <3> QED
      BY <1>2, <3>1, <3>2, <3>3
  <2>11. n + 1 \in 1 .. Len(open')
    BY <1>2, <2>1
  <2>12. {w \in Upvalues : location'[w] \in Slots} = {open'[i] : i \in 1 .. Len(open')}
    <3>1. ASSUME NEW w \in Upvalues, location'[w] \in Slots
          PROVE  \E k \in 1 .. Len(open') : open'[k] = w
      <4>1. CASE w = u
        BY <2>1, <2>11, <4>1
      <4>2. CASE w # u
        <5>1. location[w] \in Slots
          BY <2>2, <3>1, <4>2
        <5>2. PICK i \in 1 .. Len(open) : open[i] = w
          BY <5>1, OpenFacts
        <5> QED
          BY <2>9, <5>2
      <4> QED
        BY <4>1, <4>2
    <3>2. ASSUME NEW k \in 1 .. Len(open')
          PROVE  open'[k] \in Upvalues /\ location'[open'[k]] \in Slots
      <4>1. CASE open'[k] = u
        BY <2>2, <4>1
      <4>2. CASE open'[k] # u
        <5>1. PICK i \in 1 .. Len(open) : open[i] = open'[k]
          BY <2>10, <4>2
        <5>2. open[i] \in Upvalues /\ location[open[i]] \in Slots
          BY OpenFacts
        <5> QED
          BY <2>4, <5>1, <5>2
      <4> QED
        BY <4>1, <4>2
    <3> QED
      BY <3>1, <3>2
  <2>13. {location'[open'[i]] : i \in 1 .. Len(open')} =
           {location[open[i]] : i \in 1 .. Len(open)} \cup {s}
    <3>1. ASSUME NEW k \in 1 .. Len(open')
          PROVE  location'[open'[k]] \in {location[open[i]] : i \in 1 .. Len(open)} \cup {s}
      BY <2>2, <2>4, <2>10
    <3>2. ASSUME NEW i \in 1 .. Len(open)
          PROVE  location[open[i]] \in {location'[open'[k]] : k \in 1 .. Len(open')}
      <4>1. PICK k \in 1 .. Len(open') : open'[k] = open[i]
        BY <2>9
      <4> QED
        BY <2>4, <4>1
    <3>3. s \in {location'[open'[k]] : k \in 1 .. Len(open')}
      BY <2>7, <2>11
    <3> QED
      BY <3>1, <3>2, <3>3
  <2> QED
    BY <1>4, <2>1, <2>2, <2>8, <2>12, <2>13
<1> QED
  BY <1>1, <1>3, <1>4

(* A variable of the running frame is captured.                            *)
LEMMA CaptureLocalStep ==
  ASSUME IInv, NEW s \in Slots, NEW u \in Upvalues, CaptureLocal(s, u)
  PROVE  IInv'
<1>1. /\ status = "capturing" /\ Active /\ Active' /\ s < top
      /\ CaptureUpvalue(s, u)
      /\ captures' = [captures EXCEPT ![stack[top - 1]] = Append(@, u)]
      /\ captured' = captured \cup {s}
      /\ UNCHANGED <<stack, top, frames, made, status>>
  BY DEF CaptureLocal, Capturing, Active
<1>2. /\ open' \in Seq(Upvalues)
      /\ location' \in [Upvalues -> Slots \cup {Own, Unused}]
      /\ closed' = closed
      /\ location'[u] = s
      /\ \A w \in Upvalues : w # u => location'[w] = location[w]
      /\ OpenDescends'
      /\ {w \in Upvalues : location'[w] \in Slots} = {open'[i] : i \in 1 .. Len(open')}
      /\ {location'[open'[i]] : i \in 1 .. Len(open')} =
           {location[open[i]] : i \in 1 .. Len(open)} \cup {s}
  BY <1>1, UpvalueCaptured
<1>3. /\ captures' \in [Closures -> Seq(Upvalues)]
      /\ \A c \in Closures \ made : captures'[c] = <<>>
      /\ \A c \in made : \A k \in 1 .. Len(captures'[c]) :
           captures'[c][k] = u \/
             (k \in 1 .. Len(captures[c]) /\ captures'[c][k] = captures[c][k])
  BY <1>1, CaptureAdded
<1>4. s # Unused
  BY LimitsAssumption DEF Slots
<1>5. TypeOK'
  BY <1>1, <1>2, <1>3 DEF IInv, TypeOK, Slots, Objects
<1>6. OpenListComplete'
  <2>1. ASSUME NEW c \in made, NEW k \in 1 .. Len(captures'[c])
        PROVE  location'[captures'[c][k]] # Unused
    <3>1. CASE captures'[c][k] = u
      BY <1>2, <1>4, <3>1
    <3>2. CASE /\ captures'[c][k] # u
               /\ k \in 1 .. Len(captures[c]) /\ captures'[c][k] = captures[c][k]
      <4>1. location[captures[c][k]] # Unused
        BY <3>2 DEF IInv, OpenListComplete
      <4>2. captures[c] \in Seq(Upvalues)
        BY DEF IInv, TypeOK
      <4>3. captures[c][k] \in Upvalues
        BY <3>2, <4>2, ElementOfSeq
      <4> QED
        BY <1>2, <3>2, <4>1, <4>3
    <3> QED
      BY <1>3, <3>1, <3>2
  <2> QED
    BY <1>1, <1>2, <2>1 DEF OpenListComplete, Slots
<1>7. WindowsNested'
  BY <1>1 DEF IInv, WindowsNested, First, Frame
<1>8. ClosuresMade'
  BY <1>1, <1>2, <1>3 DEF IInv, ClosuresMade, Reachable, Slots
<1>9. NothingUndefined'
  <2>1. ASSUME NEW w \in Upvalues
        PROVE  location'[w] # Unused <=> Deref(w)' # Nil
    <3>1. CASE w = u
      <4>1. Deref(w)' = stack[s]
        BY <1>1, <1>2, <3>1 DEF Deref, Slots
      <4>2. stack[s] # Nil
        BY <1>1 DEF IInv, NothingUndefined
      <4> QED
        BY <1>2, <1>4, <3>1, <4>1, <4>2
    <3>2. CASE w # u
      <4>1. Deref(w)' = Deref(w)
        BY <1>1, <1>2, <3>2 DEF Deref, Slots
      <4> QED
        BY <1>2, <3>2, <4>1 DEF IInv, NothingUndefined
    <3> QED
      BY <3>1, <3>2
  <2> QED
    BY <1>1, <2>1 DEF IInv, NothingUndefined, Slots
<1>10. ScriptsApart'
  BY <1>1, <1>2 DEF IInv, ScriptsApart
<1> QED
  BY <1>2, <1>5, <1>6, <1>7, <1>8, <1>9, <1>10 DEF IInv

(* vm_close_upvalues: the upvalues of the slots from `last' on take their  *)
(* variables along, the others point where they pointed, and the list is   *)
(* in order and complete.                                                  *)
LEMMA UpvaluesClosed ==
  ASSUME IInv, NEW last \in Nat, CloseUpvalues(last)
  PROVE  /\ open' \in Seq(Upvalues)
         /\ location' \in [Upvalues -> Slots \cup {Own, Unused}]
         /\ closed' \in [Upvalues -> Objects \cup {Nil}]
         /\ UNCHANGED <<captures, made>>
         /\ captured' = {t \in captured : t < last}
         /\ \A u \in Upvalues :
              IF location[u] \in Slots /\ location[u] >= last
                THEN location'[u] = Own /\ closed'[u] = Deref(u)
                ELSE location'[u] = location[u] /\ closed'[u] = closed[u]
         /\ OpenDescends' /\ OpenListComplete'
         /\ {location'[open'[i]] : i \in 1 .. Len(open')} =
              {t \in {location[open[i]] : i \in 1 .. Len(open)} : t < last}
<1>1. PICK n \in 0 .. Len(open) :
        /\ WalkEnds(last - 1, n)
        /\ LET gone == {open[i] : i \in 1 .. n} IN
             /\ closed' = [u \in Upvalues |-> IF u \in gone THEN Deref(u) ELSE closed[u]]
             /\ location' = [u \in Upvalues |-> IF u \in gone THEN Own ELSE location[u]]
        /\ open' = SubSeq(open, n + 1, Len(open))
        /\ captured' = {t \in captured : t < last}
        /\ UNCHANGED <<captures, made>>
  BY DEF CloseUpvalues
<1> DEFINE gone == {open[i] : i \in 1 .. n}
<1>2. /\ closed' = [u \in Upvalues |-> IF u \in gone THEN Deref(u) ELSE closed[u]]
      /\ location' = [u \in Upvalues |-> IF u \in gone THEN Own ELSE location[u]]
  BY <1>1
<1>3. /\ open \in Seq(Upvalues) /\ Len(open) \in Nat /\ n \in Nat /\ n <= Len(open)
      /\ last - 1 \in Int
      /\ stack \in [Slots -> Objects \cup {Nil}]
      /\ closed \in [Upvalues -> Objects \cup {Nil}]
      /\ location \in [Upvalues -> Slots \cup {Own, Unused}]
  BY <1>1, OpenFacts DEF IInv, TypeOK
<1>4. /\ open' \in Seq(Upvalues) /\ Len(open') = Len(open) - n
      /\ \A i \in 1 .. Len(open') : open'[i] = open[n + i]
  BY <1>1, <1>3, Unlinked
<1>5. /\ \A i \in 1 .. n : location[open[i]] > last - 1
      /\ \A i \in n + 1 .. Len(open) : location[open[i]] <= last - 1
  BY <1>1, <1>3, WalkSplits
<1>6. \A i \in 1 .. n : i \in 1 .. Len(open)
  BY <1>3
<1>7. \A i \in 1 .. Len(open') : n + i \in n + 1 .. Len(open) /\ n + i \in 1 .. Len(open)
  BY <1>3, <1>4
<1>8. Own \notin Slots /\ Own # Unused
  BY LimitsAssumption DEF Slots
<1>9. ASSUME NEW u \in Upvalues
      PROVE  u \in gone <=> location[u] \in Slots /\ location[u] >= last
  <2>1. ASSUME u \in gone
        PROVE  location[u] \in Slots /\ location[u] >= last
    <3>1. PICK i \in 1 .. n : open[i] = u
      BY <2>1
    <3>2. location[u] \in Slots /\ location[u] > last - 1 /\ location[u] \in Nat
      BY <1>5, <1>6, <3>1, OpenFacts
    <3> QED
      BY <3>2
  <2>2. ASSUME location[u] \in Slots, location[u] >= last
        PROVE  u \in gone
    <3>1. PICK i \in 1 .. Len(open) : open[i] = u
      BY <2>2, OpenFacts
    <3>2. location[u] \in Nat /\ ~ (location[u] <= last - 1)
      BY <2>2, OpenFacts
    <3>3. i \notin n + 1 .. Len(open)
      BY <1>5, <3>1, <3>2
    <3>4. i \in 1 .. n
      BY <1>3, <3>3
    <3> QED
      BY <3>1, <3>4
  <2> QED
    BY <2>1, <2>2
<1> HIDE DEF gone
<1>10. \A u \in Upvalues :
         IF location[u] \in Slots /\ location[u] >= last
           THEN location'[u] = Own /\ closed'[u] = Deref(u)
           ELSE location'[u] = location[u] /\ closed'[u] = closed[u]
  BY <1>2, <1>9
<1>11. location' \in [Upvalues -> Slots \cup {Own, Unused}]
  BY <1>2, <1>3
<1>12. closed' \in [Upvalues -> Objects \cup {Nil}]
  <2>1. \A u \in Upvalues : Deref(u) \in Objects \cup {Nil}
    BY <1>3 DEF Deref
  <2> QED
    BY <1>2, <1>3, <2>1
<1>13. \A i \in 1 .. Len(open') :
         /\ open'[i] \in Upvalues
         /\ location'[open'[i]] = location[open[n + i]]
         /\ location'[open'[i]] \in Slots /\ location'[open'[i]] \in Nat
         /\ location'[open'[i]] < last
  <2> SUFFICES ASSUME NEW i \in 1 .. Len(open')
               PROVE  /\ open'[i] \in Upvalues
                      /\ location'[open'[i]] = location[open[n + i]]
                      /\ location'[open'[i]] \in Slots /\ location'[open'[i]] \in Nat
                      /\ location'[open'[i]] < last
    OBVIOUS
  <2>1. /\ open[n + i] \in Upvalues /\ location[open[n + i]] \in Slots
        /\ location[open[n + i]] \in Nat /\ open'[i] = open[n + i]
    BY <1>4, <1>7, OpenFacts
  <2>2. location[open[n + i]] <= last - 1
    BY <1>5, <1>7
  <2>3. location[open[n + i]] < last
    BY <2>1, <2>2
  <2>4. location'[open[n + i]] = location[open[n + i]]
    BY <1>10, <2>1, <2>3
  <2> QED
    BY <2>1, <2>3, <2>4
<1>14. OpenDescends'
  <2> SUFFICES ASSUME NEW i \in 1 .. Len(open'), NEW j \in 1 .. Len(open'), i < j
               PROVE  location'[open'[i]] > location'[open'[j]]
    BY DEF OpenDescends
  <2>1. n + i < n + j
    BY <1>3
  <2>2. location[open[n + i]] > location[open[n + j]]
    BY <1>7, <2>1 DEF IInv, OpenDescends
  <2> QED
    BY <1>13, <2>2
<1>15. ASSUME NEW u \in Upvalues, location[u] \in Slots, location[u] < last
       PROVE  \E i \in 1 .. Len(open') : open'[i] = u
  <2>1. PICK k \in 1 .. Len(open) : open[k] = u
    BY <1>15, OpenFacts
  <2>2. location[u] \in Nat /\ ~ (location[u] > last - 1)
    BY <1>15, OpenFacts
  <2>3. k \notin 1 .. n
    BY <1>5, <2>1, <2>2
  <2>4. k - n \in 1 .. Len(open') /\ n + (k - n) = k
    BY <1>3, <1>4, <2>3
  <2> QED
    BY <1>4, <2>1, <2>4
<1>16. OpenListComplete'
  <2>1. ASSUME NEW u \in Upvalues, location'[u] \in Slots
        PROVE  \E i \in 1 .. Len(open') : open'[i] = u
    <3>1. location[u] \in Slots /\ ~ (location[u] >= last)
      BY <1>8, <1>10, <2>1
    <3>2. location[u] < last
      BY <3>1, OpenFacts
    <3> QED
      BY <1>15, <3>1, <3>2
  <2>2. {u \in Upvalues : location'[u] \in Slots} = {open'[i] : i \in 1 .. Len(open')}
    BY <1>13, <2>1
  <2>3. ASSUME NEW c \in made, NEW i \in 1 .. Len(captures[c])
        PROVE  location'[captures[c][i]] # Unused
    <3>1. captures[c] \in Seq(Upvalues)
      BY DEF IInv, TypeOK
    <3>2. captures[c][i] \in Upvalues
      BY <3>1, ElementOfSeq
    <3>3. location[captures[c][i]] # Unused
      BY DEF IInv, OpenListComplete
    <3> QED
      BY <1>8, <1>10, <3>2, <3>3
  <2>4. UNCHANGED <<captures, made>>
    BY <1>1
  <2> QED
    BY <2>2, <2>3, <2>4 DEF OpenListComplete
<1>17. {location'[open'[i]] : i \in 1 .. Len(open')} =
         {t \in {location[open[i]] : i \in 1 .. Len(open)} : t < last}
  <2>1. ASSUME NEW i \in 1 .. Len(open')
        PROVE  /\ location'[open'[i]] \in {location[open[k]] : k \in 1 .. Len(open)}
               /\ location'[open'[i]] < last
    BY <1>7, <1>13
  <2>2. ASSUME NEW k \in 1 .. Len(open), location[open[k]] < last
        PROVE  location[open[k]] \in {location'[open'[i]] : i \in 1 .. Len(open')}
    <3>1. open[k] \in Upvalues /\ location[open[k]] \in Slots
      BY OpenFacts
    <3>2. PICK i \in 1 .. Len(open') : open'[i] = open[k]
      BY <1>15, <2>2, <3>1
    <3>3. location'[open[k]] = location[open[k]]
      BY <1>10, <2>2, <3>1, OpenFacts
    <3> QED
      BY <3>2, <3>3
  <2> QED
    BY <2>1, <2>2
<1> QED
  BY <1>1, <1>4, <1>10, <1>11, <1>12, <1>14, <1>16, <1>17

(* Closing keeps every upvalue's value, as long as the slots below `last'  *)
(* keep theirs.                                                            *)
LEMMA ClosingKeeps ==
  ASSUME IInv, NEW last \in Nat, CloseUpvalues(last),
         \A t \in Slots : t < last => stack'[t] = stack[t]
  PROVE  /\ \A u \in Upvalues : /\ Deref(u)' = Deref(u)
                                /\ location'[u] # Unused <=> location[u] # Unused
         /\ \A u \in Upvalues : closed'[u] \in Reachable' \cup {Nil}
<1>1. /\ UNCHANGED made
      /\ \A u \in Upvalues :
           IF location[u] \in Slots /\ location[u] >= last
             THEN location'[u] = Own /\ closed'[u] = Deref(u)
             ELSE location'[u] = location[u] /\ closed'[u] = closed[u]
  BY UpvaluesClosed
<1>2. Own \notin Slots /\ Own # Unused /\ Unused \notin Slots
  BY LimitsAssumption DEF Slots
<1>3. ASSUME NEW u \in Upvalues
      PROVE  Deref(u)' = Deref(u) /\ (location'[u] # Unused <=> location[u] # Unused)
  <2>1. CASE location[u] \in Slots /\ location[u] >= last
    BY <1>1, <1>2, <2>1 DEF Deref, Slots
  <2>2. CASE location[u] \in Slots /\ ~ (location[u] >= last)
    <3>1. location'[u] = location[u] /\ closed'[u] = closed[u]
      BY <1>1, <2>2
    <3>2. location[u] < last
      BY <2>2, OpenFacts
    <3> QED
      BY <2>2, <3>1, <3>2 DEF Deref, Slots
  <2>3. CASE location[u] \notin Slots
    <3>1. location'[u] = location[u] /\ closed'[u] = closed[u]
      BY <1>1, <2>3
    <3> QED
      BY <2>3, <3>1 DEF Deref, Slots
  <2> QED
    BY <2>1, <2>2, <2>3
<1>4. ASSUME NEW u \in Upvalues
      PROVE  closed'[u] \in Reachable' \cup {Nil}
  <2>1. closed[u] \in Reachable \cup {Nil} /\ Deref(u) \in Reachable \cup {Nil}
    BY DEF IInv, ClosuresMade, Deref
  <2>2. Reachable' = Reachable
    BY <1>1 DEF Reachable
  <2> QED
    BY <1>1, <2>1, <2>2
<1> QED
  BY <1>3, <1>4

(* A captured variable goes out of scope.                                  *)
LEMMA CloseLocalStep ==
  ASSUME IInv, CloseLocal
  PROVE  IInv'
<1>1. /\ status = "running" /\ Active /\ Active' /\ top > First
      /\ CloseUpvalues(top - 1) /\ top' = top - 1
      /\ UNCHANGED <<stack, frames, status>>
  BY DEF CloseLocal, Active
<1>2. /\ First \in Nat /\ top \in 0 .. StackMax /\ StackMax \in Nat
      /\ top - 1 \in Nat /\ First <= top'
      /\ First' = First
  BY <1>1, RunningFrame, LimitsAssumption DEF First, Frame
<1>3. /\ open' \in Seq(Upvalues)
      /\ location' \in [Upvalues -> Slots \cup {Own, Unused}]
      /\ closed' \in [Upvalues -> Objects \cup {Nil}]
      /\ UNCHANGED <<captures, made>>
      /\ captured' = {t \in captured : t < top - 1}
      /\ OpenDescends' /\ OpenListComplete'
      /\ {location'[open'[i]] : i \in 1 .. Len(open')} =
           {t \in {location[open[i]] : i \in 1 .. Len(open)} : t < top - 1}
  BY <1>1, <1>2, UpvaluesClosed
<1>4. /\ \A u \in Upvalues : /\ Deref(u)' = Deref(u)
                             /\ location'[u] # Unused <=> location[u] # Unused
      /\ \A u \in Upvalues : closed'[u] \in Reachable' \cup {Nil}
  BY <1>1, <1>2, ClosingKeeps
<1>5. TypeOK'
  BY <1>1, <1>2, <1>3 DEF IInv, TypeOK, Slots, Objects
<1>6. WindowsNested'
  BY <1>1, <1>2, <1>3 DEF IInv, WindowsNested
<1>7. ClosuresMade'
  BY <1>1, <1>3, <1>4 DEF IInv, ClosuresMade, Reachable, Slots
<1>8. NothingUndefined'
  BY <1>1, <1>2, <1>4 DEF IInv, NothingUndefined, Slots
<1>9. ScriptsApart'
  BY <1>1, <1>3 DEF IInv, ScriptsApart
<1> QED
  BY <1>3, <1>5, <1>6, <1>7, <1>8, <1>9 DEF IInv

(***************************************************************************)
(* Calls and returns.                                                      *)
(***************************************************************************)

(* The callee and its arguments are operands of the running frame.         *)
LEMMA CalleeFacts ==
  ASSUME IInv, NEW s \in Slots, Callee(s)
  PROVE  /\ status = "running" /\ Active
         /\ s \in Nat /\ First \in Nat /\ First <= s /\ s < top /\ top \in 0 .. StackMax
         /\ \A t \in captured : t < s
<1>1. status = "running" /\ Active /\ s < top /\ Operands(top - s)
  BY DEF Callee, Active
<1>2. s \in Nat /\ First \in Nat /\ top \in 0 .. StackMax
  BY <1>1, RunningFrame, LimitsAssumption DEF Slots
<1>3. top - (top - s) = s
  BY <1>2
<1> QED
  BY <1>1, <1>2, <1>3 DEF Operands

(* vm_call: the new window starts with the callee's slot, above everything *)
(* the caller keeps and above every captured variable.                     *)
LEMMA EnterStep ==
  ASSUME IInv, NEW s \in Slots, Callee(s), NEW v \in Reachable, NEW c \in made,
         Enter(s, v, c)
  PROVE  IInv'
<1> DEFINE R == [base : Slots \cup {0}, closure : Closures \cup {Nil}]
           f == [base |-> s, closure |-> c]
<1>1. /\ status = "running" /\ Active
      /\ s \in Nat /\ First \in Nat /\ First <= s /\ s < top /\ top \in 0 .. StackMax
      /\ \A t \in captured : t < s
  BY CalleeFacts
<1>2. stack' = [stack EXCEPT ![s] = v] /\ UNCHANGED <<top, memory>>
  BY DEF Enter
<1>3. /\ stack' \in [Slots -> Objects \cup {Nil}]
      /\ \A t \in Slots : stack'[t] \in Reachable' \cup {Nil}
      /\ \A u \in Upvalues : location'[u] # Unused <=> Deref(u)' # Nil
  BY <1>2, SlotWritten
<1>4. \A t \in Slots : t < top => stack'[t] # Nil
  BY <1>1, <1>2, SlotWritten DEF IInv, NothingUndefined
<1>5. CASE /\ Len(frames) < FramesMax
           /\ frames' = Append(frames, f)
           /\ UNCHANGED status
  <2>1. /\ frames \in Seq(R) /\ Len(frames) \in Nat \ {0} /\ made \subseteq Closures
        /\ FramesMax \in Nat
    BY <1>1, RunningFrame, LimitsAssumption DEF IInv, TypeOK
  <2>2. c \in Closures /\ c # Nil
    BY <2>1, KindsAssumption
  <2>3. f \in R
    BY <2>2
  <2>4. /\ frames' \in Seq(R) /\ Len(frames') = Len(frames) + 1
        /\ \A i \in 1 .. Len(frames) : frames'[i] = frames[i]
        /\ frames'[Len(frames) + 1] = f
    BY <1>5, <2>1, <2>3
  <2>5. Frame' = f /\ Active' /\ captured' = captured /\ made' = made /\ top' = top
    BY <1>1, <1>2, <1>5, <2>1, <2>4 DEF Frame, Active, memory
  <2>6. First' = s + 1
    BY <2>2, <2>5 DEF First
  <2>7. TypeOK'
    BY <1>1, <1>2, <1>3, <1>5, <2>1, <2>4, <2>5, MemoryKept DEF TypeOK, Slots, Objects
  <2>8. WindowsNested'
    <3>1. frames' # <<>> /\ frames'[1] = [base |-> 0, closure |-> Nil]
      <4>1. Len(frames') # 0 /\ 1 \in 1 .. Len(frames)
        BY <2>1, <2>4
      <4>2. frames[1] = [base |-> 0, closure |-> Nil]
        BY <1>1 DEF IInv, WindowsNested
      <4> QED
        BY <2>4, <4>1, <4>2
    <3>2. ASSUME NEW i \in 2 .. Len(frames')
          PROVE  frames'[i].closure # Nil
      <4>1. i \in 2 .. Len(frames) \/ i = Len(frames) + 1
        BY <2>1, <2>4
      <4>2. \A k \in 2 .. Len(frames) : k \in 1 .. Len(frames)
        OBVIOUS
      <4> QED
        BY <1>1, <2>2, <2>4, <4>1, <4>2 DEF IInv, WindowsNested
    <3>3. ASSUME NEW i \in 1 .. Len(frames'), NEW j \in 1 .. Len(frames'), i < j
          PROVE  frames'[i].base < frames'[j].base \/ i = 1
      <4>1. CASE j \in 1 .. Len(frames)
        <5>1. i \in 1 .. Len(frames)
          BY <2>1, <3>3, <4>1
        <5> QED
          BY <1>1, <2>4, <3>3, <4>1, <5>1 DEF IInv, WindowsNested
      <4>2. CASE j = Len(frames) + 1
        <5>1. i \in 1 .. Len(frames) /\ frames'[i] = frames[i] /\ frames'[j].base = s
          BY <2>1, <2>4, <3>3, <4>2
        <5>2. Frame.base \in Nat /\ Frame.base <= First /\ First <= s
          BY <1>1, RunningFrame
        <5>3. CASE i = Len(frames)
          <6>1. Frame.closure = Nil => i = 1
            BY <1>1, <5>3, RunningFrame
          <6>2. Frame.closure # Nil => Frame.base < s
            BY <1>1, <5>2 DEF First
          <6>3. frames[i] = Frame
            BY <5>3 DEF Frame
          <6> QED
            BY <5>1, <6>1, <6>2, <6>3
        <5>4. CASE i < Len(frames)
          <6>1. frames[i].base < Frame.base \/ i = 1
            <7>1. Len(frames) \in 1 .. Len(frames)
              BY <2>1
            <7> QED
              BY <1>1, <5>1, <5>4, <7>1 DEF IInv, WindowsNested, Frame
          <6>2. frames[i].base \in Nat
            <7>1. frames[i] \in R
              BY <2>1, <5>1, ElementOfSeq
            <7> QED
              BY <7>1, LimitsAssumption DEF Slots
          <6> QED
            BY <1>1, <5>1, <5>2, <6>1, <6>2
        <5> QED
          BY <2>1, <5>1, <5>3, <5>4
      <4> QED
        BY <2>1, <2>4, <4>1, <4>2
    <3> QED
      BY <1>1, <2>5, <2>6, <3>1, <3>2, <3>3 DEF IInv, WindowsNested
  <2>9. ClosuresMade'
    <3>1. \A i \in 1 .. Len(frames') : frames'[i].closure \in made' \cup {Nil}
      <4> SUFFICES ASSUME NEW i \in 1 .. Len(frames')
                   PROVE  frames'[i].closure \in made' \cup {Nil}
        OBVIOUS
      <4>1. i \in 1 .. Len(frames) \/ i = Len(frames) + 1
        BY <2>1, <2>4
      <4> QED
        BY <2>4, <2>5, <4>1 DEF IInv, ClosuresMade
    <3> QED
      BY <1>1, <1>2, <1>3, <1>5, <2>5, <3>1, MemoryKept DEF ClosuresMade, Slots
  <2>10. NothingUndefined'
    BY <1>3, <1>4, <2>5 DEF NothingUndefined, Slots
  <2>11. ScriptsApart'
    BY <1>1, <1>2, <1>5, MemoryKept DEF ScriptsApart
  <2> QED
    BY <1>2, <2>7, <2>8, <2>9, <2>10, <2>11, MemoryKept DEF IInv
<1>6. CASE status' = "failed" /\ UNCHANGED frames
  <2>1. /\ ~ Active' /\ status' # "capturing" /\ status' # "idle"
        /\ captured' = captured /\ made' = made /\ top' = top
    BY <1>2, <1>6 DEF Active, memory
  <2>2. TypeOK'
    BY <1>2, <1>3, <1>6, <2>1, MemoryKept DEF IInv, TypeOK, Slots, Objects
  <2>3. WindowsNested'
    BY <2>1 DEF WindowsNested
  <2>4. ClosuresMade'
    BY <1>2, <1>3, <1>6, <2>1, MemoryKept DEF IInv, ClosuresMade, Slots
  <2>5. NothingUndefined'
    BY <1>3, <2>1 DEF NothingUndefined, Slots
  <2>6. ScriptsApart'
    BY <1>2, <2>1, MemoryKept DEF ScriptsApart
  <2> QED
    BY <1>2, <2>2, <2>3, <2>4, <2>5, <2>6, MemoryKept DEF IInv
<1> QED
  BY <1>5, <1>6 DEF Enter

(* A closure is called, or a bound method or a class with a constructor.   *)
LEMMA CallFunctionStep ==
  ASSUME IInv, NEW s \in Slots, CallFunction(s)
  PROVE  IInv'
<1>1. Callee(s) /\ stack[s] \in Closures /\ Enter(s, stack[s], stack[s])
  BY DEF CallFunction
<1>2. stack[s] \in Reachable
  BY <1>1, CalleeFacts, ValuesRead
<1>3. stack[s] \in made
  BY <1>1, <1>2, KindsAssumption DEF Reachable
<1> QED
  BY <1>1, <1>2, <1>3, EnterStep

(* OP_INVOKE's call of a method with its receiver in the callee's slot.    *)
LEMMA CallMethodStep ==
  ASSUME IInv, NEW s \in Slots, NEW self \in Values, NEW c \in made,
         CallMethod(s, self, c)
  PROVE  IInv'
<1>1. Callee(s) /\ Enter(s, self, c) /\ self \in Reachable
  BY DEF CallMethod, Reachable
<1> QED
  BY <1>1, EnterStep

(* A native function's result takes the place of the call.                 *)
LEMMA CallNativeStep ==
  ASSUME IInv, NEW s \in Slots, NEW v \in Values, CallNative(s, v)
  PROVE  IInv'
<1>1. /\ Callee(s) /\ stack' = [stack EXCEPT ![s] = v] /\ top' = s + 1
      /\ UNCHANGED <<frames, memory, status>>
      /\ v \in Reachable
  BY DEF CallNative, Reachable
<1>2. /\ status = "running" /\ Active
      /\ s \in Nat /\ First \in Nat /\ First <= s /\ s < top /\ top \in 0 .. StackMax
      /\ \A t \in captured : t < s
      /\ StackMax \in Nat /\ captured \subseteq Slots
  BY <1>1, CalleeFacts, LimitsAssumption DEF IInv, TypeOK
<1>3. top' \in First .. StackMax
  BY <1>1, <1>2
<1>4. \A t \in Slots : t < top' => stack'[t] # Nil
  <2> SUFFICES ASSUME NEW t \in Slots, t < s + 1
               PROVE  stack'[t] # Nil
    BY <1>1
  <2>1. t = s \/ t < top
    BY <1>2 DEF Slots
  <2> QED
    BY <1>1, <1>2, <2>1, SlotWritten DEF IInv, NothingUndefined
<1>5. \A t \in captured : t < top'
  BY <1>1, <1>2 DEF Slots
<1> QED
  BY <1>1, <1>2, <1>3, <1>4, <1>5, SlotWritten, SameFrame

(* An instance takes the place of its class; a class without a constructor *)
(* that is given arguments is an error.                                    *)
LEMMA CallClassStep ==
  ASSUME IInv, NEW s \in Slots, NEW v \in Values, CallClass(s, v)
  PROVE  IInv'
<1>1. /\ Callee(s) /\ stack' = [stack EXCEPT ![s] = v]
      /\ UNCHANGED <<top, frames, memory>>
      /\ status' = "running" \/ status' = "failed"
      /\ v \in Reachable
  BY DEF CallClass, Reachable
<1>2. /\ status = "running" /\ Active
      /\ First \in Nat /\ First <= s /\ s < top /\ top \in 0 .. StackMax /\ s \in Nat
      /\ \A t \in captured : t < top
  BY <1>1, CalleeFacts DEF IInv, WindowsNested
<1>3. /\ stack' \in [Slots -> Objects \cup {Nil}]
      /\ \A t \in Slots : stack'[t] \in Reachable' \cup {Nil}
      /\ \A u \in Upvalues : location'[u] # Unused <=> Deref(u)' # Nil
      /\ \A t \in Slots : t < top => stack'[t] # Nil
  BY <1>1, <1>2, SlotWritten DEF IInv, NothingUndefined
<1>4. CASE status' = "running"
  <2>1. top' \in First .. StackMax
    BY <1>1, <1>2
  <2> QED
    BY <1>1, <1>2, <1>3, <1>4, <2>1, SameFrame
<1>5. CASE status' = "failed"
  <2>1. /\ ~ Active' /\ status' # "capturing" /\ status' # "idle"
        /\ captured' = captured /\ made' = made /\ top' = top /\ frames' = frames
    BY <1>1, <1>5 DEF Active, memory
  <2>2. TypeOK'
    BY <1>1, <1>3, <1>5, <2>1, MemoryKept DEF IInv, TypeOK, Slots, Objects
  <2>3. WindowsNested' /\ NothingUndefined'
    BY <1>3, <2>1 DEF WindowsNested, NothingUndefined, Slots
  <2>4. ClosuresMade'
    BY <1>1, <1>3, <2>1, MemoryKept DEF IInv, ClosuresMade, Slots
  <2>5. ScriptsApart'
    BY <1>1, <2>1, MemoryKept DEF ScriptsApart
  <2> QED
    BY <1>1, <2>2, <2>3, <2>4, <2>5, MemoryKept DEF IInv
<1> QED
  BY <1>1, <1>4, <1>5

(* The frames without the last one.                                        *)
LEMMA FrameLeft ==
  ASSUME IInv, Active, frames' = SubSeq(frames, 1, Len(frames) - 1)
  PROVE  /\ frames' \in Seq([base : Slots \cup {0}, closure : Closures \cup {Nil}])
         /\ Len(frames') = Len(frames) - 1
         /\ \A i \in 1 .. Len(frames) - 1 : frames'[i] = frames[i]
<1>1. /\ frames \in Seq([base : Slots \cup {0}, closure : Closures \cup {Nil}])
      /\ Len(frames) \in Nat \ {0}
  BY RunningFrame DEF IInv, TypeOK
<1> DEFINE m == Len(frames) - 1
<1>2. m \in Nat /\ \A i \in 1 .. m : i \in 1 .. Len(frames)
  BY <1>1
<1>3. /\ SubSeq(frames, 1, m) \in Seq([base : Slots \cup {0}, closure : Closures \cup {Nil}])
      /\ Len(SubSeq(frames, 1, m)) = IF 1 <= m THEN m - 1 + 1 ELSE 0
      /\ \A i \in 1 .. m - 1 + 1 : SubSeq(frames, 1, m)[i] = frames[1 + i - 1]
  <2>1. \A i \in 1 .. m : frames[i] \in [base : Slots \cup {0}, closure : Closures \cup {Nil}]
    BY <1>1, <1>2, ElementOfSeq
  <2> QED
    BY <1>2, <2>1, SubSeqProperties
<1>4. frames' = SubSeq(frames, 1, m)
  OBVIOUS
<1> HIDE DEF m
<1>5. Len(frames') = m
  BY <1>2, <1>3, <1>4
<1>6. \A i \in 1 .. m : frames'[i] = frames[i]
  BY <1>2, <1>3, <1>4
<1> QED
  BY <1>3, <1>4, <1>5, <1>6 DEF m

(* Popping n values takes the stack pointer at most one below the bottom:  *)
(* OP_RETURN in the script's own frame pops a value it did not push.       *)
CanPop(n) == top - n >= -1

(* A frame is left: its variables are closed, its window goes, and the     *)
(* result takes the place of the call. The script's own frame ends the     *)
(* script.                                                                 *)
LEMMA LeaveStep ==
  ASSUME IInv, status = "running", NEW v \in Reachable, NEW n \in Nat,
         CanPop(n), LeaveFrame(v, n)
  PROVE  IInv'
<1> DEFINE R == [base : Slots \cup {0}, closure : Closures \cup {Nil}]
<1>1. /\ Active /\ CloseUpvalues(Frame.base)
      /\ frames' = SubSeq(frames, 1, Len(frames) - 1)
  BY DEF Active, LeaveFrame
<1>2. /\ Len(frames) \in Nat \ {0} /\ Frame.base \in Nat /\ First \in Nat
      /\ Frame.base <= First /\ First <= top /\ top \in 0 .. StackMax
      /\ Len(frames) > 1 => Frame.closure # Nil
      /\ Len(frames) = 1 => Frame.base = 0
      /\ StackMax \in Nat /\ FramesMax \in Nat /\ Len(frames) <= FramesMax
      /\ made \subseteq Closures
  BY <1>1, RunningFrame, LimitsAssumption DEF IInv, TypeOK
<1>3. /\ frames' \in Seq(R) /\ Len(frames') = Len(frames) - 1
      /\ \A i \in 1 .. Len(frames) - 1 : frames'[i] = frames[i]
  BY <1>1, FrameLeft
<1>4. /\ open' \in Seq(Upvalues)
      /\ location' \in [Upvalues -> Slots \cup {Own, Unused}]
      /\ closed' \in [Upvalues -> Objects \cup {Nil}]
      /\ UNCHANGED <<captures, made>>
      /\ captured' = {t \in captured : t < Frame.base}
      /\ OpenDescends' /\ OpenListComplete'
      /\ {location'[open'[i]] : i \in 1 .. Len(open')} =
           {t \in {location[open[i]] : i \in 1 .. Len(open)} : t < Frame.base}
  BY <1>1, <1>2, UpvaluesClosed
<1>5. Len(frames') <= FramesMax
  <2>1. Len(frames) \in Nat /\ FramesMax \in Nat /\ Len(frames) <= FramesMax
    BY <1>2
  <2>2. Len(frames') = Len(frames) - 1
    BY <1>3
  <2> QED
    BY <2>1, <2>2
<1>6. \A i \in 1 .. Len(frames') : frames'[i].closure \in made' \cup {Nil}
  <2>1. \A i \in 1 .. Len(frames) - 1 : i \in 1 .. Len(frames)
    BY <1>2
  <2>2. Len(frames') = Len(frames) - 1 /\ made' = made
    BY <1>3, <1>4
  <2> QED
    BY <1>3, <2>1, <2>2 DEF IInv, ClosuresMade
<1>7. /\ captured' \subseteq {location'[open'[i]] : i \in 1 .. Len(open')}
      /\ ~ Repl => captured' = {location'[open'[i]] : i \in 1 .. Len(open')}
  BY <1>4 DEF IInv, ScriptsApart
<1>8. CASE Len(frames) = 1
  <2>1. /\ top' = top - n /\ status' = "halted" /\ stack' = stack
        /\ ~ Active'
    BY <1>8 DEF LeaveFrame, Active
  <2>2. top' \in -1 .. StackMax
    BY <1>2, <2>1 DEF CanPop
  <2>3. /\ \A u \in Upvalues : /\ Deref(u)' = Deref(u)
                               /\ location'[u] # Unused <=> location[u] # Unused
        /\ \A u \in Upvalues : closed'[u] \in Reachable' \cup {Nil}
    BY <1>1, <1>2, <2>1, ClosingKeeps
  <2>4. TypeOK'
    BY <1>3, <1>4, <1>5, <2>1, <2>2 DEF IInv, TypeOK, Slots, Objects
  <2>5. WindowsNested'
    BY <2>1 DEF WindowsNested
  <2>6. ClosuresMade'
    BY <1>4, <1>6, <2>1, <2>3 DEF IInv, ClosuresMade, Reachable, Slots
  <2>7. NothingUndefined'
    BY <2>1, <2>3 DEF IInv, NothingUndefined
  <2>8. ScriptsApart'
    BY <1>7, <2>1 DEF ScriptsApart
  <2> QED
    BY <1>4, <2>4, <2>5, <2>6, <2>7, <2>8 DEF IInv
<1>9. CASE Len(frames) > 1 /\ Len(frames) # 1
  <2> DEFINE m == Len(frames) - 1
  <2>1. /\ stack' = [stack EXCEPT ![Frame.base] = v] /\ top' = Frame.base + 1
        /\ status' = status /\ Active'
    BY <1>1, <1>9 DEF LeaveFrame, Active
  <2>2. /\ m \in 1 .. Len(frames) - 1 /\ m \in 1 .. Len(frames) /\ m \in Nat \ {0}
        /\ m + 1 = Len(frames) /\ Frame.closure # Nil
    BY <1>2, <1>9, OneOrMore, Zenon
  <2> HIDE DEF m
  <2>3. First = Frame.base + 1
    BY <2>2 DEF First
  <2>4. Frame.base \in Slots /\ top' \in 0 .. StackMax
    BY <1>2, <2>1, <2>3 DEF Slots
  <2>5. Frame' = frames[m]
    BY <1>3, <2>2 DEF Frame, m
  <2>6. /\ frames[m].base < Frame.base \/ m = 1
        /\ frames[1] = [base |-> 0, closure |-> Nil]
    BY <1>1, <2>2 DEF IInv, WindowsNested, Frame
  <2>7. frames[m].base \in Nat
    <3>1. frames[m] \in R
      BY <2>2, ElementOfSeq DEF IInv, TypeOK
    <3> QED
      BY <3>1, LimitsAssumption DEF Slots
  <2>8. First' <= top'
    <3>1. First' = IF frames[m].closure = Nil THEN frames[m].base ELSE frames[m].base + 1
      BY <2>5 DEF First
    <3>2. CASE m = 1
      <4>1. First' = 0
        BY <2>6, <3>1, <3>2
      <4>2. Frame.base \in Nat /\ top' = Frame.base + 1
        BY <1>2, <2>1
      <4> QED
        BY <4>1, <4>2
    <3>3. CASE frames[m].base < Frame.base
      BY <1>2, <2>1, <2>7, <3>1, <3>3
    <3> QED
      BY <2>6, <3>2, <3>3
  <2>9. /\ v \in Objects /\ v # Nil /\ v \in Reachable'
    BY <1>2, <1>4, KindsAssumption DEF Reachable, Objects
  <2>10. /\ stack \in [Slots -> Objects \cup {Nil}]
         /\ \A t \in Slots : stack'[t] = IF t = Frame.base THEN v ELSE stack[t]
    BY <2>1 DEF IInv, TypeOK
  <2>11. /\ stack' \in [Slots -> Objects \cup {Nil}]
         /\ \A t \in Slots : stack'[t] \in Reachable' \cup {Nil}
    BY <1>4, <2>1, <2>4, <2>9, <2>10 DEF IInv, ClosuresMade, Reachable
  <2>12. \A t \in Slots : t < Frame.base => stack'[t] = stack[t]
    BY <1>2, <2>10
  <2>13. /\ \A u \in Upvalues : /\ Deref(u)' = Deref(u)
                                /\ location'[u] # Unused <=> location[u] # Unused
         /\ \A u \in Upvalues : closed'[u] \in Reachable' \cup {Nil}
    BY <1>1, <1>2, <2>12, ClosingKeeps
  <2>14. TypeOK'
    <3>1. captured' \subseteq Slots /\ made' \subseteq Closures
          /\ captures' \in [Closures -> Seq(Upvalues)]
      BY <1>4 DEF IInv, TypeOK
    <3>2. top' \in -1 .. StackMax
      BY <2>4
    <3>3. status' \in {"idle", "running", "capturing", "halted", "failed"}
      BY <2>1
    <3> QED
      BY <1>3, <1>4, <1>5, <2>11, <3>1, <3>2, <3>3 DEF TypeOK, Slots, Objects
  <2>15. WindowsNested'
    <3>1. Len(frames') # 0 /\ frames' # <<>>
      BY <1>3, <2>2
    <3>2. frames'[1] = [base |-> 0, closure |-> Nil]
      BY <1>2, <1>3, <2>2, <2>6
    <3>3. \A i \in 1 .. Len(frames') : i \in 1 .. Len(frames) /\ frames'[i] = frames[i]
      <4>1. Len(frames) \in Nat
        BY <1>2
      <4>2. 1 .. Len(frames') = 1 .. Len(frames) - 1
        BY <1>3
      <4>3. \A i \in 1 .. Len(frames) - 1 : i \in 1 .. Len(frames)
        BY <4>1
      <4> QED
        BY <1>3, <4>2, <4>3
    <3>4. /\ \A i \in 2 .. Len(frames') : frames'[i].closure # Nil
          /\ \A i, j \in 1 .. Len(frames') :
               i < j => frames'[i].base < frames'[j].base \/ i = 1
      <4>1. \A i \in 2 .. Len(frames') : i \in 1 .. Len(frames') /\ i \in 2 .. Len(frames)
        BY <1>2, <1>3
      <4> QED
        BY <1>1, <3>3, <4>1 DEF IInv, WindowsNested
    <3>5. \A t \in captured' : t < top'
      BY <1>2, <1>4, <2>1, LimitsAssumption DEF IInv, TypeOK, Slots
    <3> QED
      BY <2>8, <3>1, <3>2, <3>4, <3>5 DEF WindowsNested
  <2>16. ClosuresMade'
    BY <1>4, <1>6, <2>1, <2>11, <2>13 DEF IInv, ClosuresMade, Slots
  <2>17. NothingUndefined'
    <3>1. \A t \in Slots : t < top' => stack'[t] # Nil
      <4> SUFFICES ASSUME NEW t \in Slots, t < Frame.base + 1
                   PROVE  stack'[t] # Nil
        BY <2>1
      <4>1. t = Frame.base \/ t < top
        BY <1>2, LimitsAssumption DEF Slots
      <4> QED
        BY <1>1, <2>9, <2>10, <4>1 DEF IInv, NothingUndefined
    <3> QED
      BY <2>13, <3>1 DEF IInv, NothingUndefined, Slots
  <2>18. ScriptsApart'
    BY <1>7, <2>1 DEF ScriptsApart
  <2> QED
    BY <1>4, <2>14, <2>15, <2>16, <2>17, <2>18 DEF IInv
<1>10. Len(frames) = 1 \/ (Len(frames) > 1 /\ Len(frames) # 1)
  BY <1>2, OneOrMore, Zenon
<1> QED
  BY <1>8, <1>9, <1>10

(* OP_RETURN: the value on top is the result.                              *)
LEMMA ReturnStep ==
  ASSUME IInv, Return
  PROVE  IInv'
<1>1. /\ status = "running" /\ Active /\ Operands(1)
      /\ LeaveFrame(stack[top - 1], 2)
  BY DEF Return, Active
<1>2. First \in Nat /\ top \in 0 .. StackMax /\ top - 1 >= First /\ StackMax \in Nat
  BY <1>1, RunningFrame, LimitsAssumption DEF Operands
<1>3. CanPop(2) /\ 2 \in Nat /\ top - 1 \in Slots /\ top - 1 < top
  BY <1>2 DEF Slots, CanPop
<1>4. stack[top - 1] \in Reachable
  BY <1>1, <1>3, ValuesRead
<1> QED
  BY <1>1, <1>3, <1>4, LeaveStep

(* OP_RETURN_VOID returns NULL and pops nothing.                           *)
LEMMA ReturnVoidStep ==
  ASSUME IInv, NEW v \in Values, ReturnVoid(v)
  PROVE  IInv'
<1>1. v \in Reachable /\ status = "running" /\ Active /\ LeaveFrame(v, 0)
  BY DEF Reachable, ReturnVoid, Active
<1>2. CanPop(0) /\ 0 \in Nat
  BY <1>1, RunningFrame DEF CanPop
<1> QED
  BY <1>1, <1>2, LeaveStep

(***************************************************************************)
(* The invariant.                                                          *)
(***************************************************************************)

(* It holds before the first script.                                       *)
LEMMA InitIInv ==
  ASSUME Init
  PROVE  IInv
<1>1. frames = <<>> /\ open = <<>> /\ Len(open) = 0 /\ Len(frames) = 0 /\ ~ Active
  BY DEF Init, Active
<1>2. TypeOK
  BY LimitsAssumption DEF Init, TypeOK
<1>3. Own \notin Slots /\ Unused \notin Slots
  BY LimitsAssumption DEF Slots
<1>4. OpenDescends /\ OpenListComplete /\ WindowsNested
  BY <1>1, <1>3 DEF Init, OpenDescends, OpenListComplete, WindowsNested
<1>5. ClosuresMade
  BY <1>1 DEF Init, ClosuresMade, Reachable
<1>6. NothingUndefined
  BY <1>1, <1>3 DEF Init, NothingUndefined, Deref
<1>7. ScriptsApart
  BY <1>1 DEF Init, ScriptsApart
<1> QED
  BY <1>2, <1>4, <1>5, <1>6, <1>7 DEF IInv

(* Every step keeps it.                                                    *)
LEMMA NextIInv ==
  ASSUME IInv, [Next]_vars
  PROVE  IInv'
<1>1. CASE RunScript
  BY <1>1, RunScriptStep
<1>2. CASE Halt
  BY <1>2, HaltStep
<1>3. CASE Reset
  BY <1>3, ResetStep
<1>4. CASE \E n \in Pops : Fail(n)
  BY <1>4, FailStep
<1>5. CASE \E n \in Pops, v \in Reachable : Replace(n, v)
  BY <1>5, ReplaceStep
<1>6. CASE Pop
  BY <1>6, PopStep
<1>7. CASE /\ frames # <<>>
           /\ \E s \in Slots : GetLocal(s) \/ SetLocal(s)
  BY <1>7, GetLocalStep, SetLocalStep
<1>8. CASE /\ frames # <<>> /\ Frame.closure # Nil
           /\ \E i \in 1 .. Len(captures[Frame.closure]) :
                LET u == captures[Frame.closure][i] IN
                  GetUpvalue(u) \/ SetUpvalue(u) \/ CaptureOuter(u)
  BY <1>8, GetUpvalueStep, SetUpvalueStep, CaptureOuterStep
<1>9. CASE \E c \in Closures : MakeClosure(c)
  BY <1>9, MakeClosureStep
<1>10. CASE \E s \in Slots, u \in Upvalues : CaptureLocal(s, u)
  BY <1>10, CaptureLocalStep
<1>11. CASE ClosureMade
  BY <1>11, ClosureMadeStep
<1>12. CASE CloseLocal
  BY <1>12, CloseLocalStep
<1>13. CASE \E s \in Slots : CallFunction(s)
  BY <1>13, CallFunctionStep
<1>14. CASE \E s \in Slots, self \in Values, c \in made : CallMethod(s, self, c)
  BY <1>14, CallMethodStep
<1>15. CASE \E s \in Slots, v \in Values : CallNative(s, v) \/ CallClass(s, v)
  BY <1>15, CallNativeStep, CallClassStep
<1>16. CASE Return
  BY <1>16, ReturnStep
<1>17. CASE \E v \in Values : ReturnVoid(v)
  BY <1>17, ReturnVoidStep
<1>18. CASE UNCHANGED vars
  BY <1>18 DEF vars, IInv, TypeOK, OpenDescends, OpenListComplete, WindowsNested,
               ClosuresMade, NothingUndefined, ScriptsApart, Active, First, Frame,
               Reachable, Deref
<1> QED
  BY <1>1, <1>2, <1>3, <1>4, <1>5, <1>6, <1>7, <1>8, <1>9, <1>10, <1>11, <1>12,
     <1>13, <1>14, <1>15, <1>16, <1>17, <1>18 DEF Next

(* The invariant holds of every session, whatever the bytecode does.       *)
THEOREM Invariance == Spec => []IInv
<1>1. Init => IInv
  BY InitIInv
<1>2. IInv /\ [Next]_vars => IInv'
  BY NextIInv
<1> QED
  BY <1>1, <1>2, PTL DEF Spec

(* The stack pointer, the frames and the upvalues stay within their types: *)
(* in particular a return never takes the stack pointer more than one slot *)
(* below the bottom, and only where a script ends.                         *)
THEOREM TypeCorrect == Spec => []TypeOK
<1>1. IInv => TypeOK
  BY DEF IInv
<1> QED
  BY <1>1, Invariance, PTL

(* The open upvalues descend strictly along the list, whatever captures    *)
(* and closings came before (vm_capture_upvalue, vm_close_upvalues).       *)
THEOREM OpenListSorted == Spec => []OpenDescends
<1>1. IInv => OpenDescends
  BY DEF IInv
<1> QED
  BY <1>1, Invariance, PTL

(* Every upvalue that points into the stack is in the list, and every      *)
(* capture of a closure is an upvalue in use.                              *)
THEOREM NoUpvalueMissed == Spec => []OpenListComplete
<1>1. IInv => OpenListComplete
  BY DEF IInv
<1> QED
  BY <1>1, Invariance, PTL

(* The windows of the frames stay nested and below the stack pointer.      *)
THEOREM WindowsStayNested == Spec => []WindowsNested
<1>1. IInv => WindowsNested
  BY DEF IInv
<1> QED
  BY <1>1, Invariance, PTL

(***************************************************************************)
(* One script. A session reaches the states of vm_repl_stale_upvalue,      *)
(* where the list has upvalues of an earlier line.                         *)
(***************************************************************************)

(* While one script runs, the open upvalues point exactly to the captured  *)
(* variables still on the stack.                                           *)
THEOREM CapturedAreOpen ==
  ASSUME Repl = FALSE
  PROVE  Spec => []OpenAreCaptured
<1>1. IInv => OpenAreCaptured
  BY DEF IInv, ScriptsApart, OpenAreCaptured
<1> QED
  BY <1>1, Invariance, PTL

(* An upvalue that points into the stack points to a captured slot.        *)
LEMMA OpenMeansCaptured ==
  ASSUME IInv, Repl = FALSE, NEW u \in Upvalues, location[u] \in Slots
  PROVE  location[u] \in captured
<1>1. PICK i \in 1 .. Len(open) : open[i] = u
  BY OpenFacts
<1> QED
  BY <1>1 DEF IInv, ScriptsApart

(* A write into a slot that is not captured reaches no upvalue.            *)
LEMMA OtherSlotWritten ==
  ASSUME IInv, NEW s \in Slots, NEW v, s \notin captured,
         stack' = [stack EXCEPT ![s] = v], UNCHANGED <<location, closed>>,
         NEW u \in Upvalues, location[u] \in Slots => location[u] \in captured
  PROVE  Deref(u)' = Deref(u)
<1>1. \A t \in Slots : t # s => stack'[t] = stack[t]
  BY DEF IInv, TypeOK
<1>2. CASE location[u] \in Slots
  <2>1. location[u] # s
    BY <1>2
  <2> QED
    BY <1>1, <1>2, <2>1 DEF Deref, Slots
<1>3. CASE location[u] \notin Slots
  BY <1>3 DEF Deref, Slots
<1> QED
  BY <1>2, <1>3

(* What a step does to what a variable in an upvalue holds: only an        *)
(* assignment changes it.                                                  *)
LEMMA UpvaluesKept ==
  ASSUME IInv, [Next]_vars,
         ~ \E s \in Slots : SetLocal(s),
         NEW u \in Upvalues, location[u] # Unused, ~ SetUpvalue(u),
         location[u] \in Slots => location[u] \in captured
  PROVE  Deref(u)' = Deref(u)
<1>1. ASSUME UNCHANGED <<stack, location, closed>>
      PROVE  Deref(u)' = Deref(u)
  BY <1>1 DEF Deref, Slots
<1>2. ASSUME NEW s \in Slots, Callee(s), NEW v, stack' = [stack EXCEPT ![s] = v],
             UNCHANGED <<location, closed>>
      PROVE  Deref(u)' = Deref(u)
  <2>1. s \notin captured
    BY <1>2, CalleeFacts
  <2> QED
    BY <1>2, <2>1, OtherSlotWritten
<1>3. ASSUME NEW n \in Pops, NEW v, Replace(n, v)
      PROVE  Deref(u)' = Deref(u)
  <2>1. /\ Active /\ Operands(n) /\ top - n < StackMax
        /\ stack' = [stack EXCEPT ![top - n] = v] /\ UNCHANGED <<location, closed>>
    BY <1>3 DEF Replace, Active, memory
  <2>2. top - n \in Slots /\ top - n \notin captured
    <3>1. First \in Nat /\ top \in 0 .. StackMax /\ n \in Nat /\ StackMax \in Nat
          /\ top - n >= First
      BY <2>1, RunningFrame, LimitsAssumption DEF Pops, Operands
    <3>2. \A t \in captured : t < top - n
      BY <2>1 DEF Operands
    <3> QED
      BY <2>1, <3>1, <3>2 DEF Slots
  <2> QED
    BY <2>1, <2>2, OtherSlotWritten
<1>4. ASSUME status = "running", NEW v, NEW n, LeaveFrame(v, n)
      PROVE  Deref(u)' = Deref(u)
  <2>1. Active /\ CloseUpvalues(Frame.base) /\ Frame.base \in Nat
    BY <1>4, RunningFrame DEF LeaveFrame, Active
  <2>2. \A t \in Slots : t < Frame.base => stack'[t] = stack[t]
    BY <1>4, <2>1 DEF LeaveFrame, IInv, TypeOK
  <2> QED
    BY <2>1, <2>2, ClosingKeeps
<1>5. CASE RunScript \/ Halt \/ Reset
  BY <1>1, <1>5 DEF RunScript, Halt, Reset, memory
<1>6. CASE \E n \in Pops : Fail(n)
  BY <1>1, <1>6 DEF Fail, memory
<1>7. CASE \E n \in Pops, v \in Reachable : Replace(n, v)
  BY <1>3, <1>7
<1>8. CASE Pop
  BY <1>1, <1>8 DEF Pop, memory
<1>9. CASE /\ frames # <<>>
           /\ \E s \in Slots : GetLocal(s) \/ SetLocal(s)
  <2>1. PICK s \in Slots : GetLocal(s)
    BY <1>9
  <2>2. Replace(0, stack[s]) /\ 0 \in Pops
    BY <2>1 DEF GetLocal, Pops
  <2> QED
    BY <1>3, <2>2
<1>10. CASE /\ frames # <<>> /\ Frame.closure # Nil
            /\ \E i \in 1 .. Len(captures[Frame.closure]) :
                 LET w == captures[Frame.closure][i] IN
                   GetUpvalue(w) \/ SetUpvalue(w) \/ CaptureOuter(w)
  <2>1. PICK i \in 1 .. Len(captures[Frame.closure]) :
          LET w == captures[Frame.closure][i] IN
            GetUpvalue(w) \/ SetUpvalue(w) \/ CaptureOuter(w)
    BY <1>10
  <2> DEFINE w == captures[Frame.closure][i]
  <2>2. CASE GetUpvalue(w)
    <3>1. Replace(0, Deref(w)) /\ 0 \in Pops
      BY <2>2 DEF GetUpvalue, Pops
    <3> QED
      BY <1>3, <3>1
  <2>3. CASE SetUpvalue(w)
    <3>1. Active /\ status = "running"
      BY <2>3 DEF SetUpvalue, Active
    <3>2. w \in Upvalues /\ location[w] # Unused /\ w # u
      BY <1>10, <2>3, <3>1, OwnCaptures
    <3> HIDE DEF w
    <3>3. CASE location[w] \in Slots
      <4>1. stack' = [stack EXCEPT ![location[w]] = stack[top - 1]]
            /\ UNCHANGED <<location, closed>>
        BY <2>3, <3>3 DEF SetUpvalue
      <4>2. location[u] # location[w]
        <5>1. PICK k \in 1 .. Len(open) : open[k] = w
          BY <3>2, <3>3, OpenFacts
        <5>2. ASSUME location[u] = location[w]
              PROVE  FALSE
          <6>1. PICK j \in 1 .. Len(open) : open[j] = u
            BY <3>3, <5>2, OpenFacts
          <6>2. j # k
            BY <3>2, <5>1, <6>1
          <6> QED
            BY <5>1, <5>2, <6>1, <6>2, OpenFacts
        <5> QED
          BY <5>2
      <4>3. \A t \in Slots : t # location[w] => stack'[t] = stack[t]
        BY <4>1 DEF IInv, TypeOK
      <4> QED
        BY <4>1, <4>2, <4>3 DEF Deref, Slots
    <3>4. CASE location[w] \notin Slots
      <4>1. closed' = [closed EXCEPT ![w] = stack[top - 1]] /\ UNCHANGED <<stack, location>>
        BY <2>3, <3>4 DEF SetUpvalue
      <4>2. closed'[u] = closed[u]
        BY <3>2, <4>1 DEF IInv, TypeOK
      <4> QED
        BY <4>1, <4>2 DEF Deref, Slots
    <3> QED
      BY <3>3, <3>4
  <2>4. CASE CaptureOuter(w)
    BY <1>1, <2>4 DEF CaptureOuter
  <2> QED
    BY <2>1, <2>2, <2>3, <2>4
<1>11. CASE \E c \in Closures : MakeClosure(c)
  <2>1. PICK c \in Closures : MakeClosure(c)
    BY <1>11
  <2>2. /\ Active /\ top < StackMax
        /\ stack' = [stack EXCEPT ![top] = c] /\ UNCHANGED <<location, closed>>
    BY <2>1 DEF MakeClosure, Active
  <2>3. top \in Slots /\ top \notin captured
    <3>1. top \in 0 .. StackMax /\ StackMax \in Nat
      BY <2>2, RunningFrame, LimitsAssumption
    <3>2. \A t \in captured : t < top
      BY <2>2 DEF IInv, WindowsNested
    <3> QED
      BY <2>2, <3>1, <3>2 DEF Slots
  <2> QED
    BY <2>2, <2>3, OtherSlotWritten
<1>12. CASE \E s \in Slots, w \in Upvalues : CaptureLocal(s, w)
  <2>1. PICK s \in Slots, w \in Upvalues : CaptureLocal(s, w)
    BY <1>12
  <2>2. CaptureUpvalue(s, w) /\ UNCHANGED stack
    BY <2>1 DEF CaptureLocal
  <2>3. /\ closed' = closed /\ location'[w] = s
        /\ \A x \in Upvalues : x # w => location'[x] = location[x]
        /\ location[w] \in {s, Unused}
    BY <2>2, UpvalueCaptured
  <2>4. location'[u] = location[u]
    BY <2>3
  <2> QED
    BY <2>2, <2>3, <2>4 DEF Deref, Slots
<1>13. CASE ClosureMade
  BY <1>1, <1>13 DEF ClosureMade, memory
<1>14. CASE CloseLocal
  <2>1. Active /\ CloseUpvalues(top - 1) /\ UNCHANGED stack /\ top > First
    BY <1>14 DEF CloseLocal, Active
  <2>2. top - 1 \in Nat
    BY <2>1, RunningFrame
  <2> QED
    BY <2>1, <2>2, ClosingKeeps
<1>15. CASE \E s \in Slots : CallFunction(s)
  BY <1>2, <1>15 DEF CallFunction, Enter, memory
<1>16. CASE \E s \in Slots, self \in Values, c \in made : CallMethod(s, self, c)
  BY <1>2, <1>16 DEF CallMethod, Enter, memory
<1>17. CASE \E s \in Slots, v \in Values : CallNative(s, v) \/ CallClass(s, v)
  BY <1>2, <1>17 DEF CallNative, CallClass, memory
<1>18. CASE Return \/ \E v \in Values : ReturnVoid(v)
  BY <1>4, <1>18 DEF Return, ReturnVoid
<1>19. CASE UNCHANGED vars
  BY <1>1, <1>19 DEF vars
<1> QED
  BY <1>5, <1>6, <1>7, <1>8, <1>9, <1>10, <1>11, <1>12, <1>13, <1>14, <1>15, <1>16,
     <1>17, <1>18, <1>19 DEF Next

(* In any session the variables that the running script has captured, and  *)
(* those already moved into their upvalues, change only when they are      *)
(* assigned: the upvalues an earlier line left open are the only others.   *)
THEOREM LiveCapturesKept ==
  Spec => [][\A u \in Upvalues :
               /\ location[u] # Unused
               /\ location[u] \in Slots => location[u] \in captured
               /\ Deref(u)' # Deref(u)
               => \/ \E s \in Slots : SetLocal(s)
                  \/ SetUpvalue(u)]_vars
<1>1. ASSUME IInv, [Next]_vars
      PROVE  [\A u \in Upvalues :
               /\ location[u] # Unused
               /\ location[u] \in Slots => location[u] \in captured
               /\ Deref(u)' # Deref(u)
               => \/ \E s \in Slots : SetLocal(s)
                  \/ SetUpvalue(u)]_vars
  BY <1>1, UpvaluesKept
<1> QED
  BY <1>1, Invariance, PTL DEF Spec

(* In one script a captured variable changes its value only when it is     *)
(* assigned.                                                               *)
THEOREM OnlyAssignmentChanges ==
  ASSUME Repl = FALSE
  PROVE  Spec => CapturedKeepsValue
<1>1. ASSUME IInv, [Next]_vars
      PROVE  [\A u \in Upvalues :
                location[u] # Unused /\ Deref(u)' # Deref(u) =>
                  \/ \E s \in Slots : SetLocal(s)
                  \/ SetUpvalue(u)]_vars
  BY <1>1, UpvaluesKept, OpenMeansCaptured
<1> QED
  BY <1>1, Invariance, PTL DEF Spec, CapturedKeepsValue
=============================================================================
