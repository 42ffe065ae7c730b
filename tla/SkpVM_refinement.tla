--------------------------- MODULE SkpVM_refinement ---------------------------
(***************************************************************************)
(* Proof that one script on the stack of SkpVM, with its overlapping       *)
(* windows and its variables that move into upvalues, is a script of       *)
(* SkpClosures, where every activation has entries of its own and a        *)
(* captured variable is a shared cell.                                     *)
(***************************************************************************)
EXTENDS SkpVM_proofs

(***************************************************************************)
(* What the refinement mapping yields, in any state of the invariant. The  *)
(* facts are named so that they can be cited for the next state too.       *)
(***************************************************************************)

EntryKinds == Upvalues \cup Objects \cup {Nil}
AbstractAct == [entries : Seq(EntryKinds), closure : Closures \cup {Nil}]

EntryFacts ==
  \A s \in Slots :
    /\ Entry(s) \in EntryKinds
    /\ \A u \in Upvalues : location[u] = s => Entry(s) = u
    /\ s \in captured => Entry(s) \in Upvalues /\ location[Entry(s)] = s
    /\ ~ Repl /\ s \notin captured => Entry(s) = stack[s]

WindowFacts ==
  Active =>
    /\ Len(frames) \in Nat \ {0}
    /\ \A i \in 1 .. Len(frames) :
         /\ frames[i].base \in Nat /\ WindowEnd(i) \in Nat
         /\ frames[i].base <= WindowEnd(i) /\ WindowEnd(i) <= top
         /\ frames[i].closure \in Closures \cup {Nil}
         /\ i < Len(frames) => WindowEnd(i) <= Frame.base

EntriesFacts ==
  Active =>
    \A i \in 1 .. Len(frames) :
      /\ Entries(i) \in Seq(EntryKinds)
      /\ Len(Entries(i)) = WindowEnd(i) - frames[i].base
      /\ \A k \in 1 .. Len(Entries(i)) :
           /\ Entries(i)[k] = Entry(frames[i].base + k - 1)
           /\ frames[i].base + k - 1 \in Slots
           /\ frames[i].base <= frames[i].base + k - 1
           /\ frames[i].base + k - 1 < WindowEnd(i)

ActsFacts ==
  Active =>
    /\ Acts \in Seq(AbstractAct) /\ Len(Acts) = Len(frames)
    /\ \A i \in 1 .. Len(frames) :
         Acts[i] = [entries |-> Entries(i), closure |-> frames[i].closure]

(* A function on 1 .. n is a sequence of length n.                         *)
LEMMA FunctionIsSeq ==
  ASSUME NEW S, NEW n \in Nat, NEW f \in [1 .. n -> S]
  PROVE  f \in Seq(S) /\ Len(f) = n
<1>1. f \in Seq(S)
  BY SeqDef
<1>2. Len(f) \in Nat /\ DOMAIN f = 1 .. Len(f)
  BY <1>1, LenProperties
<1>3. 1 .. Len(f) = 1 .. n
  BY <1>2
<1>4. \A k \in Nat : 1 .. k = 1 .. n => k = n
  <2> SUFFICES ASSUME NEW k \in Nat, 1 .. k = 1 .. n, k # n
               PROVE  FALSE
    OBVIOUS
  <2>1. CASE k < n
    <3>1. n \in 1 .. n /\ n \notin 1 .. k
      BY <2>1
    <3> QED
      BY <3>1
  <2>2. CASE n < k
    <3>1. k \in 1 .. k /\ k \notin 1 .. n
      BY <2>2
    <3> QED
      BY <3>1
  <2> QED
    BY <2>1, <2>2
<1> QED
  BY <1>1, <1>2, <1>3, <1>4

(* An entry of a captured slot is the upvalue that points there, any other *)
(* is the slot's value.                                                    *)
LEMMA EntriesRead == IInv => EntryFacts
<1> SUFFICES ASSUME IInv, NEW s \in Slots
             PROVE  /\ Entry(s) \in EntryKinds
                    /\ \A u \in Upvalues : location[u] = s => Entry(s) = u
                    /\ s \in captured => Entry(s) \in Upvalues /\ location[Entry(s)] = s
                    /\ ~ Repl /\ s \notin captured => Entry(s) = stack[s]
  BY DEF EntryFacts
<1>1. CASE \E i \in 1 .. Len(open) : location[open[i]] = s
  <2>1. PICK i \in 1 .. Len(open) : location[open[i]] = s
    BY <1>1
  <2>2. open[i] \in Upvalues
    BY OpenFacts
  <2>3. ASSUME NEW u \in Upvalues, location[u] = s
        PROVE  u = open[i]
    <3>1. PICK j \in 1 .. Len(open) : open[j] = u
      BY <2>3, OpenFacts
    <3> QED
      BY <2>1, <2>3, <3>1, OpenFacts
  <2>4. Entry(s) = open[i]
    <3>1. Entry(s) = CHOOSE u \in Upvalues : location[u] = s
      BY <1>1 DEF Entry
    <3> QED
      BY <2>1, <2>2, <2>3, <3>1
  <2>5. ~ Repl => s \in captured
    BY <2>1 DEF IInv, ScriptsApart
  <2> QED
    BY <2>1, <2>2, <2>3, <2>4, <2>5 DEF EntryKinds
<1>2. CASE ~ \E i \in 1 .. Len(open) : location[open[i]] = s
  <2>1. Entry(s) = stack[s]
    BY <1>2 DEF Entry
  <2>2. stack[s] \in EntryKinds
    BY DEF IInv, TypeOK, EntryKinds
  <2>3. \A u \in Upvalues : location[u] # s
    BY <1>2, OpenFacts
  <2>4. s \notin captured
    BY <1>2 DEF IInv, ScriptsApart
  <2> QED
    BY <2>1, <2>2, <2>3, <2>4
<1> QED
  BY <1>1, <1>2

(* The windows of the activations lie one after the other below top.       *)
LEMMA WindowsRead == IInv => WindowFacts
<1> SUFFICES ASSUME IInv, Active
             PROVE  WindowFacts
  BY DEF WindowFacts
<1> DEFINE R == [base : Slots \cup {0}, closure : Closures \cup {Nil}]
           L == Len(frames)
<1>1. /\ L \in Nat \ {0} /\ frames \in Seq(R)
      /\ Frame.base \in Nat /\ Frame.base <= First /\ First <= top /\ top \in 0 .. StackMax
  BY RunningFrame DEF IInv, TypeOK
<1>2. Frame = frames[L] /\ L \in 1 .. L
  BY <1>1 DEF Frame
<1>3. \A i \in 1 .. L : frames[i].base \in Nat /\ frames[i].closure \in Closures \cup {Nil}
  <2> SUFFICES ASSUME NEW i \in 1 .. L
               PROVE  frames[i].base \in Nat /\ frames[i].closure \in Closures \cup {Nil}
    OBVIOUS
  <2>1. frames[i] \in R
    BY <1>1, ElementOfSeq
  <2> QED
    BY <2>1, LimitsAssumption DEF Slots
<1>4. \A i, j \in 1 .. L : i < j => frames[i].base <= frames[j].base
  <2> SUFFICES ASSUME NEW i \in 1 .. L, NEW j \in 1 .. L, i < j
               PROVE  frames[i].base <= frames[j].base
    OBVIOUS
  <2>1. frames[i].base < frames[j].base \/ i = 1
    BY DEF IInv, WindowsNested
  <2>2. frames[1].base = 0
    BY DEF IInv, WindowsNested
  <2>3. frames[i].base \in Nat /\ frames[j].base \in Nat
    BY <1>3
  <2>4. CASE i = 1
    BY <2>2, <2>3, <2>4
  <2>5. CASE frames[i].base < frames[j].base
    BY <2>3, <2>5
  <2> QED
    BY <2>1, <2>4, <2>5
<1>5. ASSUME NEW i \in 1 .. L
      PROVE  /\ WindowEnd(i) \in Nat
             /\ frames[i].base <= WindowEnd(i) /\ WindowEnd(i) <= top
             /\ i < L => WindowEnd(i) <= Frame.base
  <2>1. CASE i = L
    <3>1. WindowEnd(i) = top /\ frames[i].base = Frame.base
      BY <1>2, <2>1 DEF WindowEnd
    <3>2. top \in Nat /\ Frame.base <= top
      BY <1>1, RunningFrame
    <3> QED
      BY <1>1, <2>1, <3>1, <3>2
  <2>2. CASE i < L
    <3>1. i + 1 \in 1 .. L /\ i < i + 1 /\ i # L
      BY <1>1, <2>2
    <3>2. WindowEnd(i) = frames[i + 1].base
      BY <3>1 DEF WindowEnd
    <3>3. frames[i].base <= frames[i + 1].base /\ frames[i + 1].base \in Nat
      BY <1>3, <1>4, <3>1
    <3>4. frames[i + 1].base <= Frame.base
      <4>1. CASE i + 1 = L
        BY <1>1, <1>2, <4>1
      <4>2. CASE i + 1 < L
        BY <1>2, <1>4, <3>1, <4>2
      <4> QED
        BY <1>1, <3>1, <4>1, <4>2
    <3>5. Frame.base <= top /\ top \in Nat
      BY RunningFrame
    <3> QED
      BY <1>1, <3>2, <3>3, <3>4, <3>5
  <2> QED
    BY <1>1, <2>1, <2>2
<1> QED
  BY <1>1, <1>3, <1>5 DEF WindowFacts

(* A window is a sequence of entries, one per slot.                        *)
LEMMA EntriesFormed == IInv => EntriesFacts
<1> SUFFICES ASSUME IInv, Active, NEW i \in 1 .. Len(frames)
             PROVE  /\ Entries(i) \in Seq(EntryKinds)
                    /\ Len(Entries(i)) = WindowEnd(i) - frames[i].base
                    /\ \A k \in 1 .. Len(Entries(i)) :
                         /\ Entries(i)[k] = Entry(frames[i].base + k - 1)
                         /\ frames[i].base + k - 1 \in Slots
                         /\ frames[i].base <= frames[i].base + k - 1
                         /\ frames[i].base + k - 1 < WindowEnd(i)
  BY DEF EntriesFacts
<1> DEFINE b == frames[i].base
           n == WindowEnd(i) - frames[i].base
<1>1. /\ b \in Nat /\ WindowEnd(i) \in Nat /\ b <= WindowEnd(i) /\ WindowEnd(i) <= top
  BY WindowsRead DEF WindowFacts
<1>2. top \in 0 .. StackMax /\ StackMax \in Nat
  BY RunningFrame, LimitsAssumption
<1> HIDE DEF b
<1>3. n \in Nat /\ n = WindowEnd(i) - b
  BY <1>1 DEF b
<1> HIDE DEF n
<1>4. \A k \in 1 .. n : b + k - 1 \in Slots /\ b <= b + k - 1 /\ b + k - 1 < WindowEnd(i)
  BY <1>1, <1>2, <1>3 DEF Slots
<1>5. Entries(i) = [k \in 1 .. n |-> Entry(b + k - 1)]
  BY DEF Entries, b, n
<1>6. \A k \in 1 .. n : Entry(b + k - 1) \in EntryKinds
  BY <1>4, EntriesRead DEF EntryFacts
<1>7. Entries(i) \in [1 .. n -> EntryKinds]
  BY <1>5, <1>6
<1>8. Entries(i) \in Seq(EntryKinds) /\ Len(Entries(i)) = n
  BY <1>3, <1>7, FunctionIsSeq
<1> QED
  BY <1>4, <1>5, <1>8 DEF b, n

(* The abstract stack has one activation per frame.                        *)
LEMMA ActsFormed == IInv => ActsFacts
<1> SUFFICES ASSUME IInv, Active
             PROVE  /\ Acts \in Seq(AbstractAct) /\ Len(Acts) = Len(frames)
                    /\ \A i \in 1 .. Len(frames) :
                         Acts[i] = [entries |-> Entries(i), closure |-> frames[i].closure]
  BY DEF ActsFacts
<1>1. Acts = [i \in 1 .. Len(frames) |->
                [entries |-> Entries(i), closure |-> frames[i].closure]]
  BY DEF Acts
<1>2. Len(frames) \in Nat
  BY RunningFrame
<1>3. \A i \in 1 .. Len(frames) :
        [entries |-> Entries(i), closure |-> frames[i].closure] \in AbstractAct
  BY WindowsRead, EntriesFormed DEF WindowFacts, EntriesFacts, AbstractAct
<1>4. Acts \in [1 .. Len(frames) -> AbstractAct]
  BY <1>1, <1>3
<1> QED
  BY <1>1, <1>2, <1>4, FunctionIsSeq

(* The facts hold before and after a step.                                 *)
LEMMA StepFacts ==
  ASSUME IInv, IInv'
  PROVE  /\ EntryFacts /\ WindowFacts /\ EntriesFacts /\ ActsFacts
         /\ EntryFacts' /\ WindowFacts' /\ EntriesFacts' /\ ActsFacts'
<1>1. (IInv => EntryFacts)'
  BY EntriesRead, PTL
<1>2. (IInv => WindowFacts)'
  BY WindowsRead, PTL
<1>3. (IInv => EntriesFacts)'
  BY EntriesFormed, PTL
<1>4. (IInv => ActsFacts)'
  BY ActsFormed, PTL
<1> QED
  BY <1>1, <1>2, <1>3, <1>4, EntriesRead, WindowsRead, EntriesFormed, ActsFormed

(* What a window holds after a step, slot by slot.                         *)
LEMMA WindowIs ==
  ASSUME IInv, IInv', Active', NEW i \in 1 .. Len(frames'),
         NEW b \in Nat, NEW e \in Nat, frames'[i].base = b, WindowEnd(i)' = e,
         NEW r \in Seq(EntryKinds), Len(r) = e - b,
         \A t \in Slots : b <= t /\ t < e => Entry(t)' = r[t - b + 1]
  PROVE  Entries(i)' = r
<1>1. /\ Entries(i)' \in Seq(EntryKinds) /\ Len(Entries(i)') = e - b
      /\ \A k \in 1 .. Len(Entries(i)') :
           /\ Entries(i)'[k] = Entry(b + k - 1)'
           /\ b + k - 1 \in Slots
  BY StepFacts DEF EntriesFacts
<1>2. ASSUME NEW k \in 1 .. Len(Entries(i)')
      PROVE  Entries(i)'[k] = r[k]
  <2>1. PICK t \in Slots : t = b + k - 1
    BY <1>1
  <2>2. b <= t /\ t < e /\ t - b + 1 = k
    BY <1>1, <2>1
  <2>3. Entry(t)' = r[k]
    BY <2>2
  <2>4. Entries(i)'[k] = Entry(t)'
    BY <1>1, <2>1
  <2> QED
    BY <2>3, <2>4
<1> QED
  BY <1>1, <1>2, SeqEqual

(* A window that a step leaves alone.                                      *)
LEMMA WindowSame ==
  ASSUME IInv, IInv', Active, Active', NEW i \in 1 .. Len(frames), i \in 1 .. Len(frames'),
         frames'[i].base = frames[i].base, WindowEnd(i)' = WindowEnd(i),
         \A t \in Slots : t < WindowEnd(i) => Entry(t)' = Entry(t)
  PROVE  Entries(i)' = Entries(i)
<1>1. PICK b, e, r : b = frames[i].base /\ e = WindowEnd(i) /\ r = Entries(i)
  OBVIOUS
<1>2. b \in Nat /\ e \in Nat
  BY <1>1, StepFacts DEF WindowFacts
<1>3. /\ r \in Seq(EntryKinds) /\ Len(r) = e - b
      /\ \A k \in 1 .. Len(r) : r[k] = Entry(b + k - 1)
  BY <1>1, StepFacts DEF EntriesFacts
<1>4. ASSUME NEW t \in Slots, b <= t, t < e
      PROVE  Entry(t)' = r[t - b + 1]
  <2>1. t \in Nat
    BY OpenFacts
  <2>2. t - b + 1 \in 1 .. Len(r) /\ b + (t - b + 1) - 1 = t
    BY <1>2, <1>3, <1>4, <2>1
  <2>3. r[t - b + 1] = Entry(t)
    BY <1>3, <2>2
  <2> QED
    BY <1>1, <1>4, <2>3
<1>5. Entries(i)' = r
  BY <1>1, <1>2, <1>3, <1>4, WindowIs
<1> QED
  BY <1>1, <1>5

(***************************************************************************)
(* Steps of the running frame.                                             *)
(***************************************************************************)

Top == Entries(Len(frames))

(* The running activation as the abstract machine sees it.                 *)
LEMMA TopActivation ==
  ASSUME IInv, Active
  PROVE  /\ Abstract!Running
         /\ Abstract!Act = [entries |-> Top, closure |-> Frame.closure]
         /\ Abstract!Height = Len(Top)
         /\ Top \in Seq(EntryKinds) /\ Len(Top) = top - Frame.base /\ Len(Top) \in Nat
         /\ \A k \in 1 .. Len(Top) :
              /\ Top[k] = Entry(Frame.base + k - 1)
              /\ Frame.base + k - 1 \in Slots
              /\ Frame.base <= Frame.base + k - 1 /\ Frame.base + k - 1 < top
         /\ \A s \in Slots : Frame.base <= s /\ s < top =>
              s - Frame.base + 1 \in 1 .. Len(Top) /\ Top[s - Frame.base + 1] = Entry(s)
<1> DEFINE L == Len(frames)
<1>1. /\ L \in Nat \ {0} /\ Frame.base \in Nat /\ Frame.base <= top /\ top \in Nat
      /\ Slots \subseteq Nat
  BY RunningFrame, OpenFacts
<1>2. L \in 1 .. L /\ Frame = frames[L] /\ WindowEnd(L) = top
  BY <1>1 DEF Frame, WindowEnd
<1>3. /\ Acts \in Seq(AbstractAct) /\ Len(Acts) = L
      /\ Acts[L] = [entries |-> Top, closure |-> Frame.closure]
  BY <1>2, ActsFormed DEF ActsFacts, Top
<1>4. Abstract!Running
  <2>1. Acts # <<>>
    BY <1>1, <1>3
  <2> QED
    BY <2>1 DEF Abstract!Running
<1>5. /\ Abstract!Act = [entries |-> Top, closure |-> Frame.closure]
      /\ Abstract!Height = Len(Top)
  BY <1>3 DEF Abstract!Act, Abstract!Height
<1>6. /\ Top \in Seq(EntryKinds) /\ Len(Top) = top - Frame.base
      /\ \A k \in 1 .. Len(Top) :
           /\ Top[k] = Entry(Frame.base + k - 1)
           /\ Frame.base + k - 1 \in Slots
           /\ Frame.base <= Frame.base + k - 1 /\ Frame.base + k - 1 < top
  BY <1>2, EntriesFormed DEF EntriesFacts, Top
<1>7. ASSUME NEW s \in Slots, Frame.base <= s, s < top
      PROVE  s - Frame.base + 1 \in 1 .. Len(Top) /\ Top[s - Frame.base + 1] = Entry(s)
  <2>1. s \in Nat
    BY <1>1
  <2>2. s - Frame.base + 1 \in 1 .. Len(Top)
    BY <1>1, <1>6, <1>7, <2>1
  <2>3. Frame.base + (s - Frame.base + 1) - 1 = s
    BY <1>1, <2>1
  <2> QED
    BY <1>6, <2>2, <2>3
<1>8. Len(Top) \in Nat
  BY <1>1, <1>6
<1> QED
  BY <1>4, <1>5, <1>6, <1>7, <1>8

(* A step that leaves the frames and the entries of the windows below the  *)
(* running one alone changes the running activation's entries only.        *)
LEMMA FrameRule ==
  ASSUME IInv, IInv', Active, Active', frames' = frames,
         \A s \in Slots : s < Frame.base => Entry(s)' = Entry(s)
  PROVE  Abstract!Continue(Top')
<1> DEFINE L == Len(frames)
<1>1. /\ L \in Nat \ {0} /\ Frame.base \in Nat /\ Slots \subseteq Nat
  BY RunningFrame, OpenFacts
<1>2. /\ Acts \in Seq(AbstractAct) /\ Len(Acts) = L
      /\ Acts' \in Seq(AbstractAct) /\ Len(Acts') = L
      /\ \A i \in 1 .. L : Acts[i] = [entries |-> Entries(i), closure |-> frames[i].closure]
      /\ \A i \in 1 .. L : Acts'[i] = [entries |-> Entries(i)', closure |-> frames[i].closure]
  BY StepFacts DEF ActsFacts
<1>3. ASSUME NEW i \in 1 .. L, i # L
      PROVE  Entries(i)' = Entries(i)
  <2>1. i < L
    BY <1>1, <1>3
  <2>2. WindowEnd(i)' = WindowEnd(i) /\ WindowEnd(i) <= Frame.base /\ WindowEnd(i) \in Nat
    BY <1>3, <2>1, StepFacts DEF WindowFacts, WindowEnd
  <2>3. ASSUME NEW t \in Slots, t < WindowEnd(i)
        PROVE  Entry(t)' = Entry(t)
    <3>1. t < Frame.base
      BY <1>1, <2>2, <2>3
    <3> QED
      BY <3>1
  <2> QED
    BY <2>2, <2>3, WindowSame
<1>4. \A i \in 1 .. L : i # L => Acts'[i] = Acts[i]
  BY <1>2, <1>3
<1>5. Acts'[L] = [Acts[L] EXCEPT !.entries = Top'] /\ L \in 1 .. L
  <2>1. L \in 1 .. L
    BY <1>1
  <2>2. Acts'[L] = [entries |-> Top', closure |-> frames[L].closure]
    BY <1>2, <2>1 DEF Top
  <2>3. Acts[L] = [entries |-> Entries(L), closure |-> frames[L].closure]
    BY <1>2, <2>1
  <2> QED
    BY <2>1, <2>2, <2>3
<1>6. Acts' = [Acts EXCEPT ![L] = [Acts[L] EXCEPT !.entries = Top']]
  BY <1>2, <1>4, <1>5, LenProperties
<1> QED
  BY <1>2, <1>6 DEF Abstract!Continue

(* What the running activation's entries are after a step.                 *)
LEMMA TopIs ==
  ASSUME IInv, IInv', Active, Active', frames' = frames,
         NEW b \in Nat, NEW e \in Nat, b = Frame.base, top' = e,
         NEW r \in Seq(EntryKinds), Len(r) = e - b,
         \A t \in Slots : b <= t /\ t < e => Entry(t)' = r[t - b + 1],
         \A t \in Slots : t < b => Entry(t)' = Entry(t)
  PROVE  Abstract!Continue(r)
<1>1. PICK L \in Nat \ {0} : L = Len(frames)
  BY RunningFrame
<1>2. L \in 1 .. Len(frames')
  BY <1>1
<1>3. WindowEnd(L)' = e /\ frames'[L].base = b
  BY <1>1 DEF WindowEnd, Frame
<1>4. Entries(L)' = r
  BY <1>2, <1>3, WindowIs
<1>5. Top' = r
  BY <1>1, <1>4 DEF Top
<1>6. Abstract!Continue(Top')
  BY FrameRule
<1> QED
  BY <1>5, <1>6

(* The running activation keeps its first n entries.                       *)
LEMMA DropTo ==
  ASSUME IInv, IInv', Active, Active', frames' = frames,
         NEW n \in 0 .. Len(Top), top' = Frame.base + n,
         \A s \in Slots : s < Frame.base + n => Entry(s)' = Entry(s)
  PROVE  Abstract!Continue(SubSeq(Top, 1, n))
<1>1. PICK b \in Nat : b = Frame.base
  BY RunningFrame
<1>2. /\ Top \in Seq(EntryKinds) /\ Len(Top) \in Nat /\ n \in Nat /\ b + n \in Nat
      /\ \A k \in 1 .. Len(Top) : Top[k] = Entry(b + k - 1)
  BY <1>1, TopActivation
<1>3. PICK q : q = SubSeq(Top, 1, n)
  OBVIOUS
<1>4. q \in Seq(EntryKinds) /\ Len(q) = n /\ \A k \in 1 .. n : q[k] = Top[k]
  <2>1. \A k \in 1 .. n : Top[k] \in EntryKinds
    BY <1>2, ElementOfSeq
  <2> QED
    BY <1>2, <1>3, <2>1, SubSeqProperties
<1>5. ASSUME NEW t \in Slots, b <= t, t < b + n
      PROVE  Entry(t)' = q[t - b + 1]
  <2>1. t \in Nat
    BY OpenFacts
  <2>2. t - b + 1 \in 1 .. n /\ t - b + 1 \in 1 .. Len(Top) /\ b + (t - b + 1) - 1 = t
    BY <1>2, <1>5, <2>1
  <2>3. q[t - b + 1] = Top[t - b + 1] /\ Top[t - b + 1] = Entry(t)
    BY <1>2, <1>4, <2>2
  <2> QED
    BY <1>1, <1>5, <2>3
<1>6. \A t \in Slots : t < b => Entry(t)' = Entry(t)
  BY <1>1, <1>2, OpenFacts
<1>7. Len(q) = (b + n) - b /\ top' = b + n
  BY <1>1, <1>2, <1>4
<1>8. Abstract!Continue(q)
  BY <1>1, <1>2, <1>4, <1>5, <1>6, <1>7, TopIs
<1> QED
  BY <1>3, <1>8

(* It keeps its first n entries and gets one more.                         *)
LEMMA DropAndPush ==
  ASSUME IInv, IInv', Active, Active', frames' = frames,
         NEW n \in 0 .. Len(Top), top' = Frame.base + n + 1,
         \A s \in Slots : s < Frame.base + n => Entry(s)' = Entry(s),
         NEW s, s = Frame.base + n, NEW v \in EntryKinds, Entry(s)' = v
  PROVE  Abstract!Continue(Append(SubSeq(Top, 1, n), v))
<1>1. PICK b \in Nat : b = Frame.base
  BY RunningFrame
<1>2. /\ Top \in Seq(EntryKinds) /\ Len(Top) \in Nat /\ n \in Nat /\ b + n + 1 \in Nat
      /\ \A k \in 1 .. Len(Top) : Top[k] = Entry(b + k - 1)
  BY <1>1, TopActivation
<1>3. PICK q, r : q = SubSeq(Top, 1, n) /\ r = Append(q, v)
  OBVIOUS
<1>4. q \in Seq(EntryKinds) /\ Len(q) = n /\ \A k \in 1 .. n : q[k] = Top[k]
  <2>1. \A k \in 1 .. n : Top[k] \in EntryKinds
    BY <1>2, ElementOfSeq
  <2> QED
    BY <1>2, <1>3, <2>1, SubSeqProperties
<1>5. /\ r \in Seq(EntryKinds) /\ Len(r) = n + 1
      /\ \A k \in 1 .. n : r[k] = q[k]
      /\ r[n + 1] = v
  BY <1>3, <1>4, AppendProperties
<1>6. ASSUME NEW t \in Slots, b <= t, t < b + n + 1
      PROVE  Entry(t)' = r[t - b + 1]
  <2>1. t \in Nat
    BY OpenFacts
  <2>2. CASE t = b + n
    <3>1. t - b + 1 = n + 1
      BY <1>2, <2>2
    <3>2. t = s
      BY <1>1, <2>2
    <3> QED
      BY <1>5, <3>1, <3>2
  <2>3. CASE t # b + n
    <3>1. /\ t - b + 1 \in 1 .. n /\ b + (t - b + 1) - 1 = t /\ t < b + n
          /\ n \in Nat
      BY <1>2, <1>6, <2>1, <2>3
    <3>2. t - b + 1 \in 1 .. Len(Top)
      BY <1>2, <3>1
    <3>3. r[t - b + 1] = Top[t - b + 1] /\ Top[t - b + 1] = Entry(t)
      BY <1>2, <1>4, <1>5, <3>1, <3>2
    <3> QED
      BY <1>1, <3>1, <3>3
  <2> QED
    BY <2>2, <2>3
<1>7. ASSUME NEW t \in Slots, t < b
      PROVE  Entry(t)' = Entry(t)
  <2>1. t \in Nat
    BY OpenFacts
  <2>2. t < Frame.base + n
    BY <1>1, <1>2, <1>7, <2>1
  <2> QED
    BY <2>2
<1>8. Len(r) = (b + n + 1) - b /\ top' = b + n + 1
  <2>1. (b + n + 1) - b = n + 1
    BY <1>2
  <2>2. top' = b + n + 1
    BY <1>1
  <2> QED
    BY <1>5, <2>1, <2>2
<1>9. Abstract!Continue(r)
  BY <1>1, <1>2, <1>5, <1>6, <1>7, <1>8, TopIs
<1> QED
  BY <1>3, <1>9

(* One of its entries becomes another.                                     *)
LEMMA EntryReplaced ==
  ASSUME IInv, IInv', Active, Active', frames' = frames, top' = top,
         NEW s \in Slots, Frame.base <= s, s < top,
         \A t \in Slots : t < top /\ t # s => Entry(t)' = Entry(t),
         NEW v \in EntryKinds, Entry(s)' = v
  PROVE  Abstract!Continue([Top EXCEPT ![s - Frame.base + 1] = v])
<1>1. PICK b \in Nat, e \in Nat : b = Frame.base /\ e = top
  BY RunningFrame
<1>2. /\ Top \in Seq(EntryKinds) /\ Len(Top) = e - b /\ s \in Nat
      /\ \A t \in Slots : b <= t /\ t < e =>
           t - b + 1 \in 1 .. Len(Top) /\ Top[t - b + 1] = Entry(t)
  BY <1>1, TopActivation, OpenFacts
<1>3. PICK k \in 1 .. Len(Top) : k = s - b + 1
  BY <1>1, <1>2
<1> DEFINE r == [Top EXCEPT ![k] = v]
<1>4. /\ r \in Seq(EntryKinds) /\ Len(r) = Len(Top)
      /\ \A j \in 1 .. Len(Top) : r[j] = IF j = k THEN v ELSE Top[j]
  BY <1>2, ExceptSeq
<1> HIDE DEF r
<1>5. ASSUME NEW t \in Slots, b <= t, t < e
      PROVE  Entry(t)' = r[t - b + 1]
  <2>1. t - b + 1 \in 1 .. Len(Top) /\ Top[t - b + 1] = Entry(t)
    BY <1>2, <1>5
  <2>2. CASE t = s
    BY <1>3, <1>4, <2>1, <2>2
  <2>3. CASE t # s
    <3>1. t - b + 1 # k
      BY <1>2, <1>3, <2>3, OpenFacts
    <3> QED
      BY <1>1, <1>4, <1>5, <2>1, <2>3, <3>1
  <2> QED
    BY <2>2, <2>3
<1>6. ASSUME NEW t \in Slots, t < b
      PROVE  Entry(t)' = Entry(t)
  <2>1. t \in Nat
    BY OpenFacts
  <2>2. b <= s /\ s < e /\ s \in Nat
    BY <1>1, <1>2
  <2>3. t < e /\ t # s
    BY <1>6, <2>1, <2>2
  <2> QED
    BY <1>1, <2>3
<1>7. Abstract!Continue(r)
  BY <1>1, <1>2, <1>4, <1>5, <1>6, TopIs
<1> QED
  BY <1>1, <1>3, <1>7 DEF r

(* Nothing changes.                                                        *)
LEMMA SameActs ==
  ASSUME IInv, IInv', Active, Active', frames' = frames, top' = top,
         \A s \in Slots : s < top => Entry(s)' = Entry(s)
  PROVE  Acts' = Acts
<1>1. PICK L \in Nat \ {0} : L = Len(frames)
  BY RunningFrame
<1>2. /\ Acts \in Seq(AbstractAct) /\ Len(Acts) = L
      /\ Acts' \in Seq(AbstractAct) /\ Len(Acts') = L
      /\ \A i \in 1 .. L : Acts[i] = [entries |-> Entries(i), closure |-> frames[i].closure]
      /\ \A i \in 1 .. L : Acts'[i] = [entries |-> Entries(i)', closure |-> frames[i].closure]
  BY <1>1, StepFacts DEF ActsFacts
<1>3. ASSUME NEW i \in 1 .. L
      PROVE  Entries(i)' = Entries(i)
  <2>1. WindowEnd(i)' = WindowEnd(i)
    BY DEF WindowEnd
  <2>2. WindowEnd(i) <= top /\ WindowEnd(i) \in Nat /\ top \in Nat
    BY <1>1, StepFacts, RunningFrame DEF WindowFacts
  <2>3. ASSUME NEW t \in Slots, t < WindowEnd(i)
        PROVE  Entry(t)' = Entry(t)
    <3>1. t \in Nat
      BY OpenFacts
    <3>2. t < top
      BY <2>2, <2>3, <3>1
    <3> QED
      BY <3>2
  <2> QED
    BY <1>1, <2>1, <2>3, WindowSame
<1> QED
  BY <1>2, <1>3, SeqEqual

(***************************************************************************)
(* What a step does to entries and cells.                                  *)
(***************************************************************************)

(* An entry stays where the slot is captured as before and, if it is not,  *)
(* holds the same value.                                                   *)
LEMMA EntryStays ==
  ASSUME IInv, IInv', Repl = FALSE, NEW s \in Slots,
         s \in captured' <=> s \in captured,
         \A u \in Upvalues : location[u] = s => location'[u] = s,
         s \notin captured => stack'[s] = stack[s]
  PROVE  Entry(s)' = Entry(s)
<1>1. CASE s \in captured
  <2>1. Entry(s) \in Upvalues /\ location[Entry(s)] = s
    BY <1>1, StepFacts DEF EntryFacts
  <2>2. location'[Entry(s)] = s
    BY <2>1
  <2>3. \A u \in Upvalues : location'[u] = s => Entry(s)' = u
    BY StepFacts DEF EntryFacts
  <2> QED
    BY <2>1, <2>2, <2>3
<1>2. CASE s \notin captured
  <2>1. Entry(s) = stack[s]
    BY <1>2, StepFacts DEF EntryFacts
  <2>2. Entry(s)' = stack'[s]
    BY <1>2, StepFacts DEF EntryFacts
  <2> QED
    BY <1>2, <2>1, <2>2
<1> QED
  BY <1>1, <1>2

(* The abstract cells are what the upvalues read.                          *)
LEMMA CellsKept ==
  ASSUME \A u \in Upvalues : Deref(u)' = Deref(u)
  PROVE  Mem' = Mem
BY DEF Mem

(* Writing a slot nobody captured changes no cell.                         *)
LEMMA StackWritten ==
  ASSUME IInv, Repl = FALSE, NEW s \in Slots, s \notin captured, NEW v,
         stack' = [stack EXCEPT ![s] = v], UNCHANGED <<location, closed>>
  PROVE  Mem' = Mem
<1>1. ASSUME NEW u \in Upvalues
      PROVE  Deref(u)' = Deref(u)
  <2>1. location[u] \in Slots => location[u] \in captured
    BY OpenMeansCaptured
  <2> QED
    BY <2>1, OtherSlotWritten
<1> QED
  BY <1>1, CellsKept

(* Nor does a step that leaves the memory alone.                           *)
LEMMA MemSame ==
  ASSUME UNCHANGED <<stack, location, closed>>
  PROVE  Mem' = Mem
BY DEF Mem, Deref

(* The abstract machine reads in an entry what the slot holds.             *)
LEMMA SlotRead ==
  ASSUME IInv, Active, Repl = FALSE, NEW s \in Slots, s < top
  PROVE  Abstract!ValOf(Entry(s)) = stack[s]
<1>1. CASE s \in captured
  <2>1. Entry(s) \in Upvalues /\ location[Entry(s)] = s
    BY <1>1, EntriesRead DEF EntryFacts
  <2>2. Mem[Entry(s)] = stack[s]
    BY <2>1 DEF Mem, Deref
  <2> QED
    BY <2>1, <2>2 DEF Abstract!ValOf
<1>2. CASE s \notin captured
  <2>1. Entry(s) = stack[s]
    BY <1>2, EntriesRead DEF EntryFacts
  <2>2. stack[s] \in Values \cup Closures
    BY ValuesRead DEF Reachable, IInv, TypeOK
  <2>3. stack[s] \notin Upvalues
    BY <2>2, KindsAssumption
  <2> QED
    BY <2>1, <2>3 DEF Abstract!ValOf
<1> QED
  BY <1>1, <1>2

(* The topmost value of the running activation.                            *)
LEMMA TopValue ==
  ASSUME IInv, Active, Repl = FALSE, top - 1 \in Slots, Frame.base <= top - 1
  PROVE  /\ Abstract!Height > 0
         /\ Abstract!ValOf(Abstract!Act.entries[Abstract!Height]) = stack[top - 1]
<1>1. /\ Frame.base \in Nat /\ top \in Nat /\ top - 1 < top
  BY RunningFrame
<1>2. /\ Abstract!Act = [entries |-> Top, closure |-> Frame.closure]
      /\ Abstract!Height = Len(Top) /\ Len(Top) = top - Frame.base
      /\ Top[(top - 1) - Frame.base + 1] = Entry(top - 1)
  BY <1>1, TopActivation
<1>3. (top - 1) - Frame.base + 1 = Len(Top) /\ Len(Top) > 0
  BY <1>1, <1>2
<1>4. Abstract!Act.entries[Abstract!Height] = Entry(top - 1)
  <2>1. Abstract!Act.entries = Top
    BY <1>2
  <2>2. Top[Len(Top)] = Entry(top - 1)
    BY <1>2, <1>3
  <2> QED
    BY <1>2, <2>1, <2>2
<1>5. Abstract!ValOf(Entry(top - 1)) = stack[top - 1]
  BY <1>1, SlotRead
<1> QED
  BY <1>2, <1>3, <1>4, <1>5

(***************************************************************************)
(* Every step of the machine is a step of the abstract one, or none.       *)
(***************************************************************************)

(* The script's frame, pushed on an empty stack.                           *)
LEMMA BeginRefines ==
  ASSUME IInv, IInv', RunScript
  PROVE  Abstract!Begin
<1>1. /\ ~ Active /\ Active' /\ top' = 0
      /\ UNCHANGED <<stack, location, closed, captures>>
  BY DEF RunScript, IInv, ScriptsApart, Active, memory
<1>2. frames' = <<[base |-> 0, closure |-> Nil]>>
  <2>1. frames = <<>> /\ frames' = Append(frames, [base |-> 0, closure |-> Nil])
    BY DEF RunScript, IInv, ScriptsApart
  <2> QED
    BY <2>1
<1>3. Len(frames') = 1 /\ frames'[1] = [base |-> 0, closure |-> Nil]
  BY <1>2
<1>4. Entries(1)' = <<>>
  <2>1. /\ Entries(1)' \in Seq(EntryKinds)
        /\ Len(Entries(1)') = WindowEnd(1)' - frames'[1].base
    BY <1>1, <1>3, StepFacts DEF EntriesFacts
  <2>2. WindowEnd(1)' = 0
    BY <1>1, <1>3 DEF WindowEnd
  <2> QED
    BY <1>3, <2>1, <2>2, EmptySeq
<1>5. Acts' = <<[entries |-> <<>>, closure |-> Nil]>>
  <2>1. /\ Acts' \in Seq(AbstractAct) /\ Len(Acts') = 1
        /\ Acts'[1] = [entries |-> Entries(1)', closure |-> frames'[1].closure]
    BY <1>1, <1>3, StepFacts DEF ActsFacts
  <2>2. Acts'[1] = [entries |-> <<>>, closure |-> Nil]
    BY <1>3, <1>4, <2>1
  <2> QED
    BY <2>1, <2>2
<1>6. Acts = <<>>
  BY <1>1 DEF Acts
<1>7. Mem' = Mem
  BY <1>1, MemSame
<1> QED
  BY <1>1, <1>5, <1>6, <1>7 DEF Abstract!Begin, Abstract!Running

(* However a script ends.                                                  *)
LEMMA EndRefines ==
  ASSUME IInv, Active, ~ Active', Mem' = Mem, captures' = captures
  PROVE  Abstract!End
<1>1. Abstract!Running
  BY TopActivation
<1>2. Acts' = <<>>
  BY DEF Acts
<1> QED
  BY <1>1, <1>2 DEF Abstract!End

(* A value takes the place of the topmost slots, from s on.                *)
LEMMA ReplaceRefines ==
  ASSUME IInv, IInv', Repl = FALSE, Active, Active',
         NEW s \in Slots, Frame.base <= s, s <= top, \A t \in captured : t < s,
         NEW v \in Objects, stack' = [stack EXCEPT ![s] = v], top' = s + 1,
         UNCHANGED <<frames, location, closed, captures, captured>>
  PROVE  Abstract!Drop
<1>1. /\ Frame.base \in Nat /\ s \in Nat /\ top \in Nat
      /\ Abstract!Running /\ Abstract!Height = Len(Top)
      /\ Abstract!Act = [entries |-> Top, closure |-> Frame.closure]
      /\ Len(Top) = top - Frame.base /\ Len(Top) \in Nat
  BY RunningFrame, OpenFacts, TopActivation
<1>2. PICK n \in 0 .. Len(Top) : Frame.base + n = s /\ top' = Frame.base + n + 1
  <2>1. s - Frame.base \in 0 .. Len(Top) /\ Frame.base + (s - Frame.base) = s
    BY <1>1
  <2> QED
    BY <2>1
<1>3. s \notin captured
  BY <1>1
<1>4. ASSUME NEW t \in Slots, t < Frame.base + n
      PROVE  Entry(t)' = Entry(t)
  <2>1. stack'[t] = stack[t]
    <3>1. t # s
      BY <1>1, <1>2, <1>4
    <3> QED
      BY <3>1 DEF IInv, TypeOK
  <2> QED
    BY <2>1, EntryStays
<1>5. Entry(s)' = v
  <2>1. stack'[s] = v
    BY DEF IInv, TypeOK
  <2>2. Entry(s)' = stack'[s]
    BY <1>3, StepFacts DEF EntryFacts
  <2> QED
    BY <2>1, <2>2
<1>6. Abstract!Continue(Append(SubSeq(Top, 1, n), v))
  <2>1. v \in EntryKinds
    BY DEF EntryKinds
  <2> QED
    BY <1>2, <1>4, <1>5, <2>1, DropAndPush
<1>7. Mem' = Mem
  BY <1>3, StackWritten
<1>8. Abstract!Act.entries = Top
  BY <1>1
<1> QED
  BY <1>1, <1>2, <1>6, <1>7, <1>8 DEF Abstract!Drop, Abstract!Objects, Objects

(* The topmost variables are given up.                                     *)
LEMMA DropRefines ==
  ASSUME IInv, IInv', Repl = FALSE, Active, Active',
         NEW s \in Slots, Frame.base <= s, s <= top, top' = s,
         captured' = {t \in captured : t < s},
         \A u \in Upvalues : location[u] \in Slots /\ location[u] < s =>
                               location'[u] = location[u],
         Mem' = Mem, UNCHANGED <<stack, frames, captures>>
  PROVE  Abstract!Drop
<1>1. /\ Frame.base \in Nat /\ s \in Nat /\ top \in Nat
      /\ Abstract!Running /\ Abstract!Height = Len(Top)
      /\ Abstract!Act = [entries |-> Top, closure |-> Frame.closure]
      /\ Len(Top) = top - Frame.base /\ Len(Top) \in Nat
  BY RunningFrame, OpenFacts, TopActivation
<1>2. PICK n \in 0 .. Len(Top) : Frame.base + n = s /\ top' = Frame.base + n
  <2>1. s - Frame.base \in 0 .. Len(Top) /\ Frame.base + (s - Frame.base) = s
    BY <1>1
  <2> QED
    BY <2>1
<1>3. ASSUME NEW t \in Slots, t < Frame.base + n
      PROVE  Entry(t)' = Entry(t)
  <2>1. t \in captured' <=> t \in captured
    BY <1>2, <1>3
  <2>2. \A u \in Upvalues : location[u] = t => location'[u] = t
    BY <1>2, <1>3
  <2> QED
    BY <2>1, <2>2, EntryStays
<1>4. Abstract!Continue(SubSeq(Top, 1, n))
  BY <1>2, <1>3, DropTo
<1>5. Abstract!Act.entries = Top
  BY <1>1
<1> QED
  BY <1>1, <1>2, <1>4, <1>5 DEF Abstract!Drop

(* The variable of a captured slot is assigned: its cell changes, and no   *)
(* entry does.                                                             *)
LEMMA CellAssigned ==
  ASSUME IInv, IInv', Repl = FALSE, Active, Active',
         NEW u \in Upvalues, location[u] \in Slots, NEW v,
         stack' = [stack EXCEPT ![location[u]] = v],
         UNCHANGED <<top, frames, location, closed, captured>>
  PROVE  Acts' = Acts /\ Mem' = [Mem EXCEPT ![u] = v]
<1>1. location[u] \in captured
  BY OpenMeansCaptured
<1>2. ASSUME NEW t \in Slots, t < top
      PROVE  Entry(t)' = Entry(t)
  <2>1. t \notin captured => stack'[t] = stack[t]
    BY <1>1 DEF IInv, TypeOK
  <2> QED
    BY <2>1, EntryStays
<1>3. Deref(u)' = v
  BY DEF Deref, IInv, TypeOK
<1>4. ASSUME NEW w \in Upvalues, w # u
      PROVE  Deref(w)' = Deref(w)
  <2>1. location[w] # location[u]
    BY <1>4, StepFacts DEF EntryFacts
  <2>2. location[w] \in Slots => stack'[location[w]] = stack[location[w]]
    BY <2>1 DEF IInv, TypeOK
  <2> QED
    BY <2>2 DEF Deref
<1>5. Mem' = [Mem EXCEPT ![u] = v]
  BY <1>3, <1>4 DEF Mem
<1> QED
  BY <1>2, <1>5, SameActs

(* OP_SET_LOCAL assigns a variable of the innermost activation.            *)
LEMMA SetLocalRefines ==
  ASSUME IInv, IInv', Repl = FALSE, NEW s \in Slots, SetLocal(s)
  PROVE  Abstract!Assign
<1>1. /\ Active /\ Active' /\ Frame.base \in Nat /\ top \in Nat /\ s \in Nat
      /\ Frame.base <= s /\ s < top - 1 /\ s < top
      /\ UNCHANGED <<top, frames, location, closed, captures, captured>>
      /\ stack' = [stack EXCEPT ![s] = stack[top - 1]]
      /\ Operands(1)
  <2>1. Active /\ Active'
    BY DEF SetLocal, Active
  <2>2. Frame.base \in Nat /\ top \in Nat /\ s \in Nat
    BY <2>1, RunningFrame, OpenFacts
  <2> QED
    BY <2>1, <2>2 DEF SetLocal, memory
<1>2. top - 1 \in Slots /\ Frame.base <= top - 1
  BY <1>1, RunningFrame, LimitsAssumption DEF Slots
<1>3. /\ Abstract!Height > 0
      /\ Abstract!ValOf(Abstract!Act.entries[Abstract!Height]) = stack[top - 1]
  BY <1>1, <1>2, TopValue
<1>4. /\ Abstract!Running /\ Abstract!Height = Len(Top) /\ Abstract!Act.entries = Top
      /\ s - Frame.base + 1 \in 1 .. Len(Top) /\ Top[s - Frame.base + 1] = Entry(s)
  BY <1>1, TopActivation
<1> DEFINE v == stack[top - 1]
<1>5. v \in Reachable
  BY <1>1, <1>2, ValuesRead
<1>6. CASE s \in captured
  <2>1. Entry(s) \in Upvalues /\ location[Entry(s)] = s
    BY <1>6, EntriesRead DEF EntryFacts
  <2>2. PICK u \in Upvalues : u = Entry(s) /\ location[u] = s
    BY <2>1
  <2>3. Acts' = Acts /\ Mem' = [Mem EXCEPT ![u] = v]
    BY <1>1, <2>2, CellAssigned
  <2> QED
    BY <1>1, <1>3, <1>4, <2>2, <2>3 DEF Abstract!Assign
<1>7. CASE s \notin captured
  <2>1. Mem' = Mem
    BY <1>1, <1>7, StackWritten
  <2>2. ASSUME NEW t \in Slots, t < top, t # s
        PROVE  Entry(t)' = Entry(t)
    <3>1. stack'[t] = stack[t]
      BY <1>1, <2>2 DEF IInv, TypeOK
    <3> QED
      BY <1>1, <3>1, EntryStays
  <2>3. PICK w : w = v
    OBVIOUS
  <2>4. Entry(s)' = w
    <3>1. Entry(s)' = stack'[s]
      BY <1>1, <1>7, StepFacts DEF EntryFacts
    <3> QED
      BY <1>1, <2>3, <3>1 DEF IInv, TypeOK
  <2>5. w \in EntryKinds
    BY <1>5, <2>3 DEF EntryKinds, Reachable, Objects, IInv, TypeOK
  <2>6. Abstract!Continue([Top EXCEPT ![s - Frame.base + 1] = w])
    BY <1>1, <2>2, <2>4, <2>5, EntryReplaced
  <2>7. Top[s - Frame.base + 1] \notin Upvalues
    <3>1. Entry(s) = stack[s]
      BY <1>7, EntriesRead DEF EntryFacts
    <3>2. stack[s] \in Values \cup Closures
      BY <1>1, ValuesRead DEF Reachable, IInv, TypeOK
    <3> QED
      BY <1>4, <3>1, <3>2, KindsAssumption
  <2> QED
    BY <1>1, <1>3, <1>4, <2>1, <2>3, <2>6, <2>7 DEF Abstract!Assign
<1> QED
  BY <1>6, <1>7

(* What the running closure captured is shared with it.                    *)
LEMMA OwnShared ==
  ASSUME IInv, Active, Frame.closure # Nil,
         NEW i \in 1 .. Len(captures[Frame.closure]),
         NEW u, u = captures[Frame.closure][i]
  PROVE  u \in Upvalues /\ location[u] # Unused /\ Abstract!Shared(u)
<1>1. Abstract!Act.closure = Frame.closure
  BY TopActivation
<1> QED
  BY <1>1, OwnCaptures DEF Abstract!Shared

(* OP_SET_UPVALUE assigns a variable its closure shares.                   *)
LEMMA SetUpvalueRefines ==
  ASSUME IInv, IInv', Repl = FALSE, Frame.closure # Nil,
         NEW i \in 1 .. Len(captures[Frame.closure]),
         SetUpvalue(captures[Frame.closure][i])
  PROVE  Abstract!Assign
<1>1. PICK u : u = captures[Frame.closure][i]
  OBVIOUS
<1>2. /\ Active /\ Active'
      /\ UNCHANGED <<top, frames, location, captures, captured>>
      /\ Operands(1)
      /\ IF location[u] \in Slots
           THEN /\ stack' = [stack EXCEPT ![location[u]] = stack[top - 1]]
                /\ UNCHANGED closed
           ELSE /\ closed' = [closed EXCEPT ![u] = stack[top - 1]]
                /\ UNCHANGED stack
  BY <1>1 DEF SetUpvalue, Active
<1>3. u \in Upvalues /\ location[u] # Unused /\ Abstract!Shared(u)
  BY <1>1, <1>2, OwnShared
<1>4. top - 1 \in Slots /\ Frame.base <= top - 1
  BY <1>2, RunningFrame, LimitsAssumption DEF Slots, Operands
<1>5. /\ Abstract!Height > 0
      /\ Abstract!ValOf(Abstract!Act.entries[Abstract!Height]) = stack[top - 1]
  BY <1>2, <1>4, TopValue
<1>6. Abstract!Running
  BY <1>2, TopActivation
<1>7. Acts' = Acts /\ Mem' = [Mem EXCEPT ![u] = stack[top - 1]]
  <2>1. CASE location[u] \in Slots
    BY <1>2, <1>3, <2>1, CellAssigned
  <2>2. CASE location[u] \notin Slots
    <3>1. closed' = [closed EXCEPT ![u] = stack[top - 1]] /\ UNCHANGED stack
      BY <1>2, <2>2
    <3>2. \A t \in Slots : Entry(t)' = Entry(t)
      BY <1>2, <3>1, EntryStays
    <3>3. Acts' = Acts
      BY <1>2, <3>2, SameActs
    <3>4. Deref(u)' = stack[top - 1]
      BY <1>2, <1>3, <2>2, <3>1 DEF Deref, IInv, TypeOK, Slots
    <3>5. \A w \in Upvalues : w # u => Deref(w)' = Deref(w)
      BY <1>2, <3>1 DEF Deref, IInv, TypeOK, Slots
    <3> QED
      BY <3>3, <3>4, <3>5 DEF Mem
  <2> QED
    BY <2>1, <2>2
<1> QED
  BY <1>2, <1>3, <1>5, <1>6, <1>7 DEF Abstract!Assign

(* While captures are filled in, the new closure is the topmost value.     *)
LEMMA NewClosureOnTop ==
  ASSUME IInv, Repl = FALSE, status = "capturing"
  PROVE  /\ Active /\ Abstract!Running /\ Abstract!Height > 0
         /\ Abstract!ValOf(Abstract!Act.entries[Abstract!Height]) = stack[top - 1]
<1>1. Active
  BY DEF Active
<1>2. top - 1 \in Slots /\ Frame.base <= top - 1
  <2>1. CASE Frame.closure = Nil
    <3>1. Frame.base = 0
      BY <1>1, <2>1, RunningFrame
    <3>2. top - 1 \in Slots /\ Slots \subseteq Nat
      BY NewClosure, OpenFacts
    <3>3. top - 1 \in Nat /\ top \in Nat
      BY <3>2, NewClosure
    <3>4. 0 <= top - 1
      BY <3>3
    <3> QED
      BY <3>1, <3>2, <3>4
  <2>2. CASE Frame.closure # Nil
    <3>1. Frame.base + 1 <= top /\ Frame.base \in Nat /\ top \in Nat
      BY <1>1, <2>2, RunningFrame DEF First
    <3>2. top - 1 \in Slots
      BY NewClosure
    <3> QED
      BY <3>1, <3>2
  <2> QED
    BY <2>1, <2>2
<1> QED
  BY <1>1, <1>2, TopValue, TopActivation

(* Capturing an upvalue of the enclosing closure shares that cell.         *)
LEMMA CaptureOuterRefines ==
  ASSUME IInv, IInv', Repl = FALSE, Frame.closure # Nil,
         NEW i \in 1 .. Len(captures[Frame.closure]),
         CaptureOuter(captures[Frame.closure][i])
  PROVE  \E u \in Upvalues : Abstract!Capture(u)
<1>1. PICK u : u = captures[Frame.closure][i]
  OBVIOUS
<1>2. /\ status = "capturing" /\ Active /\ Active'
      /\ UNCHANGED <<stack, top, frames, location, closed, captured>>
      /\ captures' = [captures EXCEPT ![stack[top - 1]] = Append(@, u)]
  BY <1>1 DEF CaptureOuter, Capturing, Active
<1>3. u \in Upvalues /\ Abstract!Shared(u)
  BY <1>1, <1>2, OwnShared
<1>4. Mem' = Mem
  BY <1>2, MemSame
<1>5. Acts' = Acts
  <2>1. \A t \in Slots : Entry(t)' = Entry(t)
    BY <1>2, EntryStays
  <2> QED
    BY <1>2, <2>1, SameActs
<1> QED
  BY <1>2, <1>3, <1>4, <1>5, NewClosureOnTop DEF Abstract!Capture

(* Capturing a local turns its entry into a shared cell, or finds it is    *)
(* one.                                                                    *)
LEMMA CaptureLocalRefines ==
  ASSUME IInv, IInv', Repl = FALSE, NEW s \in Slots, NEW u \in Upvalues, CaptureLocal(s, u)
  PROVE  Abstract!Capture(u)
<1>1. /\ status = "capturing" /\ Active /\ Active'
      /\ UNCHANGED <<stack, top, frames>> /\ CaptureUpvalue(s, u)
      /\ captures' = [captures EXCEPT ![stack[top - 1]] = Append(@, u)]
      /\ captured' = captured \cup {s}
      /\ Frame.base <= s /\ s < top
  BY DEF CaptureLocal, Capturing, Active
<1>2. /\ closed' = closed /\ location'[u] = s
      /\ \A w \in Upvalues : w # u => location'[w] = location[w]
      /\ location[u] \in {s, Unused}
  BY <1>1, UpvalueCaptured
<1>3. /\ Abstract!Running /\ Abstract!Height > 0
      /\ Abstract!ValOf(Abstract!Act.entries[Abstract!Height]) = stack[top - 1]
  BY <1>1, NewClosureOnTop
<1>4. /\ Abstract!Height = Len(Top) /\ Abstract!Act.entries = Top
      /\ s - Frame.base + 1 \in 1 .. Len(Top) /\ Top[s - Frame.base + 1] = Entry(s)
  BY <1>1, TopActivation
<1>5. ASSUME NEW w \in Upvalues, w # u
      PROVE  Deref(w)' = Deref(w)
  BY <1>1, <1>2, <1>5 DEF Deref
<1>6. CASE location[u] = s
  <2>1. s \in captured /\ captured' = captured
    BY <1>1, <1>6, OpenMeansCaptured
  <2>2. \A t \in Slots : Entry(t)' = Entry(t)
    <3>1. \A w \in Upvalues : location'[w] = location[w]
      BY <1>2, <1>6
    <3> QED
      BY <1>1, <2>1, <3>1, EntryStays
  <2>3. Acts' = Acts
    BY <1>1, <2>2, SameActs
  <2>4. Deref(u)' = Deref(u)
    BY <1>1, <1>2, <1>6 DEF Deref
  <2>5. Mem' = Mem
    BY <1>5, <2>4, CellsKept
  <2>6. Entry(s) = u
    BY <1>6, EntriesRead DEF EntryFacts
  <2> QED
    BY <1>1, <1>3, <1>4, <2>3, <2>5, <2>6 DEF Abstract!Capture
<1>7. CASE location[u] = Unused
  <2>1. s \notin captured
    <3> SUFFICES ASSUME s \in captured
                 PROVE  FALSE
      OBVIOUS
    <3>1. Entry(s) \in Upvalues /\ location[Entry(s)] = s
      BY EntriesRead DEF EntryFacts
    <3>2. PICK w \in Upvalues : location[w] = s
      BY <3>1
    <3>3. w # u
      BY <1>7, <3>2, LimitsAssumption DEF Slots
    <3>4. location'[w] = s
      BY <1>2, <3>2, <3>3
    <3>5. Entry(s)' = w /\ Entry(s)' = u
      BY <1>2, <3>4, StepFacts DEF EntryFacts
    <3> QED
      BY <3>3, <3>5
  <2>2. ASSUME NEW t \in Slots, t < top, t # s
        PROVE  Entry(t)' = Entry(t)
    <3>1. t \in captured' <=> t \in captured
      BY <1>1, <2>2
    <3>2. \A w \in Upvalues : location[w] = t => location'[w] = t
      BY <1>2, <1>7, LimitsAssumption DEF Slots
    <3> QED
      BY <1>1, <3>1, <3>2, EntryStays
  <2>3. Entry(s)' = u
    BY <1>2, StepFacts DEF EntryFacts
  <2>4. Abstract!Continue([Top EXCEPT ![s - Frame.base + 1] = u])
    BY <1>1, <2>2, <2>3, EntryReplaced DEF EntryKinds
  <2>5. Entry(s) = stack[s] /\ stack[s] \notin Upvalues
    <3>1. Entry(s) = stack[s]
      BY <2>1, EntriesRead DEF EntryFacts
    <3>2. stack[s] \in Values \cup Closures
      BY <1>1, ValuesRead DEF Reachable, IInv, TypeOK
    <3> QED
      BY <3>1, <3>2, KindsAssumption
  <2>6. Mem[u] = Nil
    <3>1. Deref(u) = Nil
      BY <1>7 DEF IInv, NothingUndefined
    <3> QED
      BY <3>1 DEF Mem
  <2>7. Mem' = [Mem EXCEPT ![u] = Top[s - Frame.base + 1]]
    <3>1. Deref(u)' = stack[s]
      BY <1>1, <1>2 DEF Deref
    <3> QED
      BY <1>4, <1>5, <2>5, <3>1 DEF Mem
  <2> QED
    BY <1>1, <1>3, <1>4, <2>4, <2>5, <2>6, <2>7 DEF Abstract!Capture
<1> QED
  BY <1>2, <1>6, <1>7

(***************************************************************************)
(* Calls and returns: the windows change.                                  *)
(***************************************************************************)

(* A sequence cut at its k-th element: what stands before it, and what     *)
(* follows it, after another element.                                      *)
CutBefore(r, q, k) ==
  /\ Len(r) = k - 1
  /\ \A j \in 1 .. k - 1 : r[j] = q[j]

CutAfter(p, q, k, v) ==
  /\ Len(p) = Len(q) - k + 1 /\ p[1] = v
  /\ \A j \in 2 .. Len(p) : p[j] = q[k + j - 1]

(* SubSeq on both sides of one changed element.                            *)
LEMMA Cut ==
  ASSUME NEW S, NEW q \in Seq(S), NEW k \in 1 .. Len(q), NEW v \in S
  PROVE  /\ SubSeq(q, 1, k - 1) \in Seq(S) /\ CutBefore(SubSeq(q, 1, k - 1), q, k)
         /\ <<v>> \o SubSeq(q, k + 1, Len(q)) \in Seq(S)
         /\ CutAfter(<<v>> \o SubSeq(q, k + 1, Len(q)), q, k, v)
<1>1. Len(q) \in Nat /\ \A j \in 1 .. Len(q) : q[j] \in S
  BY ElementOfSeq, LenProperties
<1> DEFINE r == SubSeq(q, 1, k - 1)
           t == SubSeq(q, k + 1, Len(q))
<1>2. r \in Seq(S) /\ Len(r) = k - 1 /\ \A j \in 1 .. k - 1 : r[j] = q[j]
  <2>1. \A j \in 1 .. k - 1 : q[j] \in S
    BY <1>1
  <2>2. k - 1 \in Int /\ k \in Nat
    BY <1>1
  <2> QED
    BY <2>1, <2>2, SubSeqProperties
<1>3. t \in Seq(S) /\ Len(t) = Len(q) - k /\ \A j \in 1 .. Len(t) : t[j] = q[k + j]
  <2>1. \A j \in k + 1 .. Len(q) : q[j] \in S
    BY <1>1
  <2>2. k + 1 \in Int /\ Len(q) \in Int /\ k \in Nat /\ k <= Len(q)
    BY <1>1
  <2> QED
    BY <2>1, <2>2, SubSeqProperties
<1> HIDE DEF r, t
<1>4. <<v>> \in Seq(S) /\ Len(<<v>>) = 1 /\ <<v>>[1] = v
  OBVIOUS
<1> DEFINE p == <<v>> \o t
<1>5. /\ p \in Seq(S) /\ Len(p) = 1 + Len(t)
      /\ \A i \in 1 .. 1 + Len(t) : p[i] = IF i <= 1 THEN v ELSE t[i - 1]
  BY <1>3, <1>4, ConcatProperties
<1> HIDE DEF p
<1>6. Len(t) \in Nat /\ k \in Nat /\ Len(q) \in Nat
  BY <1>1, <1>3
<1>7. Len(p) = Len(q) - k + 1 /\ p[1] = v
  BY <1>3, <1>5, <1>6
<1>8. ASSUME NEW j \in 2 .. Len(p)
      PROVE  p[j] = q[k + j - 1]
  <2>1. j \in Nat /\ j \in 1 .. 1 + Len(t) /\ ~ (j <= 1) /\ j - 1 \in 1 .. Len(t)
    BY <1>5, <1>6
  <2>2. p[j] = t[j - 1]
    BY <1>5, <2>1
  <2>3. t[j - 1] = q[k + (j - 1)]
    BY <1>3, <2>1
  <2>4. k + (j - 1) = k + j - 1
    BY <1>6, <2>1
  <2> QED
    BY <2>2, <2>3, <2>4
<1> QED
  BY <1>2, <1>5, <1>7, <1>8 DEF r, t, p, CutBefore, CutAfter

(* The last element replaced and another appended.                         *)
LEMMA ReplacedAndAppended ==
  ASSUME NEW S, NEW q \in Seq(S), NEW L \in Nat \ {0}, Len(q) = L,
         NEW e \in S, NEW n \in S, NEW r \in Seq(S), Len(r) = L + 1,
         \A i \in 1 .. L : i # L => r[i] = q[i],
         r[L] = e, r[L + 1] = n
  PROVE  r = Append([q EXCEPT ![L] = e], n)
<1> DEFINE p == [q EXCEPT ![L] = e]
<1>1. p \in Seq(S) /\ Len(p) = L /\ \A i \in 1 .. L : p[i] = IF i = L THEN e ELSE q[i]
  BY ExceptSeq
<1> HIDE DEF p
<1>2. /\ Append(p, n) \in Seq(S) /\ Len(Append(p, n)) = L + 1
      /\ \A i \in 1 .. L : Append(p, n)[i] = p[i]
      /\ Append(p, n)[L + 1] = n
  BY <1>1, AppendProperties
<1>3. ASSUME NEW i \in 1 .. Len(r)
      PROVE  r[i] = Append(p, n)[i]
  <2>1. CASE i = L + 1
    BY <1>2, <2>1
  <2>2. CASE i \in 1 .. L
    BY <1>1, <1>2, <2>2
  <2>3. i \in 1 .. L + 1
    BY <1>3
  <2>4. i = L + 1 \/ i \in 1 .. L
    BY <2>3
  <2> QED
    BY <2>1, <2>2, <2>4
<1>4. r = Append(p, n)
  BY <1>2, <1>3, SeqEqual
<1> QED
  BY <1>4 DEF p

(* A call: the callee and its arguments change windows.                    *)
LEMMA CallRefines ==
  ASSUME IInv, IInv', Repl = FALSE, NEW s \in Slots, Callee(s), NEW v \in Objects,
         NEW c \in Closures, Len(frames) < FramesMax,
         stack' = [stack EXCEPT ![s] = v],
         frames' = Append(frames, [base |-> s, closure |-> c]),
         UNCHANGED <<top, status, memory>>
  PROVE  Abstract!Call(v, c)
<1>1. /\ Active /\ Active' /\ s \in Nat /\ First <= s /\ s < top
      /\ \A t \in captured : t < s
      /\ UNCHANGED <<top, location, closed, open, captures, captured>>
  BY CalleeFacts DEF Active, memory
<1>2. PICK L \in Nat \ {0}, b \in Nat, e \in Nat, q \in Seq(EntryKinds) :
        L = Len(frames) /\ b = Frame.base /\ e = top /\ q = Top
  <2>1. Len(frames) \in Nat \ {0} /\ Frame.base \in Nat /\ top \in Nat
    BY <1>1, RunningFrame
  <2>2. Top \in Seq(EntryKinds)
    BY <1>1, TopActivation
  <2> QED
    BY <2>1, <2>2
<1>3. /\ Len(frames') = L + 1
      /\ \A i \in 1 .. L : frames'[i] = frames[i]
      /\ frames'[L + 1] = [base |-> s, closure |-> c]
  BY <1>2 DEF IInv, TypeOK
<1>4. /\ L \in 1 .. L /\ L + 1 \in 1 .. L + 1 /\ L # L + 1
      /\ \A i \in 1 .. L : i \in 1 .. L + 1 /\ i # L + 1
      /\ \A i \in 1 .. L : i # L => i + 1 \in 1 .. L /\ i < L
  OBVIOUS
<1>5. /\ Abstract!Running /\ Abstract!Height = Len(q) /\ Abstract!Act.entries = q
      /\ Len(q) = e - b
      /\ \A t \in Slots : b <= t /\ t < e =>
           t - b + 1 \in 1 .. Len(q) /\ q[t - b + 1] = Entry(t)
  BY <1>1, <1>2, TopActivation
<1>6. PICK k \in 1 .. Len(q) : k = s - b + 1 /\ k \in Nat /\ b <= s /\ s < e
  <2>1. First \in Nat /\ b <= First
    BY <1>1, <1>2, RunningFrame
  <2>2. b <= s /\ s < e
    BY <1>1, <1>2, <2>1
  <2>3. s - b + 1 \in 1 .. Len(q)
    BY <1>5, <2>2
  <2> QED
    BY <1>1, <2>2, <2>3
<1>7. ASSUME NEW t \in Slots, t # s
      PROVE  Entry(t)' = Entry(t)
  <2>1. stack'[t] = stack[t]
    BY <1>7 DEF IInv, TypeOK
  <2> QED
    BY <1>1, <2>1, EntryStays
<1>8. Entry(s)' = v
  <2>1. s \notin captured'
    BY <1>1
  <2>2. Entry(s)' = stack'[s]
    BY <2>1, StepFacts DEF EntryFacts
  <2> QED
    BY <2>2 DEF IInv, TypeOK
<1>9. PICK r, p : /\ r = SubSeq(q, 1, k - 1) /\ p = <<v>> \o SubSeq(q, k + 1, Len(q))
  OBVIOUS
<1>10. /\ r \in Seq(EntryKinds) /\ CutBefore(r, q, k)
       /\ p \in Seq(EntryKinds) /\ CutAfter(p, q, k, v)
  <2>1. v \in EntryKinds
    BY DEF EntryKinds
  <2> QED
    BY <1>9, <2>1, Cut
<1>11. ASSUME NEW i \in 1 .. L, i # L
       PROVE  Entries(i)' = Entries(i)
  <2>1. frames'[i] = frames[i] /\ frames'[i + 1] = frames[i + 1]
    BY <1>3, <1>4, <1>11
  <2>2. WindowEnd(i)' = WindowEnd(i)
    BY <1>2, <1>3, <1>4, <1>11, <2>1 DEF WindowEnd
  <2>3. WindowEnd(i) <= b /\ WindowEnd(i) \in Nat
    BY <1>1, <1>2, <1>4, <1>11, StepFacts DEF WindowFacts
  <2>4. ASSUME NEW t \in Slots, t < WindowEnd(i)
        PROVE  Entry(t)' = Entry(t)
    <3>1. t \in Nat
      BY OpenFacts
    <3>2. t # s
      BY <1>1, <1>6, <2>3, <2>4, <3>1
    <3> QED
      BY <1>7, <3>2
  <2> QED
    BY <1>1, <1>2, <1>3, <1>4, <2>1, <2>2, <2>4, WindowSame
<1>12. Entries(L)' = r
  <2>1. WindowEnd(L)' = s /\ frames'[L].base = b
    BY <1>2, <1>3, <1>4 DEF WindowEnd, Frame
  <2>2. Len(r) = s - b
    BY <1>1, <1>6, <1>10 DEF CutBefore
  <2>3. ASSUME NEW t \in Slots, b <= t, t < s
        PROVE  Entry(t)' = r[t - b + 1]
    <3>1. t \in Nat
      BY OpenFacts
    <3>2. t # s /\ t < e /\ t - b + 1 \in 1 .. k - 1
      BY <1>1, <1>6, <2>3, <3>1
    <3>3. r[t - b + 1] = q[t - b + 1]
      BY <1>10, <3>2 DEF CutBefore
    <3> QED
      BY <1>5, <1>7, <2>3, <3>2, <3>3
  <2>4. L \in 1 .. Len(frames')
    BY <1>3, <1>4
  <2>5. Active' /\ s \in Nat /\ r \in Seq(EntryKinds)
    BY <1>1, <1>10
  <2> QED
    BY <2>1, <2>2, <2>3, <2>4, <2>5, WindowIs
<1>13. Entries(L + 1)' = p
  <2>1. WindowEnd(L + 1)' = e /\ frames'[L + 1].base = s
    BY <1>1, <1>2, <1>3 DEF WindowEnd
  <2>2. Len(p) = e - s /\ p[1] = v
    <3>1. Len(p) = (e - b) - k + 1 /\ p[1] = v
      BY <1>5, <1>10 DEF CutAfter
    <3>2. (e - b) - k + 1 = e - s
      BY <1>1, <1>6
    <3> QED
      BY <3>1, <3>2
  <2>3. ASSUME NEW t \in Slots, s <= t, t < e
        PROVE  Entry(t)' = p[t - s + 1]
    <3>1. t \in Nat
      BY OpenFacts
    <3>2. CASE t = s
      <4>1. t - s + 1 = 1
        BY <1>1, <3>2
      <4> QED
        BY <1>8, <2>2, <3>2, <4>1
    <3>3. CASE t # s
      <4>1. t - s + 1 \in 2 .. Len(p) /\ k + (t - s + 1) - 1 = t - b + 1 /\ b <= t
        BY <1>1, <1>6, <2>2, <2>3, <3>1, <3>3
      <4>2. p[t - s + 1] = q[k + (t - s + 1) - 1]
        BY <1>10, <4>1 DEF CutAfter
      <4>3. q[t - b + 1] = Entry(t)
        BY <1>5, <2>3, <4>1
      <4> QED
        BY <1>7, <3>3, <4>1, <4>2, <4>3
    <3> QED
      BY <3>2, <3>3
  <2>4. L + 1 \in 1 .. Len(frames')
    BY <1>3, <1>4
  <2>5. Active' /\ s \in Nat /\ p \in Seq(EntryKinds) /\ Len(p) = e - s
    BY <1>1, <1>10, <2>2
  <2> QED
    BY <2>1, <2>3, <2>4, <2>5, WindowIs
<1>14. Mem' = Mem
  <2>1. s \notin captured
    BY <1>1
  <2> QED
    BY <1>1, <2>1, StackWritten
<1>15. /\ Acts \in Seq(AbstractAct) /\ Len(Acts) = L
       /\ \A i \in 1 .. L : Acts[i] = [entries |-> Entries(i), closure |-> frames[i].closure]
       /\ Acts' \in Seq(AbstractAct) /\ Len(Acts') = L + 1
       /\ \A i \in 1 .. L + 1 :
            Acts'[i] = [entries |-> Entries(i)', closure |-> frames'[i].closure]
  BY <1>1, <1>2, <1>3, StepFacts DEF ActsFacts
<1>16. /\ [Acts[L] EXCEPT !.entries = r] = [entries |-> r, closure |-> frames[L].closure]
       /\ Acts'[L] = [entries |-> r, closure |-> frames[L].closure]
       /\ Acts'[L + 1] = [entries |-> p, closure |-> c]
       /\ Acts'[L] \in AbstractAct /\ Acts'[L + 1] \in AbstractAct
  <2>1. Acts[L] = [entries |-> Entries(L), closure |-> frames[L].closure]
    BY <1>4, <1>15
  <2>2. Acts'[L] = [entries |-> r, closure |-> frames[L].closure]
    BY <1>3, <1>4, <1>12, <1>15
  <2>3. Acts'[L + 1] = [entries |-> p, closure |-> c]
    BY <1>3, <1>4, <1>13, <1>15
  <2>4. Acts'[L] \in AbstractAct /\ Acts'[L + 1] \in AbstractAct
    BY <1>4, <1>15, ElementOfSeq
  <2> QED
    BY <2>1, <2>2, <2>3, <2>4
<1>17. \A i \in 1 .. L : i # L => Acts'[i] = Acts[i]
  BY <1>3, <1>4, <1>11, <1>15
<1>18. Acts' = Append([Acts EXCEPT ![L] = Acts'[L]], Acts'[L + 1])
  <2>1. PICK q1, r1 : q1 = Acts /\ r1 = Acts'
    OBVIOUS
  <2>2. r1 = Append([q1 EXCEPT ![L] = r1[L]], r1[L + 1])
    BY <1>15, <1>16, <1>17, <2>1, ReplacedAndAppended
  <2> QED
    BY <2>1, <2>2
<1>19. Acts[L].entries = q
  <2>1. Acts[L].entries = Entries(L)
    BY <1>4, <1>15
  <2>2. Entries(L) = q
    BY <1>2 DEF Top
  <2> QED
    BY <2>1, <2>2
<1>20. Acts' = Append([Acts EXCEPT ![Len(Acts)].entries = SubSeq(@, 1, k - 1)],
                      [entries |-> <<v>> \o SubSeq(q, k + 1, Len(q)), closure |-> c])
  <2>1. SubSeq(Acts[L].entries, 1, k - 1) = r
    BY <1>9, <1>19
  <2>2. [Acts EXCEPT ![L].entries = SubSeq(@, 1, k - 1)] =
          [Acts EXCEPT ![L] = [Acts[L] EXCEPT !.entries = r]]
    BY <2>1
  <2>3. Acts'[L] = [Acts[L] EXCEPT !.entries = r]
    BY <1>16
  <2>4. Acts'[L + 1] = [entries |-> <<v>> \o SubSeq(q, k + 1, Len(q)), closure |-> c]
    BY <1>9, <1>16
  <2>5. Len(Acts) = L
    BY <1>15
  <2> QED
    BY <1>18, <2>2, <2>3, <2>4, <2>5
<1> QED
  BY <1>1, <1>2, <1>5, <1>14, <1>15, <1>20 DEF Abstract!Call

(* A return: the caller's window gets the result in place of the call.     *)
LEMMA ReturnRefines ==
  ASSUME IInv, IInv', Repl = FALSE, status = "running", Len(frames) # 1,
         NEW v \in Objects, NEW n, LeaveFrame(v, n)
  PROVE  Abstract!Return(v)
<1>1. /\ Active /\ Active' /\ captures' = captures
      /\ CloseUpvalues(Frame.base)
      /\ frames' = SubSeq(frames, 1, Len(frames) - 1)
      /\ stack' = [stack EXCEPT ![Frame.base] = v] /\ top' = Frame.base + 1
  BY DEF LeaveFrame, Active, CloseUpvalues
<1>2. PICK L \in Nat \ {0}, b \in Slots : Len(frames) = L + 1 /\ b = Frame.base /\ b \in Nat
  <2>1. Len(frames) \in Nat \ {0} /\ Frame.base \in Nat /\ top \in 0 .. StackMax /\ First <= top
        /\ Frame.closure # Nil
    <3>1. Len(frames) \in Nat \ {0}
      BY <1>1, RunningFrame
    <3>2. Len(frames) > 1
      BY <3>1, OneOrMore
    <3> QED
      BY <1>1, <3>2, RunningFrame
  <2>2. Frame.base \in Slots
    BY <2>1, LimitsAssumption DEF First, Slots
  <2>3. Len(frames) - 1 \in Nat \ {0} /\ Len(frames) = (Len(frames) - 1) + 1
    BY <2>1, OneOrMore
  <2> QED
    BY <2>1, <2>2, <2>3
<1>3. /\ L \in 1 .. L /\ L + 1 \in 1 .. L + 1 /\ L # L + 1
      /\ \A i \in 1 .. L : i \in 1 .. L + 1 /\ i # L + 1 /\ i < L + 1
      /\ \A i \in 1 .. L : i # L => i + 1 \in 1 .. L
  OBVIOUS
<1>4. Len(frames') = L /\ \A i \in 1 .. L : frames'[i] = frames[i]
  <2>1. Len(frames) - 1 = L
    BY <1>2
  <2> QED
    BY <1>1, <2>1, FrameLeft
<1>5. /\ captured' = {t \in captured : t < b}
      /\ \A u \in Upvalues : location[u] \in Slots /\ location[u] < b =>
                               location'[u] = location[u]
  <2>1. ASSUME NEW u \in Upvalues, location[u] \in Slots, location[u] < b
        PROVE  ~ (location[u] \in Slots /\ location[u] >= b)
    <3>1. location[u] \in Nat
      BY <2>1, OpenFacts
    <3> QED
      BY <1>2, <2>1, <3>1
  <2> QED
    BY <1>1, <1>2, <2>1, UpvaluesClosed
<1>6. ASSUME NEW t \in Slots, t < b
      PROVE  Entry(t)' = Entry(t)
  <2>1. t # b
    BY <1>2, <1>6, OpenFacts
  <2>2. stack'[t] = stack[t]
    BY <1>1, <1>2, <2>1 DEF IInv, TypeOK
  <2>3. t \in captured' <=> t \in captured
    BY <1>5, <1>6
  <2>4. \A u \in Upvalues : location[u] = t => location'[u] = t
    BY <1>5, <1>6
  <2> QED
    BY <2>2, <2>3, <2>4, EntryStays
<1>7. Entry(b)' = v
  <2>1. b \notin captured'
    BY <1>2, <1>5
  <2>2. Entry(b)' = stack'[b]
    BY <2>1, StepFacts DEF EntryFacts
  <2> QED
    BY <1>1, <1>2, <2>2 DEF IInv, TypeOK
<1>8. Mem' = Mem
  <2>1. \A t \in Slots : t < b => stack'[t] = stack[t]
    <3> SUFFICES ASSUME NEW t \in Slots, t < b
                 PROVE  stack'[t] = stack[t]
      OBVIOUS
    <3>1. t # b
      BY <1>2, OpenFacts
    <3> QED
      BY <1>1, <1>2, <3>1 DEF IInv, TypeOK
  <2>2. \A u \in Upvalues : Deref(u)' = Deref(u)
    BY <1>1, <1>2, <2>1, ClosingKeeps
  <2> QED
    BY <2>2, CellsKept
<1>9. ASSUME NEW i \in 1 .. L
      PROVE  WindowEnd(i) = frames[i + 1].base /\ WindowEnd(i) <= b /\ WindowEnd(i) \in Nat
  BY <1>1, <1>2, <1>3, StepFacts DEF WindowEnd, WindowFacts
<1>10. ASSUME NEW i \in 1 .. L, i # L
       PROVE  Entries(i)' = Entries(i)
  <2>1. WindowEnd(i)' = WindowEnd(i)
    BY <1>3, <1>4, <1>9, <1>10 DEF WindowEnd
  <2>2. ASSUME NEW t \in Slots, t < WindowEnd(i)
        PROVE  Entry(t)' = Entry(t)
    <3>1. t < b
      BY <1>2, <1>9, <2>2, OpenFacts
    <3> QED
      BY <1>6, <3>1
  <2> QED
    BY <1>1, <1>2, <1>3, <1>4, <2>1, <2>2, WindowSame
<1>11. PICK q, a : q = Entries(L) /\ a = frames[L].base
  OBVIOUS
<1>12. /\ q \in Seq(EntryKinds) /\ a \in Nat /\ a <= b /\ Len(q) = b - a
       /\ \A k \in 1 .. Len(q) : q[k] = Entry(a + k - 1)
  <2>1. WindowEnd(L) = b
    BY <1>2, <1>3, <1>9 DEF Frame
  <2> QED
    BY <1>1, <1>2, <1>3, <1>11, <2>1, StepFacts DEF EntriesFacts, WindowFacts
<1>13. Entries(L)' = Append(q, v)
  <2> DEFINE r == Append(q, v)
  <2>1. /\ r \in Seq(EntryKinds) /\ Len(r) = Len(q) + 1
        /\ \A k \in 1 .. Len(q) : r[k] = q[k]
        /\ r[Len(q) + 1] = v
    BY <1>12, AppendProperties DEF EntryKinds
  <2> HIDE DEF r
  <2>2. WindowEnd(L)' = b + 1 /\ frames'[L].base = a
    <3>1. Frame' = frames'[L] /\ top' = b + 1
      BY <1>1, <1>2, <1>4 DEF Frame
    <3> QED
      BY <1>3, <1>4, <1>11, <3>1 DEF WindowEnd
  <2>3. Len(r) = (b + 1) - a
    BY <1>2, <1>12, <2>1
  <2>4. ASSUME NEW t \in Slots, a <= t, t < b + 1
        PROVE  Entry(t)' = r[t - a + 1]
    <3>1. t \in Nat
      BY OpenFacts
    <3>2. CASE t = b
      <4>1. t - a + 1 = Len(q) + 1
        BY <1>2, <1>12, <3>2
      <4> QED
        BY <1>7, <2>1, <3>2, <4>1
    <3>3. CASE t # b
      <4>1. t < b /\ t - a + 1 \in 1 .. b - a /\ a + (t - a + 1) - 1 = t
        BY <1>2, <1>12, <2>4, <3>1, <3>3
      <4>2. q[t - a + 1] = Entry(t) /\ r[t - a + 1] = q[t - a + 1]
        BY <1>12, <2>1, <4>1
      <4> QED
        BY <1>6, <4>1, <4>2
    <3> QED
      BY <3>2, <3>3
  <2>5. L \in 1 .. Len(frames')
    BY <1>3, <1>4
  <2>6. Active' /\ a \in Nat /\ b + 1 \in Nat /\ r \in Seq(EntryKinds)
    <3>1. Active' /\ a \in Nat /\ b \in Nat /\ r \in Seq(EntryKinds)
      BY <1>1, <1>2, <1>12, <2>1
    <3> QED
      BY <3>1
  <2>7. Entries(L)' = r
    BY <2>2, <2>3, <2>4, <2>5, <2>6, WindowIs
  <2> QED
    BY <2>7 DEF r
<1>14. /\ Acts \in Seq(AbstractAct) /\ Len(Acts) = L + 1
       /\ \A i \in 1 .. L + 1 :
            Acts[i] = [entries |-> Entries(i), closure |-> frames[i].closure]
       /\ Acts' \in Seq(AbstractAct) /\ Len(Acts') = L
       /\ \A i \in 1 .. L :
            Acts'[i] = [entries |-> Entries(i)', closure |-> frames'[i].closure]
  BY <1>1, <1>2, <1>4, StepFacts DEF ActsFacts
<1>15. \A i \in 1 .. L : i # L => Acts'[i] = Acts[i]
  BY <1>3, <1>4, <1>10, <1>14
<1>16. /\ Acts[L] = [entries |-> q, closure |-> frames[L].closure]
       /\ Acts'[L] = [entries |-> Append(q, v), closure |-> frames[L].closure]
       /\ Acts'[L] \in AbstractAct
  <2>1. Acts'[L] \in AbstractAct
    BY <1>3, <1>14, ElementOfSeq
  <2> QED
    BY <1>3, <1>4, <1>11, <1>13, <1>14, <2>1
<1>17. PICK m : m = SubSeq(Acts, 1, L)
  OBVIOUS
<1>18. m \in Seq(AbstractAct) /\ Len(m) = L /\ \A i \in 1 .. L : m[i] = Acts[i]
  <2>1. \A i \in 1 .. L : Acts[i] \in AbstractAct
    BY <1>3, <1>14, ElementOfSeq
  <2>2. L \in Int /\ 1 <= L
    OBVIOUS
  <2> QED
    BY <1>17, <2>1, <2>2, SubSeqProperties
<1>19. Acts' = [m EXCEPT ![L] = Acts'[L]]
  <2>1. PICK r : r = Acts'
    OBVIOUS
  <2>2. /\ [m EXCEPT ![L] = r[L]] \in Seq(AbstractAct) /\ Len([m EXCEPT ![L] = r[L]]) = L
        /\ \A i \in 1 .. L : [m EXCEPT ![L] = r[L]][i] = IF i = L THEN r[L] ELSE m[i]
    BY <1>3, <1>16, <1>18, <2>1, ExceptSeq
  <2>3. \A i \in 1 .. L : r[i] = [m EXCEPT ![L] = r[L]][i]
    BY <1>15, <1>18, <2>1, <2>2
  <2>4. r = [m EXCEPT ![L] = r[L]]
    BY <1>14, <2>1, <2>2, <2>3, SeqEqual
  <2> QED
    BY <2>1, <2>4
<1>20. Acts' = [SubSeq(Acts, 1, L) EXCEPT ![L].entries = Append(@, v)]
  <2>1. m[L] = [entries |-> q, closure |-> frames[L].closure]
    BY <1>3, <1>16, <1>18
  <2>2. [m[L] EXCEPT !.entries = Append(@, v)] =
          [entries |-> Append(q, v), closure |-> frames[L].closure]
    <3>1. m[L].entries = q
      BY <2>1
    <3>2. PICK w : w = Append(q, v)
      OBVIOUS
    <3>3. [m[L] EXCEPT !.entries = w] = [entries |-> w, closure |-> frames[L].closure]
      BY <2>1
    <3> QED
      BY <3>1, <3>2, <3>3
  <2>3. [m EXCEPT ![L].entries = Append(@, v)] =
          [m EXCEPT ![L] = [m[L] EXCEPT !.entries = Append(@, v)]]
    OBVIOUS
  <2> QED
    BY <1>16, <1>17, <1>19, <2>2, <2>3
<1>21. Len(Acts) > 1 /\ Len(Acts) - 1 = L
  BY <1>14
<1> QED
  BY <1>1, <1>8, <1>20, <1>21 DEF Abstract!Return

(***************************************************************************)
(* The actions, one by one. A step of the machine that fails ends the      *)
(* abstract script.                                                        *)
(***************************************************************************)

(* Popping operands and pushing a result drops entries.                    *)
LEMMA StackStep ==
  ASSUME IInv, IInv', Repl = FALSE, NEW n \in Pops, NEW v \in Reachable, Replace(n, v)
  PROVE  Abstract!Drop
<1>1. /\ Active /\ Active'
      /\ UNCHANGED <<frames, location, closed, captures, captured>>
      /\ stack' = [stack EXCEPT ![top - n] = v] /\ top' = top - n + 1
      /\ Operands(n) /\ top - n < StackMax
  BY DEF Replace, Active, memory
<1>2. PICK s \in Slots : s = top - n
  <2>1. First \in Nat /\ top \in Nat /\ n \in Nat /\ top - n >= First /\ top - n < StackMax
    BY <1>1, RunningFrame DEF Operands, Pops
  <2> QED
    BY <2>1, LimitsAssumption DEF Slots
<1>3. Frame.base <= s /\ s <= top
  <2>1. First \in Nat /\ top \in Nat /\ n \in Nat /\ top - n >= First
        /\ Frame.base <= First /\ Frame.base \in Nat
    BY <1>1, RunningFrame DEF Operands, Pops
  <2> QED
    BY <1>2, <2>1
<1>4. \A t \in captured : t < s
  BY <1>1, <1>2 DEF Operands
<1>5. v \in Objects
  BY DEF Reachable, Objects, IInv, TypeOK
<1>6. stack' = [stack EXCEPT ![s] = v] /\ top' = s + 1
  BY <1>1, <1>2
<1> QED
  BY <1>1, <1>3, <1>4, <1>5, <1>6, ReplaceRefines

(* OP_POP drops one entry.                                                 *)
LEMMA PopStepRefines ==
  ASSUME IInv, IInv', Repl = FALSE, Pop
  PROVE  Abstract!Drop
<1>1. /\ Active /\ Active' /\ Operands(1) /\ top' = top - 1
      /\ UNCHANGED <<stack, frames, location, closed, captures, captured>>
  BY DEF Pop, Active, memory
<1>2. /\ First \in Nat /\ top \in 0 .. StackMax /\ StackMax \in Nat /\ top - 1 >= First
      /\ Frame.base <= First /\ Frame.base \in Nat
  BY <1>1, RunningFrame, LimitsAssumption DEF Operands
<1>3. PICK s \in Slots : s = top - 1
  BY <1>2 DEF Slots
<1>4. Frame.base <= s /\ s <= top
  BY <1>2, <1>3
<1>5. captured' = {t \in captured : t < s}
  BY <1>1, <1>3 DEF Operands
<1>6. Mem' = Mem
  BY <1>1, MemSame
<1> QED
  BY <1>1, <1>3, <1>4, <1>5, <1>6, DropRefines

(* OP_CLOSE_UPVALUE drops the entry of a local; its cell stays.            *)
LEMMA CloseLocalRefines ==
  ASSUME IInv, IInv', Repl = FALSE, CloseLocal
  PROVE  Abstract!Drop
<1>1. /\ Active /\ Active' /\ top > First /\ top' = top - 1
      /\ CloseUpvalues(top - 1)
      /\ UNCHANGED <<stack, frames, captures>>
  BY DEF CloseLocal, CloseUpvalues, Active
<1>2. /\ First \in Nat /\ top \in 0 .. StackMax /\ StackMax \in Nat
      /\ Frame.base <= First /\ Frame.base \in Nat
  BY <1>1, RunningFrame, LimitsAssumption
<1>3. PICK s \in Slots : s = top - 1 /\ s \in Nat
  BY <1>1, <1>2 DEF Slots
<1>4. Frame.base <= s /\ s <= top
  BY <1>1, <1>2, <1>3
<1>5. CloseUpvalues(s)
  BY <1>1, <1>3
<1>6. /\ captured' = {t \in captured : t < s}
      /\ \A u \in Upvalues : location[u] \in Slots /\ location[u] < s =>
                               location'[u] = location[u]
  <2>1. ASSUME NEW u \in Upvalues, location[u] \in Slots, location[u] < s
        PROVE  ~ (location[u] \in Slots /\ location[u] >= s)
    <3>1. location[u] \in Nat
      BY <2>1, OpenFacts
    <3> QED
      BY <1>3, <2>1, <3>1
  <2> QED
    BY <1>3, <1>5, <2>1, UpvaluesClosed
<1>7. Mem' = Mem
  <2>1. \A u \in Upvalues : Deref(u)' = Deref(u)
    BY <1>1, <1>3, <1>5, ClosingKeeps
  <2> QED
    BY <2>1, CellsKept
<1> QED
  BY <1>1, <1>3, <1>4, <1>6, <1>7, DropRefines

(* OP_CLOSURE pushes a closure that shares nothing yet.                    *)
LEMMA MakeClosureRefines ==
  ASSUME IInv, IInv', Repl = FALSE, NEW c \in Closures, MakeClosure(c)
  PROVE  Abstract!Drop
<1>1. /\ Active /\ Active' /\ top < StackMax
      /\ UNCHANGED <<frames, location, closed, captures, captured>>
      /\ stack' = [stack EXCEPT ![top] = c] /\ top' = top + 1
  BY DEF MakeClosure, Active
<1>2. top \in Nat /\ Frame.base <= top /\ top <= top
  BY <1>1, RunningFrame
<1>3. top \in Slots
  BY <1>1, <1>2, LimitsAssumption DEF Slots
<1>4. \A t \in captured : t < top
  BY <1>1 DEF IInv, WindowsNested
<1>5. PICK s \in Slots : s = top
  BY <1>3
<1> QED
  BY <1>1, <1>2, <1>4, <1>5, ReplaceRefines DEF Objects

(* What a callee that is not a function leaves in its place.               *)
LEMMA ResultRefines ==
  ASSUME IInv, IInv', Repl = FALSE, NEW s \in Slots, Callee(s), NEW v \in Values,
         stack' = [stack EXCEPT ![s] = v], top' = s + 1, status' = "running",
         UNCHANGED <<frames, memory>>
  PROVE  Abstract!Drop
<1>1. Active /\ Active' /\ s \in Nat /\ First <= s /\ s < top /\ \A t \in captured : t < s
  BY CalleeFacts DEF Active
<1>2. Frame.base <= s /\ s <= top
  BY <1>1, RunningFrame
<1> QED
  BY <1>1, <1>2, ReplaceRefines DEF Objects, memory

(* A call that fails.                                                      *)
LEMMA FailedCall ==
  ASSUME IInv, Repl = FALSE, NEW s \in Slots, Callee(s), NEW v,
         stack' = [stack EXCEPT ![s] = v], status' = "failed", UNCHANGED memory
  PROVE  Abstract!End
<1>1. Active /\ ~ Active' /\ s \notin captured
  <2>1. \A t \in captured : t < s
    BY CalleeFacts
  <2>2. s \in Nat
    BY OpenFacts
  <2> QED
    BY <2>1, <2>2, CalleeFacts DEF Active
<1>2. Mem' = Mem
  BY <1>1, StackWritten DEF memory
<1> QED
  BY <1>1, <1>2, EndRefines DEF memory

(* A call opens an activation on the arguments, or ends the script.        *)
LEMMA EnterRefines ==
  ASSUME IInv, IInv', Repl = FALSE, NEW s \in Slots, Callee(s), NEW v \in Objects,
         NEW c \in Closures, Enter(s, v, c)
  PROVE  Abstract!Call(v, c) \/ Abstract!End
<1>1. CASE /\ Len(frames) < FramesMax
           /\ frames' = Append(frames, [base |-> s, closure |-> c])
           /\ UNCHANGED status
  <2>1. stack' = [stack EXCEPT ![s] = v] /\ UNCHANGED <<top, memory>>
    BY DEF Enter
  <2> QED
    BY <1>1, <2>1, CallRefines
<1>2. CASE status' = "failed"
  <2>1. stack' = [stack EXCEPT ![s] = v] /\ UNCHANGED memory
    BY DEF Enter
  <2> QED
    BY <1>2, <2>1, FailedCall
<1> QED
  BY <1>1, <1>2 DEF Enter

(* A return closes the activation, or ends the script.                     *)
LEMMA LeaveRefines ==
  ASSUME IInv, IInv', Repl = FALSE, status = "running", NEW v \in Objects, NEW n,
         LeaveFrame(v, n)
  PROVE  Abstract!Return(v) \/ Abstract!End
<1>1. CASE Len(frames) = 1
  <2>1. /\ Active /\ ~ Active' /\ stack' = stack /\ captures' = captures
        /\ CloseUpvalues(Frame.base) /\ Frame.base \in Nat
    <3>1. Active
      BY DEF Active
    <3> QED
      BY <1>1, <3>1, RunningFrame DEF LeaveFrame, CloseUpvalues, Active
  <2>2. \A u \in Upvalues : Deref(u)' = Deref(u)
    BY <2>1, ClosingKeeps
  <2> QED
    BY <2>1, <2>2, CellsKept, EndRefines
<1>2. CASE Len(frames) # 1
  BY <1>2, ReturnRefines
<1> QED
  BY <1>1, <1>2

(***************************************************************************)
(* The refinement.                                                         *)
(***************************************************************************)

(* The machine starts as the abstract one does.                            *)
LEMMA StackInit ==
  ASSUME Init
  PROVE  Abstract!Init
<1>1. Acts = <<>>
  BY DEF Init, Acts, Active
<1>2. Mem = [u \in Upvalues |-> Nil]
  BY LimitsAssumption DEF Init, Mem, Deref, Slots
<1>3. captures = [c \in Closures |-> <<>>]
  BY DEF Init
<1> QED
  BY <1>1, <1>2, <1>3 DEF Abstract!Init

(* A closure that is complete changes nothing abstract.                    *)
LEMMA StutterRefines ==
  ASSUME IInv, IInv', Repl = FALSE, ClosureMade \/ UNCHANGED vars
  PROVE  UNCHANGED Abstract!avars
<1>1. UNCHANGED <<stack, top, frames, location, closed, open, captures, captured>>
  BY DEF ClosureMade, vars, memory
<1>2. Mem' = Mem
  BY <1>1, MemSame
<1>3. Acts' = Acts
  <2>1. CASE Active /\ Active'
    <3>1. \A t \in Slots : Entry(t)' = Entry(t)
      BY <1>1, EntryStays
    <3> QED
      BY <1>1, <2>1, <3>1, SameActs
  <2>2. CASE ~ (Active /\ Active')
    <3>1. ~ Active /\ ~ Active'
      BY <2>2 DEF ClosureMade, Active, vars
    <3> QED
      BY <3>1 DEF Acts
  <2> QED
    BY <2>1, <2>2
<1> QED
  BY <1>1, <1>2, <1>3 DEF Abstract!avars

(* A script that halts or fails without touching the stack.                *)
LEMMA StopRefines ==
  ASSUME IInv, status = "running", status' \in {"halted", "failed"},
         UNCHANGED <<stack, memory>>
  PROVE  Abstract!End
<1>1. Active /\ ~ Active'
  BY DEF Active
<1>2. Mem' = Mem /\ captures' = captures
  BY MemSame DEF memory
<1> QED
  BY <1>1, <1>2, EndRefines

(* Every step is an abstract step or a stutter.                            *)
LEMMA StepRefines ==
  ASSUME IInv, IInv', Repl = FALSE, [Next]_vars
  PROVE  [Abstract!Next]_(Abstract!avars)
<1>1. ASSUME NEW s \in Slots, frames # <<>>, GetLocal(s)
      PROVE  Abstract!Drop
  <2>1. status = "running" /\ s < top
    BY <1>1 DEF GetLocal, Replace
  <2>2. stack[s] \in Reachable
    BY <2>1, ValuesRead DEF Active
  <2>3. PICK v \in Reachable : Replace(0, v)
    BY <1>1, <2>2 DEF GetLocal
  <2>4. 0 \in Pops
    BY DEF Pops
  <2> QED
    BY <2>3, <2>4, StackStep
<1>2. ASSUME frames # <<>>, Frame.closure # Nil,
             NEW i \in 1 .. Len(captures[Frame.closure]),
             GetUpvalue(captures[Frame.closure][i])
      PROVE  Abstract!Drop
  <2>1. Active
    BY <1>2 DEF GetUpvalue, Replace, Active
  <2>2. Deref(captures[Frame.closure][i]) \in Reachable
    BY <1>2, <2>1, OwnCaptures, ValuesRead
  <2>3. PICK v \in Reachable : Replace(0, v)
    BY <1>2, <2>2 DEF GetUpvalue
  <2>4. 0 \in Pops
    BY DEF Pops
  <2> QED
    BY <2>3, <2>4, StackStep
<1>3. ASSUME NEW s \in Slots, CallFunction(s)
      PROVE  \/ \E self \in Abstract!Objects, f \in Closures : Abstract!Call(self, f)
             \/ Abstract!End
  <2>1. PICK v \in Closures : v = stack[s] /\ Callee(s) /\ Enter(s, v, v)
    BY <1>3 DEF CallFunction
  <2>2. Abstract!Call(v, v) \/ Abstract!End
    BY <2>1, EnterRefines DEF Objects
  <2> QED
    BY <2>2 DEF Abstract!Objects
<1>4. ASSUME NEW s \in Slots, NEW self \in Values, NEW c \in made, CallMethod(s, self, c)
      PROVE  \/ \E v \in Abstract!Objects, f \in Closures : Abstract!Call(v, f)
             \/ Abstract!End
  <2>1. c \in Closures /\ self \in Objects
    BY DEF IInv, TypeOK, Objects
  <2>2. Abstract!Call(self, c) \/ Abstract!End
    BY <1>4, <2>1, EnterRefines DEF CallMethod
  <2> QED
    BY <2>1, <2>2 DEF Abstract!Objects, Objects
<1>5. ASSUME NEW s \in Slots, NEW v \in Values, CallNative(s, v)
      PROVE  Abstract!Drop
  <2>1. Callee(s) /\ status' = "running"
    BY <1>5 DEF CallNative, Callee
  <2> QED
    BY <1>5, <2>1, ResultRefines DEF CallNative
<1>6. ASSUME NEW s \in Slots, NEW v \in Values, CallClass(s, v)
      PROVE  Abstract!Drop \/ Abstract!End
  <2>1. CASE top = s + 1
    BY <1>6, <2>1, ResultRefines DEF CallClass
  <2>2. CASE top # s + 1
    BY <1>6, <2>2, FailedCall DEF CallClass
  <2> QED
    BY <2>1, <2>2
<1>7. ASSUME Return
      PROVE  (\E v \in Abstract!Objects : Abstract!Return(v)) \/ Abstract!End
  <2>1. status = "running" /\ Active /\ Operands(1) /\ LeaveFrame(stack[top - 1], 2)
    BY <1>7 DEF Return, Active
  <2>2. top - 1 \in Slots /\ top - 1 < top
    <3>1. First \in Nat /\ top \in 0 .. StackMax /\ top - 1 >= First
      BY <2>1, RunningFrame DEF Operands
    <3> QED
      BY <3>1, LimitsAssumption DEF Slots
  <2>3. stack[top - 1] \in Reachable
    BY <2>1, <2>2, ValuesRead
  <2>4. PICK v \in Objects : LeaveFrame(v, 2)
    BY <2>1, <2>3 DEF Reachable, Objects, IInv, TypeOK
  <2>5. Abstract!Return(v) \/ Abstract!End
    BY <2>1, <2>4, LeaveRefines
  <2> QED
    BY <2>5 DEF Abstract!Objects, Objects
<1>8. ASSUME NEW v \in Values, ReturnVoid(v)
      PROVE  (\E w \in Abstract!Objects : Abstract!Return(w)) \/ Abstract!End
  <2>1. Abstract!Return(v) \/ Abstract!End
    BY <1>8, LeaveRefines DEF ReturnVoid, Objects
  <2> QED
    BY <2>1 DEF Abstract!Objects
<1>9. CASE RunScript
  BY <1>9, BeginRefines DEF Abstract!Next
<1>10. CASE Halt \/ \E n \in Pops : Fail(n)
  BY <1>10, StopRefines DEF Halt, Fail, Abstract!Next
<1>11. CASE Reset
  BY <1>11 DEF Reset
<1>12. CASE \/ \E n \in Pops, v \in Reachable : Replace(n, v)
            \/ Pop \/ CloseLocal \/ \E c \in Closures : MakeClosure(c)
  BY <1>12, StackStep, PopStepRefines, CloseLocalRefines, MakeClosureRefines
     DEF Abstract!Next
<1>13. CASE /\ frames # <<>>
            /\ \E s \in Slots : GetLocal(s) \/ SetLocal(s)
  BY <1>1, <1>13, SetLocalRefines DEF Abstract!Next
<1>14. CASE /\ frames # <<>> /\ Frame.closure # Nil
            /\ \E i \in 1 .. Len(captures[Frame.closure]) :
                 LET u == captures[Frame.closure][i] IN
                   GetUpvalue(u) \/ SetUpvalue(u) \/ CaptureOuter(u)
  BY <1>2, <1>14, SetUpvalueRefines, CaptureOuterRefines DEF Abstract!Next
<1>15. CASE \E s \in Slots, u \in Upvalues : CaptureLocal(s, u)
  BY <1>15, CaptureLocalRefines DEF Abstract!Next
<1>16. CASE ClosureMade \/ UNCHANGED vars
  BY <1>16, StutterRefines
<1>17. CASE \/ \E s \in Slots : CallFunction(s)
            \/ \E s \in Slots, self \in Values, c \in made : CallMethod(s, self, c)
            \/ \E s \in Slots, v \in Values : CallNative(s, v) \/ CallClass(s, v)
  BY <1>3, <1>4, <1>5, <1>6, <1>17 DEF Abstract!Next
<1>18. CASE Return \/ \E v \in Values : ReturnVoid(v)
  BY <1>7, <1>8, <1>18 DEF Abstract!Next
<1> QED
  BY <1>9, <1>10, <1>11, <1>12, <1>13, <1>14, <1>15, <1>16, <1>17, <1>18 DEF Next

(* The stack machine of vm.c, with windows that overlap and variables that *)
(* move from their slot into an upvalue, runs a script as the machine of   *)
(* SkpClosures does: every activation has variables of its own, and what a *)
(* closure captured is one cell for all that use it.                       *)
THEOREM Implements ==
  ASSUME Repl = FALSE
  PROVE  Spec => ImplementsClosures
<1>1. Init => Abstract!Init
  BY StackInit
<1>2. IInv /\ IInv' /\ [Next]_vars => [Abstract!Next]_(Abstract!avars)
  BY StepRefines
<1> QED
  BY <1>1, <1>2, Invariance, PTL DEF Spec, ImplementsClosures, Abstract!Spec
=============================================================================
