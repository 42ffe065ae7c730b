--------------------------- MODULE SkpCode_proofs ---------------------------
(* What SkpCode shows of small programs, for every program and every value *)
(* of the constants.                                                       *)
(*                                                                         *)
(* The invariant says of the steps that are left what each of them finds:  *)
(* a frame has the contexts' open jumps, depths and how far the stack is   *)
(* above its account, and every step of todo leads from one frame to the   *)
(* next (Chain). The contexts fit the first frame (Fits), and their code   *)
(* is a row of instructions, each as its step wrote it (Laid).             *)
EXTENDS SkpCode, SequenceTheorems, TLAPS

-----------------------------------------------------------------------------
(* Frames.                                                                 *)
(* The operations that a step "op" or "name" emits.                        *)
OpArgs == {"CONST_NULL", "ADD", "NEG", "SET_INDEX", "CALL", "GET_INDEX", "CONST_LIST",
           "CONST_DICT", "RETURN", "RETURN_VOID", "POP", "INHERIT", "EQ"}
NameArgs == {"SET_FIELD", "GET_FIELD", "CLASS", "IMPORT", "EXPORT"}
Types == Lambdas \cup {"function", "method"}
Dos == {"expr", "stmt", "op", "name", "constant", "one", "variable", "begin", "endscope", "declare",
        "define", "if", "exit", "skip", "refuse", "else", "join", "start", "loop", "enter", "argument", "leave", "halt"}
Args == OpArgs \cup NameArgs \cup Types
          \cup {None, "statement", "declaration", "block", "SET", "GET", "ASSIGN", "var", "func",
                "class", "counter", "iterator", "unset"}
Steps == [do : Dos, arg : Args, n : Nat]

OpenMarks == [jump : {0, 1}, over : Int]
OpenMark(j, o) == [jump |-> j, over |-> o]
Shapes == [marks : Seq(OpenMarks), depth : Nat, pending : {0, 1}, over : Int]
Shape(m, d, p, o) == [marks |-> m, depth |-> d, pending |-> p, over |-> o]
Frames == [below : Seq(Shapes), top : Shapes]
Frame(b, x) == [below |-> b, top |-> x]
Over(x, o) == Shape(x.marks, x.depth, x.pending, o)

(* How a step changes the shape of the context it works on.                *)
Rises(x, s, y) ==
  \/ s.do \in {"expr", "constant", "one"} /\ y = Over(x, x.over + 1)
  \/ s.do = "op" /\ s.arg \in OpArgs /\ y = Over(x, x.over + Effect(s.arg, s.n))
  \/ s.do = "name" /\ s.arg \in NameArgs /\ y = Over(x, x.over + Effect(s.arg, 0))
  \/ s.do = "variable" /\ s.arg \in {"SET", "GET"} /\ y = Over(x, x.over + 1)
  \/ s.do = "variable" /\ s.arg = "ASSIGN" /\ y = x
  \/ s.do = "refuse" /\ y = x
  \/ s.do = "argument" /\ y = Over(x, x.over - 1)
  \/ s.do = "stmt" /\ x.over = 0 /\ x.pending = 0 /\ y = x
Scopes(x, s, y) ==
  \/ s.do = "begin" /\ y = Shape(x.marks, x.depth + 1, x.pending, x.over)
  \/ /\ s.do = "endscope" /\ x.depth > 0 /\ x.pending = 0
     /\ y = Shape(x.marks, x.depth - 1, 0, x.over)
  \/ s.do = "declare" /\ s.arg = "unset" /\ x.depth > 0 /\ x.pending = 0 /\ y = x
  \/ /\ s.do = "declare" /\ s.arg # "unset" /\ x.pending = 0
     /\ y = IF x.depth = 0 THEN x ELSE Shape(x.marks, x.depth, 1, x.over - 1)
  \/ /\ s.do = "define" /\ (s.arg = "func" \/ x.depth = 0) /\ x.pending = 0
     /\ y = Over(x, x.over - 1)
  \/ /\ s.do = "define" /\ s.arg # "func" /\ x.depth > 0 /\ x.pending = 1
     /\ y = Shape(x.marks, x.depth, 0, x.over)
Jumps(x, s, y) ==
  LET m == x.marks
      l == Len(m)
  IN \/ /\ s.do = "if"
        /\ y = Shape(Append(m, OpenMark(1, x.over - 1)), x.depth, x.pending, x.over - 1)
     \/ /\ s.do = "exit"
        /\ y = Shape(Append(m, OpenMark(1, x.over - 2)), x.depth, x.pending, x.over - 2)
     \/ /\ s.do = "skip"
        /\ y = Shape(Append(m, OpenMark(1, x.over)), x.depth, x.pending, x.over)
     \/ /\ s.do = "else" /\ l > 1 /\ m[l].jump = 1 /\ m[l - 1].jump = 1
        /\ y = Shape(Append(SubSeq(m, 1, l - 2), m[l]), x.depth, x.pending, m[l - 1].over)
     \/ /\ s.do = "join" /\ l > 0 /\ m[l].jump = 1 /\ m[l].over = x.over
        /\ y = Shape(SubSeq(m, 1, l - 1), x.depth, x.pending, x.over)
     \/ /\ s.do = "start"
        /\ y = Shape(Append(m, OpenMark(0, x.over)), x.depth, x.pending, x.over)
     \/ /\ s.do = "loop" /\ s.n = 0 /\ x.over = 0 /\ l > 0 /\ m[l].jump = 0
        /\ y = Shape(SubSeq(m, 1, l - 1), x.depth, x.pending, 0)
     \/ /\ s.do = "loop" /\ s.n = 1 /\ x.over = 0 /\ l > 1 /\ m[l].jump = 1 /\ m[l - 1].jump = 0
        /\ y = Shape(SubSeq(m, 1, l - 2), x.depth, x.pending, m[l].over)

(* How a step changes the frame.                                           *)
Fresh(type) == Shape(<<>>, IF type \in Lambdas THEN 0 ELSE 1, 0, 0)
Rest(x) == x.marks = <<>> /\ x.depth = 0 /\ x.pending = 0
Flows(f, s, g) ==
  \/ g.below = f.below /\ (Rises(f.top, s, g.top) \/ Scopes(f.top, s, g.top) \/ Jumps(f.top, s, g.top))
  \/ /\ s.do = "enter" /\ s.arg \in Types
     /\ g = Frame(Append(f.below, f.top), Fresh(s.arg))
  \/ /\ s.do = "leave" /\ s.arg \in Types /\ f.below # <<>> /\ Rest(f.top)
     /\ f.top.over = (IF s.arg = "arrow" THEN 1 ELSE 0)
     /\ g.below = Front(f.below)
     /\ s.arg = "function" => Last(f.below).pending = 0
     /\ g.top = Over(Last(f.below), Last(f.below).over + (IF s.arg \in Lambdas THEN 1 ELSE 0))
  \/ s.do = "halt" /\ f.below = <<>> /\ Rest(f.top) /\ f.top.over = 0 /\ g = f

Chain(f, steps, g) ==
  /\ steps \in Seq(Steps)
  /\ \E A \in [1..Len(steps) + 1 -> Frames] :
       /\ A[1] = f /\ A[Len(steps) + 1] = g
       /\ \A k \in 1..Len(steps) : Flows(A[k], steps[k], A[k + 1])

-----------------------------------------------------------------------------
(* Code.                                                                   *)
JumpOps == {"JUMP", "JUMP_IF_FALSE", "JUMP_IF_TRUE"}
Plain == Range(Opcodes) \ (TwoBytes \cup {"CLOSURE"})
Insns == [op : Plain \cup JumpOps \cup {"LOOP", "CLOSURE", "one"}, at : Nat, to : Int]
Accounts == [height : Int, owed : Int]
Marks == [at : Nat, account : Accounts, locals : Nat]
Contexts ==
  [type : Types \cup {"script"}, code : Seq(0..255), insns : Seq(Insns), locals : Seq(Int), depth : Nat,
   constants : Nat, marks : Seq(Marks), account : Accounts]

After(code, insns, i) == IF i = Len(insns) THEN Len(code) ELSE insns[i + 1].at

(* A closure has so many pairs behind it.                                  *)
Paired(at, next) == \E u \in Nat : next = at + 2 + 2 * u

(* An instruction lies in the code from its place to that of the next.     *)
Lies(code, insn, next) ==
  LET at == insn.at
      op == insn.op
      jump == insn.to - at - 2
  IN \/ op \in Plain /\ code[at + 1] = Number[op] /\ next = at + (IF op \in OneByte THEN 2 ELSE 1)
     \/ op = "one" /\ code[at + 1] = 1 /\ next = at + 1
     \/ op = "CLOSURE" /\ code[at + 1] = Number[op] /\ Paired(at, next)
     \/ /\ op = "LOOP" /\ code[at + 1] = Number[op] /\ next = at + 3
        /\ at + 3 - (code[at + 2] * 256 + code[at + 3]) = insn.to
     \/ /\ op \in JumpOps /\ next = at + 3
        /\ insn.to = -1 \/ (jump \in Nat /\ code[at + 1] = jump \div 256)

Laid(code, insns) ==
  /\ \A i \in 1..Len(insns) :
       /\ Lies(code, insns[i], After(code, insns, i))
       /\ insns[i].at < After(code, insns, i) /\ After(code, insns, i) <= Len(code)
  /\ \A i, j \in 1..Len(insns) : i < j => After(code, insns, i) <= insns[j].at
  /\ \A i \in 1..Len(insns) :
       insns[i].op = "LOOP" => \E j \in 1..Len(insns) : insns[j].at = insns[i].to

(* An open mark of the frame is a mark of the context.                     *)
Marked(code, insns, m, o) ==
  /\ m.account.height = m.locals + m.account.owed + o.over
  /\ m.at <= Len(code)
  /\ IF o.jump = 1 THEN \E i \in 1..Len(insns) : insns[i].at = m.at /\ insns[i].op \in JumpOps
     ELSE m.at = Len(code) \/ \E i \in 1..Len(insns) : insns[i].at = m.at

Jumping(c, marks) ==
  /\ Len(c.marks) = Len(marks)
  /\ \A k \in 1..Len(marks) : Marked(c.code, c.insns, c.marks[k], marks[k])
  /\ \A i \in 1..Len(c.insns) :
       c.insns[i].op \in JumpOps /\ c.insns[i].to = -1 =>
         \E k \in 1..Len(marks) : marks[k].jump = 1 /\ c.marks[k].at = c.insns[i].at

Fits(c, x) ==
  /\ c \in Contexts /\ Laid(c.code, c.insns) /\ Jumping(c, x.marks)
  /\ c.depth = x.depth
  /\ c.account.height = Len(c.locals) + c.account.owed + x.over

Framed(cs, f) ==
  /\ f \in Frames
  /\ cs \in Seq(Contexts) /\ Len(cs) = Len(f.below) + 1
  /\ \A i \in 1..Len(f.below) : Fits(cs[i], f.below[i])
  /\ Fits(cs[Len(cs)], f.top)

(* The steps lead from a frame to the end of the script.                   *)
Final(f) == f.below = <<>> /\ Rest(f.top)
Ends(f, steps) == f \in Frames /\ \E g \in Frames : Chain(f, steps, g) /\ Final(g)
Held(cs, steps) == \E f \in Frames : Framed(cs, f) /\ Ends(f, steps)

IInv ==
  /\ program \in [nodes : Nat, kinds : SUBSET STRING]
  /\ ended \in {"compiling", "done", "rejected", "crashed"}
  /\ Held(ctxs, todo)
  /\ ended = "done" => todo = <<>>

-----------------------------------------------------------------------------
(* Tuples.                                                                 *)

(* One and one make a pair.                                                *)
LEMMA JoinTwo ==
  ASSUME NEW S, NEW x \in S, NEW y \in S
  PROVE <<x>> \o <<y>> = <<x, y>>
<1> DEFINE s == <<x>> \o <<y>>
           t == <<x, y>>
<1>1. s \in Seq(S) /\ t \in Seq(S) /\ Len(s) = 2 /\ Len(t) = 2
  OBVIOUS
<1>2. s[1] = x /\ t[1] = x /\ s[2] = y /\ t[2] = y
  OBVIOUS
<1> HIDE DEF s, t
<1>3. Len(s) = Len(t) /\ \A i \in 1..Len(s) : s[i] = t[i]
  BY <1>1, <1>2
<1>4. s = t
  BY <1>1, <1>3, SeqEqual
<1>. QED BY <1>4 DEF s, t

(* A pair and one.                                                         *)
LEMMA JoinThree ==
  ASSUME NEW S, NEW x \in S, NEW y \in S, NEW z \in S
  PROVE <<x, y>> \o <<z>> = <<x, y, z>>
<1> DEFINE s == <<x, y>> \o <<z>>
           t == <<x, y, z>>
<1>1. s \in Seq(S) /\ t \in Seq(S) /\ Len(s) = 3 /\ Len(t) = 3
  OBVIOUS
<1>2. s[1] = x /\ t[1] = x /\ s[2] = y /\ t[2] = y /\ s[3] = z /\ t[3] = z
  OBVIOUS
<1> HIDE DEF s, t
<1>3. Len(s) = Len(t) /\ \A i \in 1..Len(s) : s[i] = t[i]
  BY <1>1, <1>2
<1>4. s = t
  BY <1>1, <1>3, SeqEqual
<1>. QED BY <1>4 DEF s, t

(* Two pairs.                                                              *)
LEMMA JoinFour ==
  ASSUME NEW S, NEW w \in S, NEW x \in S, NEW y \in S, NEW z \in S
  PROVE <<w, x>> \o <<y, z>> = <<w, x, y, z>>
<1> DEFINE s == <<w, x>> \o <<y, z>>
           t == <<w, x, y, z>>
<1>1. s \in Seq(S) /\ t \in Seq(S) /\ Len(s) = 4 /\ Len(t) = 4
  OBVIOUS
<1>2. s[1] = w /\ t[1] = w /\ s[2] = x /\ t[2] = x /\ s[3] = y /\ t[3] = y /\ s[4] = z /\ t[4] = z
  OBVIOUS
<1> HIDE DEF s, t
<1>3. Len(s) = Len(t) /\ \A i \in 1..Len(s) : s[i] = t[i]
  BY <1>1, <1>2
<1>4. s = t
  BY <1>1, <1>3, SeqEqual
<1>. QED BY <1>4 DEF s, t

(* Three and a pair.                                                       *)
LEMMA JoinFive ==
  ASSUME NEW S, NEW v \in S, NEW w \in S, NEW x \in S, NEW y \in S, NEW z \in S
  PROVE <<v, w, x>> \o <<y, z>> = <<v, w, x, y, z>>
<1> DEFINE s == <<v, w, x>> \o <<y, z>>
           t == <<v, w, x, y, z>>
<1>1. s \in Seq(S) /\ t \in Seq(S) /\ Len(s) = 5 /\ Len(t) = 5
  OBVIOUS
<1>2. s[1] = v /\ t[1] = v /\ s[2] = w /\ t[2] = w /\ s[3] = x /\ t[3] = x /\ s[4] = y /\ t[4] = y /\ s[5] = z /\ t[5] = z
  OBVIOUS
<1> HIDE DEF s, t
<1>3. Len(s) = Len(t) /\ \A i \in 1..Len(s) : s[i] = t[i]
  BY <1>1, <1>2
<1>4. s = t
  BY <1>1, <1>3, SeqEqual
<1>. QED BY <1>4 DEF s, t

(* Three, one and one.                                                     *)
LEMMA JoinOnes ==
  ASSUME NEW S, NEW v \in S, NEW w \in S, NEW x \in S, NEW y \in S, NEW z \in S
  PROVE <<v, w, x>> \o <<y>> \o <<z>> = <<v, w, x, y, z>>
<1>1. <<v, w, x>> \in Seq(S) /\ <<y>> \in Seq(S) /\ <<z>> \in Seq(S)
  OBVIOUS
<1>2. <<v, w, x>> \o <<y>> \o <<z>> = <<v, w, x>> \o (<<y>> \o <<z>>)
  BY <1>1, ConcatAssociative
<1>3. <<y>> \o <<z>> = <<y, z>>
  BY JoinTwo
<1>4. <<v, w, x>> \o <<y, z>> = <<v, w, x, y, z>>
  BY JoinFive
<1>. QED BY <1>2, <1>3, <1>4, Zenon

(* Three and four.                                                         *)
LEMMA JoinSeven ==
  ASSUME NEW S, NEW a \in S, NEW b \in S, NEW c \in S, NEW d \in S, NEW e \in S, NEW f \in S, NEW g \in S
  PROVE <<a, b, c>> \o <<d, e, f, g>> = <<a, b, c, d, e, f, g>>
<1> DEFINE s == <<a, b, c>> \o <<d, e, f, g>>
           t == <<a, b, c, d, e, f, g>>
<1>1. s \in Seq(S) /\ t \in Seq(S) /\ Len(s) = 7 /\ Len(t) = 7
  OBVIOUS
<1>2. s[1] = a /\ t[1] = a /\ s[2] = b /\ t[2] = b /\ s[3] = c /\ t[3] = c /\ s[4] = d /\ t[4] = d /\ s[5] = e /\ t[5] = e /\ s[6] = f /\ t[6] = f /\ s[7] = g /\ t[7] = g
  OBVIOUS
<1> HIDE DEF s, t
<1>3. Len(s) = Len(t) /\ \A i \in 1..Len(s) : s[i] = t[i]
  BY <1>1, <1>2
<1>4. s = t
  BY <1>1, <1>3, SeqEqual, Zenon
<1>. QED BY <1>4 DEF s, t
-----------------------------------------------------------------------------
(* Chains.                                                                 *)

(* A chain over no steps stays where it is.                                *)
LEMMA ChainEmpty == \A f \in Frames : Chain(f, <<>>, f)
<1> SUFFICES ASSUME NEW f \in Frames PROVE Chain(f, <<>>, f)
  OBVIOUS
<1> DEFINE A == [i \in 1..1 |-> f]
<1>1. A \in [1..Len(<<>>) + 1 -> Frames] /\ A[1] = f /\ A[Len(<<>>) + 1] = f
  OBVIOUS
<1>2. \A k \in 1..Len(<<>>) : Flows(A[k], <<>>[k], A[k + 1])
  OBVIOUS
<1> HIDE DEF A
<1>. QED BY <1>1, <1>2 DEF Chain

(* A chain over no steps ends where it begins.                             *)
LEMMA ChainEnd == \A f, g : Chain(f, <<>>, g) => f = g
BY DEF Chain

(* The ends of a chain are frames.                                         *)
LEMMA ChainType ==
  ASSUME NEW f, NEW g, NEW s, Chain(f, s, g)
  PROVE f \in Frames /\ g \in Frames /\ s \in Seq(Steps)
<1>1. s \in Seq(Steps)
  BY DEF Chain
<1>2. PICK A \in [1..Len(s) + 1 -> Frames] : A[1] = f /\ A[Len(s) + 1] = g
  BY DEF Chain
<1>3. Len(s) \in Nat
  BY <1>1
<1>. QED BY <1>1, <1>2, <1>3

(* The first step of a chain leads to the frame that the others begin at.  *)
LEMMA ChainHead ==
  ASSUME NEW f, NEW h, NEW s, Chain(f, s, h), s # <<>>
  PROVE \E g \in Frames : Flows(f, Head(s), g) /\ Chain(g, Tail(s), h)
<1>1. s \in Seq(Steps)
  BY DEF Chain
<1>2. PICK A \in [1..Len(s) + 1 -> Frames] :
        /\ A[1] = f /\ A[Len(s) + 1] = h
        /\ \A k \in 1..Len(s) : Flows(A[k], s[k], A[k + 1])
  BY DEF Chain
<1>3. Len(s) \in Nat /\ Len(s) > 0 /\ Head(s) = s[1]
  BY <1>1
<1>4. Tail(s) \in Seq(Steps) /\ Len(Tail(s)) = Len(s) - 1 /\ \A k \in 1..Len(s) - 1 : Tail(s)[k] = s[k + 1]
  BY <1>1
<1> DEFINE B == [i \in 1..Len(Tail(s)) + 1 |-> A[i + 1]]
<1>5. B \in [1..Len(Tail(s)) + 1 -> Frames] /\ B[1] = A[2] /\ B[Len(Tail(s)) + 1] = h
  BY <1>2, <1>3, <1>4
<1>6. \A k \in 1..Len(Tail(s)) : Flows(B[k], Tail(s)[k], B[k + 1])
  BY <1>2, <1>3, <1>4
<1>7. A[2] \in Frames /\ Flows(f, Head(s), A[2])
  BY <1>2, <1>3
<1> HIDE DEF B
<1>8. Chain(A[2], Tail(s), h)
  BY <1>4, <1>5, <1>6, Zenon DEF Chain
<1>. QED BY <1>7, <1>8

(* A step in front of a chain.                                             *)
LEMMA ChainStep ==
  ASSUME NEW f \in Frames, NEW g, NEW h, NEW x \in Steps, NEW s, Flows(f, x, g), Chain(g, s, h)
  PROVE Chain(f, <<x>> \o s, h)
<1>1. s \in Seq(Steps)
  BY DEF Chain
<1>2. PICK A \in [1..Len(s) + 1 -> Frames] :
        /\ A[1] = g /\ A[Len(s) + 1] = h
        /\ \A k \in 1..Len(s) : Flows(A[k], s[k], A[k + 1])
  BY DEF Chain
<1> DEFINE t == <<x>> \o s
<1>3. /\ Len(s) \in Nat /\ t \in Seq(Steps) /\ Len(t) = Len(s) + 1 /\ t[1] = x
      /\ \A k \in 2..Len(t) : t[k] = s[k - 1]
  BY <1>1
<1> HIDE DEF t
<1> DEFINE B == [i \in 1..Len(t) + 1 |-> IF i = 1 THEN f ELSE A[i - 1]]
<1>4. B \in [1..Len(t) + 1 -> Frames] /\ B[1] = f /\ B[Len(t) + 1] = h
  BY <1>2, <1>3
<1>5. ASSUME NEW k \in 1..Len(t) PROVE Flows(B[k], t[k], B[k + 1])
  <2>1. CASE k = 1
    BY <2>1, <1>2, <1>3
  <2>2. CASE k # 1
    <3>1. k - 1 \in 1..Len(s) /\ (k - 1) + 1 = k /\ B[k] = A[k - 1] /\ B[k + 1] = A[k] /\ t[k] = s[k - 1]
      BY <2>2, <1>3
    <3>2. Flows(A[k - 1], s[k - 1], A[k])
      BY <3>1, <1>2, Zenon
    <3>. QED BY <3>1, <3>2
  <2>. QED BY <2>1, <2>2
<1> HIDE DEF B
<1>6. Chain(f, t, h)
  BY <1>3, <1>4, <1>5, Zenon DEF Chain
<1>. QED BY <1>6 DEF t

(* Two chains make one.                                                    *)
LEMMA ChainJoin ==
  ASSUME NEW f, NEW g, NEW h, NEW s, NEW t, Chain(f, s, g), Chain(g, t, h)
  PROVE Chain(f, s \o t, h)
<1>1. s \in Seq(Steps) /\ t \in Seq(Steps)
  BY DEF Chain
<1>2. PICK A \in [1..Len(s) + 1 -> Frames] :
        /\ A[1] = f /\ A[Len(s) + 1] = g
        /\ \A k \in 1..Len(s) : Flows(A[k], s[k], A[k + 1])
  BY Zenon DEF Chain
<1>3. PICK B \in [1..Len(t) + 1 -> Frames] :
        /\ B[1] = g /\ B[Len(t) + 1] = h
        /\ \A k \in 1..Len(t) : Flows(B[k], t[k], B[k + 1])
  BY Zenon DEF Chain
<1> DEFINE u == s \o t
<1>4. /\ Len(s) \in Nat /\ Len(t) \in Nat /\ u \in Seq(Steps) /\ Len(u) = Len(s) + Len(t)
      /\ \A k \in 1..Len(s) : u[k] = s[k]
      /\ \A k \in Len(s) + 1..Len(u) : u[k] = t[k - Len(s)]
  BY <1>1
<1> HIDE DEF u
<1> DEFINE C == [i \in 1..Len(u) + 1 |-> IF i <= Len(s) THEN A[i] ELSE B[i - Len(s)]]
<1>5. C \in [1..Len(u) + 1 -> Frames] /\ C[1] = f /\ C[Len(u) + 1] = h
  BY <1>2, <1>3, <1>4
<1>6. ASSUME NEW k \in 1..Len(u) PROVE Flows(C[k], u[k], C[k + 1])
  <2>1. CASE k < Len(s)
    <3>1. k \in 1..Len(s) /\ C[k] = A[k] /\ C[k + 1] = A[k + 1] /\ u[k] = s[k]
      BY <2>1, <1>4
    <3>. QED BY <3>1, <1>2
  <2>2. CASE k = Len(s)
    <3>1. k \in 1..Len(s) /\ C[k] = A[k] /\ C[k + 1] = A[k + 1] /\ u[k] = s[k]
      BY <2>2, <1>2, <1>3, <1>4
    <3>. QED BY <3>1, <1>2
  <2>3. CASE k > Len(s)
    <3>1. k - Len(s) \in 1..Len(t) /\ (k + 1) - Len(s) = (k - Len(s)) + 1
      BY <2>3, <1>4
    <3>2. k \in Int /\ ~(k <= Len(s)) /\ ~(k + 1 <= Len(s)) /\ k + 1 \in 1..Len(u) + 1
      BY <2>3, <1>4
    <3>3. C[k] = B[k - Len(s)] /\ C[k + 1] = B[(k + 1) - Len(s)]
      BY <3>2
    <3>4. u[k] = t[k - Len(s)]
      BY <3>2, <1>4
    <3>. QED BY <3>1, <3>3, <3>4, <1>3, Zenon
  <2>. QED BY <2>1, <2>2, <2>3, <1>4
<1> HIDE DEF C
<1>7. Chain(f, u, h)
  BY <1>4, <1>5, <1>6, Zenon DEF Chain
<1>. QED BY <1>7 DEF u

(* A chain of one step.                                                    *)
LEMMA ChainOne ==
  ASSUME NEW f \in Frames, NEW g \in Frames, NEW x \in Steps, Flows(f, x, g)
  PROVE Chain(f, <<x>>, g)
<1>1. Chain(g, <<>>, g)
  BY ChainEmpty
<1>2. Chain(f, <<x>> \o <<>>, g)
  BY <1>1, ChainStep, Zenon
<1>3. <<x>> \o <<>> = <<x>>
  OBVIOUS
<1>. QED BY <1>2, <1>3

-----------------------------------------------------------------------------
(* Repeated steps.                                                         *)

(* A function on 1..n is a sequence of length n.                           *)
LEMMA Listed ==
  ASSUME NEW S, NEW n \in Nat, NEW t \in [1..n -> S]
  PROVE t \in Seq(S) /\ Len(t) = n
OBVIOUS

(* Times: a list of one step, so often.                                    *)
LEMMA TimesOne ==
  ASSUME NEW n \in Nat, NEW x \in Steps
  PROVE /\ Times(n, <<x>>) \in Seq(Steps) /\ Len(Times(n, <<x>>)) = n
        /\ \A i \in 1..n : Times(n, <<x>>)[i] = x
<1>1. Len(<<x>>) = 1 /\ n * 1 = n
  OBVIOUS
<1>2. \A i \in 1..n : <<x>>[((i - 1) % 1) + 1] = x
  OBVIOUS
<1>3. Times(n, <<x>>) = [i \in 1..n |-> <<x>>[((i - 1) % 1) + 1]]
  BY <1>1 DEF Times
<1>4. Times(n, <<x>>) \in [1..n -> Steps] /\ \A i \in 1..n : Times(n, <<x>>)[i] = x
  BY <1>2, <1>3
<1>. QED BY <1>4, Listed

(* Times: a pair of the same step, so often.                               *)
LEMMA TimesTwo ==
  ASSUME NEW n \in Nat, NEW x \in Steps
  PROVE /\ Times(n, <<x, x>>) \in Seq(Steps) /\ Len(Times(n, <<x, x>>)) = 2 * n
        /\ \A i \in 1..2 * n : Times(n, <<x, x>>)[i] = x
<1>1. Len(<<x, x>>) = 2 /\ n * 2 = 2 * n
  OBVIOUS
<1>2. \A i \in 1..2 * n : <<x, x>>[((i - 1) % 2) + 1] = x
  <2> SUFFICES ASSUME NEW i \in 1..2 * n PROVE <<x, x>>[((i - 1) % 2) + 1] = x
    OBVIOUS
  <2>1. ((i - 1) % 2) + 1 = 1 \/ ((i - 1) % 2) + 1 = 2
    OBVIOUS
  <2>. QED BY <2>1
<1>3. Times(n, <<x, x>>) = [i \in 1..2 * n |-> <<x, x>>[((i - 1) % 2) + 1]]
  BY <1>1 DEF Times
<1>4. Times(n, <<x, x>>) \in [1..2 * n -> Steps] /\ \A i \in 1..2 * n : Times(n, <<x, x>>)[i] = x
  BY <1>2, <1>3, Zenon
<1>5. 2 * n \in Nat
  OBVIOUS
<1>. QED BY <1>4, <1>5, Listed, Zenon

(* Times: five steps, so often.                                            *)
LEMMA TimesFive ==
  ASSUME NEW n \in Nat, NEW s \in Seq(Steps), Len(s) = 5
  PROVE /\ Times(n, s) \in Seq(Steps) /\ Len(Times(n, s)) = 5 * n
        /\ \A i \in 1..5 * n : Times(n, s)[i] = s[((i - 1) % 5) + 1]
<1>1. n * 5 = 5 * n /\ 5 * n \in Nat
  OBVIOUS
<1>2. \A j \in 1..5 : s[j] \in Steps
  <2>1. \A j \in 1..Len(s) : s[j] \in Steps
    BY ElementOfSeq, Zenon
  <2>. QED BY <2>1
<1>3. \A i \in 1..5 * n : ((i - 1) % 5) + 1 \in 1..5
  OBVIOUS
<1>4. Times(n, s) = [i \in 1..5 * n |-> s[((i - 1) % 5) + 1]]
  BY <1>1 DEF Times
<1>5. Times(n, s) \in [1..5 * n -> Steps] /\ \A i \in 1..5 * n : Times(n, s)[i] = s[((i - 1) % 5) + 1]
  BY <1>2, <1>3, <1>4
<1>6. Times(n, s) \in Seq(Steps) /\ Len(Times(n, s)) = 5 * n
  BY <1>1, <1>5, Listed
<1>. QED BY <1>5, <1>6

(* A step that stays at its frame, so often.                               *)
LEMMA ChainStays ==
  ASSUME NEW n \in Nat, NEW x \in Steps, NEW f \in Frames, Flows(f, x, f)
  PROVE Chain(f, Times(n, <<x>>), f)
<1> DEFINE t == Times(n, <<x>>)
           A == [i \in 1..Len(t) + 1 |-> f]
<1>1. t \in Seq(Steps) /\ Len(t) = n /\ \A i \in 1..n : t[i] = x
  BY TimesOne
<1> HIDE DEF t
<1>2. A \in [1..Len(t) + 1 -> Frames] /\ A[1] = f /\ A[Len(t) + 1] = f
  BY <1>1
<1>3. \A k \in 1..Len(t) : Flows(A[k], t[k], A[k + 1])
  BY <1>1
<1> HIDE DEF A
<1>4. Chain(f, t, f)
  BY <1>1, <1>2, <1>3 DEF Chain
<1>. QED BY <1>4 DEF t

(* Where the rest of a division by five goes on.                           *)
LEMMA FiveOn ==
  \A k \in Nat \ {0} : (k % 5) + 1 = (IF ((k - 1) % 5) + 1 = 5 THEN 1 ELSE (((k - 1) % 5) + 1) + 1)
OBVIOUS

(* Five steps that come back to their frame, so often.                     *)
LEMMA ChainRound ==
  ASSUME NEW n \in Nat, NEW s \in Seq(Steps), Len(s) = 5, NEW f \in Frames, Chain(f, s, f)
  PROVE Chain(f, Times(n, s), f)
<1> DEFINE t == Times(n, s)
<1>1. t \in Seq(Steps) /\ Len(t) = 5 * n /\ \A i \in 1..5 * n : t[i] = s[((i - 1) % 5) + 1]
  BY TimesFive, Zenon
<1> HIDE DEF t
<1>4. PICK B \in [1..5 + 1 -> Frames] :
        /\ B[1] = f /\ B[5 + 1] = f
        /\ \A k \in 1..5 : Flows(B[k], s[k], B[k + 1])
  BY DEF Chain
<1> DEFINE A == [i \in 1..Len(t) + 1 |-> B[((i - 1) % 5) + 1]]
<1>5. ASSUME NEW i \in 1..Len(t) + 1 PROVE ((i - 1) % 5) + 1 \in 1..5
  <2>1. i \in Int
    BY <1>1
  <2>. QED BY <2>1
<1>6. A \in [1..Len(t) + 1 -> Frames]
  BY <1>4, <1>5
<1>7. A[1] = f /\ A[Len(t) + 1] = f
  <2>1. Len(t) + 1 \in 1..Len(t) + 1 /\ 1 \in 1..Len(t) + 1 /\ ((1 - 1) % 5) + 1 = 1
    BY <1>1
  <2>2. (((Len(t) + 1) - 1) % 5) + 1 = 1
    BY <1>1
  <2>. QED BY <2>1, <2>2, <1>4
<1>8. ASSUME NEW k \in 1..Len(t) PROVE Flows(A[k], t[k], A[k + 1])
  <2> DEFINE j == ((k - 1) % 5) + 1
  <2>1. k \in Int /\ k \in 1..5 * n /\ k + 1 \in 1..Len(t) + 1 /\ k \in 1..Len(t) + 1
    BY <1>1
  <2>2. j \in 1..5
    BY <2>1
  <2>3. A[k] = B[j] /\ t[k] = s[j]
    BY <2>1, <1>1
  <2>4. A[k + 1] = B[(k % 5) + 1]
    <3>1. A[k + 1] = B[(((k + 1) - 1) % 5) + 1]
      BY <2>1
    <3>2. (k + 1) - 1 = k
      BY <2>1
    <3>. QED BY <3>1, <3>2
  <2>5. (k % 5) + 1 = IF j = 5 THEN 1 ELSE j + 1
    <3>1. k \in Nat \ {0}
      BY <2>1
    <3>. QED BY <3>1, FiveOn
  <2>6. B[(k % 5) + 1] = B[j + 1]
    BY <2>5, <1>4
  <2> HIDE DEF j
  <2>7. Flows(B[j], s[j], B[j + 1])
    BY <2>2, <1>4
  <2>. QED BY <2>3, <2>4, <2>6, <2>7
<1> HIDE DEF A
<1>9. Chain(f, t, f)
  BY <1>1, <1>6, <1>7, <1>8, Zenon DEF Chain
<1>. QED BY <1>9 DEF t

-----------------------------------------------------------------------------
(* Steps that only raise or lower the height.                              *)
Fr(b, m, d, p, o) == Frame(b, Shape(m, d, p, o))
Adds(s, k) ==
  /\ s \in Steps /\ k \in Int
  /\ \A b \in Seq(Shapes), m \in Seq(OpenMarks), d \in Nat, p \in {0, 1}, o \in Int :
       Flows(Fr(b, m, d, p, o), s, Fr(b, m, d, p, o + k))
AddsAll(steps, k) ==
  /\ steps \in Seq(Steps) /\ k \in Int
  /\ \A b \in Seq(Shapes), m \in Seq(OpenMarks), d \in Nat, p \in {0, 1}, o \in Int :
       Chain(Fr(b, m, d, p, o), steps, Fr(b, m, d, p, o + k))

(* A frame of its parts.                                                   *)
LEMMA FrType ==
  \A b \in Seq(Shapes), m \in Seq(OpenMarks), d \in Nat, p \in {0, 1}, o \in Int :
    Fr(b, m, d, p, o) \in Frames
BY DEF Fr, Frame, Frames, Shape, Shapes

(* One step that raises.                                                   *)
LEMMA AddsOne == ASSUME NEW s, NEW k, Adds(s, k) PROVE AddsAll(<<s>>, k)
<1>1. s \in Steps /\ k \in Int /\ <<s>> \in Seq(Steps)
  BY DEF Adds
<1>2. ASSUME NEW b \in Seq(Shapes), NEW m \in Seq(OpenMarks), NEW d \in Nat, NEW p \in {0, 1}, NEW o \in Int
      PROVE Chain(Fr(b, m, d, p, o), <<s>>, Fr(b, m, d, p, o + k))
  <2>1. Flows(Fr(b, m, d, p, o), s, Fr(b, m, d, p, o + k))
    BY Zenon DEF Adds
  <2>2. Fr(b, m, d, p, o) \in Frames /\ Fr(b, m, d, p, o + k) \in Frames
    BY <1>1, FrType
  <2>. QED BY <2>1, <2>2, <1>1, ChainOne
<1>. QED BY <1>1, <1>2, Zenon DEF AddsAll

(* Nothing raises by nothing.                                              *)
LEMMA AddsNone == AddsAll(<<>>, 0)
<1>1. ASSUME NEW b \in Seq(Shapes), NEW m \in Seq(OpenMarks), NEW d \in Nat, NEW p \in {0, 1}, NEW o \in Int
      PROVE Chain(Fr(b, m, d, p, o), <<>>, Fr(b, m, d, p, o + 0))
  <2>1. Fr(b, m, d, p, o) \in Frames /\ o + 0 = o
    BY FrType
  <2>. QED BY <2>1, ChainEmpty
<1>. QED BY <1>1 DEF AddsAll

(* Two lists that raise.                                                   *)
LEMMA AddsJoin ==
  ASSUME NEW s, NEW t, NEW j, NEW k, AddsAll(s, j), AddsAll(t, k)
  PROVE AddsAll(s \o t, j + k)
<1>1. s \in Seq(Steps) /\ t \in Seq(Steps) /\ s \o t \in Seq(Steps) /\ j \in Int /\ k \in Int /\ j + k \in Int
  BY DEF AddsAll
<1>2. ASSUME NEW b \in Seq(Shapes), NEW m \in Seq(OpenMarks), NEW d \in Nat, NEW p \in {0, 1}, NEW o \in Int
      PROVE Chain(Fr(b, m, d, p, o), s \o t, Fr(b, m, d, p, o + (j + k)))
  <2>1. Chain(Fr(b, m, d, p, o), s, Fr(b, m, d, p, o + j))
    BY Zenon DEF AddsAll
  <2>2. o + j \in Int /\ (o + j) + k = o + (j + k)
    BY <1>1
  <2>3. Chain(Fr(b, m, d, p, o + j), t, Fr(b, m, d, p, (o + j) + k))
    BY <2>2, Zenon DEF AddsAll
  <2>4. Chain(Fr(b, m, d, p, o), s \o t, Fr(b, m, d, p, (o + j) + k))
    BY <2>1, <2>3, ChainJoin
  <2>. QED BY <2>2, <2>4
<1>. QED BY <1>1, <1>2 DEF AddsAll

(* Two steps that raise.                                                   *)
LEMMA AddsTwo ==
  ASSUME NEW x, NEW y, NEW i \in Int, NEW j \in Int, NEW n, Adds(x, i), Adds(y, j), n = i + j
  PROVE AddsAll(<<x, y>>, n)
<1>1. AddsAll(<<x>> \o <<y>>, i + j)
  BY AddsOne, AddsJoin
<1>2. x \in Steps /\ y \in Steps
  BY DEF Adds
<1>3. <<x>> \o <<y>> = <<x, y>>
  BY <1>2, JoinTwo
<1>. QED BY <1>1, <1>3, Zenon

(* Three steps that raise.                                                 *)
LEMMA AddsThree ==
  ASSUME NEW x, NEW y, NEW z, NEW i \in Int, NEW j \in Int, NEW k \in Int, NEW n,
         Adds(x, i), Adds(y, j), Adds(z, k), n = i + j + k
  PROVE AddsAll(<<x, y, z>>, n)
<1>1. AddsAll(<<x, y>>, i + j) /\ AddsAll(<<z>>, k)
  BY AddsOne, AddsTwo
<1>2. AddsAll(<<x, y>> \o <<z>>, (i + j) + k)
  BY <1>1, AddsJoin
<1>3. x \in Steps /\ y \in Steps /\ z \in Steps
  BY DEF Adds
<1>4. <<x, y>> \o <<z>> = <<x, y, z>>
  BY <1>3, JoinThree
<1>. QED BY <1>2, <1>4, Zenon

(* Four steps that raise.                                                  *)
LEMMA AddsFour ==
  ASSUME NEW w, NEW x, NEW y, NEW z, NEW h \in Int, NEW i \in Int, NEW j \in Int, NEW k \in Int, NEW n,
         Adds(w, h), Adds(x, i), Adds(y, j), Adds(z, k), n = h + i + j + k
  PROVE AddsAll(<<w, x, y, z>>, n)
<1>1. AddsAll(<<w, x>>, h + i) /\ AddsAll(<<y, z>>, j + k) /\ (h + i) + (j + k) = n
  BY AddsTwo
<1>2. AddsAll(<<w, x>> \o <<y, z>>, (h + i) + (j + k))
  BY <1>1, AddsJoin
<1>3. w \in Steps /\ x \in Steps /\ y \in Steps /\ z \in Steps
  BY DEF Adds
<1>4. <<w, x>> \o <<y, z>> = <<w, x, y, z>>
  BY <1>3, JoinFour
<1>. QED BY <1>1, <1>2, <1>4, Zenon

(* A step that adds to the shape's height adds to the frame's.             *)
LEMMA AddsFrom ==
  ASSUME NEW s \in Steps, NEW k \in Int,
         \A x \in Shapes : Rises(x, s, Over(x, x.over + k))
  PROVE Adds(s, k)
<1> SUFFICES ASSUME NEW b \in Seq(Shapes), NEW m \in Seq(OpenMarks), NEW d \in Nat, NEW p \in {0, 1}, NEW o \in Int
             PROVE Flows(Fr(b, m, d, p, o), s, Fr(b, m, d, p, o + k))
  BY DEF Adds
<1>1. Shape(m, d, p, o) \in Shapes /\ Over(Shape(m, d, p, o), Shape(m, d, p, o).over + k) = Shape(m, d, p, o + k)
  BY DEF Shape, Shapes, Over
<1>2. Rises(Shape(m, d, p, o), s, Shape(m, d, p, o + k))
  BY <1>1
<1>3. /\ Fr(b, m, d, p, o).top = Shape(m, d, p, o) /\ Fr(b, m, d, p, o + k).top = Shape(m, d, p, o + k)
      /\ Fr(b, m, d, p, o).below = Fr(b, m, d, p, o + k).below
  BY DEF Fr, Frame
<1>. QED BY <1>2, <1>3 DEF Flows

(* A value is pushed by an expression, a constant, "one" and a variable.   *)
LEMMA AddsValues ==
  /\ Adds(Refuse, 0)
  /\ Adds(Expr, 1) /\ Adds(Constant, 1) /\ Adds(One, 1)
  /\ Adds(Variable("SET"), 1) /\ Adds(Variable("GET"), 1) /\ Adds(Variable("ASSIGN"), 0)
<1>1. Adds(Expr, 1)
  <2>1. Expr \in Steps /\ Expr.do = "expr"
    BY DEF Steps, Dos, Args, Expr, Step
  <2>2. \A x \in Shapes : Rises(x, Expr, Over(x, x.over + 1))
    BY <2>1 DEF Rises
  <2>. QED BY <2>1, <2>2, AddsFrom
<1>2. Adds(Constant, 1)
  <2>1. Constant \in Steps /\ Constant.do = "constant"
    BY DEF Steps, Dos, Args, Constant, Step
  <2>2. \A x \in Shapes : Rises(x, Constant, Over(x, x.over + 1))
    BY <2>1 DEF Rises
  <2>. QED BY <2>1, <2>2, AddsFrom
<1>3. Adds(One, 1)
  <2>1. One \in Steps /\ One.do = "one"
    BY DEF Steps, Dos, Args, One, Step
  <2>2. \A x \in Shapes : Rises(x, One, Over(x, x.over + 1))
    BY <2>1 DEF Rises
  <2>. QED BY <2>1, <2>2, AddsFrom
<1>4. ASSUME NEW how \in {"SET", "GET"} PROVE Adds(Variable(how), 1)
  <2>1. Variable(how) \in Steps /\ Variable(how).do = "variable" /\ Variable(how).arg = how
    BY DEF Steps, Dos, Args, Variable, Step
  <2>2. \A x \in Shapes : Rises(x, Variable(how), Over(x, x.over + 1))
    BY <2>1 DEF Rises
  <2>. QED BY <2>1, <2>2, AddsFrom
<1>5. Adds(Variable("ASSIGN"), 0)
  <2>1. Variable("ASSIGN") \in Steps /\ Variable("ASSIGN").do = "variable" /\ Variable("ASSIGN").arg = "ASSIGN"
    BY DEF Steps, Dos, Args, Variable, Step
  <2>2. \A x \in Shapes : Over(x, x.over + 0) = x
    BY DEF Shapes, Over, Shape
  <2>3. \A x \in Shapes : Rises(x, Variable("ASSIGN"), Over(x, x.over + 0))
    BY <2>1, <2>2 DEF Rises
  <2>. QED BY <2>1, <2>3, AddsFrom
<1>6. Adds(Refuse, 0)
  <2>1. Refuse \in Steps /\ Refuse.do = "refuse"
    BY DEF Steps, Dos, Args, Refuse, Step
  <2>2. \A x \in Shapes : Over(x, x.over + 0) = x
    BY DEF Shapes, Over, Shape
  <2>3. \A x \in Shapes : Rises(x, Refuse, Over(x, x.over + 0))
    BY <2>1, <2>2 DEF Rises
  <2>. QED BY <2>1, <2>3, AddsFrom
<1>. QED BY <1>1, <1>2, <1>3, <1>4, <1>5, <1>6

(* An operation adds what it does to the height.                           *)
LEMMA AddsOp ==
  ASSUME NEW op \in OpArgs, NEW n \in Nat, NEW k \in Int, Effect(op, n) = k
  PROVE Adds(OpN(op, n), k)
<1>1. OpN(op, n) \in Steps /\ OpN(op, n).do = "op" /\ OpN(op, n).arg = op /\ OpN(op, n).n = n
  BY DEF Steps, Dos, Args, OpN, Step
<1>2. \A x \in Shapes : Rises(x, OpN(op, n), Over(x, x.over + k))
  BY <1>1 DEF Rises
<1>. QED BY <1>1, <1>2, AddsFrom

(* An operation with a name adds what it does to the height.               *)
LEMMA AddsName ==
  ASSUME NEW op \in NameArgs, NEW k \in Int, Effect(op, 0) = k
  PROVE Adds(Name(op), k)
<1>1. Name(op) \in Steps /\ Name(op).do = "name" /\ Name(op).arg = op
  BY DEF Steps, Dos, Args, Name, Step
<1>2. \A x \in Shapes : Rises(x, Name(op), Over(x, x.over + k))
  BY <1>1 DEF Rises
<1>. QED BY <1>1, <1>2, AddsFrom

(* What each operation adds.                                               *)
LEMMA AddsOps ==
  /\ \A op \in {"ADD", "GET_INDEX", "POP", "INHERIT", "RETURN", "EQ"} : Adds(Op(op), -1)
  /\ Adds(Op("NEG"), 0) /\ Adds(Op("RETURN_VOID"), 0) /\ Adds(Op("CONST_NULL"), 1)
  /\ Adds(Op("SET_INDEX"), -2)
  /\ Adds(Name("SET_FIELD"), -1) /\ Adds(Name("GET_FIELD"), 0) /\ Adds(Name("CLASS"), 1)
  /\ Adds(Name("IMPORT"), 0) /\ Adds(Name("EXPORT"), 0)
<1>1. ASSUME NEW op \in {"ADD", "GET_INDEX", "POP", "INHERIT", "RETURN", "EQ"} PROVE Adds(Op(op), -1)
  <2>1. Effect(op, 0) = -1 /\ op \in OpArgs
    BY DEF Effect, Pushes, Pops, OpArgs
  <2>2. Adds(OpN(op, 0), -1)
    BY <2>1, AddsOp
  <2>. QED BY <2>2 DEF Op, OpN
<1>2. Adds(Op("NEG"), 0) /\ Adds(Op("RETURN_VOID"), 0) /\ Adds(Op("CONST_NULL"), 1) /\ Adds(Op("SET_INDEX"), -2)
  <2>1. /\ Effect("NEG", 0) = 0 /\ Effect("RETURN_VOID", 0) = 0 /\ Effect("CONST_NULL", 0) = 1
        /\ Effect("SET_INDEX", 0) = -2
    BY DEF Effect, Pushes, Pops
  <2>2. {"NEG", "RETURN_VOID", "CONST_NULL", "SET_INDEX"} \subseteq OpArgs
    BY DEF OpArgs
  <2>3. /\ Adds(OpN("NEG", 0), 0) /\ Adds(OpN("RETURN_VOID", 0), 0) /\ Adds(OpN("CONST_NULL", 0), 1)
        /\ Adds(OpN("SET_INDEX", 0), -2)
    BY <2>1, <2>2, AddsOp
  <2>. QED BY <2>3 DEF Op, OpN
<1>3. /\ Adds(Name("SET_FIELD"), -1) /\ Adds(Name("GET_FIELD"), 0) /\ Adds(Name("CLASS"), 1)
      /\ Adds(Name("IMPORT"), 0) /\ Adds(Name("EXPORT"), 0)
  <2>1. /\ Effect("SET_FIELD", 0) = -1 /\ Effect("GET_FIELD", 0) = 0 /\ Effect("CLASS", 0) = 1
        /\ Effect("IMPORT", 0) = 0 /\ Effect("EXPORT", 0) = 0
    BY DEF Effect, Pushes, Pops
  <2>2. {"SET_FIELD", "GET_FIELD", "CLASS", "IMPORT", "EXPORT"} \subseteq NameArgs
    BY DEF NameArgs
  <2>. QED BY <2>1, <2>2, AddsName
<1>. QED BY <1>1, <1>2, <1>3

(* So many expressions raise by so much.                                   *)
LEMMA AddsMany ==
  ASSUME NEW n \in Nat, NEW t \in Seq(Steps), Len(t) = n, \A i \in 1..n : t[i] = Expr
  PROVE AddsAll(t, n)
<1> SUFFICES ASSUME NEW b \in Seq(Shapes), NEW m \in Seq(OpenMarks), NEW d \in Nat, NEW p \in {0, 1}, NEW o \in Int
             PROVE Chain(Fr(b, m, d, p, o), t, Fr(b, m, d, p, o + n))
  BY DEF AddsAll
<1> DEFINE A == [i \in 1..Len(t) + 1 |-> Fr(b, m, d, p, o + (i - 1))]
<1>1. A \in [1..Len(t) + 1 -> Frames]
  <2>1. ASSUME NEW i \in 1..Len(t) + 1 PROVE Fr(b, m, d, p, o + (i - 1)) \in Frames
    <3>1. o + (i - 1) \in Int
      OBVIOUS
    <3>. QED BY <3>1, FrType
  <2>. QED BY <2>1, Zenon
<1>2. A[1] = Fr(b, m, d, p, o) /\ A[Len(t) + 1] = Fr(b, m, d, p, o + n)
  <2>1. 1 \in 1..Len(t) + 1 /\ o + (1 - 1) = o
    OBVIOUS
  <2>2. Len(t) + 1 \in 1..Len(t) + 1 /\ o + ((Len(t) + 1) - 1) = o + n
    OBVIOUS
  <2>3. A[1] = Fr(b, m, d, p, o + (1 - 1)) /\ A[Len(t) + 1] = Fr(b, m, d, p, o + ((Len(t) + 1) - 1))
    BY <2>1, <2>2
  <2>. QED BY <2>1, <2>2, <2>3
<1>3. ASSUME NEW k \in 1..Len(t) PROVE Flows(A[k], t[k], A[k + 1])
  <2>1. A[k] = Fr(b, m, d, p, o + (k - 1)) /\ A[k + 1] = Fr(b, m, d, p, o + ((k + 1) - 1))
    OBVIOUS
  <2>2. o + (k - 1) \in Int /\ (o + (k - 1)) + 1 = o + ((k + 1) - 1)
    OBVIOUS
  <2>3. Flows(Fr(b, m, d, p, o + (k - 1)), Expr, Fr(b, m, d, p, (o + (k - 1)) + 1))
    BY <2>2, AddsValues, Zenon DEF Adds
  <2>. QED BY <2>1, <2>2, <2>3
<1> HIDE DEF A
<1>. QED BY <1>1, <1>2, <1>3, Zenon DEF Chain

-----------------------------------------------------------------------------
(* The other steps.                                                        *)

(* The marks of a shape with one more, and without it.                     *)
LEMMA MarksOne ==
  ASSUME NEW S, NEW m \in Seq(S), NEW x \in S
  PROVE LET t == Append(m, x)
        IN t \in Seq(S) /\ Len(t) = Len(m) + 1 /\ t[Len(t)] = x /\ SubSeq(t, 1, Len(t) - 1) = m
<1> DEFINE t == Append(m, x)
           u == SubSeq(t, 1, Len(t) - 1)
<1>1. t \in Seq(S) /\ Len(t) = Len(m) + 1 /\ t[Len(t)] = x /\ Len(m) \in Nat
  OBVIOUS
<1>2. \A i \in 1..Len(m) : t[i] = m[i]
  OBVIOUS
<1> HIDE DEF t
<1>3. u \in Seq(S) /\ Len(u) = Len(m)
  BY <1>1
<1>4. \A i \in 1..Len(u) : u[i] = m[i]
  BY <1>1, <1>2, <1>3
<1> HIDE DEF u
<1>5. u = m
  BY <1>3, <1>4, SeqEqual
<1>. QED BY <1>1, <1>5 DEF t, u

(* The marks of a shape with two more, and without them.                   *)
LEMMA MarksTwo ==
  ASSUME NEW S, NEW m \in Seq(S), NEW x \in S, NEW y \in S
  PROVE LET t == Append(Append(m, x), y)
        IN /\ t \in Seq(S) /\ Len(t) = Len(m) + 2 /\ t[Len(t)] = y /\ t[Len(t) - 1] = x
           /\ SubSeq(t, 1, Len(t) - 2) = m
<1> DEFINE t == Append(Append(m, x), y)
           u == SubSeq(t, 1, Len(t) - 2)
<1>1. /\ t \in Seq(S) /\ Len(t) = Len(m) + 2 /\ t[Len(t)] = y /\ t[Len(t) - 1] = x
      /\ Len(m) \in Nat
  OBVIOUS
<1>2. \A i \in 1..Len(m) : t[i] = m[i]
  OBVIOUS
<1> HIDE DEF t
<1>3. u \in Seq(S) /\ Len(u) = Len(m)
  BY <1>1
<1>4. \A i \in 1..Len(u) : u[i] = m[i]
  BY <1>1, <1>2, <1>3
<1> HIDE DEF u
<1>5. u = m
  BY <1>3, <1>4, SeqEqual
<1>. QED BY <1>1, <1>5 DEF t, u

(* A step on the top of a frame.                                           *)
LEMMA FlowTop ==
  ASSUME NEW b, NEW x, NEW y, NEW s, Rises(x, s, y) \/ Scopes(x, s, y) \/ Jumps(x, s, y)
  PROVE Flows(Frame(b, x), s, Frame(b, y))
<1>1. Frame(b, x).below = b /\ Frame(b, y).below = b /\ Frame(b, x).top = x /\ Frame(b, y).top = y
  BY DEF Frame
<1>. QED BY <1>1 DEF Flows

(* A mark is what OpenMark says.                                           *)
LEMMA OpenMarkType ==
  \A j \in {0, 1}, o \in Int :
    OpenMark(j, o) \in OpenMarks /\ OpenMark(j, o).jump = j /\ OpenMark(j, o).over = o
BY DEF OpenMark, OpenMarks

(* A shape is what Shape says.                                             *)
LEMMA ShapeParts ==
  \A m, d, p, o :
    /\ Shape(m, d, p, o).marks = m /\ Shape(m, d, p, o).depth = d
    /\ Shape(m, d, p, o).pending = p /\ Shape(m, d, p, o).over = o
BY DEF Shape

(* The steps that jump.                                                    *)
LEMMA JumpSteps ==
  /\ If \in Steps /\ If.do = "if" /\ Exit \in Steps /\ Exit.do = "exit" /\ Skip \in Steps /\ Skip.do = "skip" /\ Else \in Steps /\ Else.do = "else"
  /\ Join \in Steps /\ Join.do = "join" /\ Start \in Steps /\ Start.do = "start"
  /\ \A n \in Nat : Loop(n) \in Steps /\ Loop(n).do = "loop" /\ Loop(n).n = n
BY DEF Steps, Dos, Args, Step, If, Exit, Skip, Else, Join, Start, Loop

(* If, Exit and Skip leave a mark.                                         *)
LEMMA FlowJump ==
  ASSUME NEW b, NEW m, NEW d, NEW p, NEW o
  PROVE /\ Flows(Fr(b, m, d, p, o), If, Fr(b, Append(m, OpenMark(1, o - 1)), d, p, o - 1))
        /\ Flows(Fr(b, m, d, p, o), Exit, Fr(b, Append(m, OpenMark(1, o - 2)), d, p, o - 2))
        /\ Flows(Fr(b, m, d, p, o), Skip, Fr(b, Append(m, OpenMark(1, o)), d, p, o))
        /\ Flows(Fr(b, m, d, p, o), Start, Fr(b, Append(m, OpenMark(0, o)), d, p, o))
<1> DEFINE x == Shape(m, d, p, o)
<1>1. x.marks = m /\ x.depth = d /\ x.pending = p /\ x.over = o
  BY ShapeParts
<1> HIDE DEF x
<1>2. Jumps(x, If, Shape(Append(m, OpenMark(1, o - 1)), d, p, o - 1))
  BY <1>1, JumpSteps DEF Jumps
<1>3. Jumps(x, Skip, Shape(Append(m, OpenMark(1, o)), d, p, o))
  BY <1>1, JumpSteps DEF Jumps
<1>4. Jumps(x, Start, Shape(Append(m, OpenMark(0, o)), d, p, o))
  BY <1>1, JumpSteps DEF Jumps
<1>5. Jumps(x, Exit, Shape(Append(m, OpenMark(1, o - 2)), d, p, o - 2))
  BY <1>1, JumpSteps DEF Jumps
<1>. QED BY <1>2, <1>3, <1>4, <1>5, FlowTop DEF Fr, x

(* Else comes back to the height at the mark before the last.              *)
LEMMA FlowElse ==
  ASSUME NEW b, NEW m \in Seq(OpenMarks), NEW d, NEW p, NEW o \in Int, NEW i \in Int, NEW j \in Int
  PROVE Flows(Fr(b, Append(Append(m, OpenMark(1, i)), OpenMark(1, j)), d, p, o), Else,
              Fr(b, Append(m, OpenMark(1, j)), d, p, i))
<1> DEFINE t == Append(Append(m, OpenMark(1, i)), OpenMark(1, j))
           x == Shape(t, d, p, o)
<1>1. OpenMark(1, i) \in OpenMarks /\ OpenMark(1, j) \in OpenMarks
  BY OpenMarkType
<1>2. /\ t \in Seq(OpenMarks) /\ Len(t) = Len(m) + 2 /\ t[Len(t)] = OpenMark(1, j)
      /\ t[Len(t) - 1] = OpenMark(1, i) /\ SubSeq(t, 1, Len(t) - 2) = m
  BY <1>1, MarksTwo
<1> HIDE DEF t
<1>3. x.marks = t /\ x.depth = d /\ x.pending = p /\ x.over = o
  BY ShapeParts
<1> HIDE DEF x
<1>4. Len(t) > 1 /\ t[Len(t)].jump = 1 /\ t[Len(t) - 1].jump = 1 /\ t[Len(t) - 1].over = i
  BY <1>2, OpenMarkType
<1>5. Jumps(x, Else, Shape(Append(m, OpenMark(1, j)), d, p, i))
  BY <1>2, <1>3, <1>4, JumpSteps, Zenon DEF Jumps
<1>. QED BY <1>5, FlowTop DEF Fr, x, t

(* Join takes the last mark off.                                           *)
LEMMA FlowJoin ==
  ASSUME NEW b, NEW m \in Seq(OpenMarks), NEW d, NEW p, NEW o \in Int
  PROVE Flows(Fr(b, Append(m, OpenMark(1, o)), d, p, o), Join, Fr(b, m, d, p, o))
<1> DEFINE t == Append(m, OpenMark(1, o))
           x == Shape(t, d, p, o)
<1>1. OpenMark(1, o) \in OpenMarks
  BY OpenMarkType
<1>2. /\ t \in Seq(OpenMarks) /\ Len(t) = Len(m) + 1 /\ t[Len(t)] = OpenMark(1, o)
      /\ SubSeq(t, 1, Len(t) - 1) = m
  BY <1>1, MarksOne
<1> HIDE DEF t
<1>3. x.marks = t /\ x.depth = d /\ x.pending = p /\ x.over = o
  BY ShapeParts
<1> HIDE DEF x
<1>4. Len(t) > 0 /\ t[Len(t)].jump = 1 /\ t[Len(t)].over = o
  BY <1>2, OpenMarkType
<1>5. Jumps(x, Join, Shape(m, d, p, o))
  BY <1>2, <1>3, <1>4, JumpSteps, Zenon DEF Jumps
<1>. QED BY <1>5, FlowTop DEF Fr, x, t

(* A loop takes its marks off.                                             *)
LEMMA FlowLoop ==
  ASSUME NEW b, NEW m \in Seq(OpenMarks), NEW d, NEW p, NEW i \in Int, NEW j \in Int
  PROVE /\ Flows(Fr(b, Append(Append(m, OpenMark(0, i)), OpenMark(1, j)), d, p, 0), Loop(1), Fr(b, m, d, p, j))
        /\ Flows(Fr(b, Append(m, OpenMark(0, i)), d, p, 0), Loop(0), Fr(b, m, d, p, 0))
<1>1. OpenMark(0, i) \in OpenMarks /\ OpenMark(1, j) \in OpenMarks
  BY OpenMarkType
<1>2. Flows(Fr(b, Append(Append(m, OpenMark(0, i)), OpenMark(1, j)), d, p, 0), Loop(1), Fr(b, m, d, p, j))
  <2> DEFINE t == Append(Append(m, OpenMark(0, i)), OpenMark(1, j))
             x == Shape(t, d, p, 0)
  <2>1. /\ t \in Seq(OpenMarks) /\ Len(t) = Len(m) + 2 /\ t[Len(t)] = OpenMark(1, j)
        /\ t[Len(t) - 1] = OpenMark(0, i) /\ SubSeq(t, 1, Len(t) - 2) = m
    BY <1>1, MarksTwo
  <2> HIDE DEF t
  <2>2. x.marks = t /\ x.depth = d /\ x.pending = p /\ x.over = 0
    BY ShapeParts
  <2> HIDE DEF x
  <2>3. Len(t) > 1 /\ t[Len(t)].jump = 1 /\ t[Len(t) - 1].jump = 0 /\ t[Len(t)].over = j
    BY <2>1, OpenMarkType
  <2>4. Jumps(x, Loop(1), Shape(m, d, p, j))
    BY <2>1, <2>2, <2>3, JumpSteps, Zenon DEF Jumps
  <2>. QED BY <2>4, FlowTop DEF Fr, x, t
<1>3. Flows(Fr(b, Append(m, OpenMark(0, i)), d, p, 0), Loop(0), Fr(b, m, d, p, 0))
  <2> DEFINE t == Append(m, OpenMark(0, i))
             x == Shape(t, d, p, 0)
  <2>1. /\ t \in Seq(OpenMarks) /\ Len(t) = Len(m) + 1 /\ t[Len(t)] = OpenMark(0, i)
        /\ SubSeq(t, 1, Len(t) - 1) = m
    BY <1>1, MarksOne
  <2> HIDE DEF t
  <2>2. x.marks = t /\ x.depth = d /\ x.pending = p /\ x.over = 0
    BY ShapeParts
  <2> HIDE DEF x
  <2>3. Len(t) > 0 /\ t[Len(t)].jump = 0
    BY <2>1, OpenMarkType
  <2>4. Jumps(x, Loop(0), Shape(m, d, p, 0))
    BY <2>1, <2>2, <2>3, JumpSteps, Zenon DEF Jumps
  <2>. QED BY <2>4, FlowTop DEF Fr, x, t
<1>. QED BY <1>2, <1>3

(* The steps of scopes and names.                                          *)
LEMMA ScopeSteps ==
  /\ \A s \in {Stmt, Decl, Block} : s \in Steps /\ s.do = "stmt"
  /\ Begin \in Steps /\ Begin.do = "begin" /\ EndScope \in Steps /\ EndScope.do = "endscope"
  /\ Declare \in Steps /\ Declare.do = "declare" /\ Declare.arg # "unset"
  /\ Unset \in Steps /\ Unset.do = "declare" /\ Unset.arg = "unset"
  /\ \A of \in {"var", "class", "counter", "iterator", "func"} :
       Define(of) \in Steps /\ Define(of).do = "define" /\ Define(of).arg = of
BY DEF Steps, Dos, Args, Step, Stmt, Decl, Block, Begin, EndScope, Declare, Unset, Define, None

(* A statement leaves nothing behind, and a scope ends at its depth.       *)
LEMMA FlowScope ==
  ASSUME NEW b, NEW m, NEW d \in Nat, NEW p, NEW o
  PROVE /\ \A s \in {Stmt, Decl, Block} : Flows(Fr(b, m, d, 0, 0), s, Fr(b, m, d, 0, 0))
        /\ Flows(Fr(b, m, d, p, o), Begin, Fr(b, m, d + 1, p, o))
        /\ Flows(Fr(b, m, d + 1, 0, o), EndScope, Fr(b, m, d, 0, o))
<1>1. ASSUME NEW s \in {Stmt, Decl, Block} PROVE Flows(Fr(b, m, d, 0, 0), s, Fr(b, m, d, 0, 0))
  <2> DEFINE x == Shape(m, d, 0, 0)
  <2>1. x.pending = 0 /\ x.over = 0 /\ s.do = "stmt"
    BY ShapeParts, ScopeSteps
  <2> HIDE DEF x
  <2>2. Rises(x, s, x)
    BY <2>1 DEF Rises
  <2>. QED BY <2>2, FlowTop DEF Fr, x
<1>2. Flows(Fr(b, m, d, p, o), Begin, Fr(b, m, d + 1, p, o))
  <2> DEFINE x == Shape(m, d, p, o)
  <2>1. x.marks = m /\ x.depth = d /\ x.pending = p /\ x.over = o
    BY ShapeParts
  <2> HIDE DEF x
  <2>2. Scopes(x, Begin, Shape(m, d + 1, p, o))
    BY <2>1, ScopeSteps DEF Scopes
  <2>. QED BY <2>2, FlowTop DEF Fr, x
<1>3. Flows(Fr(b, m, d + 1, 0, o), EndScope, Fr(b, m, d, 0, o))
  <2> DEFINE x == Shape(m, d + 1, 0, o)
  <2>1. x.marks = m /\ x.depth = d + 1 /\ x.pending = 0 /\ x.over = o
    BY ShapeParts
  <2> HIDE DEF x
  <2>2. (d + 1) - 1 = d /\ d + 1 > 0
    OBVIOUS
  <2>3. Scopes(x, EndScope, Shape(m, d, 0, o))
    BY <2>1, <2>2, ScopeSteps DEF Scopes
  <2>. QED BY <2>3, FlowTop DEF Fr, x
<1>. QED BY <1>1, <1>2, <1>3

(* A name that is declared in a scope waits for its value.                 *)
LEMMA FlowName ==
  ASSUME NEW b, NEW m, NEW d \in Nat, NEW o \in Int, NEW of \in {"var", "class", "counter", "iterator"}
  PROVE /\ d = 0 => /\ Flows(Fr(b, m, d, 0, o), Declare, Fr(b, m, d, 0, o))
                    /\ Flows(Fr(b, m, d, 0, o), Define(of), Fr(b, m, d, 0, o - 1))
        /\ d > 0 => /\ Flows(Fr(b, m, d, 0, o), Declare, Fr(b, m, d, 1, o - 1))
                    /\ Flows(Fr(b, m, d, 1, o), Define(of), Fr(b, m, d, 0, o))
                    /\ Flows(Fr(b, m, d, 0, o), Unset, Fr(b, m, d, 0, o))
<1> DEFINE x == Shape(m, d, 0, o)
           y == Shape(m, d, 1, o)
<1>1. x.marks = m /\ x.depth = d /\ x.pending = 0 /\ x.over = o
  BY ShapeParts
<1>2. y.marks = m /\ y.depth = d /\ y.pending = 1 /\ y.over = o
  BY ShapeParts
<1> HIDE DEF x, y
<1>3. d = 0 => Scopes(x, Declare, x) /\ Scopes(x, Define(of), Shape(m, d, 0, o - 1))
  BY <1>1, ScopeSteps DEF Scopes, Over
<1>4. d > 0 => Scopes(x, Declare, Shape(m, d, 1, o - 1)) /\ Scopes(y, Define(of), Shape(m, d, 0, o))
  BY <1>1, <1>2, ScopeSteps DEF Scopes
<1>5. d > 0 => Scopes(x, Unset, x)
  BY <1>1, ScopeSteps DEF Scopes
<1>. QED BY <1>3, <1>4, <1>5, FlowTop DEF Fr, x, y

(* The steps around a function.                                            *)
LEMMA FunctionSteps ==
  \A type \in Types, n \in Nat :
    /\ Enter(type, n) \in Steps /\ Enter(type, n).do = "enter" /\ Enter(type, n).arg = type
    /\ Enter(type, n).n = n
    /\ Leave(type) \in Steps /\ Leave(type).do = "leave" /\ Leave(type).arg = type
BY DEF Steps, Dos, Args, Step, Enter, Leave

(* A function has a frame of its own.                                      *)
LEMMA FlowEnter ==
  ASSUME NEW b, NEW m, NEW d, NEW p, NEW o, NEW type \in Types, NEW n \in Nat
  PROVE Flows(Fr(b, m, d, p, o), Enter(type, n),
              Fr(Append(b, Shape(m, d, p, o)), <<>>, IF type \in Lambdas THEN 0 ELSE 1, 0, 0))
<1> DEFINE f == Fr(b, m, d, p, o)
           s == Enter(type, n)
<1>1. f.below = b /\ f.top = Shape(m, d, p, o)
  BY DEF Fr, Frame
<1>2. s.do = "enter" /\ s.arg = type
  BY FunctionSteps
<1> HIDE DEF f, s
<1>3. Flows(f, s, Frame(Append(b, Shape(m, d, p, o)), Fresh(type)))
  BY <1>1, <1>2 DEF Flows
<1>. QED BY <1>3 DEF f, s, Fresh, Fr

(* The frame below is the one that the function was entered from.          *)
LEMMA FlowLeave ==
  ASSUME NEW b \in Seq(Shapes), NEW m \in Seq(OpenMarks), NEW d \in Nat, NEW p \in {0, 1}, NEW o \in Int,
         NEW type \in Types, type = "function" => p = 0
  PROVE Flows(Fr(Append(b, Shape(m, d, p, o)), <<>>, 0, 0, IF type = "arrow" THEN 1 ELSE 0), Leave(type),
              Fr(b, m, d, p, o + (IF type \in Lambdas THEN 1 ELSE 0)))
<1> DEFINE x == Shape(m, d, p, o)
           t == Append(b, x)
           k == IF type \in Lambdas THEN 1 ELSE 0
           h == IF type = "arrow" THEN 1 ELSE 0
           f == Fr(t, <<>>, 0, 0, h)
           g == Fr(b, m, d, p, o + k)
           s == Leave(type)
<1>1. x \in Shapes /\ Over(x, x.over + k) = Shape(m, d, p, o + k) /\ x.pending = p
  BY DEF Shape, Shapes, Over
<1>2. s.do = "leave" /\ s.arg = type
  BY FunctionSteps
<1> HIDE DEF x, s
<1>3. Len(t) = Len(b) + 1 /\ t[Len(t)] = x /\ SubSeq(t, 1, Len(t) - 1) = b /\ t # <<>>
  <2>1. Len(t) = Len(b) + 1 /\ t[Len(t)] = x /\ SubSeq(t, 1, Len(t) - 1) = b
    BY <1>1, MarksOne
  <2>2. t # <<>>
    BY <1>1
  <2>. QED BY <2>1, <2>2
<1> HIDE DEF t
<1>4. Front(t) = b /\ Last(t) = x
  BY <1>3 DEF Front, Last
<1>5. f.below = t /\ f.top = Shape(<<>>, 0, 0, h) /\ g.below = b /\ g.top = Shape(m, d, p, o + k)
  BY DEF Fr, Frame
<1>6. Rest(f.top) /\ f.top.over = h
  BY <1>5, ShapeParts DEF Rest
<1> HIDE DEF f, g
<1>7. Flows(f, s, g)
  BY <1>1, <1>2, <1>3, <1>4, <1>5, <1>6 DEF Flows
<1>. QED BY <1>7 DEF f, g, s, t, x

-----------------------------------------------------------------------------
(* Expressions: each leaves one value.                                     *)

(* Chains of a few steps.                                                  *)
LEMMA ChainTwo ==
  ASSUME NEW f \in Frames, NEW g \in Frames, NEW h \in Frames, NEW x \in Steps, NEW y \in Steps,
         Flows(f, x, g), Flows(g, y, h)
  PROVE Chain(f, <<x, y>>, h)
<1>1. Chain(f, <<x>>, g) /\ Chain(g, <<y>>, h)
  BY ChainOne
<1>2. Chain(f, <<x>> \o <<y>>, h)
  BY <1>1, ChainJoin
<1>. QED BY <1>2, JoinTwo, Zenon

(* Three steps.                                                            *)
LEMMA ChainThree ==
  ASSUME NEW f \in Frames, NEW g \in Frames, NEW h \in Frames, NEW k \in Frames,
         NEW x \in Steps, NEW y \in Steps, NEW z \in Steps,
         Flows(f, x, g), Flows(g, y, h), Flows(h, z, k)
  PROVE Chain(f, <<x, y, z>>, k)
<1>1. Chain(f, <<x, y>>, h) /\ Chain(h, <<z>>, k)
  BY ChainOne, ChainTwo
<1>2. Chain(f, <<x, y>> \o <<z>>, k)
  BY <1>1, ChainJoin
<1>3. <<x, y>> \o <<z>> = <<x, y, z>>
  BY JoinThree
<1>. QED BY <1>2, <1>3, Zenon

(* Four steps.                                                             *)
LEMMA ChainFour ==
  ASSUME NEW f \in Frames, NEW g \in Frames, NEW h \in Frames, NEW k \in Frames, NEW l \in Frames,
         NEW w \in Steps, NEW x \in Steps, NEW y \in Steps, NEW z \in Steps,
         Flows(f, w, g), Flows(g, x, h), Flows(h, y, k), Flows(k, z, l)
  PROVE Chain(f, <<w, x, y, z>>, l)
<1>1. Chain(f, <<w, x>>, h) /\ Chain(h, <<y, z>>, l)
  BY ChainTwo
<1>2. Chain(f, <<w, x>> \o <<y, z>>, l)
  BY <1>1, ChainJoin
<1>3. <<w, x>> \o <<y, z>> = <<w, x, y, z>>
  BY JoinFour
<1>. QED BY <1>2, <1>3, Zenon

(* Five steps.                                                             *)
LEMMA ChainFive ==
  ASSUME NEW f \in Frames, NEW g \in Frames, NEW h \in Frames, NEW k \in Frames, NEW l \in Frames,
         NEW n \in Frames,
         NEW v \in Steps, NEW w \in Steps, NEW x \in Steps, NEW y \in Steps, NEW z \in Steps,
         Flows(f, v, g), Flows(g, w, h), Flows(h, x, k), Flows(k, y, l), Flows(l, z, n)
  PROVE Chain(f, <<v, w, x, y, z>>, n)
<1>1. Chain(f, <<v, w, x>>, k) /\ Chain(k, <<y, z>>, n)
  BY ChainTwo, ChainThree, Zenon
<1>2. Chain(f, <<v, w, x>> \o <<y, z>>, n)
  BY <1>1, ChainJoin
<1>3. <<v, w, x>> \o <<y, z>> = <<v, w, x, y, z>>
  BY JoinFive
<1>. QED BY <1>2, <1>3, Zenon

(* The conditional expression: either branch leaves a value.               *)
LEMMA AddsTernary == AddsAll(<<Expr, If, Expr, Skip, Else, Expr, Join>>, 1)
<1> DEFINE steps == <<Expr, If, Expr, Skip, Else, Expr, Join>>
<1>1. Expr \in Steps /\ If \in Steps /\ Skip \in Steps /\ Else \in Steps /\ Join \in Steps
  BY AddsValues, JumpSteps DEF Adds
<1>2. ASSUME NEW b \in Seq(Shapes), NEW m \in Seq(OpenMarks), NEW d \in Nat, NEW p \in {0, 1}, NEW o \in Int
      PROVE Chain(Fr(b, m, d, p, o), steps, Fr(b, m, d, p, o + 1))
  <2> DEFINE M == Append(m, OpenMark(1, o))
             N == Append(m, OpenMark(1, o + 1))
             L == Append(M, OpenMark(1, o + 1))
  <2>1. /\ OpenMark(1, o) \in OpenMarks /\ OpenMark(1, o + 1) \in OpenMarks
        /\ M \in Seq(OpenMarks) /\ N \in Seq(OpenMarks) /\ L \in Seq(OpenMarks)
    BY OpenMarkType
  <2>2. o + 1 \in Int /\ (o + 1) - 1 = o
    OBVIOUS
  <2>3. Flows(Fr(b, m, d, p, o), Expr, Fr(b, m, d, p, o + 1))
    BY AddsValues, Zenon DEF Adds
  <2>4. Flows(Fr(b, m, d, p, o + 1), If, Fr(b, M, d, p, o))
    <3>1. Flows(Fr(b, m, d, p, o + 1), If, Fr(b, Append(m, OpenMark(1, (o + 1) - 1)), d, p, (o + 1) - 1))
      BY FlowJump, Zenon
    <3>. QED BY <3>1, <2>2
  <2>5. Flows(Fr(b, M, d, p, o), Expr, Fr(b, M, d, p, o + 1))
    BY <2>1, AddsValues, Zenon DEF Adds
  <2>6. Flows(Fr(b, M, d, p, o + 1), Skip, Fr(b, L, d, p, o + 1))
    BY FlowJump, Zenon
  <2>7. Flows(Fr(b, L, d, p, o + 1), Else, Fr(b, N, d, p, o))
    BY <2>2, FlowElse
  <2>8. Flows(Fr(b, N, d, p, o), Expr, Fr(b, N, d, p, o + 1))
    BY <2>1, AddsValues, Zenon DEF Adds
  <2>9. Flows(Fr(b, N, d, p, o + 1), Join, Fr(b, m, d, p, o + 1))
    BY <2>2, FlowJoin
  <2> HIDE DEF M, N, L
  <2>10. /\ Fr(b, m, d, p, o) \in Frames /\ Fr(b, m, d, p, o + 1) \in Frames /\ Fr(b, M, d, p, o) \in Frames
         /\ Fr(b, M, d, p, o + 1) \in Frames /\ Fr(b, L, d, p, o + 1) \in Frames
         /\ Fr(b, N, d, p, o) \in Frames /\ Fr(b, N, d, p, o + 1) \in Frames
    BY <2>1, <2>2, FrType
  <2>11. Chain(Fr(b, m, d, p, o), <<Expr, If, Expr>>, Fr(b, M, d, p, o + 1))
    BY <1>1, <2>3, <2>4, <2>5, <2>10, ChainThree, Zenon
  <2>12. Chain(Fr(b, M, d, p, o + 1), <<Skip, Else, Expr, Join>>, Fr(b, m, d, p, o + 1))
    BY <1>1, <2>6, <2>7, <2>8, <2>9, <2>10, ChainFour, Zenon
  <2>13. Chain(Fr(b, m, d, p, o), <<Expr, If, Expr>> \o <<Skip, Else, Expr, Join>>, Fr(b, m, d, p, o + 1))
    BY <2>11, <2>12, ChainJoin
  <2>14. <<Expr, If, Expr>> \o <<Skip, Else, Expr, Join>> = steps
    BY <1>1, JoinSeven
  <2> HIDE DEF steps
  <2>. QED BY <2>13, <2>14, Zenon
<1>3. steps \in Seq(Steps)
  BY <1>1
<1> HIDE DEF steps
<1>4. AddsAll(steps, 1)
  BY <1>2, <1>3 DEF AddsAll
<1>. QED BY <1>4 DEF steps

(* A lambda leaves its closure.                                            *)
LEMMA AddsLambda ==
  ASSUME NEW type \in Lambdas, NEW n \in Nat
  PROVE AddsAll(LambdaOf(type, n), 1)
<1> DEFINE body == IF type = "arrow" THEN Expr ELSE Block
           h == IF type = "arrow" THEN 1 ELSE 0
           steps == <<Enter(type, n), body, Op("RETURN_VOID"), Leave(type)>>
<1>1. /\ type \in Types /\ type # "function" /\ Enter(type, n) \in Steps /\ Leave(type) \in Steps
      /\ body \in Steps /\ Op("RETURN_VOID") \in Steps
  <2>1. type \in Types /\ type # "function"
    BY DEF Types, Lambdas
  <2>2. Enter(type, n) \in Steps /\ Leave(type) \in Steps
    BY <2>1, FunctionSteps
  <2>3. Expr \in Steps /\ Block \in Steps /\ Op("RETURN_VOID") \in Steps
    BY AddsValues, AddsOps, ScopeSteps DEF Adds
  <2>. QED BY <2>1, <2>2, <2>3
<1>2. ASSUME NEW b \in Seq(Shapes), NEW m \in Seq(OpenMarks), NEW d \in Nat, NEW p \in {0, 1}, NEW o \in Int
      PROVE Chain(Fr(b, m, d, p, o), steps, Fr(b, m, d, p, o + 1))
  <2> DEFINE B == Append(b, Shape(m, d, p, o))
  <2>1. B \in Seq(Shapes) /\ <<>> \in Seq(OpenMarks)
    BY DEF Shape, Shapes
  <2>2. Flows(Fr(b, m, d, p, o), Enter(type, n), Fr(B, <<>>, 0, 0, 0))
    BY <1>1, FlowEnter
  <2>3. Flows(Fr(B, <<>>, 0, 0, h), Leave(type), Fr(b, m, d, p, o + 1))
    BY <1>1, FlowLeave, Zenon
  <2> HIDE DEF B
  <2>4. Flows(Fr(B, <<>>, 0, 0, 0), body, Fr(B, <<>>, 0, 0, h))
    <3>1. Flows(Fr(B, <<>>, 0, 0, 0), Expr, Fr(B, <<>>, 0, 0, 0 + 1))
      BY <2>1, AddsValues, Zenon DEF Adds
    <3>2. Flows(Fr(B, <<>>, 0, 0, 0), Block, Fr(B, <<>>, 0, 0, 0))
      BY FlowScope
    <3>. QED BY <3>1, <3>2
  <2>5. Flows(Fr(B, <<>>, 0, 0, h), Op("RETURN_VOID"), Fr(B, <<>>, 0, 0, h))
    <3>1. Flows(Fr(B, <<>>, 0, 0, h), Op("RETURN_VOID"), Fr(B, <<>>, 0, 0, h + 0))
      BY <2>1, AddsOps, Zenon DEF Adds
    <3>. QED BY <3>1
  <2>6. /\ Fr(b, m, d, p, o) \in Frames /\ Fr(B, <<>>, 0, 0, 0) \in Frames
        /\ Fr(B, <<>>, 0, 0, h) \in Frames /\ Fr(b, m, d, p, o + 1) \in Frames
    <3>1. o + 1 \in Int /\ h \in Int /\ 0 \in Nat /\ 0 \in Int /\ 0 \in {0, 1}
      OBVIOUS
    <3>2. Fr(b, m, d, p, o) \in Frames /\ Fr(b, m, d, p, o + 1) \in Frames
      BY <3>1, FrType
    <3> HIDE DEF h
    <3>3. Fr(B, <<>>, 0, 0, 0) \in Frames /\ Fr(B, <<>>, 0, 0, h) \in Frames
      BY <2>1, <3>1, FrType, Zenon
    <3>. QED BY <3>2, <3>3
  <2> HIDE DEF body, h
  <2>. QED BY <1>1, <2>2, <2>3, <2>4, <2>5, <2>6, ChainFour, Zenon
<1>3. steps \in Seq(Steps)
  <2> HIDE DEF body
  <2>. QED BY <1>1
<1> HIDE DEF steps
<1>4. AddsAll(steps, 1)
  BY <1>2, <1>3 DEF AddsAll
<1>. QED BY <1>4 DEF steps, LambdaOf

(* A call: the arguments, the callee, and one value in their place.        *)
LEMMA AddsCall ==
  ASSUME NEW n \in Nat
  PROVE /\ AddsAll(CallOf(n), 1)
        /\ AddsAll(ListOf(n), 1)
        /\ AddsAll(DictOf(n), 1)
<1> DEFINE t == Times(n, <<Expr>>)
           u == Times(n, <<Expr, Expr>>)
<1>1. Expr \in Steps /\ Adds(Expr, 1)
  BY AddsValues DEF Adds
<1>2. AddsAll(t, n)
  BY <1>1, TimesOne, AddsMany
<1>3. AddsAll(u, 2 * n)
  <2>1. u \in Seq(Steps) /\ Len(u) = 2 * n /\ \A i \in 1..2 * n : u[i] = Expr
    BY <1>1, TimesTwo, Zenon
  <2>2. 2 * n \in Nat
    OBVIOUS
  <2> HIDE DEF u
  <2>. QED BY <2>1, <2>2, AddsMany
<1>4. Adds(OpN("CALL", n), 0 - n) /\ Adds(OpN("CONST_LIST", n), 1 - n) /\ Adds(OpN("CONST_DICT", n), 1 - 2 * n)
  <2>1. /\ Effect("CALL", n) = 0 - n /\ Effect("CONST_LIST", n) = 1 - n /\ Effect("CONST_DICT", n) = 1 - 2 * n
        /\ 0 - n \in Int /\ 1 - n \in Int /\ 1 - 2 * n \in Int
    BY DEF Effect, Pushes, Pops
  <2>2. "CALL" \in OpArgs /\ "CONST_LIST" \in OpArgs /\ "CONST_DICT" \in OpArgs
    BY DEF OpArgs
  <2>. QED BY <2>1, <2>2, AddsOp
<1> DEFINE c == <<Expr, OpN("CALL", n)>>
           l == <<OpN("CONST_LIST", n)>>
           d == <<OpN("CONST_DICT", n)>>
<1>5. AddsAll(c, 1 - n) /\ AddsAll(l, 1 - n) /\ AddsAll(d, 1 - 2 * n)
  <2>1. 1 - n = 1 + (0 - n) /\ 0 - n \in Int
    OBVIOUS
  <2>2. AddsAll(c, 1 - n)
    BY <1>1, <1>4, <2>1, AddsTwo
  <2>. QED BY <1>4, <2>2, AddsOne
<1>6. n + (1 - n) = 1 /\ 2 * n + (1 - 2 * n) = 1
  OBVIOUS
<1> HIDE DEF t, u, c, l, d
<1>7. AddsAll(t \o c, n + (1 - n)) /\ AddsAll(t \o l, n + (1 - n)) /\ AddsAll(u \o d, 2 * n + (1 - 2 * n))
  BY <1>2, <1>3, <1>5, AddsJoin, Zenon
<1>. QED BY <1>6, <1>7 DEF t, u, c, l, d, CallOf, ListOf, DictOf

(* The parts of a node are a number.                                       *)
LEMMA PartsType == \A n \in Parts : n \in Nat
<1>1. MaxParts \in Nat
  BY CodeAssumption
<1>. QED BY <1>1 DEF Parts

(* Whatever the expression, it leaves one value.                           *)
LEMMA ExpressionAdds ==
  ASSUME NEW kind \in DOMAIN Expressions, NEW steps \in Expressions[kind]
  PROVE AddsAll(steps, 1)
<1>0. kind \in {"number", "null", "identifier", "binary", "unary", "increment", "assignment", "call",
                "member", "index", "list", "dict", "lambda", "ternary"}
  BY DEF Expressions
<1>1. CASE kind = "number"
  <2>1. steps = <<Constant>>
    BY <1>1 DEF Expressions
  <2>. QED BY <2>1, AddsValues, AddsOne
<1>2. CASE kind = "null"
  <2>1. steps = <<Op("CONST_NULL")>>
    BY <1>2 DEF Expressions
  <2>. QED BY <2>1, AddsOps, AddsOne
<1>3. CASE kind = "identifier"
  <2>1. steps = <<Variable("SET")>>
    BY <1>3 DEF Expressions
  <2>. QED BY <2>1, AddsValues, AddsOne
<1>4. CASE kind = "binary"
  <2>1. steps = <<Expr, Expr, Op("ADD")>>
    BY <1>4 DEF Expressions
  <2>2. Adds(Expr, 1) /\ Adds(Op("ADD"), -1) /\ 1 = 1 + 1 + (-1)
    BY AddsValues, AddsOps
  <2>. QED BY <2>1, <2>2, AddsThree
<1>5. CASE kind = "unary"
  <2>1. steps = <<Expr, Op("NEG")>>
    BY <1>5 DEF Expressions
  <2>. QED BY <2>1, AddsValues, AddsOps, AddsTwo
<1>6. CASE kind = "increment"
  <2>1. steps = <<Expr, One, Op("ADD")>>
    BY <1>6 DEF Expressions
  <2>2. Adds(Expr, 1) /\ Adds(One, 1) /\ Adds(Op("ADD"), -1) /\ 1 = 1 + 1 + (-1)
    BY AddsValues, AddsOps
  <2>. QED BY <2>1, <2>2, AddsThree
<1>7. CASE kind = "assignment"
  <2>1. \/ steps = <<Expr, Variable("ASSIGN")>>
        \/ steps = <<Expr, Expr, Name("SET_FIELD")>>
        \/ steps = <<Expr, Expr, Expr, Op("SET_INDEX")>>
        \/ steps = <<Expr, Refuse>>
    BY <1>7 DEF Expressions
  <2>5. CASE steps = <<Expr, Refuse>>
    BY <2>5, AddsValues, AddsTwo
  <2>2. CASE steps = <<Expr, Variable("ASSIGN")>>
    BY <2>2, AddsValues, AddsTwo
  <2>3. CASE steps = <<Expr, Expr, Name("SET_FIELD")>>
    <3>1. Adds(Expr, 1) /\ Adds(Name("SET_FIELD"), -1) /\ 1 = 1 + 1 + (-1)
      BY AddsValues, AddsOps
    <3>. QED BY <2>3, <3>1, AddsThree
  <2>4. CASE steps = <<Expr, Expr, Expr, Op("SET_INDEX")>>
    <3>1. Adds(Expr, 1) /\ Adds(Op("SET_INDEX"), -2) /\ 1 = 1 + 1 + 1 + (-2)
      BY AddsValues, AddsOps
    <3>. QED BY <2>4, <3>1, AddsFour
  <2>. QED BY <2>1, <2>2, <2>3, <2>4, <2>5
<1>8. CASE kind = "call"
  <2>1. PICK n \in Parts : steps = CallOf(n)
    BY <1>8 DEF Expressions
  <2>2. n \in Nat
    BY PartsType
  <2>. QED BY <2>1, <2>2, AddsCall
<1>9. CASE kind = "member"
  <2>1. steps = <<Expr, Name("GET_FIELD")>>
    BY <1>9 DEF Expressions
  <2>. QED BY <2>1, AddsValues, AddsOps, AddsTwo
<1>10. CASE kind = "index"
  <2>1. steps = <<Expr, Expr, Op("GET_INDEX")>>
    BY <1>10 DEF Expressions
  <2>2. Adds(Expr, 1) /\ Adds(Op("GET_INDEX"), -1) /\ 1 = 1 + 1 + (-1)
    BY AddsValues, AddsOps
  <2>. QED BY <2>1, <2>2, AddsThree
<1>11. CASE kind = "list"
  <2>1. PICK n \in Parts : steps = ListOf(n)
    BY <1>11 DEF Expressions
  <2>2. n \in Nat
    BY PartsType
  <2>. QED BY <2>1, <2>2, AddsCall
<1>12. CASE kind = "dict"
  <2>1. PICK n \in Parts : steps = DictOf(n)
    BY <1>12 DEF Expressions
  <2>2. n \in Nat
    BY PartsType
  <2>. QED BY <2>1, <2>2, AddsCall
<1>13. CASE kind = "lambda"
  <2>1. PICK n \in Parts, type \in Lambdas :
          steps = LambdaOf(type, n)
    BY <1>13 DEF Expressions
  <2>2. n \in Nat
    BY PartsType
  <2>. QED BY <2>1, <2>2, AddsLambda
<1>14. CASE kind = "ternary"
  <2>1. steps = <<Expr, If, Expr, Skip, Else, Expr, Join>>
    BY <1>14 DEF Expressions
  <2>. QED BY <2>1, AddsTernary
<1>. QED
  BY <1>0, <1>1, <1>2, <1>3, <1>4, <1>5, <1>6, <1>7, <1>8, <1>9, <1>10, <1>11, <1>12, <1>13, <1>14

-----------------------------------------------------------------------------
(* Statements: each leaves the stack as it found it.                       *)
Keeps(steps) ==
  /\ steps \in Seq(Steps)
  /\ \A b \in Seq(Shapes), m \in Seq(OpenMarks), d \in Nat :
       Chain(Fr(b, m, d, 0, 0), steps, Fr(b, m, d, 0, 0))

(* The frame between statements.                                           *)
LEMMA FrKept ==
  \A b \in Seq(Shapes), m \in Seq(OpenMarks), d \in Nat : Fr(b, m, d, 0, 0) \in Frames
BY FrType

(* Nothing keeps.                                                          *)
LEMMA KeepsNone == Keeps(<<>>)
<1>1. <<>> \in Seq(Steps)
  OBVIOUS
<1>2. ASSUME NEW b \in Seq(Shapes), NEW m \in Seq(OpenMarks), NEW d \in Nat
      PROVE Chain(Fr(b, m, d, 0, 0), <<>>, Fr(b, m, d, 0, 0))
  BY FrKept, ChainEmpty
<1>. QED BY <1>1, <1>2 DEF Keeps

(* What adds nothing keeps.                                                *)
LEMMA KeepsAdds == ASSUME NEW s, AddsAll(s, 0) PROVE Keeps(s)
<1>1. ASSUME NEW b \in Seq(Shapes), NEW m \in Seq(OpenMarks), NEW d \in Nat
      PROVE Chain(Fr(b, m, d, 0, 0), s, Fr(b, m, d, 0, 0))
  <2>1. Chain(Fr(b, m, d, 0, 0), s, Fr(b, m, d, 0, 0 + 0))
    BY DEF AddsAll
  <2>. QED BY <2>1
<1>2. s \in Seq(Steps)
  BY DEF AddsAll
<1>. QED BY <1>1, <1>2 DEF Keeps

(* Two lists that keep.                                                    *)
LEMMA KeepsJoin == ASSUME NEW s, NEW t, Keeps(s), Keeps(t) PROVE Keeps(s \o t)
<1>1. s \o t \in Seq(Steps)
  BY DEF Keeps
<1>2. ASSUME NEW b \in Seq(Shapes), NEW m \in Seq(OpenMarks), NEW d \in Nat
      PROVE Chain(Fr(b, m, d, 0, 0), s \o t, Fr(b, m, d, 0, 0))
  <2>1. Chain(Fr(b, m, d, 0, 0), s, Fr(b, m, d, 0, 0)) /\ Chain(Fr(b, m, d, 0, 0), t, Fr(b, m, d, 0, 0))
    BY DEF Keeps
  <2>. QED BY <2>1, ChainJoin
<1>. QED BY <1>1, <1>2 DEF Keeps

(* Statements in a row keep.                                               *)
LEMMA KeepsMany ==
  ASSUME NEW s \in {Stmt, Decl, Block}, NEW n \in Nat
  PROVE Keeps(<<s>>) /\ Keeps(Times(n, <<s>>))
<1>1. s \in Steps /\ <<s>> \in Seq(Steps) /\ Times(n, <<s>>) \in Seq(Steps)
  <2>1. s \in Steps
    BY ScopeSteps
  <2>. QED BY <2>1, TimesOne
<1>2. ASSUME NEW b \in Seq(Shapes), NEW m \in Seq(OpenMarks), NEW d \in Nat
      PROVE /\ Chain(Fr(b, m, d, 0, 0), <<s>>, Fr(b, m, d, 0, 0))
            /\ Chain(Fr(b, m, d, 0, 0), Times(n, <<s>>), Fr(b, m, d, 0, 0))
  <2>1. Flows(Fr(b, m, d, 0, 0), s, Fr(b, m, d, 0, 0)) /\ Fr(b, m, d, 0, 0) \in Frames
    BY FlowScope, FrKept, Zenon
  <2>. QED BY <2>1, <1>1, ChainOne, ChainStays
<1>. QED BY <1>1, <1>2, Zenon DEF Keeps

(* A scope around what keeps.                                              *)
LEMMA KeepsScope == ASSUME NEW s, Keeps(s) PROVE Keeps(<<Begin>> \o s \o <<EndScope>>)
<1>1. Begin \in Steps /\ EndScope \in Steps /\ s \in Seq(Steps)
  BY ScopeSteps DEF Keeps
<1>2. <<Begin>> \o s \o <<EndScope>> \in Seq(Steps)
  BY <1>1
<1>3. ASSUME NEW b \in Seq(Shapes), NEW m \in Seq(OpenMarks), NEW d \in Nat
      PROVE Chain(Fr(b, m, d, 0, 0), <<Begin>> \o s \o <<EndScope>>, Fr(b, m, d, 0, 0))
  <2>1. d + 1 \in Nat
    OBVIOUS
  <2>2. Flows(Fr(b, m, d, 0, 0), Begin, Fr(b, m, d + 1, 0, 0)) /\ Flows(Fr(b, m, d + 1, 0, 0), EndScope, Fr(b, m, d, 0, 0))
    BY FlowScope
  <2>3. Fr(b, m, d, 0, 0) \in Frames /\ Fr(b, m, d + 1, 0, 0) \in Frames
    BY <2>1, FrKept
  <2>4. Chain(Fr(b, m, d + 1, 0, 0), s, Fr(b, m, d + 1, 0, 0))
    BY <2>1 DEF Keeps
  <2>5. Chain(Fr(b, m, d, 0, 0), <<Begin>> \o s, Fr(b, m, d + 1, 0, 0))
    BY <1>1, <2>2, <2>3, <2>4, ChainStep
  <2>6. Chain(Fr(b, m, d + 1, 0, 0), <<EndScope>>, Fr(b, m, d, 0, 0))
    BY <1>1, <2>2, <2>3, ChainOne
  <2>. QED BY <2>5, <2>6, ChainJoin
<1>. QED BY <1>2, <1>3 DEF Keeps

(* A function's body has a frame of its own and leaves nothing behind.     *)
LEMMA FlowBody ==
  ASSUME NEW type \in {"function", "method"}, NEW n \in Nat,
         NEW b \in Seq(Shapes), NEW m \in Seq(OpenMarks), NEW d \in Nat, NEW o \in Int
  PROVE /\ Body(type, n) \in Seq(Steps) /\ Len(Body(type, n)) = 5
        /\ Chain(Fr(b, m, d, 0, o), Body(type, n), Fr(b, m, d, 0, o))
<1>1. type \in Types /\ type \notin Lambdas
  BY DEF Types, Lambdas
<1>2. /\ Enter(type, n) \in Steps /\ Leave(type) \in Steps /\ Block \in Steps /\ Op("RETURN_VOID") \in Steps
      /\ EndScope \in Steps
  BY <1>1, FunctionSteps, AddsOps, ScopeSteps DEF Adds
<1> DEFINE B == Append(b, Shape(m, d, 0, o))
<1>3. B \in Seq(Shapes) /\ <<>> \in Seq(OpenMarks)
  BY DEF Shape, Shapes
<1>4. Flows(Fr(b, m, d, 0, o), Enter(type, n), Fr(B, <<>>, 1, 0, 0))
  BY <1>1, FlowEnter
<1>5. Flows(Fr(B, <<>>, 0, 0, 0), Leave(type), Fr(b, m, d, 0, o))
  <2>1. /\ (IF type = "arrow" THEN 1 ELSE 0) = 0 /\ o + (IF type \in Lambdas THEN 1 ELSE 0) = o
    BY <1>1
  <2>2. Flows(Fr(B, <<>>, 0, 0, IF type = "arrow" THEN 1 ELSE 0), Leave(type),
              Fr(b, m, d, 0, o + (IF type \in Lambdas THEN 1 ELSE 0)))
    BY <1>1, FlowLeave
  <2> HIDE DEF B
  <2>. QED BY <2>1, <2>2
<1> HIDE DEF B
<1>6. Flows(Fr(B, <<>>, 1, 0, 0), Block, Fr(B, <<>>, 1, 0, 0))
  BY FlowScope
<1>7. Flows(Fr(B, <<>>, 1, 0, 0), Op("RETURN_VOID"), Fr(B, <<>>, 1, 0, 0))
  <2>1. Flows(Fr(B, <<>>, 1, 0, 0), Op("RETURN_VOID"), Fr(B, <<>>, 1, 0, 0 + 0))
    BY <1>3, AddsOps, Zenon DEF Adds
  <2>. QED BY <2>1
<1>8. Flows(Fr(B, <<>>, 1, 0, 0), EndScope, Fr(B, <<>>, 0, 0, 0))
  <2>1. Flows(Fr(B, <<>>, 0 + 1, 0, 0), EndScope, Fr(B, <<>>, 0, 0, 0))
    BY FlowScope
  <2>. QED BY <2>1
<1>9. Fr(b, m, d, 0, o) \in Frames /\ Fr(B, <<>>, 1, 0, 0) \in Frames /\ Fr(B, <<>>, 0, 0, 0) \in Frames
  <2>1. 0 \in {0, 1} /\ 0 \in Nat /\ 1 \in Nat /\ 0 \in Int
    OBVIOUS
  <2>2. Fr(b, m, d, 0, o) \in Frames
    BY <2>1, FrType
  <2>. QED BY <1>3, <2>1, <2>2, FrKept, Zenon
<1>10. Chain(Fr(b, m, d, 0, o), <<Enter(type, n), Block, Op("RETURN_VOID"), EndScope, Leave(type)>>, Fr(b, m, d, 0, o))
  BY <1>2, <1>4, <1>5, <1>6, <1>7, <1>8, <1>9, ChainFive, Zenon
<1>. QED BY <1>2, <1>10 DEF Body

(* compile_var_decl and a loop's counter: a global is stored and popped, a *)
(* local stays where its value lies.                                       *)
LEMMA KeepsVariable ==
  ASSUME NEW value \in Values, NEW of \in {"var", "counter"}
  PROVE Keeps(<<Declare, value, Define(of)>>)
<1>1. Adds(value, 1) /\ value \in Steps
  <2>1. Adds(Expr, 1) /\ Adds(Op("CONST_NULL"), 1)
    BY AddsValues, AddsOps
  <2>2. value = Expr \/ value = Op("CONST_NULL")
    BY DEF Values
  <2>3. Adds(value, 1)
    BY <2>1, <2>2
  <2>. QED BY <2>3 DEF Adds
<1>2. Declare \in Steps /\ Define(of) \in Steps
  BY ScopeSteps
<1> DEFINE steps == <<Declare, value, Define(of)>>
<1>3. steps \in Seq(Steps)
  BY <1>1, <1>2
<1>4. ASSUME NEW b \in Seq(Shapes), NEW m \in Seq(OpenMarks), NEW d \in Nat
      PROVE Chain(Fr(b, m, d, 0, 0), steps, Fr(b, m, d, 0, 0))
  <2>1. 0 \in Int /\ 1 \in Int /\ -1 \in Int /\ 0 \in {0, 1} /\ 1 \in {0, 1} /\ 0 + 1 = 1 /\ 1 - 1 = 0 /\ -1 + 1 = 0 /\ 0 - 1 = -1
    OBVIOUS
  <2>2. CASE d = 0
    <3>1. Flows(Fr(b, m, d, 0, 0), Declare, Fr(b, m, d, 0, 0))
      BY <2>1, <2>2, FlowName
    <3>2. Flows(Fr(b, m, d, 0, 0), value, Fr(b, m, d, 0, 0 + 1))
      BY <1>1, <2>1 DEF Adds
    <3>3. Flows(Fr(b, m, d, 0, 1), Define(of), Fr(b, m, d, 0, 1 - 1))
      BY <2>1, <2>2, FlowName
    <3>4. Fr(b, m, d, 0, 0) \in Frames /\ Fr(b, m, d, 0, 1) \in Frames
      BY <2>1, FrType
    <3>5. Flows(Fr(b, m, d, 0, 0), value, Fr(b, m, d, 0, 1)) /\ Flows(Fr(b, m, d, 0, 1), Define(of), Fr(b, m, d, 0, 0))
      BY <2>1, <3>2, <3>3
    <3>. QED BY <1>1, <1>2, <3>1, <3>4, <3>5, ChainThree
  <2>3. CASE d > 0
    <3>1. Flows(Fr(b, m, d, 0, 0), Declare, Fr(b, m, d, 1, 0 - 1))
      BY <2>1, <2>3, FlowName
    <3>2. Flows(Fr(b, m, d, 1, -1), value, Fr(b, m, d, 1, -1 + 1))
      BY <1>1, <2>1 DEF Adds
    <3>3. Flows(Fr(b, m, d, 1, 0), Define(of), Fr(b, m, d, 0, 0))
      BY <2>1, <2>3, FlowName
    <3>4. Fr(b, m, d, 0, 0) \in Frames /\ Fr(b, m, d, 1, -1) \in Frames /\ Fr(b, m, d, 1, 0) \in Frames
      BY <2>1, FrType
    <3>5. Flows(Fr(b, m, d, 0, 0), Declare, Fr(b, m, d, 1, -1)) /\ Flows(Fr(b, m, d, 1, -1), value, Fr(b, m, d, 1, 0))
      BY <2>1, <3>1, <3>2
    <3>. QED BY <1>1, <1>2, <3>3, <3>4, <3>5, ChainThree
  <2>. QED BY <2>2, <2>3
<1> HIDE DEF steps
<1>5. Keeps(steps)
  BY <1>3, <1>4 DEF Keeps
<1>. QED BY <1>5 DEF steps

(* compile_class: the class lies on the stack while its methods are made.  *)
LEMMA KeepsClass ==
  ASSUME NEW n \in Nat, NEW parent \in Maybe(<<Variable("GET"), Op("INHERIT")>>)
  PROVE Keeps(ClassOf(n, parent))
<1> DEFINE head == <<Declare, Name("CLASS"), Define("class"), Variable("GET")>>
           body == Body("method", n)
           rest == <<Op("POP")>>
<1>1. Adds(Name("CLASS"), 1) /\ Name("CLASS") \in Steps /\ Adds(Variable("GET"), 1) /\ Variable("GET") \in Steps
  BY AddsValues, AddsOps DEF Adds
<1>2. Declare \in Steps /\ Define("class") \in Steps
  BY ScopeSteps
<1>3. AddsAll(parent, 0)
  <2>1. parent = <<>> \/ parent = <<Variable("GET"), Op("INHERIT")>>
    BY DEF Maybe
  <2>2. AddsAll(<<Variable("GET"), Op("INHERIT")>>, 0)
    <3>1. Adds(Variable("GET"), 1) /\ Adds(Op("INHERIT"), -1) /\ 0 = 1 + (-1)
      BY AddsValues, AddsOps
    <3>. QED BY <3>1, AddsTwo
  <2>. QED BY <2>1, <2>2, AddsNone
<1>4. AddsAll(rest, -1)
  BY AddsOps, AddsOne
<1>5. ASSUME NEW b \in Seq(Shapes), NEW m \in Seq(OpenMarks), NEW d \in Nat
      PROVE Chain(Fr(b, m, d, 0, 0), head, Fr(b, m, d, 0, 1))
  <2>1. 0 \in Int /\ 1 \in Int /\ -1 \in Int /\ 0 \in {0, 1} /\ 1 \in {0, 1} /\ 0 + 1 = 1 /\ 1 - 1 = 0 /\ -1 + 1 = 0 /\ 0 - 1 = -1
    OBVIOUS
  <2>2. Flows(Fr(b, m, d, 0, 0), Variable("GET"), Fr(b, m, d, 0, 1))
    <3>1. Flows(Fr(b, m, d, 0, 0), Variable("GET"), Fr(b, m, d, 0, 0 + 1))
      BY <1>1, <2>1 DEF Adds
    <3>. QED BY <3>1, <2>1
  <2>3. CASE d = 0
    <3>1. Flows(Fr(b, m, d, 0, 0), Declare, Fr(b, m, d, 0, 0))
      BY <2>1, <2>3, FlowName
    <3>2. Flows(Fr(b, m, d, 0, 0), Name("CLASS"), Fr(b, m, d, 0, 0 + 1))
      BY <1>1, <2>1 DEF Adds
    <3>3. Flows(Fr(b, m, d, 0, 1), Define("class"), Fr(b, m, d, 0, 1 - 1))
      BY <2>1, <2>3, FlowName
    <3>4. Fr(b, m, d, 0, 0) \in Frames /\ Fr(b, m, d, 0, 1) \in Frames
      BY <2>1, FrType
    <3>5. /\ Flows(Fr(b, m, d, 0, 0), Name("CLASS"), Fr(b, m, d, 0, 1))
          /\ Flows(Fr(b, m, d, 0, 1), Define("class"), Fr(b, m, d, 0, 0))
      BY <2>1, <3>2, <3>3
    <3>. QED BY <1>1, <1>2, <2>2, <3>1, <3>4, <3>5, ChainFour
  <2>4. CASE d > 0
    <3>1. Flows(Fr(b, m, d, 0, 0), Declare, Fr(b, m, d, 1, 0 - 1))
      BY <2>1, <2>4, FlowName, Zenon
    <3>2. Flows(Fr(b, m, d, 1, -1), Name("CLASS"), Fr(b, m, d, 1, -1 + 1))
      BY <1>1, <2>1 DEF Adds
    <3>3. Flows(Fr(b, m, d, 1, 0), Define("class"), Fr(b, m, d, 0, 0))
      BY <2>1, <2>4, FlowName, Zenon
    <3>4. /\ Fr(b, m, d, 0, 0) \in Frames /\ Fr(b, m, d, 1, -1) \in Frames /\ Fr(b, m, d, 1, 0) \in Frames
          /\ Fr(b, m, d, 0, 1) \in Frames
      BY <2>1, FrType
    <3>5. /\ Flows(Fr(b, m, d, 0, 0), Declare, Fr(b, m, d, 1, -1))
          /\ Flows(Fr(b, m, d, 1, -1), Name("CLASS"), Fr(b, m, d, 1, 0))
      BY <2>1, <3>1, <3>2
    <3>. QED BY <1>1, <1>2, <2>2, <3>3, <3>4, <3>5, ChainFour, Zenon
  <2>. QED BY <2>3, <2>4
<1>6. head \in Seq(Steps)
  BY <1>1, <1>2
<1> HIDE DEF head, body, rest
<1>7. ASSUME NEW b \in Seq(Shapes), NEW m \in Seq(OpenMarks), NEW d \in Nat
      PROVE Chain(Fr(b, m, d, 0, 0), head \o parent \o Times(n, body) \o rest, Fr(b, m, d, 0, 0))
  <2>1. 0 \in Int /\ 1 \in Int /\ 0 \in {0, 1} /\ 1 + 0 = 1 /\ 1 + (-1) = 0
    OBVIOUS
  <2>2. Chain(Fr(b, m, d, 0, 1), parent, Fr(b, m, d, 0, 1))
    <3>1. Chain(Fr(b, m, d, 0, 1), parent, Fr(b, m, d, 0, 1 + 0))
      BY <1>3, <2>1 DEF AddsAll
    <3>. QED BY <3>1, <2>1
  <2>3. Chain(Fr(b, m, d, 0, 1), Times(n, body), Fr(b, m, d, 0, 1))
    <3>1. body \in Seq(Steps) /\ Len(body) = 5 /\ Chain(Fr(b, m, d, 0, 1), body, Fr(b, m, d, 0, 1))
      BY <2>1, FlowBody DEF body
    <3>2. Fr(b, m, d, 0, 1) \in Frames
      BY <2>1, FrType
    <3>. QED BY <3>1, <3>2, ChainRound
  <2>4. Chain(Fr(b, m, d, 0, 1), rest, Fr(b, m, d, 0, 0))
    <3>1. Chain(Fr(b, m, d, 0, 1), rest, Fr(b, m, d, 0, 1 + (-1)))
      BY <1>4, <2>1 DEF AddsAll
    <3>. QED BY <3>1, <2>1
  <2>5. Chain(Fr(b, m, d, 0, 0), head \o parent, Fr(b, m, d, 0, 1))
    BY <1>5, <2>2, ChainJoin
  <2>6. Chain(Fr(b, m, d, 0, 0), (head \o parent) \o Times(n, body), Fr(b, m, d, 0, 1))
    BY <2>3, <2>5, ChainJoin
  <2>. QED BY <2>4, <2>6, ChainJoin
<1>8. head \o parent \o Times(n, body) \o rest \in Seq(Steps)
  <2>1. parent \in Seq(Steps) /\ rest \in Seq(Steps)
    BY <1>3, <1>4 DEF AddsAll
  <2>2. Times(n, body) \in Seq(Steps)
    <3>1. <<>> \in Seq(Shapes) /\ <<>> \in Seq(OpenMarks) /\ 0 \in Nat /\ 0 \in Int
      OBVIOUS
    <3>2. body \in Seq(Steps) /\ Len(body) = 5
      BY <3>1, FlowBody, Zenon DEF body
    <3>. QED BY <3>2, TimesFive
  <2>. QED BY <1>6, <2>1, <2>2
<1>9. Keeps(head \o parent \o Times(n, body) \o rest)
  BY <1>7, <1>8 DEF Keeps
<1>. QED BY <1>9 DEF head, body, rest, ClassOf

(* compile_if: both branches begin with the stack of the condition.        *)
LEMMA KeepsIf == ASSUME NEW otherwise \in Maybe(<<Stmt>>) PROVE Keeps(IfOf(otherwise))
<1> DEFINE head == <<Expr, If, Stmt, Skip, Else>>
<1>1. Expr \in Steps /\ If \in Steps /\ Stmt \in Steps /\ Skip \in Steps /\ Else \in Steps /\ Join \in Steps
  BY AddsValues, JumpSteps, ScopeSteps DEF Adds
<1>2. Keeps(otherwise)
  <2>1. otherwise = <<>> \/ otherwise = <<Stmt>>
    BY DEF Maybe
  <2>2. Keeps(<<Stmt>>)
    <3>1. Stmt \in {Stmt, Decl, Block} /\ 0 \in Nat
      OBVIOUS
    <3>. QED BY <3>1, KeepsMany
  <2>. QED BY <2>1, <2>2, KeepsNone
<1>3. head \in Seq(Steps)
  BY <1>1
<1>4. ASSUME NEW b \in Seq(Shapes), NEW m \in Seq(OpenMarks), NEW d \in Nat
      PROVE Chain(Fr(b, m, d, 0, 0), head \o otherwise \o <<Join>>, Fr(b, m, d, 0, 0))
  <2>1. 0 \in Int /\ 1 \in Int /\ 0 \in {0, 1} /\ 0 + 1 = 1 /\ 1 - 1 = 0
    OBVIOUS
  <2> DEFINE M == Append(m, OpenMark(1, 0))
             L == Append(M, OpenMark(1, 0))
  <2>2. M \in Seq(OpenMarks) /\ L \in Seq(OpenMarks)
    <3>1. OpenMark(1, 0) \in OpenMarks
      BY OpenMarkType
    <3>. QED BY <3>1
  <2>3. Flows(Fr(b, m, d, 0, 0), Expr, Fr(b, m, d, 0, 1))
    <3>1. Flows(Fr(b, m, d, 0, 0), Expr, Fr(b, m, d, 0, 0 + 1))
      BY <2>1, AddsValues DEF Adds
    <3>. QED BY <3>1, <2>1
  <2>4. Flows(Fr(b, m, d, 0, 1), If, Fr(b, M, d, 0, 0))
    <3>1. Flows(Fr(b, m, d, 0, 1), If, Fr(b, Append(m, OpenMark(1, 1 - 1)), d, 0, 1 - 1))
      BY FlowJump, Zenon
    <3>. QED BY <3>1, <2>1
  <2>5. Flows(Fr(b, M, d, 0, 0), Stmt, Fr(b, M, d, 0, 0))
    BY FlowScope
  <2>6. Flows(Fr(b, M, d, 0, 0), Skip, Fr(b, L, d, 0, 0))
    BY FlowJump
  <2>7. Flows(Fr(b, L, d, 0, 0), Else, Fr(b, M, d, 0, 0))
    BY <2>1, FlowElse
  <2>8. Flows(Fr(b, M, d, 0, 0), Join, Fr(b, m, d, 0, 0))
    BY <2>1, FlowJoin
  <2> HIDE DEF M, L
  <2>9. /\ Fr(b, m, d, 0, 0) \in Frames /\ Fr(b, m, d, 0, 1) \in Frames /\ Fr(b, M, d, 0, 0) \in Frames
        /\ Fr(b, L, d, 0, 0) \in Frames
    BY <2>1, <2>2, FrType
  <2>10. Chain(Fr(b, m, d, 0, 0), head, Fr(b, M, d, 0, 0))
    BY <1>1, <2>3, <2>4, <2>5, <2>6, <2>7, <2>9, ChainFive, Zenon
  <2>11. Chain(Fr(b, M, d, 0, 0), otherwise, Fr(b, M, d, 0, 0))
    BY <1>2, <2>2 DEF Keeps
  <2>12. Chain(Fr(b, M, d, 0, 0), <<Join>>, Fr(b, m, d, 0, 0))
    BY <1>1, <2>8, <2>9, ChainOne
  <2> HIDE DEF head
  <2>13. Chain(Fr(b, m, d, 0, 0), head \o otherwise, Fr(b, M, d, 0, 0))
    BY <2>10, <2>11, ChainJoin
  <2>. QED BY <2>12, <2>13, ChainJoin
<1>5. head \o otherwise \o <<Join>> \in Seq(Steps)
  <2>1. otherwise \in Seq(Steps) /\ <<Join>> \in Seq(Steps)
    BY <1>1, <1>2 DEF Keeps
  <2> HIDE DEF head
  <2>. QED BY <1>3, <2>1
<1> HIDE DEF head
<1>6. Keeps(head \o otherwise \o <<Join>>)
  BY <1>4, <1>5, Zenon DEF Keeps
<1>. QED BY <1>6 DEF head, IfOf

(* A loop without a condition: back to its body.                           *)
LEMMA KeepsForever == ASSUME NEW s, Keeps(s) PROVE Keeps(<<Start>> \o s \o <<Loop(0)>>)
<1>1. Start \in Steps /\ Loop(0) \in Steps /\ s \in Seq(Steps)
  BY JumpSteps DEF Keeps
<1>2. <<Start>> \o s \o <<Loop(0)>> \in Seq(Steps)
  BY <1>1
<1>3. ASSUME NEW b \in Seq(Shapes), NEW m \in Seq(OpenMarks), NEW d \in Nat
      PROVE Chain(Fr(b, m, d, 0, 0), <<Start>> \o s \o <<Loop(0)>>, Fr(b, m, d, 0, 0))
  <2> DEFINE M == Append(m, OpenMark(0, 0))
  <2>1. 0 \in Int /\ M \in Seq(OpenMarks)
    <3>1. OpenMark(0, 0) \in OpenMarks
      BY OpenMarkType
    <3>. QED BY <3>1
  <2>2. Flows(Fr(b, m, d, 0, 0), Start, Fr(b, M, d, 0, 0))
    BY FlowJump
  <2>3. Flows(Fr(b, M, d, 0, 0), Loop(0), Fr(b, m, d, 0, 0))
    BY <2>1, FlowLoop, Zenon
  <2> HIDE DEF M
  <2>4. Fr(b, m, d, 0, 0) \in Frames /\ Fr(b, M, d, 0, 0) \in Frames
    BY <2>1, FrKept
  <2>5. Chain(Fr(b, M, d, 0, 0), s, Fr(b, M, d, 0, 0))
    BY <2>1 DEF Keeps
  <2>6. Chain(Fr(b, m, d, 0, 0), <<Start>> \o s, Fr(b, M, d, 0, 0))
    BY <1>1, <2>2, <2>4, <2>5, ChainStep
  <2>7. Chain(Fr(b, M, d, 0, 0), <<Loop(0)>>, Fr(b, m, d, 0, 0))
    BY <1>1, <2>3, <2>4, ChainOne
  <2>. QED BY <2>6, <2>7, ChainJoin
<1>. QED BY <1>2, <1>3 DEF Keeps

(* A loop that is left where its condition is tested.                      *)
LEMMA KeepsWhile == ASSUME NEW s, Keeps(s) PROVE Keeps(<<Start, Expr, If>> \o s \o <<Loop(1)>>)
<1> DEFINE head == <<Start, Expr, If>>
<1>1. Start \in Steps /\ Expr \in Steps /\ If \in Steps /\ Loop(1) \in Steps /\ s \in Seq(Steps)
  BY JumpSteps, AddsValues DEF Keeps, Adds
<1>2. head \in Seq(Steps)
  BY <1>1
<1>3. ASSUME NEW b \in Seq(Shapes), NEW m \in Seq(OpenMarks), NEW d \in Nat
      PROVE Chain(Fr(b, m, d, 0, 0), head \o s \o <<Loop(1)>>, Fr(b, m, d, 0, 0))
  <2> DEFINE M == Append(m, OpenMark(0, 0))
             L == Append(M, OpenMark(1, 0))
  <2>1. 0 \in Int /\ 1 \in Int /\ 0 \in {0, 1} /\ 0 + 1 = 1 /\ 1 - 1 = 0
    OBVIOUS
  <2>2. M \in Seq(OpenMarks) /\ L \in Seq(OpenMarks)
    <3>1. OpenMark(1, 0) \in OpenMarks /\ OpenMark(0, 0) \in OpenMarks
      BY OpenMarkType
    <3>. QED BY <3>1
  <2>3. Flows(Fr(b, m, d, 0, 0), Start, Fr(b, M, d, 0, 0))
    BY FlowJump
  <2>4. Flows(Fr(b, L, d, 0, 0), Loop(1), Fr(b, m, d, 0, 0))
    BY <2>1, FlowLoop
  <2>5. Flows(Fr(b, M, d, 0, 1), If, Fr(b, L, d, 0, 0))
    <3>1. Flows(Fr(b, M, d, 0, 1), If, Fr(b, Append(M, OpenMark(1, 1 - 1)), d, 0, 1 - 1))
      BY FlowJump
    <3>. QED BY <3>1, <2>1
  <2> HIDE DEF M, L
  <2>6. Flows(Fr(b, M, d, 0, 0), Expr, Fr(b, M, d, 0, 1))
    <3>1. Flows(Fr(b, M, d, 0, 0), Expr, Fr(b, M, d, 0, 0 + 1))
      BY <2>1, <2>2, AddsValues DEF Adds
    <3>. QED BY <3>1, <2>1
  <2>7. /\ Fr(b, m, d, 0, 0) \in Frames /\ Fr(b, M, d, 0, 0) \in Frames /\ Fr(b, M, d, 0, 1) \in Frames
        /\ Fr(b, L, d, 0, 0) \in Frames
    BY <2>1, <2>2, FrType
  <2>8. Chain(Fr(b, m, d, 0, 0), head, Fr(b, L, d, 0, 0))
    BY <1>1, <2>3, <2>5, <2>6, <2>7, ChainThree, Zenon
  <2>9. Chain(Fr(b, L, d, 0, 0), s, Fr(b, L, d, 0, 0))
    BY <2>2 DEF Keeps
  <2>10. Chain(Fr(b, L, d, 0, 0), <<Loop(1)>>, Fr(b, m, d, 0, 0))
    BY <1>1, <2>4, <2>7, ChainOne
  <2> HIDE DEF head
  <2>11. Chain(Fr(b, m, d, 0, 0), head \o s, Fr(b, L, d, 0, 0))
    BY <2>8, <2>9, ChainJoin
  <2>. QED BY <2>10, <2>11, ChainJoin
<1>4. head \o s \o <<Loop(1)>> \in Seq(Steps)
  <2>1. <<Loop(1)>> \in Seq(Steps)
    BY <1>1
  <2> HIDE DEF head
  <2>. QED BY <1>1, <1>2, <2>1
<1> HIDE DEF head
<1>5. Keeps(head \o s \o <<Loop(1)>>)
  BY <1>3, <1>4 DEF Keeps
<1>. QED BY <1>5 DEF head

(* What a loop's header may hold.                                          *)
LEMMA HeaderKeeps ==
  /\ Keeps(<<Expr, Op("POP")>>)
  /\ \A init \in Firsts : Keeps(init)
  /\ \A step \in Maybe(<<Expr, Op("POP")>>) : Keeps(step)
<1>1. Keeps(<<Expr, Op("POP")>>)
  <2>1. Adds(Expr, 1) /\ Adds(Op("POP"), -1) /\ 0 = 1 + (-1)
    BY AddsValues, AddsOps
  <2>2. AddsAll(<<Expr, Op("POP")>>, 0)
    BY <2>1, AddsTwo
  <2>. QED BY <2>2, KeepsAdds
<1>2. ASSUME NEW init \in Firsts PROVE Keeps(init)
  <2>1. \/ init = <<>> \/ init = <<Expr, Op("POP")>>
        \/ \E value \in Values : init = <<Declare, value, Define("counter")>>
    BY DEF Firsts
  <2>2. CASE \E value \in Values : init = <<Declare, value, Define("counter")>>
    <3>1. PICK value \in Values : init = <<Declare, value, Define("counter")>>
      BY <2>2
    <3>. QED BY <3>1, KeepsVariable, Zenon
  <2>. QED BY <1>1, <2>1, <2>2, KeepsNone
<1>3. ASSUME NEW step \in Maybe(<<Expr, Op("POP")>>) PROVE Keeps(step)
  <2>1. step = <<>> \/ step = <<Expr, Op("POP")>>
    BY DEF Maybe
  <2>. QED BY <1>1, <2>1, KeepsNone
<1>. QED BY <1>1, <1>2, <1>3

(* compile_for, in a scope of its own.                                     *)
LEMMA KeepsFor ==
  ASSUME NEW init \in Firsts, NEW test \in Maybe(<<Expr, If>>), NEW step \in Maybe(<<Expr, Op("POP")>>)
  PROVE Keeps(ForOf(init, test, step))
<1> DEFINE n == Len(test) \div 2
           rest == <<Loop(n), EndScope>>
           s1 == <<Begin>> \o init
           s2 == s1 \o <<Start>>
           s3 == s2 \o test
           s4 == s3 \o <<Stmt>>
           s5 == s4 \o step
           s6 == s5 \o rest
<1>1. /\ Begin \in Steps /\ Start \in Steps /\ Stmt \in Steps /\ EndScope \in Steps /\ Expr \in Steps /\ If \in Steps
  BY JumpSteps, ScopeSteps, AddsValues DEF Adds
<1>2. (test = <<>> /\ n = 0) \/ (test = <<Expr, If>> /\ n = 1)
  <2>1. test = <<>> \/ test = <<Expr, If>>
    BY DEF Maybe
  <2>2. Len(<<>>) = 0 /\ Len(<<Expr, If>>) = 2 /\ 0 \div 2 = 0 /\ 2 \div 2 = 1
    OBVIOUS
  <2>. QED BY <2>1, <2>2, Zenon
<1>3. Keeps(init) /\ Keeps(step) /\ Keeps(<<Stmt>>)
  <2>1. Stmt \in {Stmt, Decl, Block} /\ 0 \in Nat
    OBVIOUS
  <2>. QED BY <2>1, HeaderKeeps, KeepsMany
<1>4. n \in Nat /\ Loop(n) \in Steps
  BY <1>2, JumpSteps
<1> HIDE DEF n
<1>5. test \in Seq(Steps) /\ rest \in Seq(Steps) /\ init \in Seq(Steps) /\ step \in Seq(Steps)
  <2>1. <<>> \in Seq(Steps) /\ <<Expr, If>> \in Seq(Steps) /\ rest \in Seq(Steps)
    BY <1>1, <1>4
  <2>. QED BY <1>2, <1>3, <2>1, Zenon DEF Keeps
<1>6. ASSUME NEW b \in Seq(Shapes), NEW m \in Seq(OpenMarks), NEW d \in Nat
      PROVE Chain(Fr(b, m, d, 0, 0), s6, Fr(b, m, d, 0, 0))
  <2>1. 0 \in Int /\ 1 \in Int /\ 0 \in {0, 1} /\ 0 + 1 = 1 /\ 1 - 1 = 0 /\ d + 1 \in Nat
    OBVIOUS
  <2> DEFINE e == d + 1
             M == Append(m, OpenMark(0, 0))
             L == Append(M, OpenMark(1, 0))
  <2>2. M \in Seq(OpenMarks) /\ L \in Seq(OpenMarks)
    <3>1. OpenMark(1, 0) \in OpenMarks /\ OpenMark(0, 0) \in OpenMarks
      BY OpenMarkType
    <3>. QED BY <3>1
  <2>3. Flows(Fr(b, m, d, 0, 0), Begin, Fr(b, m, e, 0, 0)) /\ Flows(Fr(b, m, e, 0, 0), EndScope, Fr(b, m, d, 0, 0))
    BY FlowScope
  <2>4. Flows(Fr(b, m, e, 0, 0), Start, Fr(b, M, e, 0, 0))
    BY FlowJump
  <2>5. Flows(Fr(b, L, e, 0, 0), Loop(1), Fr(b, m, e, 0, 0)) /\ Flows(Fr(b, M, e, 0, 0), Loop(0), Fr(b, m, e, 0, 0))
    BY <2>1, FlowLoop
  <2>6. Flows(Fr(b, M, e, 0, 1), If, Fr(b, L, e, 0, 0))
    <3>1. Flows(Fr(b, M, e, 0, 1), If, Fr(b, Append(M, OpenMark(1, 1 - 1)), e, 0, 1 - 1))
      BY FlowJump, Zenon
    <3>. QED BY <3>1, <2>1
  <2>7. e \in Nat
    OBVIOUS
  <2> HIDE DEF M, L, e
  <2>8. Flows(Fr(b, M, e, 0, 0), Expr, Fr(b, M, e, 0, 1))
    <3>1. Flows(Fr(b, M, e, 0, 0), Expr, Fr(b, M, e, 0, 0 + 1))
      BY <2>1, <2>2, <2>7, AddsValues DEF Adds
    <3>. QED BY <3>1, <2>1
  <2>9. /\ Fr(b, m, d, 0, 0) \in Frames /\ Fr(b, m, e, 0, 0) \in Frames /\ Fr(b, M, e, 0, 0) \in Frames
        /\ Fr(b, M, e, 0, 1) \in Frames /\ Fr(b, L, e, 0, 0) \in Frames
    BY <2>1, <2>2, <2>7, FrType
  <2>10. PICK N \in Seq(OpenMarks) :
           Chain(Fr(b, M, e, 0, 0), test, Fr(b, N, e, 0, 0)) /\ Flows(Fr(b, N, e, 0, 0), Loop(n), Fr(b, m, e, 0, 0))
    <3>1. CASE test = <<>> /\ n = 0
      <4>1. Chain(Fr(b, M, e, 0, 0), test, Fr(b, M, e, 0, 0))
        BY <2>9, <3>1, ChainEmpty
      <4>. QED BY <2>2, <2>5, <3>1, <4>1
    <3>2. CASE test = <<Expr, If>> /\ n = 1
      <4>1. Chain(Fr(b, M, e, 0, 0), <<Expr, If>>, Fr(b, L, e, 0, 0))
        BY <1>1, <2>6, <2>8, <2>9, ChainTwo
      <4>2. Chain(Fr(b, M, e, 0, 0), test, Fr(b, L, e, 0, 0)) /\ Flows(Fr(b, L, e, 0, 0), Loop(n), Fr(b, m, e, 0, 0))
        BY <2>5, <3>2, <4>1
      <4>. QED BY <2>2, <4>2
    <3>. QED BY <1>2, <3>1, <3>2
  <2>11. Fr(b, N, e, 0, 0) \in Frames
    BY <2>7, FrKept
  <2>12. Chain(Fr(b, m, e, 0, 0), init, Fr(b, m, e, 0, 0))
    BY <1>3, <2>7 DEF Keeps
  <2>13. Chain(Fr(b, N, e, 0, 0), <<Stmt>>, Fr(b, N, e, 0, 0)) /\ Chain(Fr(b, N, e, 0, 0), step, Fr(b, N, e, 0, 0))
    BY <1>3, <2>7, Zenon DEF Keeps
  <2>14. Chain(Fr(b, m, e, 0, 0), <<Start>>, Fr(b, M, e, 0, 0))
    BY <1>1, <2>4, <2>9, ChainOne
  <2>15. Chain(Fr(b, N, e, 0, 0), rest, Fr(b, m, d, 0, 0))
    BY <1>1, <1>4, <2>3, <2>9, <2>10, <2>11, ChainTwo
  <2> HIDE DEF rest, s1, s2, s3, s4, s5, s6
  <2>16. Chain(Fr(b, m, d, 0, 0), s1, Fr(b, m, e, 0, 0))
    BY <1>1, <2>3, <2>9, <2>12, ChainStep DEF s1
  <2>17. Chain(Fr(b, m, d, 0, 0), s2, Fr(b, M, e, 0, 0))
    BY <2>14, <2>16, ChainJoin DEF s2
  <2>18. Chain(Fr(b, m, d, 0, 0), s3, Fr(b, N, e, 0, 0))
    BY <2>10, <2>17, ChainJoin DEF s3
  <2>19. Chain(Fr(b, m, d, 0, 0), s4, Fr(b, N, e, 0, 0))
    BY <2>13, <2>18, ChainJoin DEF s4
  <2>20. Chain(Fr(b, m, d, 0, 0), s5, Fr(b, N, e, 0, 0))
    BY <2>13, <2>19, ChainJoin DEF s5
  <2>. QED BY <2>15, <2>20, ChainJoin DEF s6
<1>7. s6 \in Seq(Steps)
  <2> HIDE DEF rest
  <2>1. s1 \in Seq(Steps)
    BY <1>1, <1>5
  <2> HIDE DEF s1
  <2>2. s2 \in Seq(Steps)
    BY <1>1, <2>1
  <2> HIDE DEF s2
  <2>3. s3 \in Seq(Steps)
    BY <1>5, <2>2
  <2> HIDE DEF s3
  <2>4. s4 \in Seq(Steps)
    BY <1>1, <2>3
  <2> HIDE DEF s4
  <2>5. s5 \in Seq(Steps)
    BY <1>5, <2>4
  <2> HIDE DEF s5
  <2>. QED BY <1>5, <2>5
<1>8. ForOf(init, test, step) = s6
  BY DEF ForOf, n
<1> HIDE DEF s6
<1>. QED BY <1>6, <1>7, <1>8 DEF Keeps

(* compile_block and compile_export.                                       *)
LEMMA KeepsRow == ASSUME NEW n \in Nat PROVE Keeps(BlockOf(n)) /\ Keeps(ExportOf(n))
<1>1. Keeps(BlockOf(n))
  <2>1. Decl \in {Stmt, Decl, Block}
    OBVIOUS
  <2>2. Keeps(Times(n, <<Decl>>))
    BY <2>1, KeepsMany
  <2>. QED BY <2>2, KeepsScope, Zenon DEF BlockOf
<1>2. Keeps(ExportOf(n))
  <2>1. Adds(Name("EXPORT"), 0) /\ Name("EXPORT") \in Steps
    BY AddsOps DEF Adds
  <2>2. Times(n, <<Name("EXPORT")>>) \in Seq(Steps)
    BY <2>1, TimesOne
  <2>3. ASSUME NEW b \in Seq(Shapes), NEW m \in Seq(OpenMarks), NEW d \in Nat
        PROVE Chain(Fr(b, m, d, 0, 0), Times(n, <<Name("EXPORT")>>), Fr(b, m, d, 0, 0))
    <3>1. Flows(Fr(b, m, d, 0, 0), Name("EXPORT"), Fr(b, m, d, 0, 0 + 0))
      BY <2>1 DEF Adds
    <3>2. Flows(Fr(b, m, d, 0, 0), Name("EXPORT"), Fr(b, m, d, 0, 0)) /\ Fr(b, m, d, 0, 0) \in Frames
      BY <3>1, FrKept
    <3>. QED BY <2>1, <3>2, ChainStays
  <2>. QED BY <2>2, <2>3 DEF Keeps, ExportOf
<1>. QED BY <1>1, <1>2

(* compile_foreach: the iterator lies in the scope, the element and null   *)
(* make the condition.                                                     *)
LEMMA KeepsForeach == Keeps(Foreach)
<1> DEFINE first == <<Begin, Declare, Expr, Define("iterator"), Unset>>
           second == <<Start, Variable("GET"), Op("CONST_NULL")>>
           third == <<Op("CONST_NULL"), Op("EQ"), Exit>>
           fourth == <<Variable("ASSIGN"), Stmt, Loop(1), EndScope>>
<1>1. /\ Begin \in Steps /\ Declare \in Steps /\ Expr \in Steps /\ Define("iterator") \in Steps
      /\ Unset \in Steps /\ Start \in Steps /\ Variable("GET") \in Steps /\ Op("CONST_NULL") \in Steps
      /\ Op("EQ") \in Steps /\ Exit \in Steps /\ Variable("ASSIGN") \in Steps /\ Stmt \in Steps
      /\ Loop(1) \in Steps /\ EndScope \in Steps
  BY ScopeSteps, JumpSteps, AddsValues, AddsOps DEF Adds
<1>2. first \in Seq(Steps) /\ second \in Seq(Steps) /\ third \in Seq(Steps) /\ fourth \in Seq(Steps)
  BY <1>1
<1>3. ASSUME NEW b \in Seq(Shapes), NEW m \in Seq(OpenMarks), NEW d \in Nat
      PROVE Chain(Fr(b, m, d, 0, 0), first \o second \o third \o fourth, Fr(b, m, d, 0, 0))
  <2> DEFINE e == d + 1
             M == Append(m, OpenMark(0, 0))
             L == Append(M, OpenMark(1, 0))
  <2>1. /\ 0 \in Int /\ 1 \in Int /\ 2 \in Int /\ 3 \in Int /\ -1 \in Int /\ 0 \in {0, 1} /\ 1 \in {0, 1}
        /\ 0 - 1 = -1 /\ -1 + 1 = 0 /\ 0 + 1 = 1 /\ 1 + 1 = 2 /\ 2 + 1 = 3 /\ 3 + (-1) = 2 /\ 2 - 2 = 0 /\ 0 + 0 = 0
    OBVIOUS
  <2>2. M \in Seq(OpenMarks) /\ L \in Seq(OpenMarks)
    <3>1. OpenMark(1, 0) \in OpenMarks /\ OpenMark(0, 0) \in OpenMarks
      BY OpenMarkType
    <3>. QED BY <3>1
  <2>3. Flows(Fr(b, m, d, 0, 0), Begin, Fr(b, m, e, 0, 0)) /\ Flows(Fr(b, m, e, 0, 0), EndScope, Fr(b, m, d, 0, 0))
    BY FlowScope
  <2>4. e \in Nat /\ e > 0
    OBVIOUS
  <2> HIDE DEF e
  <2>5. /\ Flows(Fr(b, m, e, 0, 0), Declare, Fr(b, m, e, 1, -1))
        /\ Flows(Fr(b, m, e, 1, 0), Define("iterator"), Fr(b, m, e, 0, 0))
        /\ Flows(Fr(b, m, e, 0, 0), Unset, Fr(b, m, e, 0, 0))
    <3>1. /\ Flows(Fr(b, m, e, 0, 0), Declare, Fr(b, m, e, 1, 0 - 1))
          /\ Flows(Fr(b, m, e, 1, 0), Define("iterator"), Fr(b, m, e, 0, 0))
          /\ Flows(Fr(b, m, e, 0, 0), Unset, Fr(b, m, e, 0, 0))
      BY <2>1, <2>4, FlowName
    <3>. QED BY <2>1, <3>1
  <2>6. Flows(Fr(b, m, e, 1, -1), Expr, Fr(b, m, e, 1, 0))
    <3>1. Flows(Fr(b, m, e, 1, -1), Expr, Fr(b, m, e, 1, -1 + 1))
      BY <2>1, <2>4, AddsValues DEF Adds
    <3>. QED BY <2>1, <3>1
  <2>7. Flows(Fr(b, m, e, 0, 0), Start, Fr(b, M, e, 0, 0))
    BY FlowJump
  <2>8. Flows(Fr(b, M, e, 0, 2), Exit, Fr(b, L, e, 0, 0))
    <3>1. Flows(Fr(b, M, e, 0, 2), Exit, Fr(b, Append(M, OpenMark(1, 2 - 2)), e, 0, 2 - 2))
      BY FlowJump
    <3>. QED BY <2>1, <3>1
  <2>9. Flows(Fr(b, L, e, 0, 0), Loop(1), Fr(b, m, e, 0, 0))
    BY <2>1, FlowLoop
  <2>10. Flows(Fr(b, L, e, 0, 0), Stmt, Fr(b, L, e, 0, 0))
    BY <2>4, FlowScope
  <2> HIDE DEF M, L
  <2>11. /\ Flows(Fr(b, M, e, 0, 0), Variable("GET"), Fr(b, M, e, 0, 1))
         /\ Flows(Fr(b, M, e, 0, 1), Op("CONST_NULL"), Fr(b, M, e, 0, 2))
         /\ Flows(Fr(b, M, e, 0, 2), Op("CONST_NULL"), Fr(b, M, e, 0, 3))
         /\ Flows(Fr(b, M, e, 0, 3), Op("EQ"), Fr(b, M, e, 0, 2))
    <3>1. Adds(Variable("GET"), 1) /\ Adds(Op("CONST_NULL"), 1) /\ Adds(Op("EQ"), -1)
      BY AddsValues, AddsOps
    <3>2. Flows(Fr(b, M, e, 0, 0), Variable("GET"), Fr(b, M, e, 0, 0 + 1))
      BY <2>1, <2>2, <2>4, <3>1 DEF Adds
    <3>3. Flows(Fr(b, M, e, 0, 1), Op("CONST_NULL"), Fr(b, M, e, 0, 1 + 1))
      BY <2>1, <2>2, <2>4, <3>1 DEF Adds
    <3>4. Flows(Fr(b, M, e, 0, 2), Op("CONST_NULL"), Fr(b, M, e, 0, 2 + 1))
      BY <2>1, <2>2, <2>4, <3>1 DEF Adds
    <3>5. Flows(Fr(b, M, e, 0, 3), Op("EQ"), Fr(b, M, e, 0, 3 + (-1)))
      BY <2>1, <2>2, <2>4, <3>1 DEF Adds
    <3>. QED BY <2>1, <3>2, <3>3, <3>4, <3>5
  <2>12. Flows(Fr(b, L, e, 0, 0), Variable("ASSIGN"), Fr(b, L, e, 0, 0))
    <3>1. Flows(Fr(b, L, e, 0, 0), Variable("ASSIGN"), Fr(b, L, e, 0, 0 + 0))
      BY <2>1, <2>2, <2>4, AddsValues DEF Adds
    <3>. QED BY <2>1, <3>1
  <2>13. /\ Fr(b, m, d, 0, 0) \in Frames /\ Fr(b, m, e, 0, 0) \in Frames /\ Fr(b, m, e, 1, -1) \in Frames
         /\ Fr(b, m, e, 1, 0) \in Frames /\ Fr(b, M, e, 0, 0) \in Frames /\ Fr(b, M, e, 0, 1) \in Frames
         /\ Fr(b, M, e, 0, 2) \in Frames /\ Fr(b, M, e, 0, 3) \in Frames /\ Fr(b, L, e, 0, 0) \in Frames
    BY <2>1, <2>2, <2>4, FrType
  <2>14. Chain(Fr(b, m, d, 0, 0), first, Fr(b, m, e, 0, 0))
    BY <1>1, <2>3, <2>5, <2>6, <2>13, ChainFive, Zenon
  <2>15. Chain(Fr(b, m, e, 0, 0), second, Fr(b, M, e, 0, 2))
    BY <1>1, <2>7, <2>11, <2>13, ChainThree, Zenon
  <2>16. Chain(Fr(b, M, e, 0, 2), third, Fr(b, L, e, 0, 0))
    BY <1>1, <2>8, <2>11, <2>13, ChainThree, Zenon
  <2>17. Chain(Fr(b, L, e, 0, 0), fourth, Fr(b, m, d, 0, 0))
    BY <1>1, <2>3, <2>9, <2>10, <2>12, <2>13, ChainFour, Zenon
  <2> HIDE DEF first, second, third, fourth
  <2>18. Chain(Fr(b, m, d, 0, 0), first \o second, Fr(b, M, e, 0, 2))
    BY <2>14, <2>15, ChainJoin
  <2>19. Chain(Fr(b, m, d, 0, 0), first \o second \o third, Fr(b, L, e, 0, 0))
    BY <2>16, <2>18, ChainJoin
  <2>. QED BY <2>17, <2>19, ChainJoin
<1>4. first \o second \o third \o fourth \in Seq(Steps)
  <2> HIDE DEF first, second, third, fourth
  <2>. QED BY <1>2
<1> HIDE DEF first, second, third, fourth
<1>5. Keeps(first \o second \o third \o fourth)
  BY <1>3, <1>4 DEF Keeps
<1>. QED BY <1>5 DEF first, second, third, fourth, Foreach

(* Whatever the statement, it leaves the stack as it found it.             *)
LEMMA StatementKeeps ==
  ASSUME NEW kind \in DOMAIN Statements, NEW steps \in Statements[kind]
  PROVE Keeps(steps)
<1>0. kind \in {"expression", "var", "func", "class", "if", "while", "for", "foreach", "return", "break",
                "block", "import", "export"}
  BY DEF Statements
<1>1. CASE kind = "expression"
  <2>1. steps = <<Expr, Op("POP")>>
    BY <1>1 DEF Statements
  <2>. QED BY <2>1, HeaderKeeps
<1>2. CASE kind = "var"
  <2>1. PICK value \in Values : steps = <<Declare, value, Define("var")>>
    BY <1>2 DEF Statements
  <2>. QED BY <2>1, KeepsVariable, Zenon
<1>3. CASE kind = "func"
  <2>1. PICK n \in Parts : steps = Body("function", n)
    BY <1>3 DEF Statements
  <2>2. n \in Nat /\ 0 \in Int /\ 0 \in Nat /\ <<>> \in Seq(Shapes) /\ <<>> \in Seq(OpenMarks)
    BY PartsType
  <2>3. Body("function", n) \in Seq(Steps)
    BY <2>2, FlowBody, Zenon
  <2>4. \A b \in Seq(Shapes), m \in Seq(OpenMarks), d \in Nat :
          Chain(Fr(b, m, d, 0, 0), Body("function", n), Fr(b, m, d, 0, 0))
    BY <2>2, FlowBody
  <2>. QED BY <2>1, <2>3, <2>4 DEF Keeps
<1>4. CASE kind = "class"
  <2>1. PICK n \in Parts, parent \in Maybe(<<Variable("GET"), Op("INHERIT")>>) : steps = ClassOf(n, parent)
    BY <1>4 DEF Statements
  <2>2. n \in Nat
    BY PartsType
  <2>. QED BY <2>1, <2>2, KeepsClass
<1>5. CASE kind = "if"
  <2>1. PICK otherwise \in Maybe(<<Stmt>>) : steps = IfOf(otherwise)
    BY <1>5 DEF Statements
  <2>. QED BY <2>1, KeepsIf
<1>6. CASE kind = "while"
  <2>1. steps = <<Start, Expr, If, Stmt, Loop(1)>>
    BY <1>6 DEF Statements
  <2>2. Stmt \in {Stmt, Decl, Block} /\ 0 \in Nat
    OBVIOUS
  <2>3. Keeps(<<Stmt>>)
    BY <2>2, KeepsMany
  <2>4. Keeps(<<Start, Expr, If>> \o <<Stmt>> \o <<Loop(1)>>)
    BY <2>3, KeepsWhile
  <2>5. <<Start, Expr, If>> \o <<Stmt>> \o <<Loop(1)>> = <<Start, Expr, If, Stmt, Loop(1)>>
    <3>1. /\ Start \in Steps /\ Expr \in Steps /\ If \in Steps /\ Stmt \in Steps /\ Loop(1) \in Steps
      BY JumpSteps, ScopeSteps, AddsValues DEF Adds
    <3>. QED BY <3>1, JoinOnes
  <2>. QED BY <2>1, <2>4, <2>5, Zenon
<1>7. CASE kind = "for"
  <2>1. PICK init \in Firsts, test \in Maybe(<<Expr, If>>), step \in Maybe(<<Expr, Op("POP")>>) :
          steps = ForOf(init, test, step)
    BY <1>7 DEF Statements
  <2>. QED BY <2>1, KeepsFor
<1>8. CASE kind = "return"
  <2>1. steps = <<Expr, Op("RETURN")>> \/ steps = <<Op("RETURN_VOID")>>
    BY <1>8 DEF Statements
  <2>2. Adds(Expr, 1) /\ Adds(Op("RETURN"), -1) /\ 0 = 1 + (-1) /\ Adds(Op("RETURN_VOID"), 0)
    BY AddsValues, AddsOps
  <2>3. AddsAll(<<Expr, Op("RETURN")>>, 0) /\ AddsAll(<<Op("RETURN_VOID")>>, 0)
    BY <2>2, AddsOne, AddsTwo
  <2>. QED BY <2>1, <2>3, KeepsAdds
<1>9. CASE kind = "break"
  <2>1. steps = <<>>
    BY <1>9 DEF Statements
  <2>. QED BY <2>1, KeepsNone
<1>10. CASE kind = "block"
  <2>1. PICK n \in Parts : steps = BlockOf(n)
    BY <1>10 DEF Statements
  <2>2. n \in Nat
    BY PartsType
  <2>. QED BY <2>1, <2>2, KeepsRow
<1>11. CASE kind = "import"
  <2>1. steps = <<Name("IMPORT")>>
    BY <1>11 DEF Statements
  <2>2. AddsAll(<<Name("IMPORT")>>, 0)
    BY AddsOps, AddsOne
  <2>. QED BY <2>1, <2>2, KeepsAdds
<1>12. CASE kind = "export"
  <2>1. PICK n \in Parts : steps = ExportOf(n)
    BY <1>12 DEF Statements
  <2>2. n \in Nat
    BY PartsType
  <2>. QED BY <2>1, <2>2, KeepsRow
<1>13. CASE kind = "foreach"
  <2>1. steps = Foreach
    BY <1>13 DEF Statements
  <2>. QED BY <2>1, KeepsForeach
<1>. QED BY <1>0, <1>1, <1>2, <1>3, <1>4, <1>5, <1>6, <1>7, <1>8, <1>9, <1>10, <1>11, <1>12, <1>13

(* A statement that the bound leaves no node for.                          *)
LEMMA KeepsBlank == Keeps(<<Begin, EndScope>>)
<1>1. Keeps(<<Begin>> \o <<>> \o <<EndScope>>)
  BY KeepsNone, KeepsScope, Zenon
<1>2. <<Begin>> \o <<>> = <<Begin>> /\ <<Begin>> \o <<EndScope>> = <<Begin, EndScope>>
  <2>1. Begin \in Steps /\ EndScope \in Steps
    BY ScopeSteps
  <2>2. <<Begin>> \o <<>> = <<Begin>>
    OBVIOUS
  <2>. QED BY <2>1, <2>2, JoinTwo
<1>. QED BY <1>1, <1>2, Zenon

-----------------------------------------------------------------------------
(* Opcodes.                                                                *)

(* There are 67, and the number of each is its place.                      *)
LEMMA Numbers ==
  /\ Len(Opcodes) = 67
  /\ \A op \in Range(Opcodes) : Number[op] \in 0..66 /\ Opcodes[Number[op] + 1] = op
<1>1. Len(Opcodes) = 67
  BY DEF Opcodes
<1>2. DOMAIN Opcodes = 1..67
  BY DEF Opcodes
<1>3. ASSUME NEW op \in Range(Opcodes) PROVE Number[op] \in 0..66 /\ Opcodes[Number[op] + 1] = op
  <2>1. PICK j \in 1..67 : Opcodes[j] = op
    BY <1>2 DEF Range
  <2>2. j - 1 \in 0..66 /\ (j - 1) + 1 = j
    OBVIOUS
  <2>3. \E i \in 0..Len(Opcodes) - 1 : Opcodes[i + 1] = op
    BY <1>1, <2>1, <2>2
  <2> DEFINE F(o) == CHOOSE i \in 0..Len(Opcodes) - 1 : Opcodes[i + 1] = o
  <2>4. Number = [o \in Range(Opcodes) |-> F(o)]
    BY DEF Number
  <2>5. F(op) \in 0..66 /\ Opcodes[F(op) + 1] = op
    <3>1. F(op) \in 0..Len(Opcodes) - 1 /\ Opcodes[F(op) + 1] = op
      BY <2>3, Zenon
    <3> HIDE DEF F
    <3>. QED BY <1>1, <3>1
  <2> HIDE DEF F
  <2>6. Number[op] = F(op)
    BY <2>4
  <2>. QED BY <2>5, <2>6
<1>. QED BY <1>1, <1>3

(* Where some of them are.                                                 *)
LEMMA OpcodePlaces ==
  /\ Opcodes[2] = "CONST_FLOAT"
  /\ \A i \in 1..67 : /\ Opcodes[i] = "JUMP" <=> i = 42
                      /\ Opcodes[i] = "JUMP_IF_FALSE" <=> i = 43
                      /\ Opcodes[i] = "JUMP_IF_TRUE" <=> i = 44
BY DEF Opcodes

(* All that the steps emit are opcodes.                                    *)
LEMMA Emitted ==
  /\ OpArgs \cup NameArgs \cup {"CONST_INT", "GET_LOCAL", "SET_LOCAL", "GET_UPVALUE", "SET_UPVALUE", "GET_GLOBAL",
       "SET_GLOBAL", "DEFINE_GLOBAL", "CLOSE_UPVALUE", "METHOD", "HALT"} \subseteq Plain
  /\ JumpOps \cup {"LOOP", "CLOSURE"} \subseteq Range(Opcodes)
<1>1. \A i \in 1..67 : Opcodes[i] \in Range(Opcodes)
  BY DEF Opcodes, Range
<1>. QED BY <1>1 DEF Opcodes, OpArgs, NameArgs, Plain, JumpOps, TwoBytes

(* The number of a jump is that of no other opcode.                        *)
LEMMA JumpNumbers ==
  \A op \in JumpOps, i \in 0..66 : Opcodes[i + 1] = op => i = Number[op]
<1> SUFFICES ASSUME NEW op \in JumpOps, NEW i \in 0..66, Opcodes[i + 1] = op PROVE i = Number[op]
  OBVIOUS
<1>1. Number[op] \in 0..66 /\ Opcodes[Number[op] + 1] = op
  BY Numbers, Emitted
<1>2. i + 1 \in 1..67 /\ Number[op] + 1 \in 1..67
  BY <1>1
<1>3. i + 1 = Number[op] + 1
  BY <1>1, <1>2, OpcodePlaces DEF JumpOps
<1>. QED BY <1>1, <1>3

(* What an opcode does to the height is a number.                          *)
LEMMA EffectType == \A op : \A n \in Nat : Effect(op, n) \in Int
BY DEF Effect

(* One is a number.                                                        *)
LEMMA One1 == 1 \in Int
OBVIOUS

(* Minus one is a number, and adding it takes one away.                    *)
LEMMA Less1 == -1 \in Int /\ \A k \in Int : k - 1 = k + (-1)
OBVIOUS

(* A number that is cut to a byte.                                         *)
LEMMA CutType == \A n \in Int : n % (MaxIndex + 1) \in 0..255
<1> SUFFICES ASSUME NEW n \in Int PROVE n % (MaxIndex + 1) \in 0..255
  BY Zenon
<1>1. MaxIndex \in 0..255
  BY CodeAssumption
<1> DEFINE k == MaxIndex + 1
<1>2. k \in 1..256
  BY <1>1
<1> HIDE DEF k
<1>3. n % k \in 0..k - 1
  BY <1>2
<1>4. n % k \in 0..255
  BY <1>2, <1>3
<1>. QED BY <1>4 DEF k

-----------------------------------------------------------------------------
(* Code.                                                                   *)

(* An instruction lies the same in code that has the same bytes there.     *)
LEMMA LiesSame ==
  ASSUME NEW code, NEW same, NEW insn \in Insns, NEW next \in Int, Lies(code, insn, next),
         \A p \in Nat : insn.at < p /\ p <= next => same[p] = code[p]
  PROVE Lies(same, insn, next)
<1> DEFINE at == insn.at
           op == insn.op
           jump == insn.to - at - 2
<1>1. at \in Nat /\ insn.to \in Int
  BY DEF Insns
<1>2. at + 1 \in Nat /\ at + 2 \in Nat /\ at + 3 \in Nat /\ at < at + 1 /\ at < at + 2 /\ at < at + 3
  BY <1>1
<1>3. CASE op \in Plain /\ code[at + 1] = Number[op] /\ next = at + (IF op \in OneByte THEN 2 ELSE 1)
  <2>1. at + 1 <= next
    BY <1>1, <1>3
  <2>2. same[at + 1] = code[at + 1]
    BY <1>2, <2>1
  <2>. QED BY <1>3, <2>2 DEF Lies
<1>4. CASE op = "one" /\ code[at + 1] = 1 /\ next = at + 1
  <2>1. same[at + 1] = code[at + 1]
    BY <1>1, <1>2, <1>4
  <2>. QED BY <1>4, <2>1 DEF Lies
<1>5. CASE op = "CLOSURE" /\ code[at + 1] = Number[op] /\ Paired(at, next)
  <2>1. at + 1 <= next
    BY <1>1, <1>5 DEF Paired
  <2>2. same[at + 1] = code[at + 1]
    BY <1>2, <2>1
  <2>. QED BY <1>5, <2>2 DEF Lies
<1>6. CASE /\ op = "LOOP" /\ code[at + 1] = Number[op] /\ next = at + 3
           /\ at + 3 - (code[at + 2] * 256 + code[at + 3]) = insn.to
  <2>1. at + 1 <= next /\ at + 2 <= next /\ at + 3 <= next
    BY <1>1, <1>6
  <2>2. same[at + 1] = code[at + 1] /\ same[at + 2] = code[at + 2] /\ same[at + 3] = code[at + 3]
    BY <1>2, <2>1
  <2>. QED BY <1>6, <2>2 DEF Lies
<1>7. CASE /\ op \in JumpOps /\ next = at + 3
           /\ insn.to = -1 \/ (jump \in Nat /\ code[at + 1] = jump \div 256)
  <2>1. same[at + 1] = code[at + 1]
    BY <1>1, <1>2, <1>7
  <2>. QED BY <1>7, <2>1 DEF Lies
<1>. QED BY <1>3, <1>4, <1>5, <1>6, <1>7 DEF Lies

(* The parts of an instruction.                                            *)
LEMMA InsnParts == \A x \in Insns : x.at \in Nat /\ x.to \in Int
BY DEF Insns

(* A further instruction, and its bytes.                                   *)
LEMMA LaidAppend ==
  ASSUME NEW code \in Seq(0..255), NEW insns \in Seq(Insns), NEW longer \in Seq(0..255),
         NEW insn \in Insns, Laid(code, insns), Len(longer) > Len(code),
         \A p \in 1..Len(code) : longer[p] = code[p], insn.at = Len(code),
         Lies(longer, insn, Len(longer)),
         insn.op = "LOOP" => insn.to = insn.at \/ \E j \in 1..Len(insns) : insns[j].at = insn.to
  PROVE Laid(longer, Append(insns, insn))
<1> DEFINE more == Append(insns, insn)
           l == Len(insns)
<1>1. /\ l \in Nat /\ Len(more) = l + 1 /\ more[l + 1] = insn /\ more \in Seq(Insns)
      /\ \A i \in 1..l : more[i] = insns[i]
  OBVIOUS
<1> HIDE DEF more
<1>2. Len(code) \in Nat /\ Len(longer) \in Nat
  OBVIOUS
<1>3. \A i \in 1..l : insns[i] \in Insns /\ insns[i].at \in Nat
  <2>1. \A i \in 1..l : insns[i] \in Insns
    BY <1>1, ElementOfSeq
  <2>. QED BY <2>1, InsnParts
<1>4. \A i \in 1..l : After(longer, more, i) = After(code, insns, i)
  <2> SUFFICES ASSUME NEW i \in 1..l PROVE After(longer, more, i) = After(code, insns, i)
    OBVIOUS
  <2>1. CASE i = l
    <3>1. i # Len(more) /\ i + 1 = l + 1
      BY <1>1, <2>1
    <3>. QED BY <1>1, <2>1, <3>1 DEF After
  <2>2. CASE i # l
    <3>1. i # Len(more) /\ i + 1 \in 1..l
      BY <1>1, <2>2
    <3>. QED BY <1>1, <2>2, <3>1 DEF After
  <2>. QED BY <2>1, <2>2
<1>5. After(longer, more, l + 1) = Len(longer)
  BY <1>1 DEF After
<1>6. /\ \A i \in 1..l : insns[i].at < After(code, insns, i) /\ After(code, insns, i) <= Len(code)
      /\ \A i \in 1..l : Lies(code, insns[i], After(code, insns, i))
  BY DEF Laid
<1>7. \A i \in 1..l : After(code, insns, i) \in Int
  <2> SUFFICES ASSUME NEW i \in 1..l PROVE After(code, insns, i) \in Int
    OBVIOUS
  <2>1. CASE i = l
    BY <1>2, <2>1 DEF After
  <2>2. CASE i # l
    <3>1. i + 1 \in 1..l
      BY <1>1, <2>2
    <3>. QED BY <1>3, <2>2, <3>1 DEF After
  <2>. QED BY <2>1, <2>2
<1>8. ASSUME NEW i \in 1..l + 1
      PROVE /\ Lies(longer, more[i], After(longer, more, i))
            /\ more[i].at < After(longer, more, i) /\ After(longer, more, i) <= Len(longer)
  <2>1. CASE i = l + 1
    BY <1>1, <1>2, <1>5, <2>1
  <2>2. CASE i # l + 1
    <3>1. i \in 1..l
      BY <1>1, <2>2
    <3>2. ASSUME NEW p \in Nat, insns[i].at < p, p <= After(code, insns, i) PROVE longer[p] = code[p]
      <4>1. insns[i].at \in Nat /\ After(code, insns, i) \in Int /\ After(code, insns, i) <= Len(code)
        BY <1>3, <1>6, <1>7, <3>1
      <4>2. p \in 1..Len(code)
        BY <1>2, <3>2, <4>1
      <4>. QED BY <4>2
    <3>3. Lies(longer, insns[i], After(code, insns, i))
      BY <1>3, <1>6, <1>7, <3>1, <3>2, LiesSame, Zenon
    <3>4. insns[i].at < After(code, insns, i) /\ After(code, insns, i) <= Len(longer)
      BY <1>2, <1>3, <1>6, <1>7, <3>1
    <3>. QED BY <1>1, <1>4, <3>1, <3>3, <3>4
  <2>. QED BY <2>1, <2>2
<1>9. ASSUME NEW i \in 1..l + 1, NEW j \in 1..l + 1, i < j
      PROVE After(longer, more, i) <= more[j].at
  <2>1. i \in 1..l
    BY <1>1, <1>9
  <2>2. CASE j = l + 1
    BY <1>1, <1>4, <1>6, <2>1, <2>2
  <2>3. CASE j # l + 1
    <3>1. j \in 1..l
      BY <1>1, <2>3
    <3>2. After(code, insns, i) <= insns[j].at
      BY <1>9, <2>1, <3>1 DEF Laid
    <3>. QED BY <1>1, <1>4, <2>1, <3>1, <3>2
  <2>. QED BY <2>2, <2>3
<1>10. ASSUME NEW i \in 1..l + 1, more[i].op = "LOOP" PROVE \E j \in 1..l + 1 : more[j].at = more[i].to
  <2>1. CASE i = l + 1
    <3>1. insn.to = insn.at \/ \E j \in 1..l : insns[j].at = insn.to
      BY <1>1, <1>10, <2>1
    <3>2. l + 1 \in 1..l + 1 /\ \A j \in 1..l : j \in 1..l + 1
      BY <1>1
    <3>. QED BY <1>1, <2>1, <3>1, <3>2, Zenon
  <2>2. CASE i # l + 1
    <3>1. i \in 1..l
      BY <1>1, <2>2
    <3>2. PICK j \in 1..l : insns[j].at = insns[i].to
      BY <1>1, <1>10, <3>1, Zenon DEF Laid
    <3>3. j \in 1..l + 1
      BY <1>1
    <3>. QED BY <1>1, <3>1, <3>2, <3>3
  <2>. QED BY <2>1, <2>2
<1> HIDE DEF l
<1>11. Laid(longer, more)
  BY <1>1, <1>8, <1>9, <1>10 DEF Laid
<1>. QED BY <1>11 DEF more

(* The end of an instruction.                                              *)
LEMMA AfterType ==
  ASSUME NEW code \in Seq(0..255), NEW insns \in Seq(Insns), NEW i \in 1..Len(insns)
  PROVE After(code, insns, i) \in Nat /\ insns[i] \in Insns /\ insns[i].at \in Nat
<1>1. \A j \in 1..Len(insns) : insns[j] \in Insns /\ insns[j].at \in Nat
  <2>1. \A j \in 1..Len(insns) : insns[j] \in Insns
    BY ElementOfSeq
  <2>. QED BY <2>1, InsnParts
<1>2. Len(code) \in Nat /\ Len(insns) \in Nat
  OBVIOUS
<1>3. CASE i = Len(insns)
  BY <1>1, <1>2, <1>3 DEF After
<1>4. CASE i # Len(insns)
  <2>1. i + 1 \in 1..Len(insns)
    BY <1>2, <1>4
  <2>. QED BY <1>1, <1>4, <2>1 DEF After
<1>. QED BY <1>3, <1>4

(* No two instructions lie at one place.                                   *)
LEMMA LaidOnce ==
  ASSUME NEW code \in Seq(0..255), NEW insns \in Seq(Insns), NEW i \in 1..Len(insns),
         NEW j \in 1..Len(insns), Laid(code, insns), insns[i].at = insns[j].at
  PROVE i = j
<1>1. /\ insns[i].at \in Nat /\ insns[j].at \in Nat
      /\ After(code, insns, i) \in Nat /\ After(code, insns, j) \in Nat
  BY AfterType
<1>2. insns[i].at < After(code, insns, i) /\ insns[j].at < After(code, insns, j)
  BY DEF Laid
<1>3. /\ i < j => After(code, insns, i) <= insns[j].at
      /\ j < i => After(code, insns, j) <= insns[i].at
  BY DEF Laid
<1>4. ~(i < j) /\ ~(j < i)
  BY <1>1, <1>2, <1>3
<1>. QED BY <1>4

(* A jump leads over itself.                                               *)
LEMMA Distance == \A a, b \in Nat : a + 3 <= b => b - a - 2 \in Nat
OBVIOUS

(* A jump whose first two bytes are overwritten.                           *)
Patches(same, fixed, code, insns, q) ==
  /\ code \in Seq(0..255) /\ insns \in Seq(Insns) /\ q \in 1..Len(insns)
  /\ same \in Seq(0..255) /\ fixed \in Seq(Insns) /\ insns[q].op \in JumpOps
  /\ Len(same) = Len(code) /\ same[insns[q].at + 1] = (Len(code) - insns[q].at - 2) \div 256
  /\ \A p \in 1..Len(code) : p # insns[q].at + 1 /\ p # insns[q].at + 2 => same[p] = code[p]
  /\ Len(fixed) = Len(insns) /\ \A i \in 1..Len(insns) : i # q => fixed[i] = insns[i]
  /\ fixed[q].at = insns[q].at /\ fixed[q].op = insns[q].op /\ fixed[q].to = Len(code)

(* The code is laid as it was.                                             *)
LEMMA LaidPatch ==
  ASSUME NEW code, NEW insns, NEW q, NEW same, NEW fixed, Laid(code, insns),
         Patches(same, fixed, code, insns, q)
  PROVE Laid(same, fixed)
<1>. /\ code \in Seq(0..255) /\ insns \in Seq(Insns) /\ q \in 1..Len(insns)
     /\ same \in Seq(0..255) /\ fixed \in Seq(Insns) /\ insns[q].op \in JumpOps
     /\ Len(same) = Len(code) /\ same[insns[q].at + 1] = (Len(code) - insns[q].at - 2) \div 256
     /\ \A p \in 1..Len(code) : p # insns[q].at + 1 /\ p # insns[q].at + 2 => same[p] = code[p]
     /\ Len(fixed) = Len(insns) /\ \A i \in 1..Len(insns) : i # q => fixed[i] = insns[i]
     /\ fixed[q].at = insns[q].at /\ fixed[q].op = insns[q].op /\ fixed[q].to = Len(code)
  BY DEF Patches
<1> DEFINE l == Len(insns)
           at == insns[q].at
<1>1. l \in Nat /\ Len(code) \in Nat /\ at \in Nat /\ q \in 1..l
  BY AfterType
<1>2. \A i \in 1..l : fixed[i].at = insns[i].at /\ fixed[i].op = insns[i].op
  OBVIOUS
<1>3. \A i \in 1..l : insns[i].at \in Nat /\ insns[i] \in Insns /\ After(code, insns, i) \in Nat
  BY AfterType
<1>4. \A i \in 1..l : After(same, fixed, i) = After(code, insns, i)
  <2> SUFFICES ASSUME NEW i \in 1..l PROVE After(same, fixed, i) = After(code, insns, i)
    BY Zenon
  <2>1. CASE i = l
    BY <2>1 DEF After
  <2>2. CASE i # l
    <3>1. i + 1 \in 1..l
      BY <1>1, <2>2
    <3>. QED BY <1>2, <2>2, <3>1 DEF After
  <2>. QED BY <2>1, <2>2
<1>5. /\ \A i \in 1..l : insns[i].at < After(code, insns, i) /\ After(code, insns, i) <= Len(code)
      /\ \A i \in 1..l : Lies(code, insns[i], After(code, insns, i))
      /\ \A i, j \in 1..l : i < j => After(code, insns, i) <= insns[j].at
      /\ \A i \in 1..l : insns[i].op = "LOOP" => \E j \in 1..l : insns[j].at = insns[i].to
  BY DEF Laid
<1>6. After(code, insns, q) = at + 3
  <2>1. Lies(code, insns[q], After(code, insns, q))
    BY <1>5
  <2>2. insns[q].op \notin Plain /\ insns[q].op # "one" /\ insns[q].op # "CLOSURE" /\ insns[q].op # "LOOP"
    BY DEF Plain, TwoBytes, JumpOps
  <2>. QED BY <2>1, <2>2 DEF Lies
<1>7. ASSUME NEW i \in 1..l PROVE Lies(same, fixed[i], After(same, fixed, i))
  <2>1. CASE i = q
    <3>1. at + 3 <= Len(code)
      BY <1>1, <1>5, <1>6
    <3>2. Len(code) - at - 2 \in Nat
      BY <1>1, <3>1, Distance, Zenon
    <3>3. After(same, fixed, q) = at + 3
      BY <1>1, <1>4, <1>6
    <3>4. same[at + 1] = (Len(code) - at - 2) \div 256 /\ fixed[q].at = at /\ fixed[q].to = Len(code)
      OBVIOUS
    <3>5. fixed[q].op \in JumpOps
      OBVIOUS
    <3> DEFINE x == fixed[q]
               n == After(same, fixed, q)
               c == Len(code)
    <3>6. /\ x.op \in JumpOps /\ n = x.at + 3 /\ x.to - x.at - 2 \in Nat
          /\ same[x.at + 1] = (x.to - x.at - 2) \div 256
      BY <3>2, <3>3, <3>4, <3>5
    <3> HIDE DEF x, n
    <3>7. Lies(same, x, n)
      BY <3>6 DEF Lies
    <3>. QED BY <2>1, <3>7 DEF x, n
  <2>2. CASE i # q
    <3> DEFINE n == After(code, insns, i)
               a == insns[i].at
    <3>1. n <= at \/ at + 3 <= a
      <4>1. CASE i < q
        <5>1. After(code, insns, i) <= insns[q].at
          BY <1>1, <1>5, <4>1
        <5>. QED BY <5>1
      <4>2. CASE q < i
        <5>1. After(code, insns, q) <= a
          BY <1>1, <1>5, <4>2
        <5>. QED BY <1>6, <5>1
      <4>. QED BY <1>1, <2>2, <4>1, <4>2
    <3>2. n \in Nat /\ a \in Nat /\ n <= Len(code) /\ a < n /\ insns[i] \in Insns
      BY <1>3, <1>5, Zenon
    <3>3. ASSUME NEW p \in Nat, a < p, p <= n PROVE same[p] = code[p]
      <4> HIDE DEF n, a, at
      <4>1. p \in 1..Len(code) /\ p # at + 1 /\ p # at + 2
        BY <1>1, <3>1, <3>2, <3>3
      <4>. QED BY <4>1 DEF at
    <3>4. Lies(code, insns[i], n)
      BY <1>5
    <3>5. n \in Int
      BY <3>2
    <3> HIDE DEF n, a
    <3>6. Lies(same, insns[i], n)
      <4> DEFINE x == insns[i]
      <4>1. x \in Insns /\ x.at = a /\ Lies(code, x, n)
        BY <3>2, <3>4 DEF a
      <4> HIDE DEF x
      <4>2. \A p \in Nat : x.at < p /\ p <= n => same[p] = code[p]
        BY <3>3, <4>1
      <4>3. Lies(same, x, n)
        BY <3>5, <4>1, <4>2, LiesSame, Zenon
      <4>. QED BY <4>3 DEF x
    <3>. QED BY <1>4, <2>2, <3>6, Zenon DEF n
  <2>. QED BY <2>1, <2>2
<1>8. ASSUME NEW i \in 1..l
      PROVE fixed[i].at < After(same, fixed, i) /\ After(same, fixed, i) <= Len(same)
  BY <1>2, <1>4, <1>5
<1>9. ASSUME NEW i \in 1..l, NEW j \in 1..l, i < j PROVE After(same, fixed, i) <= fixed[j].at
  BY <1>2, <1>4, <1>5, <1>9
<1>10. ASSUME NEW i \in 1..l, fixed[i].op = "LOOP" PROVE \E j \in 1..l : fixed[j].at = fixed[i].to
  <2>1. i # q
    <3>1. "LOOP" \notin JumpOps
      BY DEF JumpOps
    <3>. QED BY <1>10, <3>1
  <2>2. fixed[i] = insns[i]
    BY <2>1
  <2>3. PICK j \in 1..l : insns[j].at = insns[i].to
    BY <1>5, <1>10, <2>2
  <2>. QED BY <1>2, <2>2, <2>3
<1>. QED BY <1>7, <1>8, <1>9, <1>10 DEF Laid

-----------------------------------------------------------------------------
(* Contexts.                                                               *)
Emits == Plain \cup JumpOps \cup {"LOOP", "CLOSURE", "one"}
Noted(op, at) == [op |-> op, at |-> at, to |-> -1]
Bytes == 0..255
Codes == Seq(0..255)

(* The parts of a context.                                                 *)
LEMMA ContextParts ==
  ASSUME NEW c \in Contexts
  PROVE /\ c.code \in Seq(0..255) /\ c.code \in Codes
        /\ c.insns \in Seq(Insns) /\ c.locals \in Seq(Int) /\ c.depth \in Nat
        /\ c.constants \in Nat /\ c.marks \in Seq(Marks) /\ c.account \in Accounts
        /\ c.account.height \in Int /\ c.account.owed \in Int
        /\ Len(c.code) \in Nat /\ Len(c.insns) \in Nat /\ Len(c.marks) \in Nat /\ Len(c.locals) \in Nat
<1>1. /\ c.code \in Seq(0..255) /\ c.insns \in Seq(Insns) /\ c.locals \in Seq(Int) /\ c.depth \in Nat
      /\ c.constants \in Nat /\ c.marks \in Seq(Marks) /\ c.account \in Accounts
  BY DEF Contexts
<1>2. c.account.height \in Int /\ c.account.owed \in Int
  BY <1>1 DEF Accounts
<1>. QED BY <1>1, <1>2, LenProperties DEF Codes

(* Code with a byte and its operands behind it.                            *)
Longer(code, b, operands) == code \o <<b>> \o operands

(* Two lists, one behind the other.                                        *)
LEMMA ConcatParts ==
  ASSUME NEW S, NEW s \in Seq(S), NEW t \in Seq(S), NEW r, r = s \o t
  PROVE /\ r \in Seq(S) /\ Len(r) = Len(s) + Len(t)
        /\ \A p \in 1..Len(s) : r[p] = s[p]
        /\ \A p \in 1..Len(t) : r[Len(s) + p] = t[p]
OBVIOUS

(* The bytes of the code stay where they are.                              *)
Lengthens(t, code, b, operands) ==
  /\ t \in Codes /\ Len(t) = Len(code) + 1 + Len(operands)
  /\ \A p \in 1..Len(code) : t[p] = code[p]
  /\ t[Len(code) + 1] = b
  /\ \A j \in 1..Len(operands) : t[Len(code) + 1 + j] = operands[j]

(* Longer lengthens.                                                       *)
LEMMA LongerParts ==
  ASSUME NEW code \in Codes, NEW b \in Bytes, NEW operands \in Codes
  PROVE Lengthens(Longer(code, b, operands), code, b, operands)
<1> DEFINE t == Longer(code, b, operands)
           one == <<b>>
           r == code \o one
           l == Len(code)
           k == Len(operands)
<1>1. one \in Seq(0..255) /\ Len(one) = 1 /\ one[1] = b /\ l \in Nat /\ k \in Nat
  BY DEF Bytes, Codes
<1>2. t = r \o operands
  BY DEF Longer
<1> HIDE DEF t, one
<1>3. r = code \o one
  OBVIOUS
<1> HIDE DEF r
<1>4. /\ r \in Seq(0..255) /\ Len(r) = l + Len(one)
      /\ \A p \in 1..l : r[p] = code[p]
      /\ \A p \in 1..Len(one) : r[l + p] = one[p]
  <2> DEFINE S == 0..255
  <2>1. code \in Seq(S) /\ one \in Seq(S)
    BY <1>1 DEF Codes
  <2> HIDE DEF S
  <2>2. /\ r \in Seq(S) /\ Len(r) = Len(code) + Len(one)
        /\ \A p \in 1..Len(code) : r[p] = code[p]
        /\ \A p \in 1..Len(one) : r[Len(code) + p] = one[p]
    BY <1>3, <2>1, ConcatParts
  <2>. QED BY <2>2 DEF S
<1>5. /\ t \in Seq(0..255) /\ Len(t) = Len(r) + k
      /\ \A p \in 1..Len(r) : t[p] = r[p]
      /\ \A p \in 1..k : t[Len(r) + p] = operands[p]
  <2> DEFINE S == 0..255
  <2>1. r \in Seq(S) /\ operands \in Seq(S)
    BY <1>4 DEF Codes
  <2> HIDE DEF S
  <2>2. /\ t \in Seq(S) /\ Len(t) = Len(r) + Len(operands)
        /\ \A p \in 1..Len(r) : t[p] = r[p]
        /\ \A p \in 1..Len(operands) : t[Len(r) + p] = operands[p]
    BY <1>2, <2>1, ConcatParts
  <2>. QED BY <2>2 DEF S
<1> HIDE DEF l, k
<1>6. Len(r) = l + 1 /\ r[l + 1] = b
  BY <1>1, <1>4
<1>7. \A p \in 1..l : p \in 1..Len(r) /\ t[p] = code[p]
  BY <1>1, <1>4, <1>5, <1>6
<1>8. t[l + 1] = b /\ Len(t) = l + 1 + k
  BY <1>1, <1>5, <1>6
<1>9. \A p \in 1..k : t[l + 1 + p] = operands[p]
  BY <1>5, <1>6
<1>10. Lengthens(t, code, b, operands)
  BY <1>5, <1>7, <1>8, <1>9, Zenon DEF l, k, Codes, Lengthens
<1>. QED BY <1>10 DEF t

(* What Write changes.                                                     *)
Wrote(w, c, op, b, operands, e) ==
  /\ w \in Contexts
  /\ w.code = Longer(c.code, b, operands)
  /\ w.insns = Append(c.insns, Noted(op, Len(c.code))) /\ Noted(op, Len(c.code)) \in Insns
  /\ w.locals = c.locals /\ w.depth = c.depth /\ w.marks = c.marks
  /\ w.constants = c.constants /\ w.type = c.type
  /\ w.account.height = c.account.height + e /\ w.account.owed = c.account.owed

(* Write makes a context of a context.                                     *)
LEMMA WriteParts ==
  ASSUME NEW c \in Contexts, NEW op \in Emits, NEW b \in Bytes, NEW operands \in Codes, NEW n,
         Effect(op, n) \in Int
  PROVE Wrote(Write(c, op, b, operands, n), c, op, b, operands, Effect(op, n))
<1> DEFINE w == Write(c, op, b, operands, n)
           e == Effect(op, n)
           x == Noted(op, Len(c.code))
           t == Longer(c.code, b, operands)
           a == [c.account EXCEPT !.height = @ + e]
<1>1. /\ c.code \in Codes /\ c.insns \in Seq(Insns) /\ c.account \in Accounts
      /\ Len(c.code) \in Nat /\ e \in Int
  BY ContextParts
<1>2. x \in Insns
  BY <1>1 DEF Noted, Insns, Emits
<1>3. t \in Seq(0..255)
  <2>1. Lengthens(t, c.code, b, operands)
    BY <1>1, LongerParts
  <2>. QED BY <2>1 DEF Lengthens, Codes
<1>4. a \in Accounts /\ a.height = c.account.height + e /\ a.owed = c.account.owed
  BY <1>1 DEF Accounts
<1>5. w = [c EXCEPT !.code = t, !.insns = Append(c.insns, x), !.account = a]
  BY DEF Write, Count, Noted, Contexts, Longer
<1>6. Append(c.insns, x) \in Seq(Insns)
  BY <1>1, <1>2
<1> DEFINE u == Append(c.insns, x)
<1> HIDE DEF w, e, x, t, a, u
<1>7. w = [c EXCEPT !.code = t, !.insns = u, !.account = a] /\ u \in Seq(Insns)
  BY <1>5, <1>6 DEF u
<1>8. /\ w \in Contexts /\ w.code = t /\ w.insns = u /\ w.locals = c.locals /\ w.depth = c.depth
      /\ w.marks = c.marks /\ w.constants = c.constants /\ w.type = c.type /\ w.account = a
  <2> DEFINE S == Types \cup {"script"}
             B == Seq(0..255)
             I == Seq(Insns)
             L == Seq(Int)
             M == Seq(Marks)
  <2>1. Contexts = [type : S, code : B, insns : I, locals : L, depth : Nat, constants : Nat, marks : M, account : Accounts]
    BY DEF Contexts
  <2>2. t \in B /\ u \in I /\ a \in Accounts
    BY <1>3, <1>4, <1>7
  <2> HIDE DEF S, B, I, L, M
  <2>. QED BY <1>7, <2>1, <2>2, Zenon
<1>9. Wrote(w, c, op, b, operands, e)
  BY <1>2, <1>4, <1>8 DEF x, t, u, Wrote
<1>. QED BY <1>9 DEF w, e

(* A mark is still one when an instruction has been written.               *)
LEMMA MarkedAppend ==
  ASSUME NEW code \in Seq(0..255), NEW insns \in Seq(Insns), NEW longer \in Seq(0..255),
         NEW insn \in Insns, NEW m \in Marks, NEW o \in OpenMarks, Len(longer) >= Len(code),
         insn.at = Len(code), Marked(code, insns, m, o)
  PROVE Marked(longer, Append(insns, insn), m, o)
<1> DEFINE more == Append(insns, insn)
           l == Len(insns)
<1>1. /\ l \in Nat /\ Len(more) = l + 1 /\ more[l + 1] = insn
      /\ \A i \in 1..l : more[i] = insns[i]
  OBVIOUS
<1>2. l + 1 \in 1..Len(more) /\ \A i \in 1..l : i \in 1..Len(more)
  BY <1>1
<1> HIDE DEF more
<1>3. m.account.height = m.locals + m.account.owed + o.over /\ m.at <= Len(code) /\ m.at \in Nat
  BY DEF Marked, Marks
<1>4. m.at <= Len(longer)
  BY <1>3
<1>5. CASE o.jump = 1
  <2>1. PICK i \in 1..l : insns[i].at = m.at /\ insns[i].op \in JumpOps
    BY <1>5 DEF Marked
  <2>2. \E j \in 1..Len(more) : more[j].at = m.at /\ more[j].op \in JumpOps
    BY <1>1, <1>2, <2>1
  <2>. QED BY <1>3, <1>4, <1>5, <2>2 DEF Marked, more
<1>6. CASE o.jump # 1
  <2>1. m.at = Len(code) \/ \E i \in 1..l : insns[i].at = m.at
    BY <1>6 DEF Marked
  <2>2. \E j \in 1..Len(more) : more[j].at = m.at
    BY <1>1, <1>2, <2>1, Zenon
  <2>. QED BY <1>3, <1>4, <1>6, <2>2 DEF Marked, more
<1>. QED BY <1>5, <1>6

(* The jumps are as they were when another instruction has been written.   *)
LEMMA JumpingMore ==
  ASSUME NEW c \in Contexts, NEW d \in Contexts, NEW marks \in Seq(OpenMarks), NEW insn \in Insns,
         Jumping(c, marks), d.insns = Append(c.insns, insn), insn.at = Len(c.code),
         Len(d.code) > Len(c.code), d.marks = c.marks, insn.op \notin JumpOps
  PROVE Jumping(d, marks)
<1> DEFINE l == Len(c.insns)
<1>1. /\ c.code \in Seq(0..255) /\ c.insns \in Seq(Insns) /\ d.code \in Seq(0..255) /\ c.marks \in Seq(Marks)
      /\ l \in Nat /\ Len(c.code) \in Nat /\ Len(d.code) \in Nat
  BY ContextParts
<1>2. Len(c.marks) = Len(marks) /\ \A k \in 1..Len(marks) : c.marks[k] \in Marks /\ marks[k] \in OpenMarks
  <2>1. Len(c.marks) = Len(marks)
    BY DEF Jumping
  <2>2. \A k \in 1..Len(c.marks) : c.marks[k] \in Marks
    BY <1>1, ElementOfSeq
  <2>3. \A k \in 1..Len(marks) : marks[k] \in OpenMarks
    BY ElementOfSeq
  <2>. QED BY <2>1, <2>2, <2>3
<1>3. ASSUME NEW k \in 1..Len(marks) PROVE Marked(d.code, d.insns, d.marks[k], marks[k])
  <2>1. Marked(c.code, c.insns, c.marks[k], marks[k]) /\ Len(d.code) >= Len(c.code)
    BY <1>1 DEF Jumping
  <2>. QED BY <1>1, <1>2, <2>1, MarkedAppend
<1>4. Len(d.insns) = l + 1 /\ d.insns[l + 1] = insn /\ \A i \in 1..l : d.insns[i] = c.insns[i]
  BY <1>1
<1>5. ASSUME NEW i \in 1..Len(d.insns), d.insns[i].op \in JumpOps, d.insns[i].to = -1
      PROVE \E k \in 1..Len(marks) : marks[k].jump = 1 /\ d.marks[k].at = d.insns[i].at
  <2>1. i # l + 1
    BY <1>4, <1>5
  <2>2. i \in 1..l
    BY <1>1, <1>4, <2>1
  <2>3. c.insns[i].op \in JumpOps /\ c.insns[i].to = -1 /\ d.insns[i].at = c.insns[i].at
    BY <1>4, <1>5, <2>2
  <2>. QED BY <2>2, <2>3 DEF Jumping
<1>. QED BY <1>2, <1>3, <1>5 DEF Jumping

(* A number more in the height, or in what is owed.                        *)
LEMMA HeightSum ==
  \A h, l, w, o, e \in Int : h = l + w + o => h + e = l + w + (o + e) /\ h = l + (w + e) + (o - e)
OBVIOUS

(* An instruction that is no jump: the height goes as it says.             *)
LEMMA FitsWrite ==
  ASSUME NEW c, NEW n, NEW x \in Shapes, NEW op \in Emits, NEW b \in Bytes, NEW operands \in Codes,
         Fits(c, x), op \notin JumpOps, op # "LOOP", Effect(op, n) \in Int,
         Lies(Longer(c.code, b, operands), Noted(op, Len(c.code)), Len(c.code) + 1 + Len(operands))
  PROVE Fits(Write(c, op, b, operands, n), Over(x, x.over + Effect(op, n)))
<1> DEFINE w == Write(c, op, b, operands, n)
           e == Effect(op, n)
           insn == Noted(op, Len(c.code))
           t == Longer(c.code, b, operands)
           y == Over(x, x.over + e)
<1>1. c \in Contexts /\ Laid(c.code, c.insns) /\ Jumping(c, x.marks)
  BY DEF Fits
<1>2. /\ c.code \in Codes /\ c.insns \in Seq(Insns) /\ Len(c.code) \in Nat
      /\ c.account.height \in Int /\ c.account.owed \in Int /\ Len(c.locals) \in Nat
  BY <1>1, ContextParts
<1>3. /\ w \in Contexts /\ w.code = t /\ w.insns = Append(c.insns, insn) /\ insn \in Insns
      /\ w.locals = c.locals /\ w.depth = c.depth /\ w.marks = c.marks
      /\ w.account.height = c.account.height + e /\ w.account.owed = c.account.owed
  <2>1. Wrote(w, c, op, b, operands, e)
    BY <1>1, WriteParts
  <2> HIDE DEF w, e
  <2>. QED BY <2>1 DEF Wrote
<1>4. /\ t \in Codes /\ Len(t) = Len(c.code) + 1 + Len(operands)
      /\ \A p \in 1..Len(c.code) : t[p] = c.code[p]
  <2>1. Lengthens(t, c.code, b, operands)
    BY <1>2, LongerParts
  <2> HIDE DEF t
  <2>. QED BY <2>1 DEF Lengthens
<1>5. Lies(t, insn, Len(t)) /\ insn.at = Len(c.code) /\ insn.op = op
  BY <1>4 DEF Noted
<1>6. Len(t) > Len(c.code)
  <2>1. Len(operands) \in Nat
    BY DEF Codes
  <2>. QED BY <1>2, <1>4, <2>1
<1> HIDE DEF w, e, insn, t
<1>7. Laid(w.code, w.insns)
  <2>1. insn.op # "LOOP"
    BY <1>5
  <2> DEFINE code == c.code
             insns == c.insns
  <2>2. /\ code \in Seq(0..255) /\ insns \in Seq(Insns) /\ Laid(code, insns) /\ Len(t) > Len(code)
        /\ \A p \in 1..Len(code) : t[p] = code[p]
        /\ insn.at = Len(code)
    BY <1>1, <1>2, <1>4, <1>5, <1>6 DEF Codes
  <2> HIDE DEF code, insns
  <2>3. Laid(t, Append(insns, insn))
    <3>1. t \in Seq(0..255)
      BY <1>4 DEF Codes
    <3>. QED BY <1>3, <1>4, <1>5, <2>1, <2>2, <3>1, LaidAppend, Zenon
  <2>4. Laid(t, Append(c.insns, insn))
    BY <2>3 DEF insns
  <2>. QED BY <1>3, <2>4
<1>8. x.marks \in Seq(OpenMarks) /\ x.over \in Int
  BY DEF Shapes
<1>9. Jumping(w, x.marks)
  BY <1>1, <1>3, <1>5, <1>6, <1>8, JumpingMore, Zenon
<1>10. y.marks = x.marks /\ y.depth = x.depth /\ y.pending = x.pending /\ y.over = x.over + e
  BY DEF Over, Shape
<1> HIDE DEF y
<1>11. w.account.height = Len(w.locals) + w.account.owed + y.over
  <2>1. c.account.height = Len(c.locals) + c.account.owed + x.over
    BY DEF Fits
  <2>2. e \in Int
    BY DEF e
  <2> DEFINE h == c.account.height
             l == Len(c.locals)
             o == c.account.owed
             v == x.over
  <2>3. h \in Int /\ l \in Int /\ o \in Int /\ v \in Int /\ h = l + o + v
    BY <1>2, <1>8, <2>1
  <2>4. w.account.height = h + e /\ Len(w.locals) = l /\ w.account.owed = o /\ y.over = v + e
    BY <1>3, <1>10
  <2> HIDE DEF h, l, o, v
  <2>5. h + e = l + o + (v + e)
    BY <2>2, <2>3
  <2>. QED BY <2>4, <2>5
<1>12. c.depth = x.depth
  BY DEF Fits
<1>13. Fits(w, y)
  BY <1>3, <1>7, <1>9, <1>10, <1>11, <1>12 DEF Fits
<1>. QED BY <1>13 DEF w, e, y

(* An opcode that is no jump, and its operands.                            *)
LEMMA FitsEmit ==
  ASSUME NEW c, NEW x \in Shapes, NEW op \in Plain, NEW operands \in Codes, NEW n \in Nat,
         Fits(c, x), Len(operands) = (IF op \in OneByte THEN 1 ELSE 0)
  PROVE Fits(Emit(c, op, operands, n), Over(x, x.over + Effect(op, n)))
<1>1. c \in Contexts /\ Len(c.code) \in Nat /\ c.code \in Codes
  <2>1. c \in Contexts
    BY DEF Fits
  <2>. QED BY <2>1, ContextParts
<1>2. op \in Emits /\ op \notin JumpOps /\ op # "LOOP" /\ op \in Range(Opcodes)
  BY DEF Emits, Plain, JumpOps, TwoBytes
<1>3. Number[op] \in Bytes /\ Effect(op, n) \in Int
  <2>1. Number[op] \in 0..66
    BY <1>2, Numbers
  <2>2. Number[op] \in Bytes
    BY <2>1 DEF Bytes
  <2>. QED BY <2>2, EffectType
<1> DEFINE b == Number[op]
           t == Longer(c.code, b, operands)
           at == Len(c.code)
           insn == Noted(op, at)
           next == at + 1 + Len(operands)
<1>4. t[at + 1] = b
  <2>1. Lengthens(t, c.code, b, operands)
    BY <1>1, <1>3, LongerParts
  <2> HIDE DEF t
  <2>. QED BY <2>1 DEF Lengthens
<1>5. next = at + (IF op \in OneByte THEN 2 ELSE 1)
  <2>1. CASE op \in OneByte
    BY <1>1, <2>1
  <2>2. CASE op \notin OneByte
    BY <1>1, <2>2
  <2>. QED BY <2>1, <2>2, Zenon
<1>6. insn.at = at /\ insn.op = op
  BY DEF Noted
<1>7. Lies(t, insn, next)
  <2> HIDE DEF t, insn, next
  <2>. QED BY <1>4, <1>5, <1>6, Zenon DEF Lies
<1>8. Lies(Longer(c.code, Number[op], operands), Noted(op, Len(c.code)), Len(c.code) + 1 + Len(operands))
  BY <1>7, Zenon
<1>9. Fits(Write(c, op, b, operands, n), Over(x, x.over + Effect(op, n)))
  <2> HIDE DEF t, insn, next, at
  <2> DEFINE e == Effect(op, n)
  <2>1. Lies(Longer(c.code, b, operands), Noted(op, Len(c.code)), Len(c.code) + 1 + Len(operands)) /\ b \in Bytes
    BY <1>3, <1>8, Zenon
  <2> HIDE DEF b
  <2>. QED BY <1>2, <1>3, <2>1, FitsWrite, Zenon
<1>. QED BY <1>9 DEF Emit

(* A context that has the code and the marks of another.                   *)
Alike(d, c) == d \in Contexts /\ d.code = c.code /\ d.insns = c.insns /\ d.marks = c.marks

(* What is left to be shown of such a context.                             *)
LEMMA FitsAlike ==
  ASSUME NEW c, NEW x \in Shapes, NEW d, NEW y \in Shapes, Fits(c, x), Alike(d, c),
         y.marks = x.marks, d.depth = y.depth,
         d.account.height = Len(d.locals) + d.account.owed + y.over
  PROVE Fits(d, y)
<1>1. d \in Contexts /\ Laid(d.code, d.insns)
  BY DEF Fits, Alike
<1>2. Jumping(d, y.marks)
  BY DEF Fits, Alike, Jumping
<1>. QED BY <1>1, <1>2 DEF Fits

(* What a context that fits a shape is known to be.                        *)
LEMMA FitsParts ==
  ASSUME NEW c, NEW x \in Shapes, Fits(c, x)
  PROVE /\ c \in Contexts /\ c.depth = x.depth
        /\ c.account.height = Len(c.locals) + c.account.owed + x.over
        /\ c.account.height \in Int /\ c.account.owed \in Int /\ Len(c.locals) \in Nat
        /\ x.over \in Int /\ x.depth \in Nat /\ x.pending \in {0, 1} /\ x.marks \in Seq(OpenMarks)
        /\ c.account \in Accounts /\ c.locals \in Seq(Int) /\ c.constants \in Nat
<1>1. /\ c \in Contexts /\ c.depth = x.depth
      /\ c.account.height = Len(c.locals) + c.account.owed + x.over
  BY DEF Fits
<1>2. x.over \in Int /\ x.depth \in Nat /\ x.pending \in {0, 1} /\ x.marks \in Seq(OpenMarks)
  BY DEF Shapes
<1>3. /\ c.account.height \in Int /\ c.account.owed \in Int /\ Len(c.locals) \in Nat
      /\ c.account \in Accounts /\ c.locals \in Seq(Int) /\ c.constants \in Nat
  BY <1>1, ContextParts
<1>. QED BY <1>1, <1>2, <1>3

(* A shape of its parts.                                                   *)
LEMMA ShapeType ==
  /\ \A m \in Seq(OpenMarks), d \in Nat, p \in {0, 1}, o \in Int : Shape(m, d, p, o) \in Shapes
  /\ \A x \in Shapes : \A o \in Int : Over(x, o) \in Shapes
BY DEF Shape, Shapes, Over

(* The parts of a shape whose height is set.                               *)
LEMMA OverParts ==
  \A x, o : /\ Over(x, o).marks = x.marks /\ Over(x, o).depth = x.depth
            /\ Over(x, o).pending = x.pending /\ Over(x, o).over = o
BY DEF Over, Shape

(* An account with a number more that is owed.                             *)
LEMMA AccountOwed ==
  \A a \in Accounts : \A n \in Int :
    /\ [a EXCEPT !.owed = @ + n] \in Accounts
    /\ [a EXCEPT !.owed = @ + n].height = a.height /\ [a EXCEPT !.owed = @ + n].owed = a.owed + n
BY DEF Accounts

(* What is owed more, the stack is less above it.                          *)
LEMMA OwedSum == \A h, l, w, o, e \in Int : h = l + w + o => h = l + (w + e) + (o - e)
OBVIOUS

(* A value that is owed.                                                   *)
LEMMA FitsOwe ==
  ASSUME NEW c, NEW x \in Shapes, NEW n \in Int, Fits(c, x)
  PROVE Fits(Owe(c, n), Over(x, x.over - n))
<1> DEFINE d == Owe(c, n)
           y == Over(x, x.over - n)
<1>1. /\ c \in Contexts /\ c.depth = x.depth
      /\ c.account.height = Len(c.locals) + c.account.owed + x.over
      /\ c.account.height \in Int /\ c.account.owed \in Int /\ Len(c.locals) \in Nat
      /\ x.over \in Int /\ c.account \in Accounts
  BY FitsParts
<1>2. y \in Shapes /\ y.marks = x.marks /\ y.depth = x.depth /\ y.pending = x.pending /\ y.over = x.over - n
  <2> DEFINE o == x.over - n
  <2>1. o \in Int
    BY <1>1
  <2> HIDE DEF o
  <2>2. Over(x, o) \in Shapes
    BY <2>1, ShapeType
  <2>3. Over(x, o).marks = x.marks /\ Over(x, o).depth = x.depth /\ Over(x, o).pending = x.pending /\ Over(x, o).over = o
    BY OverParts
  <2>. QED BY <2>2, <2>3 DEF o
<1> HIDE DEF y
<1> DEFINE a == [c.account EXCEPT !.owed = @ + n]
<1>3. a \in Accounts /\ a.height = c.account.height /\ a.owed = c.account.owed + n
  BY <1>1, AccountOwed
<1>4. d = [c EXCEPT !.account = a]
  BY <1>1 DEF Owe, Contexts
<1> HIDE DEF a, d
<1>5. Alike(d, c) /\ d.depth = c.depth /\ d.locals = c.locals /\ d.account = a
  BY <1>1, <1>3, <1>4, Zenon DEF Contexts, Alike
<1>6. d.account.height = Len(d.locals) + d.account.owed + y.over
  <2> DEFINE h == c.account.height
             l == Len(c.locals)
             o == c.account.owed
             v == x.over
  <2>1. h \in Int /\ l \in Int /\ o \in Int /\ v \in Int /\ h = l + o + v
    BY <1>1
  <2>2. d.account.height = h /\ Len(d.locals) = l /\ d.account.owed = o + n /\ y.over = v - n
    BY <1>2, <1>3, <1>5
  <2> HIDE DEF h, l, o, v
  <2>3. h = l + (o + n) + (v - n)
    BY <2>1, OwedSum
  <2>. QED BY <2>2, <2>3
<1>7. Fits(d, y)
  BY <1>1, <1>2, <1>5, <1>6, FitsAlike
<1>. QED BY <1>7 DEF d, y

(* A name more among the constants.                                        *)
LEMMA FitsName ==
  ASSUME NEW c, NEW x \in Shapes, Fits(c, x)
  PROVE Fits(AddName(c), x)
<1> DEFINE d == AddName(c)
<1>1. /\ c \in Contexts /\ c.depth = x.depth
      /\ c.account.height = Len(c.locals) + c.account.owed + x.over /\ c.constants \in Nat
  BY FitsParts
<1>2. d = [c EXCEPT !.constants = c.constants + 1] /\ c.constants + 1 \in Nat
  BY <1>1 DEF AddName, Contexts
<1> HIDE DEF d
<1>3. Alike(d, c) /\ d.depth = c.depth /\ d.locals = c.locals /\ d.account = c.account
  BY <1>1, <1>2, Zenon DEF Contexts, Alike
<1>4. Fits(d, x)
  BY <1>1, <1>3, FitsAlike
<1>. QED BY <1>4 DEF d

-----------------------------------------------------------------------------
(* Scopes.                                                                 *)

(* The locals but the last.                                                *)
LEMMA FrontLocals ==
  ASSUME NEW l \in Seq(Int), l # <<>>
  PROVE Front(l) \in Seq(Int) /\ Len(Front(l)) = Len(l) - 1
<1> DEFINE f == Front(l)
           n == Len(l) - 1
<1>1. n \in 0..Len(l) /\ n \in Nat
  OBVIOUS
<1>2. f = SubSeq(l, 1, n)
  BY DEF Front
<1>3. \A i \in 1..n : l[i] \in Int
  BY <1>1, ElementOfSeq
<1> HIDE DEF f, n
<1>4. f = [i \in 1..n |-> l[i]]
  BY <1>1, <1>2
<1>5. f \in [1..n -> Int]
  BY <1>3, <1>4
<1>6. f \in Seq(Int) /\ Len(f) = n
  BY <1>1, <1>5, Listed
<1>. QED BY <1>6 DEF f, n

(* A local that has no value yet.                                          *)
LEMMA LocalsMore ==
  ASSUME NEW l \in Seq(Int)
  PROVE Append(l, -1) \in Seq(Int) /\ Len(Append(l, -1)) = Len(l) + 1 /\ Append(l, -1) # << >>
<1>1. -1 \in Int
  OBVIOUS
<1>2. Append(l, -1) \in Seq(Int) /\ Len(Append(l, -1)) = Len(l) + 1
  BY <1>1
<1>3. Len(Append(l, -1)) # 0
  BY <1>2
<1>4. Append(l, -1) # << >>
  BY <1>3
<1>. QED BY <1>2, <1>4

(* Locals, the last of which gets its depth.                               *)
Placed(l, d) == [l EXCEPT ![Len(l)] = d]

(* They are as many.                                                       *)
LEMMA LocalsPlaced ==
  ASSUME NEW l \in Seq(Int), NEW d \in Nat, l # <<>>
  PROVE Placed(l, d) \in Seq(Int) /\ Len(Placed(l, d)) = Len(l)
BY DEF Placed

(* A context with other locals, or at another depth.                       *)
WithLocals(c, l) == [c EXCEPT !.locals = l]
WithDepth(c, k) == [c EXCEPT !.depth = k]

(* Its code and its marks are the same.                                    *)
LEMMA AlikeLocals ==
  ASSUME NEW c \in Contexts, NEW l \in Seq(Int)
  PROVE /\ Alike(WithLocals(c, l), c) /\ WithLocals(c, l).locals = l
        /\ WithLocals(c, l).depth = c.depth /\ WithLocals(c, l).account = c.account
<1> DEFINE d == WithLocals(c, l)
           S == Types \cup {"script"}
           B == Seq(0..255)
           I == Seq(Insns)
           L == Seq(Int)
           M == Seq(Marks)
<1>1. Contexts = [type : S, code : B, insns : I, locals : L, depth : Nat, constants : Nat, marks : M, account : Accounts]
  BY DEF Contexts
<1>2. d = [c EXCEPT !.locals = l] /\ l \in L
  BY DEF WithLocals
<1> HIDE DEF d, S, B, I, L, M
<1>3. d \in Contexts /\ d.code = c.code /\ d.insns = c.insns /\ d.marks = c.marks
  BY <1>1, <1>2
<1>4. d.locals = l /\ d.depth = c.depth /\ d.account = c.account
  BY <1>1, <1>2
<1>5. Alike(d, c)
  BY <1>3 DEF Alike
<1>. QED BY <1>4, <1>5 DEF d

(* So they are at another depth.                                           *)
LEMMA AlikeDepth ==
  ASSUME NEW c \in Contexts, NEW k \in Nat
  PROVE /\ Alike(WithDepth(c, k), c) /\ WithDepth(c, k).depth = k
        /\ WithDepth(c, k).locals = c.locals /\ WithDepth(c, k).account = c.account
<1> DEFINE d == WithDepth(c, k)
           S == Types \cup {"script"}
           B == Seq(0..255)
           I == Seq(Insns)
           L == Seq(Int)
           M == Seq(Marks)
<1>1. Contexts = [type : S, code : B, insns : I, locals : L, depth : Nat, constants : Nat, marks : M, account : Accounts]
  BY DEF Contexts
<1>2. d = [c EXCEPT !.depth = k]
  BY DEF WithDepth
<1> HIDE DEF d, S, B, I, L, M
<1>3. d \in Contexts /\ d.code = c.code /\ d.insns = c.insns /\ d.marks = c.marks
  BY <1>1, <1>2
<1>4. d.depth = k /\ d.locals = c.locals /\ d.account = c.account
  BY <1>1, <1>2
<1>5. Alike(d, c)
  BY <1>3 DEF Alike
<1>. QED BY <1>4, <1>5 DEF d

(* A value less, and a local less.                                         *)
LEMMA PopSum == \A l, w, o \in Int : l + w + (o - 1) = (l - 1) + w + o
OBVIOUS

(* begin_scope.                                                            *)
LEMMA FitsBegin ==
  ASSUME NEW c, NEW x \in Shapes, Fits(c, x)
  PROVE Fits([c EXCEPT !.depth = @ + 1], Shape(x.marks, x.depth + 1, x.pending, x.over))
<1> DEFINE k == c.depth + 1
           d == WithDepth(c, k)
           y == Shape(x.marks, x.depth + 1, x.pending, x.over)
<1>1. /\ c \in Contexts /\ c.depth = x.depth
      /\ c.account.height = Len(c.locals) + c.account.owed + x.over
      /\ x.over \in Int /\ x.depth \in Nat /\ x.pending \in {0, 1} /\ x.marks \in Seq(OpenMarks)
      /\ c.locals \in Seq(Int)
  BY FitsParts
<1>2. k \in Nat /\ k = x.depth + 1
  BY <1>1
<1>3. y \in Shapes
  <2> DEFINE m == x.depth + 1
  <2>1. m \in Nat
    BY <1>1
  <2> HIDE DEF m
  <2>2. Shape(x.marks, m, x.pending, x.over) \in Shapes
    BY <1>1, <2>1, ShapeType, Zenon
  <2>. QED BY <2>2 DEF m
<1>4. y.marks = x.marks /\ y.depth = k /\ y.pending = x.pending /\ y.over = x.over
  BY <1>2, ShapeParts
<1> HIDE DEF y, k
<1>5. Alike(d, c) /\ d.depth = k /\ d.locals = c.locals /\ d.account = c.account
  BY <1>1, <1>2, AlikeDepth
<1> HIDE DEF d
<1>7. Fits(d, y)
  BY <1>1, <1>2, <1>3, <1>4, <1>5, FitsAlike
<1>. QED BY <1>7 DEF d, y, k, WithDepth

(* end_scope, when its locals are gone.                                    *)
LEMMA FitsEnd ==
  ASSUME NEW c, NEW x \in Shapes, Fits(c, x), x.pending = 0, x.depth > 0,
         ~(c.locals # <<>> /\ Last(c.locals) > c.depth - 1)
  PROVE Fits([c EXCEPT !.depth = @ - 1], Shape(x.marks, x.depth - 1, 0, x.over))
<1> DEFINE k == c.depth - 1
           d == WithDepth(c, k)
           y == Shape(x.marks, x.depth - 1, 0, x.over)
<1>1. /\ c \in Contexts /\ c.depth = x.depth
      /\ c.account.height = Len(c.locals) + c.account.owed + x.over
      /\ x.over \in Int /\ x.depth \in Nat /\ x.marks \in Seq(OpenMarks)
      /\ c.locals \in Seq(Int)
  BY FitsParts
<1>2. k \in Nat /\ k = x.depth - 1
  BY <1>1
<1>3. y \in Shapes
  <2> DEFINE m == x.depth - 1
  <2>1. m \in Nat /\ 0 \in {0, 1}
    BY <1>1
  <2> HIDE DEF m
  <2>2. Shape(x.marks, m, 0, x.over) \in Shapes
    BY <1>1, <2>1, ShapeType, Zenon
  <2>. QED BY <2>2 DEF m
<1>4. y.marks = x.marks /\ y.depth = k /\ y.pending = 0 /\ y.over = x.over
  BY <1>2, ShapeParts
<1> HIDE DEF y, k
<1>5. Alike(d, c) /\ d.depth = k /\ d.locals = c.locals /\ d.account = c.account
  BY <1>1, <1>2, AlikeDepth
<1> HIDE DEF d
<1>7. Fits(d, y)
  BY <1>1, <1>2, <1>3, <1>4, <1>5, FitsAlike
<1>. QED BY <1>7 DEF d, y, k, WithDepth

(* end_scope's instruction takes the last local's value off the stack.     *)
LEMMA FitsPop ==
  ASSUME NEW c, NEW x \in Shapes, NEW op \in {"POP", "CLOSE_UPVALUE"}, Fits(c, x), x.pending = 0,
         c.locals # <<>>
  PROVE Fits([Emit(c, op, <<>>, 0) EXCEPT !.locals = Front(@)], x)
<1> DEFINE w == Emit(c, op, <<>>, 0)
           y == Over(x, x.over - 1)
           f == Front(w.locals)
           d == WithLocals(w, f)
<1>1. op \in Plain /\ op \notin OneByte /\ Effect(op, 0) = -1
  <2>1. op \in Plain
    BY Emitted DEF OpArgs
  <2>. QED BY <2>1 DEF OneByte, Effect, Pushes, Pops
<1>2. <<>> \in Codes /\ Len(<<>>) = 0 /\ 0 \in Nat
  BY DEF Codes
<1>3. Fits(Emit(c, op, <<>>, 0), Over(x, x.over + Effect(op, 0)))
  BY <1>1, <1>2, FitsEmit
<1>4. x.over \in Int /\ x.over + Effect(op, 0) = x.over - 1
  BY <1>1, FitsParts
<1>5. Fits(w, y)
  BY <1>3, <1>4
<1>6. y \in Shapes /\ y.marks = x.marks /\ y.depth = x.depth /\ y.pending = 0 /\ y.over = x.over - 1
  <2> DEFINE o == x.over - 1
  <2>1. o \in Int
    BY <1>4
  <2> HIDE DEF o
  <2>2. Over(x, o) \in Shapes
    BY <2>1, ShapeType
  <2>3. Over(x, o).marks = x.marks /\ Over(x, o).depth = x.depth /\ Over(x, o).pending = x.pending /\ Over(x, o).over = o
    BY OverParts
  <2>. QED BY <2>2, <2>3 DEF o
<1>7. w.locals = c.locals
  BY DEF Emit, Write
<1> HIDE DEF w, y
<1>8. /\ w \in Contexts /\ w.depth = y.depth
      /\ w.account.height = Len(w.locals) + w.account.owed + y.over
      /\ w.account.height \in Int /\ w.account.owed \in Int /\ Len(w.locals) \in Nat /\ w.locals \in Seq(Int)
      /\ y.depth \in Nat
  BY <1>5, <1>6, FitsParts
<1>9. f \in Seq(Int) /\ Len(f) = Len(w.locals) - 1
  <2>1. w.locals # <<>>
    BY <1>7
  <2>. QED BY <1>8, <2>1, FrontLocals
<1> HIDE DEF f
<1>10. Alike(d, w) /\ d.locals = f /\ d.depth = w.depth /\ d.account = w.account
  BY <1>8, <1>9, AlikeLocals
<1> HIDE DEF d
<1>11. d.account.height = Len(d.locals) + d.account.owed + x.over
  <2> DEFINE l == Len(w.locals)
             o == w.account.owed
             v == x.over
  <2>1. l \in Int /\ o \in Int /\ v \in Int /\ w.account.height = l + o + (v - 1)
    BY <1>4, <1>6, <1>8
  <2>2. d.account.height = w.account.height /\ Len(d.locals) = l - 1 /\ d.account.owed = o
    BY <1>9, <1>10
  <2> HIDE DEF l, o, v
  <2>3. l + o + (v - 1) = (l - 1) + o + v
    BY <2>1, PopSum
  <2>. QED BY <2>1, <2>2, <2>3 DEF v
<1>12. Fits(d, x)
  BY <1>5, <1>6, <1>8, <1>9, <1>10, <1>11, FitsAlike, Zenon
<1>. QED BY <1>12 DEF d, f, w, WithLocals

(* A local more, and a value less above the locals.                        *)
LEMMA DeclareSum == \A l, w, o \in Int : l + w + o = (l + 1) + w + (o - 1)
OBVIOUS

(* declare_variable, in a scope.                                           *)
LEMMA FitsDeclare ==
  ASSUME NEW c, NEW x \in Shapes, Fits(c, x), x.pending = 0
  PROVE Fits([c EXCEPT !.locals = Append(@, -1)], Shape(x.marks, x.depth, 1, x.over - 1))
<1> DEFINE f == Append(c.locals, -1)
           d == WithLocals(c, f)
           o == x.over - 1
           y == Shape(x.marks, x.depth, 1, o)
<1>1. /\ c \in Contexts /\ c.depth = x.depth
      /\ c.account.height = Len(c.locals) + c.account.owed + x.over
      /\ c.account.owed \in Int /\ Len(c.locals) \in Nat
      /\ x.over \in Int /\ x.depth \in Nat /\ x.marks \in Seq(OpenMarks)
      /\ c.locals \in Seq(Int)
  BY FitsParts
<1>2. f \in Seq(Int) /\ Len(f) = Len(c.locals) + 1
  BY <1>1, LocalsMore
<1>3. o \in Int /\ 1 \in {0, 1}
  BY <1>1
<1> HIDE DEF f, o
<1>4. y \in Shapes
  BY <1>1, <1>3, ShapeType, Zenon
<1>5. y.marks = x.marks /\ y.depth = x.depth /\ y.pending = 1 /\ y.over = o
  BY ShapeParts
<1> HIDE DEF y
<1>6. Alike(d, c) /\ d.locals = f /\ d.depth = c.depth /\ d.account = c.account
  BY <1>1, <1>2, AlikeLocals
<1> HIDE DEF d
<1>7. d.account.height = Len(d.locals) + d.account.owed + y.over
  <2> DEFINE l == Len(c.locals)
             w == c.account.owed
             v == x.over
  <2>1. l \in Int /\ w \in Int /\ v \in Int /\ c.account.height = l + w + v
    BY <1>1
  <2>2. d.account.height = c.account.height /\ Len(d.locals) = l + 1 /\ d.account.owed = w /\ y.over = v - 1
    BY <1>2, <1>5, <1>6 DEF o
  <2> HIDE DEF l, w, v
  <2>3. l + w + v = (l + 1) + w + (v - 1)
    BY <2>1, DeclareSum
  <2>. QED BY <2>1, <2>2, <2>3
<1>8. Fits(d, y)
  BY <1>1, <1>2, <1>4, <1>5, <1>6, <1>7, FitsAlike, Zenon
<1>. QED BY <1>8 DEF d, f, y, o, WithLocals

(* define_variable, in a scope: the last local has its depth.              *)
LEMMA FitsPlace ==
  ASSUME NEW c, NEW x \in Shapes, Fits(c, x), c.locals # <<>>
  PROVE Fits([c EXCEPT !.locals[Len(c.locals)] = c.depth], Shape(x.marks, x.depth, 0, x.over))
<1> DEFINE f == Placed(c.locals, x.depth)
           d == WithLocals(c, f)
           y == Shape(x.marks, x.depth, 0, x.over)
<1>1. /\ c \in Contexts /\ c.depth = x.depth
      /\ c.account.height = Len(c.locals) + c.account.owed + x.over
      /\ x.over \in Int /\ x.depth \in Nat /\ x.pending \in {0, 1} /\ x.marks \in Seq(OpenMarks)
      /\ c.locals \in Seq(Int)
  BY FitsParts
<1>2. f \in Seq(Int) /\ Len(f) = Len(c.locals)
  BY <1>1, LocalsPlaced
<1>3. 0 \in {0, 1}
  OBVIOUS
<1>4. y \in Shapes
  BY <1>1, <1>3, ShapeType, Zenon
<1>5. y.marks = x.marks /\ y.depth = x.depth /\ y.pending = 0 /\ y.over = x.over
  BY ShapeParts
<1> HIDE DEF f, y
<1>6. Alike(d, c) /\ d.locals = f /\ d.depth = c.depth /\ d.account = c.account
  BY <1>1, <1>2, AlikeLocals
<1> HIDE DEF d
<1>7. Fits(d, y)
  BY <1>1, <1>2, <1>4, <1>5, <1>6, FitsAlike, Zenon
<1>8. [c EXCEPT !.locals[Len(c.locals)] = c.depth] = WithLocals(c, Placed(c.locals, c.depth))
  BY <1>1 DEF WithLocals, Placed, Contexts
<1>. QED BY <1>1, <1>7, <1>8 DEF d, f, y

-----------------------------------------------------------------------------
(* Jumps.                                                                  *)

(* A context with other marks, or another account.                         *)
WithMarks(c, m) == [c EXCEPT !.marks = m]
WithAccount(c, a) == [c EXCEPT !.account = a]
Codelike(d, c) ==
  /\ d \in Contexts /\ d.code = c.code /\ d.insns = c.insns /\ d.locals = c.locals /\ d.depth = c.depth

(* Its code and its locals are the same.                                   *)
LEMMA CodelikeMarks ==
  ASSUME NEW c \in Contexts, NEW m \in Seq(Marks)
  PROVE Codelike(WithMarks(c, m), c) /\ WithMarks(c, m).marks = m /\ WithMarks(c, m).account = c.account
<1> DEFINE d == WithMarks(c, m)
           S == Types \cup {"script"}
           B == Seq(0..255)
           I == Seq(Insns)
           L == Seq(Int)
           M == Seq(Marks)
<1>1. Contexts = [type : S, code : B, insns : I, locals : L, depth : Nat, constants : Nat, marks : M, account : Accounts]
  BY DEF Contexts
<1>2. d = [c EXCEPT !.marks = m] /\ m \in M
  BY DEF WithMarks
<1> HIDE DEF d, S, B, I, L, M
<1>3. d \in Contexts /\ d.code = c.code /\ d.insns = c.insns /\ d.locals = c.locals /\ d.depth = c.depth
  BY <1>1, <1>2
<1>4. d.marks = m /\ d.account = c.account
  BY <1>1, <1>2
<1>5. Codelike(d, c)
  BY <1>3 DEF Codelike
<1>. QED BY <1>4, <1>5 DEF d

(* So they are with another account.                                       *)
LEMMA CodelikeAccount ==
  ASSUME NEW c \in Contexts, NEW a \in Accounts
  PROVE Codelike(WithAccount(c, a), c) /\ WithAccount(c, a).marks = c.marks /\ WithAccount(c, a).account = a
<1> DEFINE d == WithAccount(c, a)
           S == Types \cup {"script"}
           B == Seq(0..255)
           I == Seq(Insns)
           L == Seq(Int)
           M == Seq(Marks)
<1>1. Contexts = [type : S, code : B, insns : I, locals : L, depth : Nat, constants : Nat, marks : M, account : Accounts]
  BY DEF Contexts
<1>2. d = [c EXCEPT !.account = a]
  BY DEF WithAccount
<1> HIDE DEF d, S, B, I, L, M
<1>3. d \in Contexts /\ d.code = c.code /\ d.insns = c.insns /\ d.locals = c.locals /\ d.depth = c.depth
  BY <1>1, <1>2
<1>4. d.marks = c.marks /\ d.account = a
  BY <1>1, <1>2
<1>5. Codelike(d, c)
  BY <1>3 DEF Codelike
<1>. QED BY <1>4, <1>5 DEF d

(* Jumping, but for the jumps at a place.                                  *)
JumpingBut(c, marks, at) ==
  /\ Len(c.marks) = Len(marks)
  /\ \A k \in 1..Len(marks) : Marked(c.code, c.insns, c.marks[k], marks[k])
  /\ \A i \in 1..Len(c.insns) :
       c.insns[i].op \in JumpOps /\ c.insns[i].to = -1 =>
         \/ c.insns[i].at = at
         \/ \E k \in 1..Len(marks) : marks[k].jump = 1 /\ c.marks[k].at = c.insns[i].at

(* A mark for the jumps at a place.                                        *)
LEMMA JumpingAdd ==
  ASSUME NEW c \in Contexts, NEW d, NEW marks \in Seq(OpenMarks), NEW m \in Marks, NEW o \in OpenMarks,
         JumpingBut(c, marks, m.at), Marked(c.code, c.insns, m, o), o.jump = 1 \/ Jumping(c, marks),
         d.code = c.code, d.insns = c.insns, d.marks = Append(c.marks, m)
  PROVE Jumping(d, Append(marks, o))
<1> DEFINE more == Append(marks, o)
           l == Len(marks)
<1>1. c.marks \in Seq(Marks) /\ Len(c.marks) = l
  BY ContextParts DEF JumpingBut
<1>2. l \in Nat /\ Len(more) = l + 1 /\ more[l + 1] = o /\ \A k \in 1..l : more[k] = marks[k]
  OBVIOUS
<1>3. Len(d.marks) = l + 1 /\ d.marks[l + 1] = m /\ \A k \in 1..l : d.marks[k] = c.marks[k]
  BY <1>1
<1> HIDE DEF more, l
<1>4. ASSUME NEW k \in 1..Len(more) PROVE Marked(d.code, d.insns, d.marks[k], more[k])
  <2>1. CASE k = l + 1
    BY <1>2, <1>3, <2>1
  <2>2. CASE k # l + 1
    <3>1. k \in 1..l
      BY <1>2, <2>2
    <3>2. Marked(c.code, c.insns, c.marks[k], marks[k])
      BY <3>1 DEF JumpingBut, l
    <3>. QED BY <1>2, <1>3, <3>1, <3>2
  <2>. QED BY <2>1, <2>2, Zenon
<1>5. ASSUME NEW i \in 1..Len(d.insns), d.insns[i].op \in JumpOps, d.insns[i].to = -1
      PROVE \E k \in 1..Len(more) : more[k].jump = 1 /\ d.marks[k].at = d.insns[i].at
  <2>1. CASE \E k \in 1..l : marks[k].jump = 1 /\ c.marks[k].at = c.insns[i].at
    <3>1. PICK k \in 1..l : marks[k].jump = 1 /\ c.marks[k].at = c.insns[i].at
      BY <2>1
    <3>2. k \in 1..Len(more)
      BY <1>2
    <3>. QED BY <1>2, <1>3, <3>1, <3>2
  <2>2. CASE ~\E k \in 1..l : marks[k].jump = 1 /\ c.marks[k].at = c.insns[i].at
    <3>1. c.insns[i].at = m.at
      BY <1>5, <2>2 DEF JumpingBut, l
    <3>2. o.jump = 1
      BY <1>5, <2>2 DEF Jumping, l
    <3>3. l + 1 \in 1..Len(more)
      BY <1>2
    <3>. QED BY <1>2, <1>3, <3>1, <3>2, <3>3
  <2>. QED BY <2>1, <2>2, Zenon
<1>6. Len(d.marks) = Len(more)
  BY <1>2, <1>3
<1>7. Jumping(d, more)
  BY <1>4, <1>5, <1>6, Zenon DEF Jumping
<1>. QED BY <1>7 DEF more

(* Any instruction more: its place is the only one that may lack a mark.   *)
LEMMA JumpingWrite ==
  ASSUME NEW c \in Contexts, NEW d \in Contexts, NEW marks \in Seq(OpenMarks), NEW insn \in Insns,
         Jumping(c, marks), d.insns = Append(c.insns, insn), insn.at = Len(c.code),
         Len(d.code) > Len(c.code), d.marks = c.marks
  PROVE JumpingBut(d, marks, insn.at)
<1> DEFINE l == Len(c.insns)
<1>1. /\ c.code \in Seq(0..255) /\ c.insns \in Seq(Insns) /\ d.code \in Seq(0..255) /\ c.marks \in Seq(Marks)
      /\ l \in Nat /\ Len(c.code) \in Nat /\ Len(d.code) \in Nat
  BY ContextParts
<1>2. Len(c.marks) = Len(marks) /\ \A k \in 1..Len(marks) : c.marks[k] \in Marks /\ marks[k] \in OpenMarks
  <2>1. Len(c.marks) = Len(marks)
    BY DEF Jumping
  <2>2. \A k \in 1..Len(c.marks) : c.marks[k] \in Marks
    BY <1>1, ElementOfSeq
  <2>3. \A k \in 1..Len(marks) : marks[k] \in OpenMarks
    BY ElementOfSeq
  <2>. QED BY <2>1, <2>2, <2>3
<1>3. ASSUME NEW k \in 1..Len(marks) PROVE Marked(d.code, d.insns, d.marks[k], marks[k])
  <2>1. Marked(c.code, c.insns, c.marks[k], marks[k]) /\ Len(d.code) >= Len(c.code)
    BY <1>1 DEF Jumping
  <2>. QED BY <1>1, <1>2, <2>1, MarkedAppend
<1>4. Len(d.insns) = l + 1 /\ d.insns[l + 1] = insn /\ \A i \in 1..l : d.insns[i] = c.insns[i]
  BY <1>1
<1>5. ASSUME NEW i \in 1..Len(d.insns), d.insns[i].op \in JumpOps, d.insns[i].to = -1
      PROVE \/ d.insns[i].at = insn.at
            \/ \E k \in 1..Len(marks) : marks[k].jump = 1 /\ d.marks[k].at = d.insns[i].at
  <2>1. CASE i = l + 1
    BY <1>4, <2>1
  <2>2. CASE i # l + 1
    <3>1. i \in 1..l
      BY <1>1, <1>4, <2>2
    <3>2. c.insns[i].op \in JumpOps /\ c.insns[i].to = -1 /\ d.insns[i].at = c.insns[i].at
      BY <1>4, <1>5, <3>1
    <3>. QED BY <3>1, <3>2 DEF Jumping
  <2>. QED BY <2>1, <2>2
<1>. QED BY <1>2, <1>3, <1>5 DEF JumpingBut

(* A context that lacks only a mark.                                       *)
Lacks(w, x, m, o) ==
  /\ w \in Contexts /\ Laid(w.code, w.insns) /\ m \in Marks /\ o \in OpenMarks
  /\ JumpingBut(w, x.marks, m.at) /\ Marked(w.code, w.insns, m, o)
  /\ o.jump = 1 \/ Jumping(w, x.marks)
  /\ w.depth = x.depth
  /\ w.account.height = Len(w.locals) + w.account.owed + x.over

(* The mark makes it fit.                                                  *)
LEMMA FitsMarked ==
  ASSUME NEW w, NEW x \in Shapes, NEW m, NEW o, Lacks(w, x, m, o)
  PROVE Fits(WithMarks(w, Append(w.marks, m)), Shape(Append(x.marks, o), x.depth, x.pending, x.over))
<1> DEFINE s == Append(w.marks, m)
           t == Append(x.marks, o)
           d == WithMarks(w, s)
           y == Shape(t, x.depth, x.pending, x.over)
<1>1. /\ w \in Contexts /\ Laid(w.code, w.insns) /\ m \in Marks /\ o \in OpenMarks
      /\ JumpingBut(w, x.marks, m.at) /\ Marked(w.code, w.insns, m, o)
      /\ o.jump = 1 \/ Jumping(w, x.marks)
      /\ w.depth = x.depth
      /\ w.account.height = Len(w.locals) + w.account.owed + x.over
  BY DEF Lacks
<1>2. w.marks \in Seq(Marks) /\ x.marks \in Seq(OpenMarks)
  BY <1>1, ContextParts DEF Shapes
<1>3. s \in Seq(Marks)
  BY <1>1, <1>2
<1> HIDE DEF s, t
<1>4. y.marks = t /\ y.depth = x.depth /\ y.pending = x.pending /\ y.over = x.over
  BY ShapeParts
<1> HIDE DEF y
<1>5. Codelike(d, w) /\ d.marks = s /\ d.account = w.account
  BY <1>1, <1>3, CodelikeMarks
<1> HIDE DEF d
<1>6. d \in Contexts /\ d.code = w.code /\ d.insns = w.insns /\ d.locals = w.locals /\ d.depth = w.depth
  BY <1>5 DEF Codelike
<1>7. Jumping(d, t)
  <2>1. d.marks = Append(w.marks, m)
    BY <1>5 DEF s
  <2>2. Jumping(d, Append(x.marks, o))
    BY <1>1, <1>2, <1>6, <2>1, JumpingAdd, Zenon
  <2>. QED BY <2>2 DEF t
<1>8. Fits(d, y)
  BY <1>1, <1>4, <1>5, <1>6, <1>7 DEF Fits
<1>. QED BY <1>8 DEF d, y, s, t

(* What Mark notes.                                                        *)
LEMMA MarkParts ==
  ASSUME NEW c \in Contexts
  PROVE /\ Mark(c) \in Marks /\ Mark(c).at = Len(c.code) /\ Mark(c).account = c.account
        /\ Mark(c).locals = Len(c.locals)
<1>1. c.account \in Accounts /\ Len(c.code) \in Nat /\ Len(c.locals) \in Nat
  BY ContextParts
<1>. QED BY <1>1 DEF Mark, Count, Marks

(* Start.                                                                  *)
LEMMA FitsStart ==
  ASSUME NEW c, NEW x \in Shapes, Fits(c, x)
  PROVE Fits([c EXCEPT !.marks = Append(@, Mark(c))],
             Shape(Append(x.marks, OpenMark(0, x.over)), x.depth, x.pending, x.over))
<1> DEFINE m == Mark(c)
           o == OpenMark(0, x.over)
<1>1. /\ c \in Contexts /\ c.depth = x.depth
      /\ c.account.height = Len(c.locals) + c.account.owed + x.over /\ x.over \in Int
      /\ Len(c.locals) \in Nat
  BY FitsParts
<1>2. Laid(c.code, c.insns) /\ Jumping(c, x.marks)
  BY DEF Fits
<1>3. m \in Marks /\ m.at = Len(c.code) /\ m.account = c.account /\ m.locals = Len(c.locals)
  BY <1>1, MarkParts
<1>4. o \in OpenMarks /\ o.jump = 0 /\ o.over = x.over
  BY <1>1, OpenMarkType
<1> HIDE DEF m, o
<1>5. Marked(c.code, c.insns, m, o)
  <2>1. m.at <= Len(c.code)
    BY <1>1, <1>3, ContextParts
  <2>. QED BY <1>1, <1>3, <1>4, <2>1 DEF Marked
<1>6. JumpingBut(c, x.marks, m.at)
  BY <1>2 DEF Jumping, JumpingBut
<1>7. Lacks(c, x, m, o)
  BY <1>1, <1>2, <1>3, <1>4, <1>5, <1>6 DEF Lacks
<1>8. Fits(WithMarks(c, Append(c.marks, m)), Shape(Append(x.marks, o), x.depth, x.pending, x.over))
  BY <1>7, FitsMarked
<1>. QED BY <1>8 DEF WithMarks, m, o

(* A jump is written open, and marked.                                     *)
Jumped(c, op) == [Emit(c, op, <<255, 255>>, 0) EXCEPT !.marks = Append(@, Mark(c))]

(* The context fits with the new mark.                                     *)
LEMMA FitsJump ==
  ASSUME NEW c, NEW x \in Shapes, NEW op \in JumpOps, Fits(c, x)
  PROVE Fits(Jumped(c, op),
             Shape(Append(x.marks, OpenMark(1, x.over)), x.depth, x.pending, x.over))
<1> DEFINE m == Mark(c)
           o == OpenMark(1, x.over)
           b == Number[op]
           two == <<255, 255>>
           w == Write(c, op, b, two, 0)
           insn == Noted(op, Len(c.code))
           t == Longer(c.code, b, two)
<1>1. /\ c \in Contexts /\ c.depth = x.depth
      /\ c.account.height = Len(c.locals) + c.account.owed + x.over /\ x.over \in Int
      /\ Len(c.locals) \in Nat /\ x.marks \in Seq(OpenMarks)
      /\ c.account.height \in Int /\ c.account.owed \in Int
  BY FitsParts
<1>2. Laid(c.code, c.insns) /\ Jumping(c, x.marks)
  BY DEF Fits
<1>3. m \in Marks /\ m.at = Len(c.code) /\ m.account = c.account /\ m.locals = Len(c.locals)
  BY <1>1, MarkParts
<1>4. o \in OpenMarks /\ o.jump = 1 /\ o.over = x.over
  BY <1>1, OpenMarkType
<1>5. op \in Emits /\ b \in Bytes /\ Effect(op, 0) = 0
  <2>1. Number[op] \in 0..66
    BY Numbers, Emitted
  <2>2. op \in Emits
    BY DEF Emits
  <2>3. b \in Bytes
    BY <2>1 DEF Bytes
  <2>4. Effect(op, 0) = 0
    BY DEF Effect, Pushes, Pops, JumpOps
  <2>. QED BY <2>2, <2>3, <2>4
<1>6. two \in Codes /\ Len(two) = 2
  BY DEF Codes
<1> HIDE DEF m, o, b, two, w, insn, t
<1>7. Wrote(w, c, op, b, two, 0)
  <2>1. Effect(op, 0) \in Int
    BY <1>5
  <2>2. Wrote(Write(c, op, b, two, 0), c, op, b, two, Effect(op, 0))
    BY <1>1, <1>5, <1>6, <2>1, WriteParts
  <2>. QED BY <1>5, <2>2 DEF w
<1>8. /\ w \in Contexts /\ w.code = t /\ w.insns = Append(c.insns, insn) /\ insn \in Insns
      /\ w.locals = c.locals /\ w.depth = c.depth /\ w.marks = c.marks
      /\ w.account.height = c.account.height + 0 /\ w.account.owed = c.account.owed
  BY <1>7 DEF Wrote, t, insn
<1>9. insn.at = Len(c.code) /\ insn.op = op /\ insn.to = -1
  BY DEF insn, Noted
<1>10. c.code \in Codes /\ c.insns \in Seq(Insns) /\ Len(c.code) \in Nat /\ Len(c.insns) \in Nat
  BY <1>1, ContextParts
<1>11. t \in Codes /\ Len(t) = Len(c.code) + 3 /\ t[Len(c.code) + 1] = b
  <2>1. Lengthens(t, c.code, b, two)
    BY <1>5, <1>6, <1>10, LongerParts DEF t
  <2>. QED BY <1>6, <1>10, <2>1 DEF Lengthens
<1>12. \A p \in 1..Len(c.code) : t[p] = c.code[p]
  <2>1. Lengthens(t, c.code, b, two)
    BY <1>5, <1>6, <1>10, LongerParts DEF t
  <2>. QED BY <2>1 DEF Lengthens
<1>13. Lies(t, insn, Len(t))
  BY <1>9, <1>11, Zenon DEF Lies
<1>14. Laid(t, Append(c.insns, insn))
  <2>1. t \in Seq(0..255) /\ Len(t) > Len(c.code)
    BY <1>10, <1>11 DEF Codes
  <2>2. insn.op # "LOOP"
    BY <1>9 DEF JumpOps
  <2> DEFINE code == c.code
             insns == c.insns
  <2>3. /\ code \in Seq(0..255) /\ insns \in Seq(Insns) /\ Laid(code, insns) /\ Len(t) > Len(code)
        /\ \A p \in 1..Len(code) : t[p] = code[p]
        /\ insn.at = Len(code)
    BY <1>2, <1>9, <1>10, <1>12, <2>1 DEF Codes
  <2> HIDE DEF code, insns
  <2>4. Laid(t, Append(insns, insn))
    BY <1>8, <1>13, <2>1, <2>2, <2>3, LaidAppend, Zenon
  <2>. QED BY <2>4 DEF insns
<1>15. Len(w.code) > Len(c.code)
  BY <1>8, <1>10, <1>11
<1>16. JumpingBut(w, x.marks, m.at)
  <2>1. JumpingBut(w, x.marks, insn.at)
    BY <1>1, <1>2, <1>8, <1>9, <1>15, JumpingWrite, Zenon
  <2>. QED BY <1>3, <1>9, <2>1
<1>17. Marked(w.code, w.insns, m, o)
  <2>1. m.at <= Len(w.code)
    BY <1>3, <1>10, <1>15, <1>8, <1>11
  <2> DEFINE q == Len(c.insns) + 1
  <2>2. q \in 1..Len(w.insns) /\ w.insns[q] = insn
    BY <1>8, <1>10
  <2> HIDE DEF q
  <2>3. \E i \in 1..Len(w.insns) : w.insns[i].at = m.at /\ w.insns[i].op \in JumpOps
    BY <1>3, <1>9, <2>2
  <2>. QED BY <1>1, <1>3, <1>4, <2>1, <2>3 DEF Marked
<1>18. w.account.height = Len(w.locals) + w.account.owed + x.over
  <2>1. w.account.height = c.account.height
    BY <1>1, <1>8
  <2>. QED BY <1>1, <1>8, <2>1
<1>19. Lacks(w, x, m, o)
  BY <1>1, <1>3, <1>4, <1>8, <1>14, <1>16, <1>17, <1>18 DEF Lacks
<1>20. Fits(WithMarks(w, Append(w.marks, m)), Shape(Append(x.marks, o), x.depth, x.pending, x.over))
  BY <1>19, FitsMarked
<1>21. Jumped(c, op) = WithMarks(w, Append(w.marks, m))
  BY <1>8 DEF WithMarks, Emit, w, m, two, b, Contexts, Jumped
<1>. QED BY <1>20, <1>21 DEF o

(* A distance of two bytes is their number.                                *)
LEMMA TwoParts ==
  \A n \in Nat : n < 256 * 256 =>
    n \div 256 \in 0..255 /\ n % 256 \in 0..255 /\ ((n \div 256) * 256) + (n % 256) = n
<1> SUFFICES ASSUME NEW n \in Nat, n < 256 * 256
             PROVE n \div 256 \in 0..255 /\ n % 256 \in 0..255 /\ ((n \div 256) * 256) + (n % 256) = n
  BY Zenon
<1>1. n \div 256 \in 0..255
  OBVIOUS
<1>2. n % 256 \in 0..255
  OBVIOUS
<1>3. ((n \div 256) * 256) + (n % 256) = n
  OBVIOUS
<1>. QED BY <1>1, <1>2, <1>3, Zenon

(* What the largest operand of two bytes is.                               *)
LEMMA JumpLimit == MaxJump \in Int /\ MaxJump < 256 * 256
<1>1. MaxJump \in Nat /\ MaxJump < 256 * 256
  BY CodeAssumption
<1>. QED BY <1>1

(* The distance of a loop.                                                 *)
LEMMA LoopSum == \A a, s \in Nat : s <= a => (a + 1) - s + 2 \in Nat /\ a + 3 - ((a + 1) - s + 2) = s
OBVIOUS

(* A context with other instructions.                                      *)
WithInsns(c, s) == [c EXCEPT !.insns = s]

(* All but the instructions is the same.                                   *)
LEMMA InsnsSet ==
  ASSUME NEW c \in Contexts, NEW s \in Seq(Insns)
  PROVE /\ WithInsns(c, s) \in Contexts /\ WithInsns(c, s).insns = s
        /\ WithInsns(c, s).code = c.code /\ WithInsns(c, s).marks = c.marks
        /\ WithInsns(c, s).locals = c.locals /\ WithInsns(c, s).depth = c.depth
        /\ WithInsns(c, s).account = c.account
<1> DEFINE d == WithInsns(c, s)
           S == Types \cup {"script"}
           B == Seq(0..255)
           I == Seq(Insns)
           L == Seq(Int)
           M == Seq(Marks)
<1>1. Contexts = [type : S, code : B, insns : I, locals : L, depth : Nat, constants : Nat, marks : M, account : Accounts]
  BY DEF Contexts
<1>2. d = [c EXCEPT !.insns = s] /\ s \in I
  BY DEF WithInsns
<1> HIDE DEF d, S, B, I, L, M
<1>3. d \in Contexts /\ d.code = c.code /\ d.insns = s /\ d.locals = c.locals /\ d.depth = c.depth
  BY <1>1, <1>2
<1>4. d.marks = c.marks /\ d.account = c.account
  BY <1>1, <1>2
<1>. QED BY <1>3, <1>4 DEF d

(* The last of a list is another.                                          *)
LEMMA LastSet ==
  ASSUME NEW S, NEW s \in Seq(S), NEW x \in S, NEW y \in S, NEW r, r = Append(s, x)
  PROVE [r EXCEPT ![Len(r)] = y] = Append(s, y)
<1> DEFINE t == [r EXCEPT ![Len(r)] = y]
           u == Append(s, y)
<1>1. r \in Seq(S) /\ Len(r) = Len(s) + 1 /\ Len(s) \in Nat
  OBVIOUS
<1>2. t \in Seq(S) /\ Len(t) = Len(s) + 1 /\ t[Len(s) + 1] = y
  BY <1>1
<1>3. \A i \in 1..Len(s) : t[i] = s[i]
  <2> SUFFICES ASSUME NEW i \in 1..Len(s) PROVE t[i] = s[i]
    OBVIOUS
  <2>1. i \in 1..Len(r) /\ i # Len(r)
    BY <1>1
  <2>2. r[i] = s[i]
    OBVIOUS
  <2>3. r \in [1..Len(r) -> S]
    BY <1>1, LenProperties, Zenon
  <2>4. t[i] = r[i]
    BY <2>1, <2>3, Zenon
  <2>. QED BY <2>2, <2>4
<1>4. u \in Seq(S) /\ Len(u) = Len(s) + 1 /\ u[Len(s) + 1] = y
  OBVIOUS
<1>5. \A i \in 1..Len(s) : u[i] = s[i]
  OBVIOUS
<1> HIDE DEF t, u
<1>6. Len(t) = Len(u) /\ \A i \in 1..Len(t) : t[i] = u[i]
  <2>1. ASSUME NEW i \in 1..Len(t) PROVE t[i] = u[i]
    <3>1. i = Len(s) + 1 \/ i \in 1..Len(s)
      BY <1>1, <1>2
    <3>. QED BY <1>2, <1>3, <1>4, <1>5, <3>1
  <2>. QED BY <1>2, <1>4, <2>1
<1>7. t = u
  BY <1>2, <1>4, <1>6, SeqEqual
<1>. QED BY <1>7 DEF t, u

(* A loop back to an instruction, or to the one that comes next.           *)
LEMMA FitsLoop ==
  ASSUME NEW c, NEW x \in Shapes, NEW start \in Nat, Fits(c, x), CanLoop(c, start),
         start = Len(c.code) \/ \E i \in 1..Len(c.insns) : c.insns[i].at = start, start <= Len(c.code)
  PROVE Fits(EmitLoop(c, start), x) /\ EmitLoop(c, start).marks = c.marks
<1> DEFINE offset == (Len(c.code) + 1) - start + 2
           b == Number["LOOP"]
           two == <<offset \div 256, offset % 256>>
           w == Write(c, "LOOP", b, two, 0)
           insn == Noted("LOOP", Len(c.code))
           back == [insn EXCEPT !.to = start]
           t == Longer(c.code, b, two)
           s == Append(c.insns, back)
           d == WithInsns(w, s)
<1>1. /\ c \in Contexts /\ c.depth = x.depth
      /\ c.account.height = Len(c.locals) + c.account.owed + x.over /\ x.over \in Int
      /\ Len(c.locals) \in Nat /\ x.marks \in Seq(OpenMarks)
      /\ c.account.height \in Int /\ c.account.owed \in Int
  BY FitsParts
<1>2. Laid(c.code, c.insns) /\ Jumping(c, x.marks)
  BY DEF Fits
<1>3. c.code \in Codes /\ c.insns \in Seq(Insns) /\ Len(c.code) \in Nat /\ Len(c.insns) \in Nat
  BY <1>1, ContextParts
<1> HIDE DEF b, two, w, insn, back, t, s, d
<1>4. offset \in Nat /\ offset < 256 * 256
  <2>1. offset \in Nat
    BY <1>3, LoopSum
  <2>2. MaxJump \in Int /\ MaxJump < 256 * 256
    BY JumpLimit
  <2>3. offset <= MaxJump
    BY DEF CanLoop, Count
  <2> HIDE DEF offset
  <2>. QED BY <2>1, <2>2, <2>3
<1>5. Len(c.code) + 3 - offset = start
  BY <1>3, LoopSum
<1> HIDE DEF offset
<1>6. offset \div 256 \in 0..255 /\ offset % 256 \in 0..255 /\ ((offset \div 256) * 256) + (offset % 256) = offset
  BY <1>4, TwoParts
<1>7. two \in Codes /\ Len(two) = 2 /\ two[1] = offset \div 256 /\ two[2] = offset % 256
  BY <1>6 DEF Codes, two
<1>8. "LOOP" \in Emits /\ b \in Bytes /\ Effect("LOOP", 0) = 0
  <2>1. Number["LOOP"] \in 0..66
    BY Numbers, Emitted
  <2>2. "LOOP" \in Emits
    BY DEF Emits
  <2>3. b \in Bytes
    BY <2>1 DEF Bytes, b
  <2>4. Effect("LOOP", 0) = 0
    BY DEF Effect, Pushes, Pops
  <2>. QED BY <2>2, <2>3, <2>4
<1>9. insn.at = Len(c.code) /\ insn.op = "LOOP"
  BY DEF Noted, insn
<1>10. back \in Insns /\ back.at = Len(c.code) /\ back.op = "LOOP" /\ back.to = start
  BY <1>3 DEF Noted, Insns, insn, back
<1>11. Wrote(w, c, "LOOP", b, two, 0)
  <2>1. Effect("LOOP", 0) \in Int
    BY <1>8
  <2>2. Wrote(Write(c, "LOOP", b, two, 0), c, "LOOP", b, two, Effect("LOOP", 0))
    BY <1>1, <1>7, <1>8, <2>1, WriteParts
  <2>. QED BY <1>8, <2>2 DEF w
<1>12. /\ w \in Contexts /\ w.code = t /\ w.insns = Append(c.insns, insn)
       /\ w.locals = c.locals /\ w.depth = c.depth /\ w.marks = c.marks
       /\ w.account.height = c.account.height + 0 /\ w.account.owed = c.account.owed
  BY <1>11 DEF Wrote, t, insn
<1>13. s \in Seq(Insns)
  BY <1>3, <1>10 DEF s
<1>14. /\ d \in Contexts /\ d.insns = s /\ d.code = t /\ d.marks = c.marks
       /\ d.locals = c.locals /\ d.depth = c.depth /\ d.account = w.account
  BY <1>12, <1>13, InsnsSet DEF d
<1>15. Lengthens(t, c.code, b, two)
  BY <1>3, <1>7, <1>8, LongerParts DEF t
<1>16. t \in Codes /\ Len(t) = Len(c.code) + 3 /\ t[Len(c.code) + 1] = b
  BY <1>3, <1>7, <1>15 DEF Lengthens
<1>17. \A p \in 1..Len(c.code) : t[p] = c.code[p]
  BY <1>15 DEF Lengthens
<1>18. t[Len(c.code) + 2] = offset \div 256 /\ t[Len(c.code) + 3] = offset % 256
  <2>1. t[Len(c.code) + 1 + 1] = two[1] /\ t[Len(c.code) + 1 + 2] = two[2]
    <3>1. \A j \in 1..Len(two) : t[Len(c.code) + 1 + j] = two[j]
      BY <1>15 DEF Lengthens
    <3>2. 1 \in 1..Len(two) /\ 2 \in 1..Len(two)
      BY <1>7
    <3>. QED BY <3>1, <3>2
  <2>2. Len(c.code) + 1 + 1 = Len(c.code) + 2 /\ Len(c.code) + 1 + 2 = Len(c.code) + 3
    BY <1>3
  <2>. QED BY <1>7, <2>1, <2>2
<1>19. Lies(t, back, Len(t))
  <2> DEFINE at == back.at
  <2>1. t[at + 1] = b /\ Len(t) = at + 3 /\ (t[at + 2] * 256) + t[at + 3] = offset /\ at + 3 - offset = start
    <3>1. t[at + 1] = b /\ Len(t) = at + 3 /\ at + 3 - offset = start
      BY <1>5, <1>10, <1>16
    <3>2. t[at + 2] = offset \div 256 /\ t[at + 3] = offset % 256
      BY <1>10, <1>18
    <3>. QED BY <1>6, <3>1, <3>2
  <2>2. at + 3 - (t[at + 2] * 256 + t[at + 3]) = back.to
    BY <1>10, <2>1
  <2>3. t[at + 1] = Number[back.op]
    BY <1>10, <2>1 DEF b
  <2>. QED BY <1>10, <2>1, <2>2, <2>3, Zenon DEF Lies
<1>20. Laid(t, s)
  <2>1. t \in Seq(0..255) /\ Len(t) > Len(c.code)
    BY <1>3, <1>16 DEF Codes
  <2> DEFINE code == c.code
             insns == c.insns
  <2>2. /\ code \in Seq(0..255) /\ insns \in Seq(Insns) /\ Laid(code, insns) /\ Len(t) > Len(code)
        /\ \A p \in 1..Len(code) : t[p] = code[p]
        /\ back.at = Len(code)
    BY <1>2, <1>3, <1>10, <1>17, <2>1 DEF Codes
  <2>3. back.to = back.at \/ \E j \in 1..Len(insns) : insns[j].at = back.to
    BY <1>10
  <2> HIDE DEF code, insns
  <2>4. Laid(t, Append(insns, back))
    BY <1>10, <1>19, <2>1, <2>2, <2>3, LaidAppend
  <2>. QED BY <2>4 DEF insns, s
<1>21. Jumping(d, x.marks)
  <2>1. back.op \notin JumpOps
    BY <1>10 DEF JumpOps
  <2>2. d.insns = Append(c.insns, back)
    BY <1>14 DEF s
  <2>3. Len(d.code) > Len(c.code)
    BY <1>3, <1>14, <1>16
  <2>. QED BY <1>1, <1>2, <1>10, <1>14, <2>1, <2>2, <2>3, JumpingMore, Zenon
<1>22. d.account.height = Len(d.locals) + d.account.owed + x.over
  <2>1. w.account.height = c.account.height
    BY <1>1, <1>12
  <2>. QED BY <1>1, <1>12, <1>14, <2>1
<1>23. Fits(d, x)
  BY <1>1, <1>14, <1>20, <1>21, <1>22 DEF Fits
<1>24. EmitLoop(c, start) = d
  <2>1. EmitLoop(c, start) = [w EXCEPT !.insns[Len(w.insns)].to = start]
    BY DEF EmitLoop, Emit, w, two, b, offset, Count
  <2> DEFINE r == w.insns
  <2>2. [w EXCEPT !.insns[Len(w.insns)].to = start] = WithInsns(w, [r EXCEPT ![Len(r)] = [r[Len(r)] EXCEPT !.to = start]])
    BY <1>12 DEF WithInsns, Contexts
  <2>3. [r EXCEPT ![Len(r)] = [r[Len(r)] EXCEPT !.to = start]] = s
    <3>1. insn \in Insns
      BY <1>11 DEF Wrote, insn
    <3>2. r = Append(c.insns, insn) /\ Len(r) = Len(c.insns) + 1 /\ r[Len(r)] = insn
      BY <1>3, <1>12, <3>1
    <3>3. back = [r[Len(r)] EXCEPT !.to = start]
      BY <3>2 DEF back
    <3>4. [r EXCEPT ![Len(r)] = back] = Append(c.insns, back)
      <4>1. c.insns \in Seq(Insns) /\ back \in Insns /\ r = Append(c.insns, insn)
        BY <1>3, <1>10, <3>2
      <4> HIDE DEF r, back, insn
      <4>. QED BY <3>1, <4>1, LastSet
    <3>. QED BY <3>3, <3>4 DEF s
  <2>. QED BY <2>1, <2>2, <2>3, Zenon DEF d
<1>. QED BY <1>14, <1>23, <1>24

(* No open jump lies at a place.                                           *)
Closed(c, at) ==
  \A i \in 1..Len(c.insns) : c.insns[i].op \in JumpOps /\ c.insns[i].to = -1 => c.insns[i].at # at

(* A context with other code and instructions.                             *)
Rewritten(c, code, insns) == [c EXCEPT !.code = code, !.insns = insns]

(* All but these is the same.                                              *)
LEMMA RewrittenParts ==
  ASSUME NEW c \in Contexts, NEW code \in Codes, NEW s \in Seq(Insns), NEW d, d = Rewritten(c, code, s)
  PROVE /\ d \in Contexts /\ d.insns = s /\ d.code = code /\ d.marks = c.marks
        /\ d.locals = c.locals /\ d.depth = c.depth /\ d.account = c.account
<1> DEFINE S == Types \cup {"script"}
           I == Seq(Insns)
           L == Seq(Int)
           M == Seq(Marks)
<1>1. Contexts = [type : S, code : Codes, insns : I, locals : L, depth : Nat, constants : Nat, marks : M, account : Accounts]
  BY DEF Contexts, Codes
<1>2. d = [c EXCEPT !.code = code, !.insns = s] /\ s \in I
  BY DEF Rewritten
<1> HIDE DEF S, I, L, M
<1>3. d \in Contexts /\ d.code = code /\ d.insns = s /\ d.locals = c.locals /\ d.depth = c.depth
  BY <1>1, <1>2, Zenon
<1>4. d.marks = c.marks /\ d.account = c.account
  BY <1>1, <1>2
<1>. QED BY <1>3, <1>4

(* What patch_jump writes.                                                 *)
Overwritten(code, at) ==
  [[code EXCEPT ![at + 1] = (Len(code) - at - 2) \div 256] EXCEPT ![at + 2] = (Len(code) - at - 2) % 256]
Noticed(insns, at, to) ==
  [i \in DOMAIN insns |-> IF insns[i].at = at THEN [insns[i] EXCEPT !.to = to] ELSE insns[i]]

(* PatchJump writes this.                                                  *)
LEMMA PatchParts ==
  ASSUME NEW c \in Contexts, NEW at
  PROVE PatchJump(c, at) = Rewritten(c, Overwritten(c.code, at), Noticed(c.insns, at, Len(c.code)))
<1> DEFINE a == (Len(c.code) - at - 2) \div 256
           b == (Len(c.code) - at - 2) % 256
           s == Noticed(c.insns, at, Len(c.code))
<1>1. PatchJump(c, at) = [c EXCEPT !.code[at + 1] = a, !.code[at + 2] = b, !.insns = s]
  BY DEF PatchJump, Count, Noticed, Contexts
<1>2. [c EXCEPT !.code[at + 1] = a, !.code[at + 2] = b, !.insns = s] = Rewritten(c, Overwritten(c.code, at), s)
  <2> DEFINE code == c.code
             one == [code EXCEPT ![at + 1] = a]
             two == [one EXCEPT ![at + 2] = b]
  <2>1. Overwritten(c.code, at) = two
    BY DEF Overwritten
  <2> HIDE DEF a, b, s
  <2>2. [c EXCEPT !.code[at + 1] = a, !.code[at + 2] = b, !.insns = s] = [c EXCEPT !.code = two, !.insns = s]
    BY Zenon DEF Contexts
  <2>. QED BY <2>1, <2>2 DEF Rewritten
<1>. QED BY <1>1, <1>2

(* The first two bytes of a jump are overwritten.                          *)
Overwrites(s, code, at) ==
  /\ s \in Codes /\ Len(s) = Len(code)
  /\ s[at + 1] = (Len(code) - at - 2) \div 256
  /\ \A p \in 1..Len(code) : p # at + 1 /\ p # at + 2 => s[p] = code[p]

(* Overwritten does this.                                                  *)
LEMMA OverwrittenParts ==
  ASSUME NEW code \in Codes, NEW at \in Nat, at + 3 <= Len(code), Len(code) - at - 2 <= MaxJump
  PROVE Overwrites(Overwritten(code, at), code, at)
<1> DEFINE s == Overwritten(code, at)
           n == Len(code)
           jump == n - at - 2
           a == jump \div 256
           b == jump % 256
           one == [code EXCEPT ![at + 1] = a]
<1>1. n \in Nat /\ code \in [1..n -> 0..255]
  BY LenProperties, Zenon DEF Codes
<1> HIDE DEF n
<1>2. jump \in Nat
  BY <1>1, Distance DEF n
<1>3. jump < 256 * 256
  <2>1. MaxJump \in Int /\ MaxJump < 256 * 256
    BY JumpLimit
  <2>2. jump <= MaxJump
    BY DEF n
  <2> HIDE DEF jump
  <2>. QED BY <1>2, <2>1, <2>2
<1>4. s = [one EXCEPT ![at + 2] = b]
  BY DEF Overwritten, n
<1> HIDE DEF s, jump
<1>5. a \in 0..255 /\ b \in 0..255
  BY <1>2, <1>3, TwoParts
<1>6. at + 1 \in 1..n /\ at + 2 \in 1..n /\ at + 1 # at + 2
  BY <1>1 DEF n
<1>7. a = (Len(code) - at - 2) \div 256
  BY DEF jump, n
<1> HIDE DEF a, b
<1>8. one \in [1..n -> 0..255] /\ one[at + 1] = a
  BY <1>1, <1>5, <1>6, Zenon
<1>9. \A p \in 1..n : p # at + 1 => one[p] = code[p]
  BY <1>1
<1> HIDE DEF one
<1>10. s \in [1..n -> 0..255] /\ s[at + 1] = one[at + 1]
  BY <1>4, <1>5, <1>6, <1>8
<1>11. \A p \in 1..n : p # at + 2 => s[p] = one[p]
  BY <1>4, <1>8
<1>12. s \in Codes /\ Len(s) = n
  BY <1>1, <1>10, Listed DEF Codes
<1>13. \A p \in 1..n : p # at + 1 /\ p # at + 2 => s[p] = code[p]
  BY <1>9, <1>11
<1>14. Overwrites(s, code, at)
  BY <1>7, <1>8, <1>10, <1>12, <1>13 DEF n, Overwrites
<1>. QED BY <1>14 DEF s

(* The jump at a place is noted with the place it goes to.                 *)
LEMMA NoticedParts ==
  ASSUME NEW s \in Seq(Insns), NEW q \in 1..Len(s), NEW to \in Nat, NEW r, r = Noticed(s, s[q].at, to),
         \A i \in 1..Len(s) : i # q => s[i].at # s[q].at
  PROVE /\ r \in Seq(Insns) /\ Len(r) = Len(s)
        /\ \A i \in 1..Len(s) : i # q => r[i] = s[i]
        /\ r[q].at = s[q].at /\ r[q].op = s[q].op /\ r[q].to = to
<1> DEFINE n == Len(s)
           x == [s[q] EXCEPT !.to = to]
<1>1. n \in Nat /\ s \in [1..n -> Insns] /\ DOMAIN s = 1..n /\ q \in 1..n
  BY LenProperties
<1>2. s[q] \in Insns
  BY ElementOfSeq
<1>3. x \in Insns /\ x.at = s[q].at /\ x.op = s[q].op /\ x.to = to
  <2> DEFINE y == s[q]
             O == Emits
  <2>1. Insns = [op : O, at : Nat, to : Int]
    BY DEF Insns, Emits
  <2>2. y \in Insns /\ to \in Int
    BY <1>2
  <2> HIDE DEF y, O
  <2>3. /\ [y EXCEPT !.to = to] \in Insns /\ [y EXCEPT !.to = to].at = y.at
        /\ [y EXCEPT !.to = to].op = y.op /\ [y EXCEPT !.to = to].to = to
    BY <2>1, <2>2, Zenon
  <2>. QED BY <2>3 DEF y
<1> HIDE DEF n, x
<1>4. r = [i \in 1..n |-> IF s[i].at = s[q].at THEN [s[i] EXCEPT !.to = to] ELSE s[i]]
  BY <1>1 DEF Noticed
<1>5. r[q] = x
  BY <1>1, <1>4 DEF x
<1>6. \A i \in 1..n : i # q => r[i] = s[i]
  BY <1>1, <1>4 DEF n
<1>7. ASSUME NEW i \in 1..n PROVE r[i] \in Insns
  <2>1. CASE i = q
    BY <1>3, <1>5, <2>1
  <2>2. CASE i # q
    BY <1>1, <1>6, <2>2
  <2>. QED BY <2>1, <2>2
<1>8. r \in [1..n -> Insns]
  BY <1>4, <1>7, Zenon
<1>9. r \in Seq(Insns) /\ Len(r) = n
  BY <1>1, <1>8, Listed
<1>. QED BY <1>3, <1>5, <1>6, <1>9 DEF n

(* A jump that is patched: nothing else changes, and no open one is there. *)
LEMMA FitsPatch ==
  ASSUME NEW c, NEW x \in Shapes, NEW k \in 1..Len(x.marks), Fits(c, x), x.marks[k].jump = 1,
         CanPatch(c, c.marks[k].at)
  PROVE /\ Fits(PatchJump(c, c.marks[k].at), x)
        /\ Closed(PatchJump(c, c.marks[k].at), c.marks[k].at)
        /\ PatchJump(c, c.marks[k].at).marks = c.marks
<1> DEFINE at == c.marks[k].at
           code == c.code
           insns == c.insns
           same == Overwritten(code, at)
           fixed == Noticed(insns, at, Len(code))
           d == Rewritten(c, same, fixed)
           l == Len(insns)
<1>1. /\ c \in Contexts /\ c.depth = x.depth
      /\ c.account.height = Len(c.locals) + c.account.owed + x.over /\ x.marks \in Seq(OpenMarks)
  BY FitsParts
<1>2. Laid(code, insns) /\ Jumping(c, x.marks)
  BY DEF Fits
<1>3. code \in Codes /\ insns \in Seq(Insns) /\ Len(code) \in Nat /\ l \in Nat
  BY <1>1, ContextParts
<1>4. code \in Seq(0..255)
  BY <1>3 DEF Codes
<1> HIDE DEF at, code, insns, same, fixed, d, l
<1>5. PICK q \in 1..l : insns[q].at = at /\ insns[q].op \in JumpOps
  <2>1. Marked(c.code, c.insns, c.marks[k], x.marks[k])
    BY <1>2 DEF Jumping
  <2>. QED BY <2>1 DEF Marked, at, insns, l
<1>6. \A i \in 1..l : i # q => insns[i].at # insns[q].at
  BY <1>2, <1>3, <1>4, LaidOnce DEF l
<1>7. at \in Nat /\ at + 3 <= Len(code)
  <2>1. insns[q].at \in Nat /\ After(code, insns, q) \in Nat
    BY <1>3, <1>4, AfterType DEF l
  <2>2. Lies(code, insns[q], After(code, insns, q)) /\ After(code, insns, q) <= Len(code)
    BY <1>2 DEF Laid, l
  <2>3. insns[q].op \notin Plain /\ insns[q].op # "one" /\ insns[q].op # "CLOSURE" /\ insns[q].op # "LOOP"
    BY <1>5 DEF Plain, TwoBytes, JumpOps
  <2>4. After(code, insns, q) = insns[q].at + 3
    BY <2>2, <2>3 DEF Lies
  <2>. QED BY <1>5, <2>1, <2>2, <2>4
<1>8. Len(code) - at - 2 <= MaxJump
  BY DEF CanPatch, Count, at, code
<1>9. /\ same \in Codes /\ Len(same) = Len(code)
      /\ same[at + 1] = (Len(code) - at - 2) \div 256
      /\ \A p \in 1..Len(code) : p # at + 1 /\ p # at + 2 => same[p] = code[p]
  <2>1. Overwrites(same, code, at)
    BY <1>3, <1>7, <1>8, OverwrittenParts DEF same
  <2>. QED BY <2>1 DEF Overwrites
<1>10. /\ fixed \in Seq(Insns) /\ Len(fixed) = l
       /\ \A i \in 1..l : i # q => fixed[i] = insns[i]
       /\ fixed[q].at = at /\ fixed[q].op = insns[q].op /\ fixed[q].to = Len(code)
  <2>1. fixed = Noticed(insns, insns[q].at, Len(code))
    BY <1>5 DEF fixed
  <2>. QED BY <1>3, <1>5, <1>6, <2>1, NoticedParts DEF l
<1>11. Laid(same, fixed)
  <2>1. same \in Seq(0..255) /\ Len(fixed) = Len(insns) /\ q \in 1..Len(insns)
    BY <1>9, <1>10 DEF Codes, l
  <2>2. same[insns[q].at + 1] = (Len(code) - insns[q].at - 2) \div 256
    BY <1>5, <1>9
  <2>3. \A p \in 1..Len(code) : p # insns[q].at + 1 /\ p # insns[q].at + 2 => same[p] = code[p]
    BY <1>5, <1>9
  <2>4. /\ \A i \in 1..Len(insns) : i # q => fixed[i] = insns[i]
        /\ fixed[q].at = insns[q].at /\ fixed[q].op = insns[q].op /\ fixed[q].to = Len(code)
    BY <1>5, <1>10 DEF l
  <2>5. Patches(same, fixed, code, insns, q)
    BY <1>3, <1>4, <1>5, <1>9, <1>10, <2>1, <2>2, <2>3, <2>4 DEF Patches
  <2>. QED BY <1>2, <2>5, LaidPatch
<1>12. /\ d \in Contexts /\ d.insns = fixed /\ d.code = same /\ d.marks = c.marks
       /\ d.locals = c.locals /\ d.depth = c.depth /\ d.account = c.account
  BY <1>1, <1>9, <1>10, RewrittenParts DEF d
<1>13. \A i \in 1..l : fixed[i].at = insns[i].at /\ fixed[i].op = insns[i].op
  BY <1>5, <1>10
<1>14. ASSUME NEW i \in 1..l, fixed[i].op \in JumpOps, fixed[i].to = -1
       PROVE i # q /\ fixed[i] = insns[i]
  <2>1. Len(code) # -1
    BY <1>3
  <2>. QED BY <1>10, <1>14, <2>1
<1>15. Jumping(d, x.marks)
  <2>1. ASSUME NEW j \in 1..Len(x.marks) PROVE Marked(d.code, d.insns, d.marks[j], x.marks[j])
    <3>1. Marked(code, insns, c.marks[j], x.marks[j])
      BY <1>2 DEF Jumping, code, insns
    <3> DEFINE m == c.marks[j]
               o == x.marks[j]
    <3>2. Marked(code, insns, m, o)
      BY <3>1
    <3> HIDE DEF m, o
    <3>3. (\E i \in 1..l : insns[i].at = m.at) => \E i \in 1..l : fixed[i].at = m.at
      BY <1>13
    <3>4. /\ (\E i \in 1..l : insns[i].at = m.at /\ insns[i].op \in JumpOps) =>
               \E i \in 1..l : fixed[i].at = m.at /\ fixed[i].op \in JumpOps
      BY <1>13
    <3>5. Marked(same, fixed, m, o)
      BY <1>9, <1>10, <3>2, <3>3, <3>4 DEF Marked, l
    <3>. QED BY <1>12, <3>5 DEF m, o
  <2>2. ASSUME NEW i \in 1..Len(d.insns), d.insns[i].op \in JumpOps, d.insns[i].to = -1
        PROVE \E j \in 1..Len(x.marks) : x.marks[j].jump = 1 /\ d.marks[j].at = d.insns[i].at
    <3>1. i \in 1..l /\ fixed[i].op \in JumpOps /\ fixed[i].to = -1
      BY <1>10, <1>12, <2>2
    <3>2. fixed[i] = insns[i]
      BY <1>14, <3>1
    <3>3. \E j \in 1..Len(x.marks) : x.marks[j].jump = 1 /\ c.marks[j].at = insns[i].at
      BY <1>2, <3>1, <3>2 DEF Jumping, insns, l
    <3>. QED BY <1>12, <3>2, <3>3
  <2>3. Len(d.marks) = Len(x.marks)
    BY <1>2, <1>12 DEF Jumping
  <2>. QED BY <2>1, <2>2, <2>3 DEF Jumping
<1>16. Closed(d, at)
  <2> SUFFICES ASSUME NEW i \in 1..Len(d.insns), d.insns[i].op \in JumpOps, d.insns[i].to = -1
               PROVE d.insns[i].at # at
    BY DEF Closed
  <2>1. i \in 1..l /\ fixed[i].op \in JumpOps /\ fixed[i].to = -1
    BY <1>10, <1>12
  <2>2. i # q /\ fixed[i] = insns[i]
    BY <1>14, <2>1
  <2>. QED BY <1>5, <1>6, <1>12, <2>1, <2>2
<1>17. Fits(d, x)
  BY <1>1, <1>11, <1>12, <1>15 DEF Fits
<1>18. PatchJump(c, at) = d
  BY <1>1, PatchParts DEF d, same, fixed, code, insns
<1>. QED BY <1>12, <1>16, <1>17, <1>18 DEF at

-----------------------------------------------------------------------------
(* Marks that go.                                                          *)

(* The first elements of a list.                                           *)
LEMMA FirstParts ==
  ASSUME NEW S, NEW s \in Seq(S), NEW n, n \in 0..Len(s)
  PROVE /\ SubSeq(s, 1, n) \in Seq(S) /\ Len(SubSeq(s, 1, n)) = n
        /\ \A i \in 1..n : SubSeq(s, 1, n)[i] = s[i]
<1> DEFINE f == SubSeq(s, 1, n)
<1>1. n \in Nat /\ Len(s) \in Nat /\ n <= Len(s)
  OBVIOUS
<1>2. \A i \in 1..n : s[i] \in S
  <2>1. \A i \in 1..Len(s) : s[i] \in S
    BY ElementOfSeq
  <2>2. \A i \in 1..n : i \in 1..Len(s)
    BY <1>1
  <2>. QED BY <2>1, <2>2
<1>3. f = [i \in 1..n |-> s[i]]
  BY <1>1
<1> HIDE DEF f
<1>4. f \in [1..n -> S]
  BY <1>2, <1>3
<1>5. f \in Seq(S) /\ Len(f) = n
  BY <1>1, <1>4, Listed
<1>6. \A i \in 1..n : f[i] = s[i]
  BY <1>3
<1>. QED BY <1>5, <1>6 DEF f

(* Some marks stay: all of jumps that are open, in the same order.         *)
Selects(c, marks, ms, kept) ==
  /\ ms \in Seq(Marks) /\ kept \in Seq(OpenMarks) /\ Len(ms) = Len(kept)
  /\ \A j \in 1..Len(kept) : \E i \in 1..Len(marks) : ms[j] = c.marks[i] /\ kept[j] = marks[i]
  /\ \A i \in 1..Len(marks) :
       marks[i].jump = 1 =>
         \/ Closed(c, c.marks[i].at)
         \/ \E j \in 1..Len(kept) : ms[j] = c.marks[i] /\ kept[j] = marks[i]

(* The context fits without the others.                                    *)
LEMMA FitsKept ==
  ASSUME NEW c, NEW x \in Shapes, NEW ms, NEW kept, Fits(c, x), Selects(c, x.marks, ms, kept)
  PROVE Fits(WithMarks(c, ms), Shape(kept, x.depth, x.pending, x.over))
<1> DEFINE d == WithMarks(c, ms)
           y == Shape(kept, x.depth, x.pending, x.over)
           marks == x.marks
<1>1. /\ c \in Contexts /\ c.depth = x.depth
      /\ c.account.height = Len(c.locals) + c.account.owed + x.over
  BY FitsParts
<1>2. Laid(c.code, c.insns) /\ Jumping(c, marks)
  BY DEF Fits
<1>3. /\ ms \in Seq(Marks) /\ kept \in Seq(OpenMarks) /\ Len(ms) = Len(kept)
      /\ \A j \in 1..Len(kept) : \E i \in 1..Len(marks) : ms[j] = c.marks[i] /\ kept[j] = marks[i]
      /\ \A i \in 1..Len(marks) :
           marks[i].jump = 1 =>
             \/ Closed(c, c.marks[i].at)
             \/ \E j \in 1..Len(kept) : ms[j] = c.marks[i] /\ kept[j] = marks[i]
  BY DEF Selects
<1>4. y.marks = kept /\ y.depth = x.depth /\ y.pending = x.pending /\ y.over = x.over
  BY ShapeParts
<1>5. Codelike(d, c) /\ d.marks = ms /\ d.account = c.account
  BY <1>1, <1>3, CodelikeMarks
<1> HIDE DEF d, y, marks
<1>6. d \in Contexts /\ d.code = c.code /\ d.insns = c.insns /\ d.locals = c.locals /\ d.depth = c.depth
  BY <1>5 DEF Codelike
<1>7. ASSUME NEW j \in 1..Len(kept) PROVE Marked(d.code, d.insns, d.marks[j], kept[j])
  <2>1. PICK i \in 1..Len(marks) : ms[j] = c.marks[i] /\ kept[j] = marks[i]
    BY <1>3
  <2>2. Marked(c.code, c.insns, c.marks[i], marks[i])
    BY <1>2 DEF Jumping
  <2>. QED BY <1>5, <1>6, <2>1, <2>2
<1>8. ASSUME NEW i \in 1..Len(d.insns), d.insns[i].op \in JumpOps, d.insns[i].to = -1
      PROVE \E j \in 1..Len(kept) : kept[j].jump = 1 /\ d.marks[j].at = d.insns[i].at
  <2>1. PICK k \in 1..Len(marks) : marks[k].jump = 1 /\ c.marks[k].at = c.insns[i].at
    BY <1>2, <1>6, <1>8 DEF Jumping
  <2>2. ~Closed(c, c.marks[k].at)
    BY <1>6, <1>8, <2>1 DEF Closed
  <2>3. PICK j \in 1..Len(kept) : ms[j] = c.marks[k] /\ kept[j] = marks[k]
    BY <1>3, <2>1, <2>2
  <2>. QED BY <1>5, <1>6, <2>1, <2>3
<1>9. Jumping(d, kept)
  BY <1>3, <1>5, <1>7, <1>8 DEF Jumping
<1>10. Fits(d, y)
  BY <1>1, <1>2, <1>4, <1>5, <1>6, <1>9 DEF Fits
<1>. QED BY <1>10 DEF d, y

(* The last marks go.                                                      *)
LEMMA SelectsFirst ==
  ASSUME NEW c \in Contexts, NEW marks \in Seq(OpenMarks), NEW n, n \in 0..Len(marks),
         Len(c.marks) = Len(marks),
         \A i \in 1..Len(marks) : i > n /\ marks[i].jump = 1 => Closed(c, c.marks[i].at)
  PROVE Selects(c, marks, SubSeq(c.marks, 1, n), SubSeq(marks, 1, n))
<1> DEFINE ms == SubSeq(c.marks, 1, n)
           kept == SubSeq(marks, 1, n)
<1>1. c.marks \in Seq(Marks) /\ n \in 0..Len(c.marks)
  BY ContextParts
<1>2. n \in Nat /\ Len(marks) \in Nat /\ \A i \in 1..n : i \in 1..Len(marks)
  OBVIOUS
<1>3. kept \in Seq(OpenMarks) /\ Len(kept) = n /\ \A i \in 1..n : kept[i] = marks[i]
  BY FirstParts
<1>4. ms \in Seq(Marks) /\ Len(ms) = n /\ \A i \in 1..n : ms[i] = c.marks[i]
  BY <1>1, FirstParts
<1> HIDE DEF ms, kept
<1>5. ASSUME NEW i \in 1..Len(marks), marks[i].jump = 1
      PROVE Closed(c, c.marks[i].at) \/ \E j \in 1..Len(kept) : ms[j] = c.marks[i] /\ kept[j] = marks[i]
  <2>1. i > n \/ i \in 1..n
    BY <1>2
  <2>. QED BY <1>3, <1>4, <1>5, <2>1, Zenon
<1>6. Selects(c, marks, ms, kept)
  BY <1>2, <1>3, <1>4, <1>5, Zenon DEF Selects
<1>. QED BY <1>6 DEF ms, kept

(* The mark before the last goes.                                          *)
LEMMA SelectsElse ==
  ASSUME NEW c \in Contexts, NEW marks \in Seq(OpenMarks), NEW l, l = Len(marks), l > 1,
         Len(c.marks) = l, Closed(c, c.marks[l - 1].at)
  PROVE Selects(c, marks, Append(SubSeq(c.marks, 1, l - 2), c.marks[l]),
                Append(SubSeq(marks, 1, l - 2), marks[l]))
<1> DEFINE n == l - 2
           fm == SubSeq(c.marks, 1, n)
           fk == SubSeq(marks, 1, n)
           ms == Append(fm, c.marks[l])
           kept == Append(fk, marks[l])
<1>1. c.marks \in Seq(Marks) /\ l \in Nat /\ n \in Nat /\ n \in 0..Len(marks) /\ n \in 0..Len(c.marks)
  BY ContextParts
<1>2. c.marks[l] \in Marks /\ marks[l] \in OpenMarks /\ l \in 1..Len(marks)
  <2>1. l \in 1..Len(marks) /\ l \in 1..Len(c.marks)
    BY <1>1
  <2>. QED BY <1>1, <2>1, ElementOfSeq
<1>3. fk \in Seq(OpenMarks) /\ Len(fk) = n /\ \A i \in 1..n : fk[i] = marks[i]
  BY <1>1, FirstParts, Zenon
<1>4. fm \in Seq(Marks) /\ Len(fm) = n /\ \A i \in 1..n : fm[i] = c.marks[i]
  BY <1>1, FirstParts
<1>5. \A i \in 1..l : i = l \/ i = l - 1 \/ i \in 1..n
  BY <1>1
<1>6. \A i \in 1..n : i \in 1..l /\ i \in 1..n + 1
  BY <1>1
<1> HIDE DEF n, fm, fk
<1>7. kept \in Seq(OpenMarks) /\ Len(kept) = n + 1 /\ kept[n + 1] = marks[l] /\ \A i \in 1..n : kept[i] = marks[i]
  BY <1>1, <1>2, <1>3
<1>8. ms \in Seq(Marks) /\ Len(ms) = n + 1 /\ ms[n + 1] = c.marks[l] /\ \A i \in 1..n : ms[i] = c.marks[i]
  BY <1>1, <1>2, <1>4
<1> HIDE DEF ms, kept
<1>9. n + 1 \in 1..n + 1 /\ \A j \in 1..n + 1 : j = n + 1 \/ j \in 1..n
  BY <1>1
<1>10. ASSUME NEW j \in 1..Len(kept) PROVE \E i \in 1..Len(marks) : ms[j] = c.marks[i] /\ kept[j] = marks[i]
  <2>1. j = n + 1 \/ j \in 1..n
    BY <1>7, <1>9
  <2>2. CASE j = n + 1
    BY <1>2, <1>7, <1>8, <2>2
  <2>3. CASE j \in 1..n
    BY <1>6, <1>7, <1>8, <2>3
  <2>. QED BY <2>1, <2>2, <2>3
<1>11. ASSUME NEW i \in 1..Len(marks), marks[i].jump = 1
       PROVE Closed(c, c.marks[i].at) \/ \E j \in 1..Len(kept) : ms[j] = c.marks[i] /\ kept[j] = marks[i]
  <2>1. CASE i = l
    BY <1>7, <1>8, <1>9, <2>1
  <2>2. CASE i \in 1..n
    BY <1>6, <1>7, <1>8, <2>2, Zenon
  <2>3. CASE i = l - 1
    BY <2>3
  <2>. QED BY <1>5, <2>1, <2>2, <2>3, Zenon
<1>12. Selects(c, marks, ms, kept)
  BY <1>7, <1>8, <1>10, <1>11 DEF Selects
<1>. QED BY <1>12 DEF ms, kept, fm, fk, n

(* The account at a mark of the context.                                   *)
LEMMA FitsResume ==
  ASSUME NEW c, NEW x \in Shapes, NEW k \in 1..Len(x.marks), Fits(c, x)
  PROVE /\ Fits(Resume(c, c.marks[k]), Over(x, x.marks[k].over))
        /\ Resume(c, c.marks[k]).insns = c.insns /\ Resume(c, c.marks[k]).marks = c.marks
<1> DEFINE m == c.marks[k]
           o == x.marks[k]
           n == m.locals - Len(c.locals)
           a == [m.account EXCEPT !.owed = @ + n]
           d == WithAccount(c, a)
           y == Over(x, o.over)
<1>1. /\ c \in Contexts /\ c.depth = x.depth
      /\ x.over \in Int /\ Len(c.locals) \in Nat /\ x.marks \in Seq(OpenMarks)
  BY FitsParts
<1>2. Laid(c.code, c.insns) /\ Jumping(c, x.marks)
  BY DEF Fits
<1>3. m \in Marks /\ o \in OpenMarks
  <2>1. c.marks \in Seq(Marks) /\ k \in 1..Len(c.marks)
    BY <1>1, <1>2, ContextParts DEF Jumping
  <2>. QED BY <1>1, <2>1, ElementOfSeq
<1>4. Marked(c.code, c.insns, m, o)
  BY <1>2 DEF Jumping
<1> HIDE DEF m, o, n, a, d, y
<1>5. m.account \in Accounts /\ m.locals \in Nat /\ o.over \in Int /\ m.account.height \in Int /\ m.account.owed \in Int
  BY <1>3 DEF Marks, OpenMarks, Accounts
<1>6. n \in Int /\ n = m.locals - Len(c.locals)
  BY <1>1, <1>5 DEF n
<1>7. a \in Accounts /\ a.height = m.account.height /\ a.owed = m.account.owed + n
  BY <1>5, <1>6, AccountOwed DEF a
<1>8. m.account.height = m.locals + m.account.owed + o.over
  BY <1>4 DEF Marked
<1>9. Codelike(d, c) /\ d.marks = c.marks /\ d.account = a
  BY <1>1, <1>7, CodelikeAccount DEF d
<1>10. d \in Contexts /\ d.code = c.code /\ d.insns = c.insns /\ d.locals = c.locals /\ d.depth = c.depth
  BY <1>9 DEF Codelike
<1>11. y \in Shapes /\ y.marks = x.marks /\ y.depth = x.depth /\ y.pending = x.pending /\ y.over = o.over
  <2> DEFINE v == o.over
  <2>1. v \in Int
    BY <1>5
  <2> HIDE DEF v
  <2>2. Over(x, v) \in Shapes
    BY <2>1, ShapeType
  <2>3. Over(x, v).marks = x.marks /\ Over(x, v).depth = x.depth /\ Over(x, v).pending = x.pending /\ Over(x, v).over = v
    BY OverParts
  <2>. QED BY <2>2, <2>3 DEF v, y
<1>12. d.account.height = Len(d.locals) + d.account.owed + y.over
  <2> DEFINE h == m.account.height
             l == m.locals
             j == Len(c.locals)
             w == m.account.owed
             v == o.over
  <2>1. h \in Int /\ l \in Int /\ j \in Int /\ w \in Int /\ v \in Int /\ h = l + w + v /\ n = l - j
    BY <1>1, <1>5, <1>6, <1>8
  <2>2. d.account.height = h /\ Len(d.locals) = j /\ d.account.owed = w + n /\ y.over = v
    BY <1>7, <1>9, <1>10, <1>11
  <2> HIDE DEF h, l, j, w, v
  <2>3. h = j + (w + n) + v
    BY <2>1
  <2>. QED BY <2>2, <2>3
<1>13. Fits(d, y)
  <2>1. Alike(d, c)
    BY <1>9, <1>10 DEF Alike
  <2>. QED BY <1>1, <1>10, <1>11, <1>12, <2>1, FitsAlike
<1>14. Resume(c, m) = d
  BY DEF Resume, d, a, n, WithAccount
<1>. QED BY <1>9, <1>10, <1>13, <1>14 DEF m, o, y

(* The context with a jump patched: at its end, with the account that the  *)
(* jump was marked with.                                                   *)
Reached(r, c, y, k) ==
  /\ r \in Contexts /\ Fits(r, y) /\ y \in Shapes /\ Closed(r, c.marks[k].at) /\ r.marks = c.marks

(* A jump that is patched, if its account is taken up and if not.          *)
LEMMA FitsReached ==
  ASSUME NEW c, NEW x \in Shapes, NEW k \in 1..Len(x.marks), Fits(c, x), x.marks[k].jump = 1,
         CanPatch(c, c.marks[k].at)
  PROVE /\ Reached(PatchJump(c, c.marks[k].at), c, x, k)
        /\ Reached(Resume(PatchJump(c, c.marks[k].at), c.marks[k]), c, Over(x, x.marks[k].over), k)
<1> DEFINE at == c.marks[k].at
           p == PatchJump(c, at)
           r == Resume(p, p.marks[k])
           o == x.marks[k].over
<1>1. Fits(p, x) /\ Closed(p, at) /\ p.marks = c.marks
  BY FitsPatch
<1>2. o \in Int
  <2>1. x.marks \in Seq(OpenMarks)
    BY FitsParts
  <2>2. x.marks[k] \in OpenMarks
    BY <2>1, ElementOfSeq
  <2>. QED BY <2>2 DEF OpenMarks
<1> HIDE DEF p, o
<1>3. Fits(r, Over(x, x.marks[k].over)) /\ r.insns = p.insns /\ r.marks = p.marks
  BY <1>1, FitsResume
<1>4. Over(x, o) \in Shapes
  BY <1>2, ShapeType
<1> HIDE DEF r
<1>5. Closed(r, at)
  BY <1>1, <1>3 DEF Closed
<1>6. r \in Contexts /\ p \in Contexts
  BY <1>1, <1>3 DEF Fits
<1>7. Reached(p, c, x, k)
  BY <1>1, <1>6 DEF Reached
<1>8. Reached(r, c, Over(x, o), k)
  BY <1>1, <1>3, <1>4, <1>5, <1>6 DEF Reached, o
<1>9. r = Resume(PatchJump(c, c.marks[k].at), c.marks[k])
  BY <1>1 DEF r, p
<1>. QED BY <1>7, <1>8, <1>9 DEF p, o

(* A list without its element before the last.                             *)
LastButOne(s) == Append(SubSeq(s, 1, Len(s) - 2), s[Len(s)])

(* The jump before the last is patched, and its branch's account taken up. *)
LEMMA FitsElse ==
  ASSUME NEW c, NEW x \in Shapes, NEW l, l = Len(x.marks), l > 1, Fits(c, x), x.marks[l - 1].jump = 1,
         NEW m, m = c.marks[l - 1], CanPatch(c, m.at), NEW r, r = Resume(PatchJump(c, m.at), m)
  PROVE Fits(WithMarks(r, LastButOne(r.marks)),
             Shape(LastButOne(x.marks), x.depth, x.pending, x.marks[l - 1].over))
<1> DEFINE z == Over(x, x.marks[l - 1].over)
           o == x.marks[l - 1].over
<1>1. x.marks \in Seq(OpenMarks) /\ l \in Nat /\ l - 1 \in 1..Len(x.marks) /\ Len(c.marks) = l
  <2>1. x.marks \in Seq(OpenMarks)
    BY DEF Shapes
  <2>2. l \in Nat
    BY <2>1
  <2>3. Len(c.marks) = l
    BY DEF Fits, Jumping
  <2>. QED BY <2>1, <2>2, <2>3
<1>2. Reached(r, c, z, l - 1)
  BY <1>1, FitsReached
<1>3. z.marks = x.marks /\ z.depth = x.depth /\ z.pending = x.pending /\ z.over = o
  BY OverParts
<1> HIDE DEF z, o
<1>4. r \in Contexts /\ Fits(r, z) /\ z \in Shapes /\ Closed(r, c.marks[l - 1].at) /\ r.marks = c.marks
  BY <1>2 DEF Reached
<1>5. Selects(r, z.marks, LastButOne(r.marks), LastButOne(z.marks))
  <2>1. Selects(r, x.marks, Append(SubSeq(r.marks, 1, l - 2), r.marks[l]),
                Append(SubSeq(x.marks, 1, l - 2), x.marks[l]))
    BY <1>1, <1>4, SelectsElse, Zenon
  <2>2. Len(r.marks) = l
    BY <1>1, <1>4
  <2>3. LastButOne(r.marks) = Append(SubSeq(r.marks, 1, l - 2), r.marks[l])
    BY <2>2, Zenon DEF LastButOne
  <2>4. LastButOne(x.marks) = Append(SubSeq(x.marks, 1, l - 2), x.marks[l])
    BY Zenon DEF LastButOne
  <2>5. Selects(r, x.marks, LastButOne(r.marks), LastButOne(x.marks))
    BY <2>1, <2>3, <2>4, Zenon
  <2>. QED BY <1>3, <2>5
<1>6. Fits(WithMarks(r, LastButOne(r.marks)), Shape(LastButOne(z.marks), z.depth, z.pending, z.over))
  BY <1>4, <1>5, FitsKept
<1>7. Fits(WithMarks(r, LastButOne(r.marks)), Shape(LastButOne(x.marks), x.depth, x.pending, o))
  BY <1>3, <1>6
<1>. QED BY <1>7 DEF o

(* The last jump is patched: what was on the stack there is now.           *)
LEMMA FitsJoin ==
  ASSUME NEW c, NEW x \in Shapes, NEW l, l = Len(x.marks), l > 0, Fits(c, x), x.marks[l].jump = 1,
         x.marks[l].over = x.over, NEW m, m = Last(c.marks), CanPatch(c, m.at),
         NEW d, d \in {PatchJump(c, m.at), Resume(PatchJump(c, m.at), m)}
  PROVE Fits([d EXCEPT !.marks = Front(@)], Shape(SubSeq(x.marks, 1, l - 1), x.depth, x.pending, x.over))
<1> DEFINE ms == SubSeq(c.marks, 1, l - 1)
           kept == SubSeq(x.marks, 1, l - 1)
<1>1. x.marks \in Seq(OpenMarks) /\ l \in Nat /\ l \in 1..Len(x.marks) /\ Len(c.marks) = l /\ m = c.marks[l]
  <2>1. x.marks \in Seq(OpenMarks)
    BY DEF Shapes
  <2>2. l \in Nat
    BY <2>1
  <2>3. Len(c.marks) = l
    BY DEF Fits, Jumping
  <2>4. m = c.marks[l]
    BY <2>3 DEF Last
  <2>. QED BY <2>1, <2>2, <2>3, <2>4
<1>2. Over(x, x.marks[l].over) = x
  BY DEF Over, Shape, Shapes
<1>3. Reached(d, c, x, l)
  <2>1. Reached(PatchJump(c, c.marks[l].at), c, x, l)
    BY <1>1, FitsReached
  <2>2. Reached(Resume(PatchJump(c, c.marks[l].at), c.marks[l]), c, Over(x, x.marks[l].over), l)
    BY <1>1, FitsReached
  <2>. QED BY <1>1, <1>2, <2>1, <2>2
<1> HIDE DEF ms, kept
<1>4. d \in Contexts /\ Fits(d, x) /\ Closed(d, c.marks[l].at) /\ d.marks = c.marks
  BY <1>3 DEF Reached
<1>5. Selects(d, x.marks, ms, kept)
  <2> DEFINE n == l - 1
  <2>1. n \in 0..Len(x.marks)
    BY <1>1
  <2>2. \A i \in 1..Len(x.marks) : i > n => i = l
    BY <1>1
  <2> HIDE DEF n
  <2>3. \A i \in 1..Len(x.marks) : i > n /\ x.marks[i].jump = 1 => Closed(d, d.marks[i].at)
    BY <1>4, <2>2
  <2>4. Selects(d, x.marks, SubSeq(d.marks, 1, n), SubSeq(x.marks, 1, n))
    BY <1>1, <1>4, <2>1, <2>3, SelectsFirst, Zenon
  <2>. QED BY <1>4, <2>4 DEF ms, kept, n
<1>6. Fits(WithMarks(d, ms), Shape(kept, x.depth, x.pending, x.over))
  BY <1>4, <1>5, FitsKept
<1>7. [d EXCEPT !.marks = Front(@)] = WithMarks(d, ms)
  BY <1>1, <1>4, Zenon DEF WithMarks, ms, Front
<1>. QED BY <1>6, <1>7 DEF kept

(* A loop back to a mark that is no jump.                                  *)
LEMMA FitsBack ==
  ASSUME NEW c, NEW x \in Shapes, NEW k \in 1..Len(x.marks), Fits(c, x), x.marks[k].jump = 0,
         NEW start, start = c.marks[k].at, CanLoop(c, start)
  PROVE Fits(EmitLoop(c, start), x) /\ EmitLoop(c, start).marks = c.marks
<1>1. c \in Contexts /\ Jumping(c, x.marks)
  BY DEF Fits
<1>2. Marked(c.code, c.insns, c.marks[k], x.marks[k])
  BY <1>1 DEF Jumping
<1>3. start \in Nat
  <2>1. c.marks \in Seq(Marks) /\ k \in 1..Len(c.marks)
    BY <1>1, ContextParts DEF Jumping
  <2>2. c.marks[k] \in Marks
    BY <2>1, ElementOfSeq
  <2>. QED BY <2>2 DEF Marks
<1>4. start <= Len(c.code)
  BY <1>2 DEF Marked
<1>5. start = Len(c.code) \/ \E i \in 1..Len(c.insns) : c.insns[i].at = start
  BY <1>2 DEF Marked
<1>. QED BY <1>3, <1>4, <1>5, FitsLoop, Zenon

(* Marks go that are the last and no open jump's.                          *)
LEMMA FitsFirst ==
  ASSUME NEW w, NEW x \in Shapes, NEW n, Fits(w, x), n \in 0..Len(x.marks),
         \A i \in 1..Len(x.marks) : i > n /\ x.marks[i].jump = 1 => Closed(w, w.marks[i].at)
  PROVE Fits(WithMarks(w, SubSeq(w.marks, 1, n)), Shape(SubSeq(x.marks, 1, n), x.depth, x.pending, x.over))
<1>1. x.marks \in Seq(OpenMarks)
  BY FitsParts
<1>2. w \in Contexts /\ Len(w.marks) = Len(x.marks)
  BY DEF Fits, Jumping
<1>3. Selects(w, x.marks, SubSeq(w.marks, 1, n), SubSeq(x.marks, 1, n))
  BY <1>1, <1>2, SelectsFirst
<1>. QED BY <1>3, FitsKept

(* The end of a loop without a condition: its start's mark goes.           *)
LEMMA FitsForever ==
  ASSUME NEW w, NEW x \in Shapes, NEW l, l = Len(x.marks), l > 0, Fits(w, x), x.marks[l].jump = 0
  PROVE Fits(WithMarks(w, SubSeq(w.marks, 1, l - 1)),
             Shape(SubSeq(x.marks, 1, l - 1), x.depth, x.pending, x.over))
<1> DEFINE n == l - 1
<1>1. x.marks \in Seq(OpenMarks)
  BY FitsParts
<1>2. n \in 0..Len(x.marks) /\ \A i \in 1..Len(x.marks) : i > n => i = l
  BY <1>1
<1> HIDE DEF n
<1>3. \A i \in 1..Len(x.marks) : i > n /\ x.marks[i].jump = 1 => Closed(w, w.marks[i].at)
  BY <1>2
<1>4. Fits(WithMarks(w, SubSeq(w.marks, 1, n)), Shape(SubSeq(x.marks, 1, n), x.depth, x.pending, x.over))
  BY <1>2, <1>3, FitsFirst
<1>. QED BY <1>4 DEF n

(* The end of a loop with one: the jump out of it has been patched, and    *)
(* its mark and the start's go.                                            *)
LEMMA FitsOut ==
  ASSUME NEW d, NEW w, NEW x \in Shapes, NEW l, l = Len(x.marks), l > 1, x.marks[l - 1].jump = 0,
         Reached(d, w, x, l)
  PROVE Fits(WithMarks(d, SubSeq(d.marks, 1, l - 2)),
             Shape(SubSeq(x.marks, 1, l - 2), x.depth, x.pending, x.over))
<1> DEFINE n == l - 2
<1>1. Fits(d, x) /\ Closed(d, d.marks[l].at)
  BY DEF Reached
<1>2. x.marks \in Seq(OpenMarks)
  BY <1>1, FitsParts
<1>3. n \in 0..Len(x.marks) /\ \A i \in 1..Len(x.marks) : i > n => i = l \/ i = l - 1
  BY <1>2
<1> HIDE DEF n
<1>4. ASSUME NEW i \in 1..Len(x.marks), i > n, x.marks[i].jump = 1 PROVE Closed(d, d.marks[i].at)
  <2>1. x.marks[l - 1].jump # x.marks[i].jump
    BY <1>4
  <2>2. i # l - 1
    BY <2>1
  <2>3. i = l
    BY <1>3, <1>4, <2>2
  <2>. QED BY <1>1, <2>3
<1>5. Fits(WithMarks(d, SubSeq(d.marks, 1, n)), Shape(SubSeq(x.marks, 1, n), x.depth, x.pending, x.over))
  BY <1>1, <1>3, <1>4, FitsFirst
<1>. QED BY <1>5 DEF n

(* That jump is patched at the end of the loop.                            *)
LEMMA FitsWhile ==
  ASSUME NEW w, NEW x \in Shapes, NEW l, l = Len(x.marks), l > 1, Fits(w, x), x.marks[l - 1].jump = 0,
         x.marks[l].jump = 1, NEW m, m = w.marks[l], CanPatch(w, m.at),
         NEW d, d = Resume(PatchJump(w, m.at), m)
  PROVE /\ Fits(WithMarks(d, SubSeq(d.marks, 1, l - 2)),
                Shape(SubSeq(x.marks, 1, l - 2), x.depth, x.pending, x.marks[l].over))
        /\ d.marks = w.marks
<1> DEFINE z == Over(x, x.marks[l].over)
           o == x.marks[l].over
<1>1. x.marks \in Seq(OpenMarks) /\ l \in Nat /\ l \in 1..Len(x.marks)
  BY FitsParts
<1>2. Reached(d, w, z, l)
  BY <1>1, FitsReached
<1>3. z.marks = x.marks /\ z.depth = x.depth /\ z.pending = x.pending /\ z.over = o
  BY OverParts
<1> HIDE DEF z, o
<1>4. z \in Shapes /\ d.marks = w.marks
  BY <1>2 DEF Reached
<1>5. l = Len(z.marks) /\ z.marks[l - 1].jump = 0
  BY <1>3
<1>6. Fits(WithMarks(d, SubSeq(d.marks, 1, l - 2)), Shape(SubSeq(z.marks, 1, l - 2), z.depth, z.pending, z.over))
  BY <1>2, <1>4, <1>5, FitsOut
<1>7. Fits(WithMarks(d, SubSeq(d.marks, 1, l - 2)), Shape(SubSeq(x.marks, 1, l - 2), x.depth, x.pending, o))
  BY <1>3, <1>6
<1>. QED BY <1>4, <1>7 DEF o

-----------------------------------------------------------------------------
(* The other instructions, and new contexts.                               *)

(* The byte for "one".                                                     *)
LEMMA FitsOne ==
  ASSUME NEW c, NEW x \in Shapes, Fits(c, x)
  PROVE Fits(Write(c, "one", 1, <<>>, 0), Over(x, x.over + 1))
<1> DEFINE op == "one"
           b == 1
           operands == <<>>
           t == Longer(c.code, b, operands)
           insn == Noted(op, Len(c.code))
           next == Len(c.code) + 1 + Len(operands)
<1>1. c \in Contexts /\ Len(c.code) \in Nat /\ c.code \in Codes
  <2>1. c \in Contexts
    BY DEF Fits
  <2>. QED BY <2>1, ContextParts
<1>2. op \in Emits /\ op \notin JumpOps /\ op # "LOOP" /\ b \in Bytes /\ operands \in Codes /\ Len(operands) = 0
  BY DEF Emits, JumpOps, Bytes, Codes
<1>3. Effect(op, 0) = 1
  BY DEF Effect, Pushes, Pops
<1>4. next = Len(c.code) + 1
  BY <1>1, <1>2
<1>5. insn.at = Len(c.code) /\ insn.op = "one"
  BY DEF Noted
<1> HIDE DEF op, b, operands, t, insn, next
<1>6. t[Len(c.code) + 1] = b
  <2>1. Lengthens(t, c.code, b, operands)
    BY <1>1, <1>2, LongerParts DEF t
  <2>. QED BY <2>1 DEF Lengthens
<1>7. b = 1
  BY DEF b
<1>8. Lies(t, insn, next)
  BY <1>4, <1>5, <1>6, <1>7 DEF Lies
<1>9. Lies(Longer(c.code, b, operands), Noted(op, Len(c.code)), Len(c.code) + 1 + Len(operands))
  BY <1>8 DEF t, insn, next
<1>10. Effect(op, 0) \in Int
  BY <1>3
<1>11. Fits(Write(c, op, b, operands, 0), Over(x, x.over + Effect(op, 0)))
  BY <1>2, <1>9, <1>10, FitsWrite, Zenon
<1>. QED BY <1>3, <1>11 DEF op, b, operands

(* The operands of a closure: how many pairs there are, and the pairs.     *)
Captures(u) == <<u % 256>> \o Times(u, <<1, 0>>)

(* They are bytes.                                                         *)
LEMMA PairsParts ==
  ASSUME NEW u \in Nat
  PROVE Captures(u) \in Codes /\ Len(Captures(u)) = 1 + 2 * u
<1> DEFINE s == <<1, 0>>
           t == Times(u, s)
           r == Captures(u)
<1>1. s \in Seq(0..255) /\ Len(s) = 2 /\ s[1] \in 0..255 /\ s[2] \in 0..255
  OBVIOUS
<1> HIDE DEF s
<1>2. u * Len(s) = 2 * u /\ 2 * u \in Nat
  BY <1>1
<1>3. t = [i \in 1..2 * u |-> s[((i - 1) % 2) + 1]]
  BY <1>1, <1>2 DEF Times
<1>4. \A i \in 1..2 * u : ((i - 1) % 2) + 1 = 1 \/ ((i - 1) % 2) + 1 = 2
  OBVIOUS
<1>5. t \in [1..2 * u -> 0..255]
  BY <1>1, <1>3, <1>4, Zenon
<1> HIDE DEF t
<1>6. t \in Seq(0..255) /\ Len(t) = 2 * u
  BY <1>2, <1>5, Listed
<1>7. <<u % 256>> \in Seq(0..255) /\ Len(<<u % 256>>) = 1
  <2>1. u % 256 \in 0..255
    OBVIOUS
  <2>. QED BY <2>1
<1>8. r = <<u % 256>> \o t
  BY DEF s, t, Captures
<1> HIDE DEF r
<1> DEFINE f == <<u % 256>>
<1>9. f \in Seq(0..255) /\ r = f \o t /\ Len(f) = 1
  BY <1>7, <1>8
<1> HIDE DEF f
<1>10. r \in Seq(0..255) /\ Len(r) = Len(f) + Len(t)
  <2> DEFINE S == 0..255
  <2>1. f \in Seq(S) /\ t \in Seq(S) /\ r = f \o t
    BY <1>6, <1>9
  <2> HIDE DEF S
  <2>2. /\ r \in Seq(S) /\ Len(r) = Len(f) + Len(t)
        /\ \A p \in 1..Len(f) : r[p] = f[p]
        /\ \A p \in 1..Len(t) : r[Len(f) + p] = t[p]
    BY <2>1, ConcatParts
  <2>. QED BY <2>2 DEF S
<1>. QED BY <1>6, <1>9, <1>10 DEF Codes, r

(* A closure, with what it captures.                                       *)
LEMMA FitsClosure ==
  ASSUME NEW c, NEW x \in Shapes, NEW u \in Nat, Fits(c, x)
  PROVE Fits(Emit(c, "CLOSURE", <<u % 256>> \o Times(u, <<1, 0>>), 0), Over(x, x.over + 1))
<1> DEFINE op == "CLOSURE"
           b == Number["CLOSURE"]
           operands == Captures(u)
           t == Longer(c.code, b, operands)
           insn == Noted(op, Len(c.code))
           next == Len(c.code) + 1 + Len(operands)
<1>1. c \in Contexts /\ Len(c.code) \in Nat /\ c.code \in Codes
  <2>1. c \in Contexts
    BY DEF Fits
  <2>. QED BY <2>1, ContextParts
<1>2. op \in Emits /\ op \notin JumpOps /\ op # "LOOP"
  BY DEF Emits, JumpOps
<1>3. b \in Bytes
  <2>1. Number["CLOSURE"] \in 0..66
    BY Numbers, Emitted
  <2>. QED BY <2>1 DEF Bytes
<1>4. operands \in Codes /\ Len(operands) = 1 + 2 * u
  BY PairsParts
<1>5. Effect(op, 0) = 1
  BY DEF Effect, Pushes, Pops
<1>6. insn.at = Len(c.code) /\ insn.op = "CLOSURE"
  BY DEF Noted
<1> HIDE DEF b, operands, t, insn
<1>7. next = Len(c.code) + 2 + 2 * u
  <2> DEFINE a == Len(c.code)
             l == Len(operands)
  <2>1. a \in Int /\ u \in Int /\ l = 1 + 2 * u
    BY <1>1, <1>4
  <2> HIDE DEF a, l
  <2>2. a + 1 + l = a + 2 + 2 * u
    BY <2>1
  <2>. QED BY <2>2, Zenon DEF a, l
<1>8. t[Len(c.code) + 1] = b
  <2>1. Lengthens(t, c.code, b, operands)
    BY <1>1, <1>3, <1>4, LongerParts DEF t
  <2>. QED BY <2>1 DEF Lengthens
<1> HIDE DEF op, next
<1>9. b = Number["CLOSURE"]
  BY DEF b
<1>10. Lies(t, insn, next)
  <2>1. Paired(Len(c.code), next)
    BY <1>7, Zenon DEF Paired
  <2>. QED BY <1>6, <1>8, <1>9, <2>1 DEF Lies
<1>11. Lies(Longer(c.code, b, operands), Noted(op, Len(c.code)), Len(c.code) + 1 + Len(operands))
  BY <1>10 DEF t, insn, next
<1>12. Effect(op, 0) \in Int
  BY <1>5
<1>13. Fits(Write(c, op, b, operands, 0), Over(x, x.over + Effect(op, 0)))
  BY <1>2, <1>3, <1>4, <1>11, <1>12, FitsWrite, Zenon
<1>. QED BY <1>5, <1>13 DEF op, b, operands, Emit, Captures

(* The depth that a context begins with.                                   *)
Bottom(type) == IF type \in {"script"} \cup Lambdas THEN 0 ELSE 1

(* The locals that it begins with.                                         *)
Params(type, n) ==
  IF type = "script" THEN <<>> ELSE IF type \in Lambdas THEN <<0>> ELSE <<0>> \o [i \in 1..n |-> 1]

(* They are one, and a function's parameters.                              *)
LEMMA FirstLocals ==
  ASSUME NEW type \in Types \cup {"script"}, NEW n \in Nat
  PROVE /\ Params(type, n) \in Seq(Int)
        /\ Len(Params(type, n)) = (IF type = "script" THEN 0 ELSE IF type \in Lambdas THEN 1 ELSE 1 + n)
<1> DEFINE l == Params(type, n)
<1> HIDE DEF l
<1>1. CASE type = "script"
  <2>1. l = <<>>
    BY <1>1 DEF l, Params
  <2>2. l \in Seq(Int) /\ Len(l) = 0
    BY <2>1
  <2>. QED BY <1>1, <2>2 DEF l
<1>2. CASE type \in Lambdas
  <2>1. type # "script"
    BY <1>2 DEF Lambdas
  <2>2. l = <<0>>
    BY <1>2, <2>1 DEF l, Params
  <2>3. l \in Seq(Int) /\ Len(l) = 1
    BY <2>2
  <2>. QED BY <1>2, <2>1, <2>3 DEF l
<1>3. CASE type # "script" /\ type \notin Lambdas
  <2> DEFINE f == <<0>>
             t == [i \in 1..n |-> 1]
  <2>1. f \in Seq(Int) /\ Len(f) = 1
    OBVIOUS
  <2>2. t \in [1..n -> Int]
    OBVIOUS
  <2>3. l = f \o t
    BY <1>3 DEF l, Params
  <2> HIDE DEF f, t
  <2>4. t \in Seq(Int) /\ Len(t) = n
    BY <2>2, Listed
  <2>5. l \in Seq(Int) /\ Len(l) = Len(f) + Len(t)
    <3> DEFINE S == Int
    <3>1. f \in Seq(S) /\ t \in Seq(S) /\ l = f \o t
      BY <2>1, <2>3, <2>4
    <3> HIDE DEF S
    <3>2. l \in Seq(S) /\ Len(l) = Len(f) + Len(t)
      BY <3>1, ConcatParts
    <3>. QED BY <3>2 DEF S
  <2>. QED BY <1>3, <2>1, <2>4, <2>5 DEF l
<1>. QED BY <1>1, <1>2, <1>3 DEF l

(* A new context has nothing open. A lambda's holds its arguments, which   *)
(* are no locals.                                                          *)
LEMMA FitsContext ==
  ASSUME NEW type \in Types \cup {"script"}, NEW n \in Nat, type = "script" => n = 0
  PROVE Fits(Context(type, n), Shape(<<>>, Bottom(type), 0, IF type \in Lambdas THEN n ELSE 0))
<1> DEFINE l == Params(type, n)
           k == IF type \in {"script"} \cup Lambdas THEN 0 ELSE 1
           h == IF type = "script" THEN 0 ELSE 1 + n
           a == [height |-> h, owed |-> 0]
           c == [type |-> type, code |-> <<>>, insns |-> <<>>, locals |-> l, depth |-> k,
                 constants |-> 0, marks |-> <<>>, account |-> a]
           o == IF type \in Lambdas THEN n ELSE 0
           x == Shape(<<>>, Bottom(type), 0, o)
<1>1. Context(type, n) = c
  BY DEF Context, Params
<1>2. /\ l \in Seq(Int)
      /\ Len(l) = (IF type = "script" THEN 0 ELSE IF type \in Lambdas THEN 1 ELSE 1 + n)
  BY FirstLocals
<1>3. k \in Nat /\ k = Bottom(type)
  BY DEF Bottom
<1>4. h \in Int /\ a \in Accounts /\ a.height = h /\ a.owed = 0
  BY DEF Accounts
<1>5. h = Len(l) + 0 + o
  <2>1. type = "script" => type \notin Lambdas
    BY DEF Lambdas
  <2> DEFINE len == Len(l)
  <2>2. len = (IF type = "script" THEN 0 ELSE IF type \in Lambdas THEN 1 ELSE 1 + n)
    BY <1>2
  <2> HIDE DEF len, l
  <2>3. h = len + 0 + o
    BY <2>1, <2>2
  <2>. QED BY <2>3 DEF len
<1>6. x.marks = <<>> /\ x.depth = Bottom(type) /\ x.pending = 0 /\ x.over = o
  BY ShapeParts
<1> HIDE DEF l, k, h, a, o, x
<1>7. /\ c.code = <<>> /\ c.insns = <<>> /\ c.locals = l /\ c.depth = k /\ c.marks = <<>> /\ c.account = a
  OBVIOUS
<1>8. c \in Contexts
  BY <1>2, <1>3, <1>4 DEF Contexts
<1> HIDE DEF c
<1>9. Laid(c.code, c.insns) /\ Jumping(c, x.marks)
  BY <1>6, <1>7 DEF Laid, Jumping
<1>10. Fits(c, x)
  BY <1>2, <1>3, <1>4, <1>5, <1>6, <1>7, <1>8, <1>9, Zenon DEF Fits
<1>. QED BY <1>1, <1>10 DEF x, o

-----------------------------------------------------------------------------
(* The steps of a chain.                                                   *)

(* The parts of a frame.                                                   *)
LEMMA FrameParts ==
  /\ \A f \in Frames : f.below \in Seq(Shapes) /\ f.top \in Shapes /\ f = Frame(f.below, f.top)
  /\ \A b \in Seq(Shapes), x \in Shapes : Frame(b, x) \in Frames
  /\ \A b, x : Frame(b, x).below = b /\ Frame(b, x).top = x
BY DEF Frames, Frame

(* The contexts of a frame.                                                *)
LEMMA FramedParts ==
  ASSUME NEW cs, NEW f, Framed(cs, f)
  PROVE /\ f.below \in Seq(Shapes) /\ f.top \in Shapes /\ f = Frame(f.below, f.top)
        /\ cs \in Seq(Contexts) /\ Len(cs) \in Nat /\ Len(cs) > 0 /\ Len(f.below) \in Nat
        /\ Len(cs) = Len(f.below) + 1
        /\ Fits(cs[Len(cs)], f.top) /\ cs[Len(cs)] \in Contexts
<1>1. f \in Frames /\ cs \in Seq(Contexts) /\ Len(cs) = Len(f.below) + 1 /\ Fits(cs[Len(cs)], f.top)
  BY DEF Framed
<1>2. f.below \in Seq(Shapes) /\ f.top \in Shapes /\ f = Frame(f.below, f.top)
  BY <1>1, FrameParts
<1>3. Len(f.below) \in Nat
  BY <1>2
<1>4. cs[Len(cs)] \in Contexts
  BY <1>1 DEF Fits
<1>. QED BY <1>1, <1>2, <1>3, <1>4

(* The frame with another shape on top.                                    *)
LEMMA FramedTop ==
  ASSUME NEW cs, NEW f, NEW c, NEW y \in Shapes, Framed(cs, f), Fits(c, y)
  PROVE Framed([cs EXCEPT ![Len(cs)] = c], Frame(f.below, y))
<1> DEFINE n == Len(cs)
           ds == [cs EXCEPT ![n] = c]
           g == Frame(f.below, y)
           b == f.below
<1>1. /\ b \in Seq(Shapes) /\ cs \in Seq(Contexts) /\ n \in Nat /\ n > 0 /\ Len(b) \in Nat /\ n = Len(b) + 1
  BY FramedParts
<1>2. c \in Contexts
  BY DEF Fits
<1>3. \A i \in 1..Len(b) : Fits(cs[i], b[i])
  BY DEF Framed
<1>4. g \in Frames /\ g.below = b /\ g.top = y
  BY <1>1, FrameParts
<1> HIDE DEF g
<1>5. /\ ds \in Seq(Contexts) /\ Len(ds) = n /\ ds[n] = c
      /\ \A i \in 1..n : i # n => ds[i] = cs[i]
  BY <1>1, <1>2
<1> HIDE DEF n, ds, b
<1>6. \A i \in 1..Len(b) : i \in 1..n /\ i # n
  BY <1>1
<1>7. \A i \in 1..Len(b) : Fits(ds[i], b[i])
  BY <1>3, <1>5, <1>6
<1>8. Framed(ds, g)
  BY <1>1, <1>4, <1>5, <1>7 DEF Framed
<1>. QED BY <1>8 DEF ds, n, g, b

(* The first step leads on.                                                *)
LEMMA EndsHead ==
  ASSUME NEW f, NEW s, Ends(f, s), s # <<>>
  PROVE \E g \in Frames : Flows(f, Head(s), g) /\ Ends(g, Tail(s))
<1>1. PICK h \in Frames : Chain(f, s, h) /\ Final(h)
  BY DEF Ends
<1>2. PICK g \in Frames : Flows(f, Head(s), g) /\ Chain(g, Tail(s), h)
  BY <1>1, ChainHead
<1>3. Ends(g, Tail(s))
  BY <1>1, <1>2 DEF Ends
<1>. QED BY <1>2, <1>3

(* A chain in front of the steps.                                          *)
LEMMA EndsJoin ==
  ASSUME NEW f, NEW g, NEW s, NEW t, Chain(f, s, g), Ends(g, t)
  PROVE Ends(f, s \o t)
<1>1. PICK h \in Frames : Chain(g, t, h) /\ Final(h)
  BY DEF Ends
<1>2. Chain(f, s \o t, h)
  BY <1>1, ChainJoin
<1>3. f \in Frames
  BY ChainType
<1>. QED BY <1>1, <1>2, <1>3 DEF Ends

(* The steps that are left are steps.                                      *)
LEMMA EndsType ==
  ASSUME NEW f, NEW s, Ends(f, s)
  PROVE f \in Frames /\ s \in Seq(Steps) /\ (s # <<>> => Head(s) \in Steps /\ Tail(s) \in Seq(Steps))
<1>1. PICK h \in Frames : Chain(f, s, h)
  BY DEF Ends
<1>2. f \in Frames /\ s \in Seq(Steps)
  BY <1>1, ChainType
<1>. QED BY <1>2

(* What a step that stays in its context finds, and what it has to leave.  *)
Move(cs, steps, f, g) ==
  /\ Framed(cs, f) /\ Ends(f, steps) /\ Ends(g, Tail(steps)) /\ Head(steps) \in Steps
  /\ g.below = f.below /\ g.top \in Shapes /\ f.top \in Shapes
  /\ \/ Rises(f.top, Head(steps), g.top) \/ Scopes(f.top, Head(steps), g.top)
     \/ Jumps(f.top, Head(steps), g.top)

(* It finds a frame, and the frame that the others go on from.             *)
LEMMA Moves ==
  ASSUME NEW cs, NEW s, Held(cs, s), s # <<>>, Head(s).do \notin {"enter", "leave", "halt"}
  PROVE \E f, g \in Frames : Move(cs, s, f, g)
<1>1. PICK f \in Frames : Framed(cs, f) /\ Ends(f, s)
  BY DEF Held
<1>2. PICK g \in Frames : Flows(f, Head(s), g) /\ Ends(g, Tail(s))
  BY <1>1, EndsHead
<1>3. Head(s) \in Steps
  BY <1>1, EndsType
<1>4. g.top \in Shapes /\ f.top \in Shapes
  BY FrameParts
<1>5. /\ g.below = f.below
      /\ Rises(f.top, Head(s), g.top) \/ Scopes(f.top, Head(s), g.top) \/ Jumps(f.top, Head(s), g.top)
  BY <1>2 DEF Flows
<1>. QED BY <1>1, <1>2, <1>3, <1>4, <1>5 DEF Move

(* It leaves that frame if its context fits.                               *)
LEMMA Moved ==
  ASSUME NEW cs, NEW s, NEW f, NEW g, NEW c, Move(cs, s, f, g), Fits(c, g.top)
  PROVE Held([cs EXCEPT ![Len(cs)] = c], Tail(s))
<1> DEFINE ds == [cs EXCEPT ![Len(cs)] = c]
           t == Tail(s)
<1>1. Framed(cs, f) /\ Ends(g, t) /\ g.below = f.below /\ g.top \in Shapes
  BY DEF Move
<1>2. Framed(ds, Frame(f.below, g.top))
  BY <1>1, FramedTop, Zenon
<1> HIDE DEF ds, t
<1>3. g \in Frames
  BY <1>1 DEF Ends
<1>4. g = Frame(f.below, g.top)
  BY <1>1, <1>3, FrameParts
<1>5. Held(ds, t)
  BY <1>1, <1>2, <1>3, <1>4 DEF Held
<1>. QED BY <1>5 DEF ds, t

(* It leaves the same frame if it does not change the shape.               *)
LEMMA Stayed ==
  ASSUME NEW cs, NEW s, NEW f, NEW c, NEW x \in Shapes, Framed(cs, f), Ends(f, s), Fits(c, x), x = f.top
  PROVE Held([cs EXCEPT ![Len(cs)] = c], s)
<1> DEFINE ds == [cs EXCEPT ![Len(cs)] = c]
<1>1. Framed(ds, Frame(f.below, x))
  BY FramedTop, Zenon
<1> HIDE DEF ds
<1>2. f \in Frames
  BY DEF Ends
<1>3. f = Frame(f.below, x)
  BY <1>2, FrameParts
<1>4. Held(ds, s)
  BY <1>1, <1>2, <1>3 DEF Held
<1>. QED BY <1>4 DEF ds

-----------------------------------------------------------------------------
(* The actions.                                                            *)

(* What every action leaves alone.                                         *)
LEMMA Went ==
  ASSUME IInv, Held(ctxs', todo'), program' = program, ended' = ended, ended = "compiling"
  PROVE IInv'
BY DEF IInv

(* A step that stays in its context, and what it finds.                    *)
LEMMA Finds ==
  ASSUME IInv, ended = "compiling", todo # <<>>, Head(todo).do \notin {"enter", "leave", "halt"}
  PROVE \E f, g \in Frames : Move(ctxs, todo, f, g)
<1>1. Held(ctxs, todo)
  BY DEF IInv
<1>. QED BY <1>1, Moves

(* The parts of a move.                                                    *)
LEMMA MoveParts ==
  ASSUME NEW cs, NEW s, NEW f, NEW g, Move(cs, s, f, g)
  PROVE /\ f.top \in Shapes /\ g.top \in Shapes /\ Fits(cs[Len(cs)], f.top) /\ Head(s) \in Steps
        /\ Head(s).n \in Nat /\ Head(s).arg \in Args
        /\ f.top.over \in Int /\ f.top.depth \in Nat
        /\ Rises(f.top, Head(s), g.top) \/ Scopes(f.top, Head(s), g.top) \/ Jumps(f.top, Head(s), g.top)
<1>1. /\ Framed(cs, f) /\ Head(s) \in Steps /\ f.top \in Shapes /\ g.top \in Shapes
      /\ Rises(f.top, Head(s), g.top) \/ Scopes(f.top, Head(s), g.top) \/ Jumps(f.top, Head(s), g.top)
  BY DEF Move
<1>2. Fits(cs[Len(cs)], f.top)
  BY <1>1, FramedParts
<1>3. Head(s).n \in Nat /\ Head(s).arg \in Args
  BY <1>1 DEF Steps
<1>4. f.top.over \in Int /\ f.top.depth \in Nat
  BY <1>1 DEF Shapes
<1>. QED BY <1>1, <1>2, <1>3, <1>4

(* The last number of values counts.                                       *)
LEMMA OverTwice == \A x, a, b : Over(Over(x, a), b) = Over(x, b)
BY OverParts DEF Over

(* A value owed, over a shape that was already another's.                  *)
LEMMA OweOver ==
  ASSUME NEW d, NEW x \in Shapes, NEW w \in Int, NEW e \in Int, Fits(d, Over(x, w))
  PROVE Fits(Owe(d, e), Over(x, w - e))
<1> DEFINE y == Over(x, w)
<1>1. y \in Shapes
  BY ShapeType
<1>2. y.over = w
  BY OverParts
<1> HIDE DEF y
<1>3. Fits(Owe(d, e), Over(y, y.over - e))
  <2>1. Fits(d, y)
    BY DEF y
  <2>. QED BY <1>1, <2>1, FitsOwe
<1>4. Over(y, w - e) = Over(x, w - e)
  BY OverTwice DEF y
<1>. QED BY <1>2, <1>3, <1>4

(* The operand of an opcode that has one.                                  *)
LEMMA ByteOperand ==
  ASSUME NEW n \in 0..255
  PROVE <<n>> \in Codes /\ Len(<<n>>) = 1 /\ <<>> \in Codes /\ Len(<<>>) = 0
BY DEF Codes

(* An opcode, with the number of its values cut to a byte.                 *)
LEMMA FitsOp ==
  ASSUME NEW c, NEW x \in Shapes, NEW op \in Plain, NEW k \in Nat, NEW n, n = k % (MaxIndex + 1), Fits(c, x)
  PROVE Fits(Owe(Emit(c, op, IF op \in OneByte THEN <<n>> ELSE <<>>, n), Effect(op, n) - Effect(op, k)),
             Over(x, x.over + Effect(op, k)))
<1> DEFINE operands == IF op \in OneByte THEN <<n>> ELSE <<>>
           i == Effect(op, n)
           j == Effect(op, k)
           v == x.over
<1>1. n \in 0..255 /\ n \in Nat
  BY CutType
<1>2. operands \in Codes /\ Len(operands) = (IF op \in OneByte THEN 1 ELSE 0)
  BY <1>1, ByteOperand, Zenon
<1>3. i \in Int /\ j \in Int
  BY <1>1, EffectType
<1>4. v \in Int
  BY FitsParts
<1> HIDE DEF operands
<1>5. Fits(Emit(c, op, operands, n), Over(x, x.over + Effect(op, n)))
  BY <1>1, <1>2, FitsEmit
<1> HIDE DEF i, j, v
<1>6. v + i \in Int /\ i - j \in Int /\ (v + i) - (i - j) = v + j
  BY <1>3, <1>4
<1>7. Fits(Emit(c, op, operands, n), Over(x, v + i))
  BY <1>5 DEF v, i
<1>8. Fits(Owe(Emit(c, op, operands, n), i - j), Over(x, (v + i) - (i - j)))
  BY <1>6, <1>7, OweOver, Zenon
<1>9. Fits(Owe(Emit(c, op, operands, n), i - j), Over(x, v + j))
  BY <1>6, <1>8
<1>. QED BY <1>9 DEF operands, i, j, v

(* A step "op" leaves what its opcode does.                                *)
LEMMA OpKept == ASSUME IInv, EmitOp PROVE IInv'
<1> DEFINE k == Amount
           n == k % (MaxIndex + 1)
           op == Arg
           c == Now
           d == Owe(Emit(c, op, IF op \in OneByte THEN <<n>> ELSE <<>>, n), Effect(op, n) - Effect(op, k))
<1>1. /\ ended = "compiling" /\ todo # <<>> /\ Head(todo).do = "op"
      /\ ctxs' = [ctxs EXCEPT ![Len(ctxs)] = d] /\ todo' = Tail(todo) /\ program' = program /\ ended' = ended
  BY DEF EmitOp, At, SetNow, GoOn
<1>2. PICK f, g \in Frames : Move(ctxs, todo, f, g)
  BY <1>1, Finds
<1> DEFINE x == f.top
           y == g.top
           s == Head(todo)
<1>3. x \in Shapes /\ Fits(c, x) /\ k \in Nat /\ (Rises(x, s, y) \/ Scopes(x, s, y) \/ Jumps(x, s, y))
  BY <1>2, MoveParts DEF Now, Amount
<1> HIDE DEF x, y, s
<1>4. s.arg = op /\ s.n = k /\ s.do = "op"
  BY <1>1 DEF s, Arg, Amount
<1> HIDE DEF k, op, c
<1>5. op \in OpArgs /\ y = Over(x, x.over + Effect(op, k))
  BY <1>3, <1>4 DEF Rises, Scopes, Jumps
<1>6. op \in Plain
  BY <1>5, Emitted
<1>7. Fits(d, Over(x, x.over + Effect(op, k)))
  BY <1>3, <1>6, FitsOp
<1> HIDE DEF d
<1>8. Fits(d, g.top)
  BY <1>5, <1>7 DEF y
<1>9. Held(ctxs', todo')
  BY <1>1, <1>2, <1>8, Moved, Zenon
<1>. QED BY <1>1, <1>9, Went

(* An opcode with an operand that is no number of values.                  *)
LEMMA FitsByte ==
  ASSUME NEW c, NEW x \in Shapes, NEW op \in Plain \cap OneByte, NEW i \in 0..255, NEW e \in Int,
         Effect(op, 0) = e, Fits(c, x)
  PROVE Fits(Emit(c, op, <<i>>, 0), Over(x, x.over + e))
<1> DEFINE operands == <<i>>
<1>1. operands \in Codes /\ Len(operands) = (IF op \in OneByte THEN 1 ELSE 0)
  BY ByteOperand, Zenon
<1> HIDE DEF operands
<1>2. Fits(Emit(c, op, operands, 0), Over(x, x.over + Effect(op, 0)))
  BY <1>1, FitsEmit
<1>. QED BY <1>2 DEF operands

(* The index of a name is a byte.                                          *)
LEMMA IndexType ==
  ASSUME NEW c, NEW x \in Shapes, Fits(c, x)
  PROVE NameIndex(c) \in 0..255 /\ LastIndex(c) \in 0..255
<1>1. c.constants \in Nat
  BY FitsParts
<1>. QED BY <1>1, CutType DEF NameIndex, LastIndex

(* An opcode with a name that becomes a constant.                          *)
LEMMA FitsNamed ==
  ASSUME NEW c, NEW x \in Shapes, NEW op \in Plain \cap OneByte, NEW e \in Int, Effect(op, 0) = e, Fits(c, x)
  PROVE Fits(AddName(Emit(c, op, <<NameIndex(c)>>, 0)), Over(x, x.over + e))
<1>1. Fits(Emit(c, op, <<NameIndex(c)>>, 0), Over(x, x.over + e))
  BY IndexType, FitsByte, Zenon
<1>2. x.over + e \in Int
  BY FitsParts
<1>3. Over(x, x.over + e) \in Shapes
  BY <1>2, ShapeType
<1>. QED BY <1>1, <1>3, FitsName, Zenon

(* A step "name" leaves what its opcode does.                              *)
LEMMA NameKept == ASSUME IInv, EmitName PROVE IInv'
<1> DEFINE op == Arg
           c == Now
           e == Effect(op, 0)
           d == AddName(Emit(c, op, <<NameIndex(c)>>, 0))
<1>1. /\ ended = "compiling" /\ todo # <<>> /\ Head(todo).do = "name"
      /\ ctxs' = [ctxs EXCEPT ![Len(ctxs)] = d] /\ todo' = Tail(todo) /\ program' = program /\ ended' = ended
  BY DEF EmitName, At, SetNow, GoOn
<1>2. PICK f, g \in Frames : Move(ctxs, todo, f, g)
  BY <1>1, Finds
<1> DEFINE x == f.top
           y == g.top
           s == Head(todo)
<1>3. x \in Shapes /\ Fits(c, x) /\ (Rises(x, s, y) \/ Scopes(x, s, y) \/ Jumps(x, s, y))
  BY <1>2, MoveParts DEF Now
<1> HIDE DEF x, y, s
<1>4. s.arg = op /\ s.do = "name"
  BY <1>1 DEF s, Arg
<1> HIDE DEF op, c
<1>5. op \in NameArgs /\ y = Over(x, x.over + e)
  BY <1>3, <1>4 DEF Rises, Scopes, Jumps
<1>6. op \in Plain \cap OneByte /\ e \in Int
  BY <1>5, Emitted, EffectType DEF NameArgs, OneByte
<1>7. Fits(d, Over(x, x.over + e))
  BY <1>3, <1>6, FitsNamed
<1> HIDE DEF d
<1>8. Fits(d, g.top)
  BY <1>5, <1>7 DEF y
<1>9. Held(ctxs', todo')
  BY <1>1, <1>2, <1>8, Moved, Zenon
<1>. QED BY <1>1, <1>9, Went

(* A refusal leaves everything as it is.                                   *)
LEMMA Refused ==
  ASSUME IInv, ctxs' = ctxs, todo' = todo, program' = program, ended' \in {"rejected", "crashed"}
  PROVE IInv'
BY DEF IInv

(* What the largest operand of one byte is.                                *)
LEMMA IndexLimit == MaxIndex \in 0..255
BY CodeAssumption

(* A constant is one value.                                                *)
LEMMA ConstantKept == ASSUME IInv, EmitConstant PROVE IInv'
<1> DEFINE c == Now
           d == AddName(Emit(c, "CONST_INT", <<c.constants>>, 0))
<1>1. ended = "compiling" /\ todo # <<>> /\ Head(todo).do = "constant"
  BY DEF EmitConstant, At
<1>2. CASE c.constants > MaxIndex
  <2>1. ended' = "rejected" /\ ctxs' = ctxs /\ todo' = todo /\ program' = program
    BY <1>2 DEF EmitConstant, Reject
  <2>. QED BY <2>1, Refused
<1>3. CASE ~(c.constants > MaxIndex)
  <2>1. ctxs' = [ctxs EXCEPT ![Len(ctxs)] = d] /\ todo' = Tail(todo) /\ program' = program /\ ended' = ended
    BY <1>3 DEF EmitConstant, SetNow, GoOn
  <2>2. PICK f, g \in Frames : Move(ctxs, todo, f, g)
    BY <1>1, Finds
  <2> DEFINE x == f.top
             y == g.top
             s == Head(todo)
  <2>3. x \in Shapes /\ Fits(c, x) /\ (Rises(x, s, y) \/ Scopes(x, s, y) \/ Jumps(x, s, y))
    BY <2>2, MoveParts DEF Now
  <2> HIDE DEF x, y, s
  <2>4. s.do = "constant"
    BY <1>1 DEF s
  <2> HIDE DEF c
  <2>5. y = Over(x, x.over + 1)
    BY <2>3, <2>4 DEF Rises, Scopes, Jumps
  <2>6. c.constants \in 0..255
    <3>1. c.constants \in Nat
      BY <2>3, FitsParts
    <3>. QED BY <1>3, <3>1, IndexLimit
  <2> DEFINE e == Emit(c, "CONST_INT", <<c.constants>>, 0)
  <2>7. Fits(e, Over(x, x.over + 1))
    <3>1. "CONST_INT" \in Plain \cap OneByte
      BY Emitted DEF OneByte
    <3>2. Effect("CONST_INT", 0) = 1
      BY DEF Effect, Pushes, Pops
    <3> DEFINE i == c.constants
    <3>3. i \in 0..255 /\ 1 \in Int
      BY <2>6, One1, Zenon
    <3> HIDE DEF i
    <3>4. Fits(Emit(c, "CONST_INT", <<i>>, 0), Over(x, x.over + 1))
      BY <2>3, <3>1, <3>2, <3>3, FitsByte, Zenon
    <3>. QED BY <3>4 DEF i
  <2> HIDE DEF e
  <2>8. Over(x, x.over + 1) \in Shapes
    <3>1. x.over + 1 \in Int
      BY <2>3, FitsParts
    <3>. QED BY <2>3, <3>1, ShapeType
  <2>9. Fits(d, Over(x, x.over + 1))
    BY <2>7, <2>8, FitsName DEF e
  <2> HIDE DEF d
  <2>10. Fits(d, g.top)
    BY <2>5, <2>9 DEF y
  <2>11. Held(ctxs', todo')
    BY <2>1, <2>2, <2>10, Moved, Zenon
  <2>. QED BY <1>1, <2>1, <2>11, Went
<1>. QED BY <1>2, <1>3

(* The byte for "one" is meant as one value.                               *)
LEMMA OneKept == ASSUME IInv, EmitOne PROVE IInv'
<1> DEFINE c == Now
           d == Write(c, "one", 1, <<>>, 0)
<1>1. /\ ended = "compiling" /\ todo # <<>> /\ Head(todo).do = "one"
      /\ ctxs' = [ctxs EXCEPT ![Len(ctxs)] = d] /\ todo' = Tail(todo) /\ program' = program /\ ended' = ended
  BY DEF EmitOne, At, SetNow, GoOn
<1>2. PICK f, g \in Frames : Move(ctxs, todo, f, g)
  BY <1>1, Finds
<1> DEFINE x == f.top
           y == g.top
           s == Head(todo)
<1>3. x \in Shapes /\ Fits(c, x) /\ (Rises(x, s, y) \/ Scopes(x, s, y) \/ Jumps(x, s, y))
  BY <1>2, MoveParts DEF Now
<1> HIDE DEF x, y, s
<1>4. s.do = "one"
  BY <1>1 DEF s
<1> HIDE DEF c
<1>5. y = Over(x, x.over + 1)
  BY <1>3, <1>4 DEF Rises, Scopes, Jumps
<1>6. Fits(d, Over(x, x.over + 1))
  BY <1>3, FitsOne
<1> HIDE DEF d
<1>7. Fits(d, g.top)
  BY <1>5, <1>6 DEF y
<1>8. Held(ctxs', todo')
  BY <1>1, <1>2, <1>7, Moved, Zenon
<1>. QED BY <1>1, <1>8, Went

(* A lambda's argument is taken from the stack.                            *)
LEMMA ArgumentKept == ASSUME IInv, StoreArgument PROVE IInv'
<1> DEFINE c == Now
           d == Emit(c, "DEFINE_GLOBAL", <<0>>, 0)
<1>1. /\ ended = "compiling" /\ todo # <<>> /\ Head(todo).do = "argument"
      /\ ctxs' = [ctxs EXCEPT ![Len(ctxs)] = d] /\ todo' = Tail(todo) /\ program' = program /\ ended' = ended
  BY DEF StoreArgument, At, SetNow, GoOn
<1>2. PICK f, g \in Frames : Move(ctxs, todo, f, g)
  BY <1>1, Finds
<1> DEFINE x == f.top
           y == g.top
           s == Head(todo)
<1>3. x \in Shapes /\ Fits(c, x) /\ x.over \in Int /\ (Rises(x, s, y) \/ Scopes(x, s, y) \/ Jumps(x, s, y))
  BY <1>2, MoveParts DEF Now
<1> HIDE DEF x, y, s
<1>4. s.do = "argument"
  BY <1>1 DEF s
<1> HIDE DEF c
<1>5. y = Over(x, x.over + (-1))
  <2>1. y = Over(x, x.over - 1)
    BY <1>3, <1>4 DEF Rises, Scopes, Jumps
  <2>2. x.over - 1 = x.over + (-1)
    BY <1>3, Less1, Zenon
  <2>. QED BY <2>1, <2>2, Zenon
<1>6. Fits(d, Over(x, x.over + (-1)))
  <2>1. "DEFINE_GLOBAL" \in Plain \cap OneByte
    BY Emitted DEF OneByte
  <2>2. Effect("DEFINE_GLOBAL", 0) = -1
    BY DEF Effect, Pushes, Pops
  <2>3. 0 \in 0..255 /\ -1 \in Int
    OBVIOUS
  <2>. QED BY <1>3, <2>1, <2>2, <2>3, FitsByte, Zenon
<1> HIDE DEF d
<1>7. Fits(d, g.top)
  BY <1>5, <1>6 DEF y
<1>8. Held(ctxs', todo')
  BY <1>1, <1>2, <1>7, Moved, Zenon
<1>. QED BY <1>1, <1>8, Went

(* A scope begins.                                                         *)
LEMMA BeginKept == ASSUME IInv, BeginScope PROVE IInv'
<1> DEFINE c == Now
           d == [c EXCEPT !.depth = @ + 1]
<1>1. /\ ended = "compiling" /\ todo # <<>> /\ Head(todo).do = "begin"
      /\ ctxs' = [ctxs EXCEPT ![Len(ctxs)] = d] /\ todo' = Tail(todo) /\ program' = program /\ ended' = ended
  BY DEF BeginScope, At, SetNow, GoOn
<1>2. PICK f, g \in Frames : Move(ctxs, todo, f, g)
  BY <1>1, Finds
<1> DEFINE x == f.top
           y == g.top
           s == Head(todo)
<1>3. x \in Shapes /\ Fits(c, x) /\ (Rises(x, s, y) \/ Scopes(x, s, y) \/ Jumps(x, s, y))
  BY <1>2, MoveParts DEF Now
<1> HIDE DEF x, y, s
<1>4. s.do = "begin"
  BY <1>1 DEF s
<1> HIDE DEF c
<1>5. y = Shape(x.marks, x.depth + 1, x.pending, x.over)
  BY <1>3, <1>4 DEF Rises, Scopes, Jumps
<1>6. Fits(d, Shape(x.marks, x.depth + 1, x.pending, x.over))
  BY <1>3, FitsBegin
<1> HIDE DEF d
<1>7. Fits(d, g.top)
  BY <1>5, <1>6 DEF y
<1>8. Held(ctxs', todo')
  BY <1>1, <1>2, <1>7, Moved, Zenon
<1>. QED BY <1>1, <1>8, Went

(* A variable, wherever it is. Reading one is counted as the value it      *)
(* should be.                                                              *)
LEMMA FitsVariable ==
  ASSUME NEW c, NEW x \in Shapes, NEW how \in {"GET", "SET", "ASSIGN"}, Fits(c, x),
         NEW where \in {"LOCAL", "UPVALUE", "GLOBAL"}, NEW op,
         op = (CASE where = "LOCAL" -> IF how = "GET" THEN "GET_LOCAL" ELSE "SET_LOCAL"
                 [] where = "UPVALUE" -> IF how = "GET" THEN "GET_UPVALUE" ELSE "SET_UPVALUE"
                 [] OTHER -> IF how = "GET" THEN "GET_GLOBAL" ELSE "SET_GLOBAL"),
         NEW d, d = (IF where = "GLOBAL" THEN AddName(Emit(c, op, <<NameIndex(c)>>, 0)) ELSE Emit(c, op, << 0 >>, 0))
  PROVE Fits(Owe(d, IF how = "SET" THEN -1 ELSE 0),
             Over(x, x.over + (IF how = "ASSIGN" THEN 0 ELSE 1)))
<1> DEFINE e == Effect(op, 0)
           k == IF how = "SET" THEN -1 ELSE 0
           j == IF how = "ASSIGN" THEN 0 ELSE 1
<1>1. op \in {"GET_LOCAL", "SET_LOCAL", "GET_UPVALUE", "SET_UPVALUE", "GET_GLOBAL", "SET_GLOBAL"}
  OBVIOUS
<1>2. op \in Plain \cap OneByte
  BY <1>1, Emitted DEF OneByte
<1>3. e = (IF how = "GET" THEN 1 ELSE 0)
  BY DEF Effect, Pushes, Pops
<1>4. e \in Int /\ k \in Int /\ e - k = j
  BY <1>3
<1>5. x.over \in Int /\ 0 \in 0..255
  BY FitsParts
<1> HIDE DEF e, k, j
<1>6. Fits(d, Over(x, x.over + e))
  <2>1. Fits(AddName(Emit(c, op, <<NameIndex(c)>>, 0)), Over(x, x.over + e))
    BY <1>2, <1>4, FitsNamed, Zenon DEF e
  <2>2. Fits(Emit(c, op, <<0>>, 0), Over(x, x.over + e))
    <3>1. Effect(op, 0) = e
      BY DEF e
    <3> HIDE DEF e
    <3>2. 0 \in 0..255
      BY <1>5
    <3>. QED BY <1>2, <1>4, <3>1, <3>2, FitsByte
  <2>. QED BY <2>1, <2>2
<1> DEFINE v == x.over
<1>7. v + e \in Int /\ (v + e) - k = v + j
  <2>1. v \in Int
    BY <1>5
  <2> HIDE DEF v
  <2>. QED BY <1>4, <2>1
<1> HIDE DEF v
<1>8. Fits(Owe(d, k), Over(x, (v + e) - k))
  BY <1>4, <1>6, <1>7, OweOver DEF v
<1>9. Fits(Owe(d, k), Over(x, v + j))
  BY <1>7, <1>8
<1>. QED BY <1>9 DEF k, v, j

(* A step "variable" leaves a value, or what was assigned.                 *)
LEMMA VariableKept == ASSUME IInv, NamedVariable PROVE IInv'
<1> DEFINE how == Arg
           c == Now
           Chosen(where) ==
             CASE where = "LOCAL" -> IF how = "GET" THEN "GET_LOCAL" ELSE "SET_LOCAL"
               [] where = "UPVALUE" -> IF how = "GET" THEN "GET_UPVALUE" ELSE "SET_UPVALUE"
               [] OTHER -> IF how = "GET" THEN "GET_GLOBAL" ELSE "SET_GLOBAL"
           Made(where) == IF where = "GLOBAL" THEN AddName(Emit(c, Chosen(where), <<NameIndex(c)>>, 0))
                          ELSE Emit(c, Chosen(where), <<0>>, 0)
<1>1. /\ ended = "compiling" /\ todo # <<>> /\ Head(todo).do = "variable"
      /\ todo' = Tail(todo) /\ program' = program /\ ended' = ended
  BY DEF NamedVariable, At, GoOn
<1>2. PICK where \in {"LOCAL", "UPVALUE", "GLOBAL"} :
        ctxs' = [ctxs EXCEPT ![Len(ctxs)] = Owe(Made(where), IF how = "SET" THEN -1 ELSE 0)]
  BY Zenon DEF NamedVariable, SetNow
<1>3. PICK f, g \in Frames : Move(ctxs, todo, f, g)
  BY <1>1, Finds
<1> DEFINE x == f.top
           y == g.top
           s == Head(todo)
<1>4. x \in Shapes /\ Fits(c, x) /\ x.over \in Int /\ (Rises(x, s, y) \/ Scopes(x, s, y) \/ Jumps(x, s, y))
  BY <1>3, MoveParts DEF Now
<1> HIDE DEF x, y, s
<1>5. s.do = "variable" /\ s.arg = how
  BY <1>1 DEF s, Arg
<1> HIDE DEF c, how
<1>6. how \in {"GET", "SET", "ASSIGN"} /\ y = Over(x, x.over + (IF how = "ASSIGN" THEN 0 ELSE 1))
  <2>1. (how \in {"GET", "SET"} /\ y = Over(x, x.over + 1)) \/ (how = "ASSIGN" /\ y = x)
    <3>1. ~Scopes(x, s, y)
      BY <1>5 DEF Scopes
    <3>2. ~Jumps(x, s, y)
      BY <1>5 DEF Jumps
    <3>. QED BY <1>4, <1>5, <3>1, <3>2 DEF Rises
  <2>2. Over(x, x.over + 0) = x
    BY <1>4 DEF Over, Shape, Shapes
  <2>. QED BY <2>1, <2>2
<1> DEFINE op == Chosen(where)
           m == Made(where)
           d == Owe(m, IF how = "SET" THEN -1 ELSE 0)
<1>7. m = (IF where = "GLOBAL" THEN AddName(Emit(c, op, <<NameIndex(c)>>, 0)) ELSE Emit(c, op, <<0>>, 0))
  OBVIOUS
<1>8. op = (CASE where = "LOCAL" -> IF how = "GET" THEN "GET_LOCAL" ELSE "SET_LOCAL"
              [] where = "UPVALUE" -> IF how = "GET" THEN "GET_UPVALUE" ELSE "SET_UPVALUE"
              [] OTHER -> IF how = "GET" THEN "GET_GLOBAL" ELSE "SET_GLOBAL")
  OBVIOUS
<1>9. ctxs' = [ctxs EXCEPT ![Len(ctxs)] = d]
  BY <1>2
<1> HIDE DEF m, op, Chosen, Made
<1>10. Fits(d, Over(x, x.over + (IF how = "ASSIGN" THEN 0 ELSE 1)))
  BY <1>4, <1>6, <1>7, <1>8, FitsVariable
<1> HIDE DEF d
<1>11. Fits(d, g.top)
  BY <1>6, <1>10 DEF y
<1>12. Held(ctxs', todo')
  BY <1>1, <1>3, <1>9, <1>11, Moved, Zenon
<1>. QED BY <1>1, <1>12, Went

(* A shape is made of its parts.                                           *)
LEMMA ShapeSame == \A x \in Shapes : x = Shape(x.marks, x.depth, x.pending, x.over)
BY DEF Shapes, Shape

(* The locals of a scope go one by one, then the scope.                    *)
LEMMA ScopeKept == ASSUME IInv, LeaveScope PROVE IInv'
<1> DEFINE c == Now
<1>1. /\ ended = "compiling" /\ todo # <<>> /\ Head(todo).do = "endscope"
      /\ program' = program /\ ended' = ended
  BY DEF LeaveScope, At, GoOn
<1>2. PICK f, g \in Frames : Move(ctxs, todo, f, g)
  BY <1>1, Finds
<1> DEFINE x == f.top
           y == g.top
           s == Head(todo)
<1>3. x \in Shapes /\ Fits(c, x) /\ (Rises(x, s, y) \/ Scopes(x, s, y) \/ Jumps(x, s, y))
  BY <1>2, MoveParts DEF Now
<1>4. s.do = "endscope"
  BY <1>1
<1> HIDE DEF x, y, s
<1>5. x.depth > 0 /\ x.pending = 0 /\ y = Shape(x.marks, x.depth - 1, 0, x.over)
  <2>1. ~Rises(x, s, y)
    BY <1>4 DEF Rises
  <2>2. ~Jumps(x, s, y)
    BY <1>4 DEF Jumps
  <2>. QED BY <1>3, <1>4, <2>1, <2>2 DEF Scopes
<1>6. CASE c.locals # <<>> /\ Last(c.locals) > c.depth - 1
  <2>1. todo' = todo
    BY <1>6 DEF LeaveScope
  <2>2. PICK op \in {"POP", "CLOSE_UPVALUE"} :
          ctxs' = [ctxs EXCEPT ![Len(ctxs)] = [Emit(c, op, <<>>, 0) EXCEPT !.locals = Front(@)]]
    BY <1>6 DEF LeaveScope, SetNow
  <2> HIDE DEF c
  <2> DEFINE d == [Emit(c, op, <<>>, 0) EXCEPT !.locals = Front(@)]
  <2>3. Fits(d, x)
    BY <1>3, <1>5, <1>6, FitsPop, Zenon
  <2> HIDE DEF d
  <2>4. Framed(ctxs, f) /\ Ends(f, todo)
    BY <1>2 DEF Move
  <2>5. Held([ctxs EXCEPT ![Len(ctxs)] = d], todo)
    BY <1>3, <2>3, <2>4, Stayed, Zenon DEF x
  <2>6. ctxs' = [ctxs EXCEPT ![Len(ctxs)] = d]
    BY <2>2 DEF d
  <2>7. Held(ctxs', todo')
    BY <2>1, <2>5, <2>6
  <2>. QED BY <1>1, <2>7, Went
<1>7. CASE ~(c.locals # <<>> /\ Last(c.locals) > c.depth - 1)
  <2> DEFINE d == [c EXCEPT !.depth = @ - 1]
  <2>1. ctxs' = [ctxs EXCEPT ![Len(ctxs)] = d] /\ todo' = Tail(todo)
    BY <1>7 DEF LeaveScope, SetNow, GoOn
  <2> HIDE DEF c
  <2>2. Fits(d, Shape(x.marks, x.depth - 1, 0, x.over))
    BY <1>3, <1>5, <1>7, FitsEnd
  <2> HIDE DEF d
  <2>3. Fits(d, g.top)
    BY <1>5, <2>2 DEF y
  <2>4. Held(ctxs', todo')
    BY <1>2, <2>1, <2>3, Moved, Zenon
  <2>. QED BY <1>1, <2>4, Went
<1>. QED BY <1>6, <1>7

(* A context that fits does so whether a local waits for its value or not. *)
LEMMA Unpended ==
  ASSUME NEW c, NEW x \in Shapes, NEW p \in {0, 1}, Fits(c, Shape(x.marks, x.depth, p, x.over))
  PROVE Fits(c, x)
BY ShapeParts DEF Fits

(* A shape with the height that it has is itself.                          *)
LEMMA OverSame == \A x \in Shapes : Over(x, x.over) = x
BY DEF Over, Shape, Shapes

(* A name is declared.                                                     *)
LEMMA DeclareKept == ASSUME IInv, DeclareVariable PROVE IInv'
<1> DEFINE c == Now
           e == [c EXCEPT !.locals = Append(@, -1)]
           k == IF Arg = "unset" THEN -1 ELSE 0
           d == IF c.depth = 0 THEN c ELSE Owe(e, k)
<1>1. /\ ended = "compiling" /\ todo # <<>> /\ Head(todo).do = "declare"
      /\ ctxs' = [ctxs EXCEPT ![Len(ctxs)] = d] /\ todo' = Tail(todo) /\ program' = program /\ ended' = ended
  BY DEF DeclareVariable, At, SetNow, GoOn
<1>2. PICK f, g \in Frames : Move(ctxs, todo, f, g)
  BY <1>1, Finds
<1> DEFINE x == f.top
           y == g.top
           s == Head(todo)
           z == Shape(x.marks, x.depth, 1, x.over - 1)
           v == Shape(x.marks, x.depth, 0, x.over - 1 - k)
<1>3. x \in Shapes /\ Fits(c, x) /\ (Rises(x, s, y) \/ Scopes(x, s, y) \/ Jumps(x, s, y))
  BY <1>2, MoveParts DEF Now
<1>4. s.do = "declare" /\ s.arg = Arg
  BY <1>1 DEF Arg
<1> HIDE DEF x, y, s, c
<1>5. /\ x.pending = 0
      /\ s.arg = "unset" => x.depth > 0 /\ y = x
      /\ s.arg # "unset" => y = (IF x.depth = 0 THEN x ELSE z)
  <2>1. ~Rises(x, s, y)
    BY <1>4 DEF Rises
  <2>2. ~Jumps(x, s, y)
    BY <1>4 DEF Jumps
  <2>. QED BY <1>3, <1>4, <2>1, <2>2 DEF Scopes
<1>6. /\ c.depth = x.depth /\ x.depth \in Nat /\ x.over \in Int /\ x.marks \in Seq(OpenMarks)
  BY <1>3, FitsParts
<1>7. Fits(e, z)
  BY <1>3, <1>5, FitsDeclare
<1> HIDE DEF e
<1>8. z \in Shapes /\ z.marks = x.marks /\ z.depth = x.depth /\ z.pending = 1 /\ z.over = x.over - 1
  <2> DEFINE o == x.over - 1
  <2>1. o \in Int /\ 1 \in {0, 1}
    BY <1>6
  <2> HIDE DEF o
  <2>2. Shape(x.marks, x.depth, 1, o) \in Shapes
    BY <1>6, <2>1, ShapeType, Zenon
  <2>. QED BY <2>2, ShapeParts DEF o
<1>9. CASE s.arg = "unset"
  <2>1. k = -1 /\ -1 \in Int
    BY <1>4, <1>9
  <2>2. Fits(Owe(e, -1), Over(z, z.over - (-1)))
    BY <1>7, <1>8, <2>1, FitsOwe, Zenon
  <2>3. z.over - (-1) = x.over
    BY <1>6, <1>8
  <2>4. Over(z, x.over) = Shape(x.marks, x.depth, 1, x.over)
    BY <1>8 DEF Over
  <2>5. Fits(Owe(e, -1), Shape(x.marks, x.depth, 1, x.over))
    BY <2>2, <2>3, <2>4
  <2>6. Fits(Owe(e, -1), x)
    BY <1>3, <1>6, <2>5, Unpended
  <2>7. d = Owe(e, -1) /\ y = x
    BY <1>5, <1>6, <1>9, <2>1
  <2>. QED BY <1>1, <1>2, <2>6, <2>7, Moved, Went, Zenon DEF y
<1>10. CASE s.arg # "unset"
  <2>1. k = 0 /\ 0 \in Int
    BY <1>4, <1>10
  <2>2. Fits(Owe(e, 0), Over(z, z.over - 0))
    BY <1>7, <1>8, <2>1, FitsOwe, Zenon
  <2>3. z.over - 0 = z.over
    BY <1>6, <1>8
  <2>4. Over(z, z.over) = z
    BY <1>8, OverSame
  <2>5. Fits(Owe(e, 0), z)
    BY <2>2, <2>3, <2>4
  <2> HIDE DEF z
  <2>6. Fits(d, y)
    BY <1>3, <1>5, <1>6, <1>10, <2>1, <2>5
  <2>7. Fits(d, g.top)
    BY <2>6 DEF y
  <2> HIDE DEF d
  <2>8. Held(ctxs', todo')
    BY <1>1, <1>2, <2>7, Moved, Zenon
  <2>. QED BY <1>1, <2>8, Went
<1>. QED BY <1>9, <1>10

(* A name of a scope becomes the value on the stack.                       *)
LEMMA FitsScoped ==
  ASSUME NEW c, NEW x \in Shapes, NEW e \in Int, Fits(c, x), NEW d,
         d = (IF c.locals = <<>> THEN c ELSE [c EXCEPT !.locals[Len(c.locals)] = c.depth])
  PROVE Fits(Owe(d, e), Shape(x.marks, x.depth, 0, x.over - e))
<1> DEFINE y == Shape(x.marks, x.depth, 0, x.over)
<1>1. /\ x.marks \in Seq(OpenMarks) /\ x.depth \in Nat /\ x.over \in Int
      /\ c \in Contexts /\ c.depth = x.depth
      /\ c.account.height = Len(c.locals) + c.account.owed + x.over
  BY FitsParts
<1>2. y \in Shapes
  <2>1. 0 \in {0, 1}
    OBVIOUS
  <2>. QED BY <1>1, <2>1, ShapeType
<1>3. y.marks = x.marks /\ y.depth = x.depth /\ y.pending = 0 /\ y.over = x.over
  BY ShapeParts
<1>4. Fits(d, y)
  <2> HIDE DEF y
  <2>1. CASE c.locals = <<>>
    <3>1. Alike(c, c)
      BY <1>1 DEF Alike
    <3>2. Fits(c, y)
      BY <1>1, <1>2, <1>3, <3>1, FitsAlike
    <3>. QED BY <2>1, <3>2
  <2>2. CASE c.locals # <<>>
    <3>1. Fits([c EXCEPT !.locals[Len(c.locals)] = c.depth], y)
      BY <2>2, FitsPlace, Zenon DEF y
    <3>. QED BY <2>2, <3>1
  <2>. QED BY <2>1, <2>2
<1> HIDE DEF y
<1>5. Fits(Owe(d, e), Over(y, y.over - e))
  BY <1>2, <1>4, FitsOwe
<1>. QED BY <1>3, <1>5 DEF Over

(* A name is defined.                                                      *)
Placing(c) == IF c.locals = <<>> THEN c ELSE [c EXCEPT !.locals[Len(c.locals)] = c.depth]
Defining(c, of) ==
  IF c.depth = 0 THEN Emit(c, "DEFINE_GLOBAL", <<LastIndex(c)>>, 0)
  ELSE Owe(Placing(c), IF of = "func" THEN 1 ELSE 0)

(* The context fits as the step "define" says.                             *)
LEMMA FitsDefine ==
  ASSUME NEW c, NEW x \in Shapes, NEW y, NEW s, Fits(c, x), Scopes(x, s, y), s.do = "define"
  PROVE Fits(Defining(c, s.arg), y)
<1> DEFINE e == Placing(c)
           d == Defining(c, s.arg)
<1> HIDE DEF e, d
<1>1. \/ (s.arg = "func" \/ x.depth = 0) /\ x.pending = 0 /\ y = Over(x, x.over - 1)
      \/ s.arg # "func" /\ x.depth > 0 /\ x.pending = 1 /\ y = Shape(x.marks, x.depth, 0, x.over)
  BY DEF Scopes
<1>2. c.depth = x.depth /\ x.over \in Int /\ x.depth \in Nat
  BY FitsParts
<1>3. CASE c.depth = 0
  <2>1. y = Over(x, x.over - 1)
    BY <1>1, <1>2, <1>3
  <2>2. "DEFINE_GLOBAL" \in Plain \cap OneByte
    BY Emitted DEF OneByte
  <2>3. Effect("DEFINE_GLOBAL", 0) = -1 /\ -1 \in Int
    BY DEF Effect, Pushes, Pops
  <2>4. LastIndex(c) \in 0..255
    BY IndexType
  <2> DEFINE w == Emit(c, "DEFINE_GLOBAL", <<LastIndex(c)>>, 0)
             i == LastIndex(c)
             k == -1
  <2>5. Fits(w, Over(x, x.over + k))
    <3>1. i \in 0..255 /\ k \in Int /\ Effect("DEFINE_GLOBAL", 0) = k
      BY <2>3, <2>4, Zenon
    <3> HIDE DEF i, k
    <3>2. Fits(Emit(c, "DEFINE_GLOBAL", <<i>>, 0), Over(x, x.over + k))
      BY <2>2, <3>1, FitsByte, Zenon
    <3>. QED BY <3>2 DEF i
  <2>6. x.over + k = x.over - 1
    BY <1>2
  <2>7. d = w
    BY <1>3 DEF d, Defining
  <2> HIDE DEF w, k
  <2>. QED BY <2>1, <2>5, <2>6, <2>7 DEF d
<1>4. CASE c.depth # 0
  <2> DEFINE k == IF s.arg = "func" THEN 1 ELSE 0
  <2>1. k \in Int
    OBVIOUS
  <2>2. d = Owe(e, k)
    BY <1>4 DEF d, e, Defining
  <2>3. x.over - k = (IF s.arg = "func" THEN x.over - 1 ELSE x.over)
    BY <1>2
  <2> HIDE DEF k
  <2>4. Fits(Owe(e, k), Shape(x.marks, x.depth, 0, x.over - k))
    BY <2>1, FitsScoped DEF e, Placing
  <2>5. y = Shape(x.marks, x.depth, 0, x.over - k)
    BY <1>1, <1>2, <1>4, <2>3 DEF Over
  <2>. QED BY <2>2, <2>4, <2>5 DEF d
<1>. QED BY <1>3, <1>4

(* A step "define" takes the value, or keeps it as a local.                *)
LEMMA DefineKept == ASSUME IInv, DefineVariable PROVE IInv'
<1> DEFINE b == Now
           c == IF Arg = "var" THEN AddName(b) ELSE b
           d == Defining(c, Arg)
<1>1. /\ ended = "compiling" /\ todo # <<>> /\ Head(todo).do = "define"
      /\ ctxs' = [ctxs EXCEPT ![Len(ctxs)] = d] /\ todo' = Tail(todo) /\ program' = program /\ ended' = ended
  BY DEF DefineVariable, At, SetNow, GoOn, Defining, Placing
<1>2. PICK f, g \in Frames : Move(ctxs, todo, f, g)
  BY <1>1, Finds
<1> DEFINE x == f.top
           y == g.top
           s == Head(todo)
<1>3. x \in Shapes /\ Fits(b, x) /\ (Rises(x, s, y) \/ Scopes(x, s, y) \/ Jumps(x, s, y))
  BY <1>2, MoveParts DEF Now
<1>4. s.do = "define" /\ s.arg = Arg
  BY <1>1 DEF Arg
<1> HIDE DEF x, y, s, b
<1>5. Scopes(x, s, y)
  <2>1. ~Rises(x, s, y)
    BY <1>4 DEF Rises
  <2>2. ~Jumps(x, s, y)
    BY <1>4 DEF Jumps
  <2>. QED BY <1>3, <2>1, <2>2
<1>6. Fits(c, x)
  <2>1. Fits(AddName(b), x)
    BY <1>3, FitsName
  <2>. QED BY <1>3, <2>1
<1> HIDE DEF c
<1>7. Fits(Defining(c, s.arg), y)
  BY <1>3, <1>4, <1>5, <1>6, FitsDefine
<1>8. Fits(d, y)
  BY <1>4, <1>7
<1> HIDE DEF d
<1>9. Fits(d, g.top)
  BY <1>8 DEF y
<1>10. Held(ctxs', todo')
  BY <1>1, <1>2, <1>9, Moved, Zenon
<1>. QED BY <1>1, <1>10, Went

(* A jump is written open.                                                 *)
LEMMA JumpKept == ASSUME IInv, EmitJump PROVE IInv'
<1> DEFINE s == Head(todo)
           b == Now
<1>0. PICK kind \in DOMAIN Jump :
        /\ ended = "compiling" /\ todo # <<>> /\ s.do = kind
        /\ ctxs' = [ctxs EXCEPT ![Len(ctxs)] = Jumped(Owe(b, Stays[kind]), Jump[kind])]
        /\ todo' = Tail(todo) /\ program' = program /\ ended' = ended
  BY DEF EmitJump, At, GoOn, SetNow, Jumped
<1> DEFINE k == Stays[kind]
           op == Jump[kind]
           c == Owe(b, k)
           d == Jumped(c, op)
<1>1. /\ ended = "compiling" /\ todo # <<>> /\ todo' = Tail(todo) /\ program' = program /\ ended' = ended
      /\ ctxs' = [ctxs EXCEPT ![Len(ctxs)] = d]
  BY <1>0
<1>2. /\ op \in JumpOps /\ k \in Int /\ kind \in {"if", "exit", "skip"}
      /\ k = (IF kind = "if" THEN 1 ELSE IF kind = "exit" THEN 2 ELSE 0)
  BY DEF Jump, Stays, JumpOps
<1>3. PICK f, g \in Frames : Move(ctxs, todo, f, g)
  <2>1. s.do \notin {"enter", "leave", "halt"}
    BY <1>0, <1>2
  <2>. QED BY <1>1, <2>1, Finds
<1> DEFINE x == f.top
           y == g.top
           z == Over(x, x.over - k)
<1>4. x \in Shapes /\ Fits(b, x) /\ x.over \in Int /\ (Rises(x, s, y) \/ Scopes(x, s, y) \/ Jumps(x, s, y))
  BY <1>3, MoveParts DEF Now
<1> HIDE DEF x, y, s, b
<1>5. y = Shape(Append(x.marks, OpenMark(1, x.over - k)), x.depth, x.pending, x.over - k)
  <2>1. ~Rises(x, s, y)
    BY <1>0, <1>2 DEF Rises
  <2>2. ~Scopes(x, s, y)
    BY <1>0, <1>2 DEF Scopes
  <2>3. Jumps(x, s, y)
    BY <1>4, <2>1, <2>2
  <2>4. x.over - 0 = x.over
    BY <1>4
  <2>. QED BY <1>0, <1>2, <2>3, <2>4 DEF Jumps
<1> HIDE DEF k, op
<1>6. Fits(c, z) /\ z \in Shapes
  <2>1. x.over - k \in Int
    BY <1>2, <1>4
  <2>2. Over(x, x.over - k) \in Shapes
    BY <1>4, <2>1, ShapeType
  <2>3. Fits(Owe(b, k), Over(x, x.over - k))
    BY <1>2, <1>4, FitsOwe
  <2>. QED BY <2>2, <2>3
<1>7. y = Shape(Append(z.marks, OpenMark(1, z.over)), z.depth, z.pending, z.over)
  BY <1>5, OverParts
<1> HIDE DEF c, z
<1>9. Fits(d, Shape(Append(z.marks, OpenMark(1, z.over)), z.depth, z.pending, z.over))
  BY <1>2, <1>6, FitsJump
<1> HIDE DEF d
<1>10. Fits(d, g.top)
  BY <1>7, <1>9 DEF y
<1>11. Held(ctxs', todo')
  BY <1>1, <1>3, <1>10, Moved, Zenon
<1>. QED BY <1>1, <1>11, Went

(* A loop's start is marked.                                               *)
LEMMA StartKept == ASSUME IInv, StartLoop PROVE IInv'
<1> DEFINE c == Now
           d == [c EXCEPT !.marks = Append(@, Mark(c))]
<1>1. /\ ended = "compiling" /\ todo # <<>> /\ Head(todo).do = "start"
      /\ ctxs' = [ctxs EXCEPT ![Len(ctxs)] = d] /\ todo' = Tail(todo) /\ program' = program /\ ended' = ended
  BY DEF StartLoop, At, SetNow, GoOn
<1>2. PICK f, g \in Frames : Move(ctxs, todo, f, g)
  BY <1>1, Finds
<1> DEFINE x == f.top
           y == g.top
           s == Head(todo)
<1>3. x \in Shapes /\ Fits(c, x) /\ (Rises(x, s, y) \/ Scopes(x, s, y) \/ Jumps(x, s, y))
  BY <1>2, MoveParts DEF Now
<1>4. s.do = "start"
  BY <1>1
<1> HIDE DEF x, y, s, c
<1>5. y = Shape(Append(x.marks, OpenMark(0, x.over)), x.depth, x.pending, x.over)
  <2>1. ~Rises(x, s, y)
    BY <1>4 DEF Rises
  <2>2. ~Scopes(x, s, y)
    BY <1>4 DEF Scopes
  <2>3. Jumps(x, s, y)
    BY <1>3, <2>1, <2>2
  <2>. QED BY <1>4, <2>3 DEF Jumps
<1>6. Fits(d, Shape(Append(x.marks, OpenMark(0, x.over)), x.depth, x.pending, x.over))
  BY <1>3, FitsStart
<1> HIDE DEF d
<1>7. Fits(d, g.top)
  BY <1>5, <1>6 DEF y
<1>8. Held(ctxs', todo')
  BY <1>1, <1>2, <1>7, Moved, Zenon
<1>. QED BY <1>1, <1>8, Went

(* As many marks are open as the frame says.                               *)
LEMMA MarksOpen == ASSUME NEW c, NEW x, Fits(c, x) PROVE Len(c.marks) = Len(x.marks)
BY DEF Fits, Jumping

(* The first branch ends, the other one begins.                            *)
LEMMA ElseKept == ASSUME IInv, PatchElse PROVE IInv'
<1> DEFINE c == Now
           m == c.marks[Len(c.marks) - 1]
           r == Resume(PatchJump(c, m.at), m)
           d == WithMarks(r, LastButOne(r.marks))
<1>1. ended = "compiling" /\ todo # <<>> /\ Head(todo).do = "else"
  BY DEF PatchElse, At
<1>2. CASE ~CanPatch(c, m.at)
  <2>1. ended' = "rejected" /\ ctxs' = ctxs /\ todo' = todo /\ program' = program
    BY <1>2 DEF PatchElse, Reject
  <2>. QED BY <2>1, Refused
<1>3. CASE CanPatch(c, m.at)
  <2>1. ctxs' = [ctxs EXCEPT ![Len(ctxs)] = d] /\ todo' = Tail(todo) /\ program' = program /\ ended' = ended
    BY <1>3, Zenon DEF PatchElse, SetNow, GoOn, WithMarks, LastButOne, Last
  <2>2. PICK f, g \in Frames : Move(ctxs, todo, f, g)
    BY <1>1, Finds
  <2> DEFINE x == f.top
             y == g.top
             s == Head(todo)
             l == Len(x.marks)
  <2>3. x \in Shapes /\ Fits(c, x) /\ (Rises(x, s, y) \/ Scopes(x, s, y) \/ Jumps(x, s, y))
    BY <2>2, MoveParts DEF Now
  <2>4. s.do = "else"
    BY <1>1
  <2> HIDE DEF x, y, s, c
  <2>5. /\ l > 1 /\ x.marks[l - 1].jump = 1
        /\ y = Shape(Append(SubSeq(x.marks, 1, l - 2), x.marks[l]), x.depth, x.pending, x.marks[l - 1].over)
    <3>1. ~Rises(x, s, y)
      BY <2>4 DEF Rises
    <3>2. ~Scopes(x, s, y)
      BY <2>4 DEF Scopes
    <3>3. Jumps(x, s, y)
      BY <2>3, <3>1, <3>2
    <3>. QED BY <2>4, <3>3, Zenon DEF Jumps
  <2>6. y = Shape(LastButOne(x.marks), x.depth, x.pending, x.marks[l - 1].over)
    BY <2>5, Zenon DEF LastButOne
  <2>7. m = c.marks[l - 1]
    <3>1. Len(c.marks) = l
      BY <2>3, MarksOpen
    <3>. QED BY <3>1
  <2>8. l > 1 /\ x.marks[l - 1].jump = 1
    BY <2>5
  <2>9. r = Resume(PatchJump(c, m.at), m)
    OBVIOUS
  <2> HIDE DEF r, m, l
  <2>10. Fits(WithMarks(r, LastButOne(r.marks)), Shape(LastButOne(x.marks), x.depth, x.pending, x.marks[l - 1].over))
    BY <1>3, <2>3, <2>7, <2>8, <2>9, FitsElse DEF l
  <2> HIDE DEF d
  <2>11. Fits(d, g.top)
    BY <2>6, <2>10 DEF y, d
  <2>12. Held(ctxs', todo')
    BY <2>1, <2>2, <2>11, Moved, Zenon
  <2>. QED BY <1>1, <2>1, <2>12, Went
<1>. QED BY <1>2, <1>3

(* Both branches end.                                                      *)
LEMMA JoinKept == ASSUME IInv, PatchEnd PROVE IInv'
<1> DEFINE c == Now
           m == Last(c.marks)
           Left(d) == [d EXCEPT !.marks = Front(@)]
<1>1. ended = "compiling" /\ todo # <<>> /\ Head(todo).do = "join"
  BY DEF PatchEnd, At
<1>2. CASE ~CanPatch(c, m.at)
  <2>1. ended' = "rejected" /\ ctxs' = ctxs /\ todo' = todo /\ program' = program
    BY <1>2 DEF PatchEnd, Reject, LastMark
  <2>. QED BY <2>1, Refused
<1>3. CASE CanPatch(c, m.at)
  <2>1. todo' = Tail(todo) /\ program' = program /\ ended' = ended
    BY <1>3 DEF PatchEnd, GoOn, LastMark
  <2>2. PICK d \in {PatchJump(c, m.at), Resume(PatchJump(c, m.at), m)} : ctxs' = [ctxs EXCEPT ![Len(ctxs)] = Left(d)]
    BY <1>3 DEF PatchEnd, SetNow, LastMark
  <2>3. PICK f, g \in Frames : Move(ctxs, todo, f, g)
    BY <1>1, Finds
  <2> DEFINE x == f.top
             y == g.top
             s == Head(todo)
             l == Len(x.marks)
             e == Left(d)
  <2>4. x \in Shapes /\ Fits(c, x) /\ (Rises(x, s, y) \/ Scopes(x, s, y) \/ Jumps(x, s, y))
    BY <2>3, MoveParts DEF Now
  <2>5. s.do = "join"
    BY <1>1
  <2> HIDE DEF x, y, s, c
  <2>6. /\ l > 0 /\ x.marks[l].jump = 1 /\ x.marks[l].over = x.over
        /\ y = Shape(SubSeq(x.marks, 1, l - 1), x.depth, x.pending, x.over)
    <3>1. ~Rises(x, s, y)
      BY <2>5 DEF Rises
    <3>2. ~Scopes(x, s, y)
      BY <2>5 DEF Scopes
    <3>3. Jumps(x, s, y)
      BY <2>4, <3>1, <3>2
    <3>. QED BY <2>5, <3>3, Zenon DEF Jumps
  <2>7. l > 0 /\ x.marks[l].jump = 1 /\ x.marks[l].over = x.over /\ m = Last(c.marks) /\ l = Len(x.marks)
    BY <2>6
  <2> HIDE DEF m, l
  <2>8. Fits([d EXCEPT !.marks = Front(@)], Shape(SubSeq(x.marks, 1, l - 1), x.depth, x.pending, x.over))
    BY <1>3, <2>2, <2>4, <2>7, FitsJoin, Zenon
  <2>9. Fits(e, Shape(SubSeq(x.marks, 1, l - 1), x.depth, x.pending, x.over))
    BY <2>8
  <2>10. ctxs' = [ctxs EXCEPT ![Len(ctxs)] = e]
    BY <2>2
  <2> HIDE DEF e
  <2>11. Fits(e, g.top)
    BY <2>6, <2>9 DEF y
  <2>12. Held(ctxs', todo')
    BY <2>1, <2>3, <2>10, <2>11, Moved, Zenon
  <2>. QED BY <1>1, <2>1, <2>12, Went
<1>. QED BY <1>2, <1>3

(* A loop ends that has no condition.                                      *)
LEMMA ForeverKept == ASSUME IInv, EndLoop, Amount = 0 PROVE IInv'
<1> DEFINE c == Now
           start == c.marks[Len(c.marks)].at
           w == EmitLoop(c, start)
           d == WithMarks(w, SubSeq(w.marks, 1, Len(w.marks) - 0 - 1))
<1>1. ended = "compiling" /\ todo # <<>> /\ Head(todo).do = "loop"
  BY DEF EndLoop, At
<1>2. PICK f, g \in Frames : Move(ctxs, todo, f, g)
  BY <1>1, Finds
<1> DEFINE x == f.top
           y == g.top
           s == Head(todo)
           l == Len(x.marks)
<1>3. x \in Shapes /\ Fits(c, x) /\ (Rises(x, s, y) \/ Scopes(x, s, y) \/ Jumps(x, s, y))
  BY <1>2, MoveParts DEF Now
<1>4. s.do = "loop" /\ s.n = 0
  BY <1>1 DEF Amount
<1>5. Len(c.marks) - Amount = Len(c.marks)
  <2>1. Len(c.marks) \in Nat
    BY <1>3, MarksOpen, FitsParts
  <2>. QED BY <2>1
<1>6. CASE ~CanLoop(c, start)
  <2>1. ended' = "rejected" /\ ctxs' = ctxs /\ todo' = todo /\ program' = program
    BY <1>5, <1>6, Zenon DEF EndLoop, Reject
  <2>. QED BY <2>1, Refused
<1>7. CASE CanLoop(c, start)
  <2>1. ~(Amount > 0)
    OBVIOUS
  <2>2. \/ ended' = "rejected" /\ ctxs' = ctxs /\ todo' = todo /\ program' = program
        \/ ctxs' = [ctxs EXCEPT ![Len(ctxs)] = d] /\ todo' = Tail(todo) /\ program' = program /\ ended' = ended
    BY <1>5, <1>7, <2>1, Zenon DEF EndLoop, SetNow, GoOn, WithMarks, Reject
  <2> HIDE DEF x, y, s, c
  <2>3. l > 0 /\ x.marks[l].jump = 0 /\ x.over = 0 /\ y = Shape(SubSeq(x.marks, 1, l - 1), x.depth, x.pending, 0)
    <3>1. ~Rises(x, s, y)
      BY <1>4 DEF Rises
    <3>2. ~Scopes(x, s, y)
      BY <1>4 DEF Scopes
    <3>3. Jumps(x, s, y)
      BY <1>3, <3>1, <3>2
    <3>4. s.n # 1
      BY <1>4
    <3>. QED BY <1>4, <3>3, <3>4, Zenon DEF Jumps
  <2>4. l \in 1..Len(x.marks) /\ l = Len(x.marks) /\ start = c.marks[l].at
    <3>1. Len(c.marks) = l
      BY <1>3, MarksOpen
    <3>2. l \in Nat
      BY <1>3, FitsParts
    <3>. QED BY <2>3, <3>1, <3>2
  <2>5. l > 0 /\ x.marks[l].jump = 0
    BY <2>3
  <2> HIDE DEF l, start
  <2>6. Fits(w, x)
    BY <1>3, <1>7, <2>4, <2>5, FitsBack
  <2> HIDE DEF w
  <2>7. Fits(WithMarks(w, SubSeq(w.marks, 1, l - 1)), Shape(SubSeq(x.marks, 1, l - 1), x.depth, x.pending, x.over))
    BY <1>3, <2>4, <2>5, <2>6, FitsForever
  <2>8. Len(w.marks) - 0 - 1 = l - 1
    <3>1. Len(w.marks) = l
      BY <2>6, MarksOpen DEF l
    <3>. QED BY <2>4, <3>1
  <2>9. Fits(d, y)
    <3>1. d = WithMarks(w, SubSeq(w.marks, 1, l - 1))
      BY <2>8, Zenon
    <3>2. y = Shape(SubSeq(x.marks, 1, l - 1), x.depth, x.pending, x.over)
      BY <2>3, Zenon
    <3>. QED BY <2>7, <3>1, <3>2, Zenon
  <2> HIDE DEF d
  <2>10. Fits(d, g.top)
    BY <2>9 DEF y
  <2>11. CASE ended' = "rejected" /\ ctxs' = ctxs /\ todo' = todo /\ program' = program
    BY <2>11, Refused
  <2>12. CASE ctxs' = [ctxs EXCEPT ![Len(ctxs)] = d] /\ todo' = Tail(todo) /\ program' = program /\ ended' = ended
    <3>1. Held(ctxs', todo')
      BY <1>2, <2>10, <2>12, Moved, Zenon
    <3>. QED BY <1>1, <2>12, <3>1, Went
  <2>. QED BY <2>2, <2>11, <2>12
<1>. QED BY <1>6, <1>7

(* A loop ends that has one.                                               *)
LEMMA WhileKept == ASSUME IInv, EndLoop, Amount = 1 PROVE IInv'
<1> DEFINE c == Now
           start == c.marks[Len(c.marks) - 1].at
           w == EmitLoop(c, start)
           m == Last(c.marks)
           e == Resume(PatchJump(w, m.at), m)
           d == WithMarks(e, SubSeq(e.marks, 1, Len(e.marks) - 1 - 1))
<1>1. ended = "compiling" /\ todo # <<>> /\ Head(todo).do = "loop"
  BY DEF EndLoop, At
<1>2. PICK f, g \in Frames : Move(ctxs, todo, f, g)
  BY <1>1, Finds
<1> DEFINE x == f.top
           y == g.top
           s == Head(todo)
           l == Len(x.marks)
<1>3. x \in Shapes /\ Fits(c, x) /\ (Rises(x, s, y) \/ Scopes(x, s, y) \/ Jumps(x, s, y))
  BY <1>2, MoveParts DEF Now
<1>4. s.do = "loop" /\ s.n = 1
  BY <1>1 DEF Amount
<1>5. CASE ~CanLoop(c, start)
  <2>1. ended' = "rejected" /\ ctxs' = ctxs /\ todo' = todo /\ program' = program
    BY <1>5, Zenon DEF EndLoop, Reject
  <2>. QED BY <2>1, Refused
<1>6. CASE CanLoop(c, start) /\ ~CanPatch(w, m.at)
  <2>1. Amount > 0
    OBVIOUS
  <2>2. ended' = "rejected" /\ ctxs' = ctxs /\ todo' = todo /\ program' = program
    BY <1>6, <2>1, Zenon DEF EndLoop, Reject, LastMark
  <2>. QED BY <2>2, Refused
<1>7. CASE CanLoop(c, start) /\ CanPatch(w, m.at)
  <2>1. Amount # 0
    OBVIOUS
  <2>2. \/ ended' = "rejected" /\ ctxs' = ctxs /\ todo' = todo /\ program' = program
        \/ ctxs' = [ctxs EXCEPT ![Len(ctxs)] = d] /\ todo' = Tail(todo) /\ program' = program /\ ended' = ended
    BY <1>7, <2>1, Zenon DEF EndLoop, SetNow, GoOn, WithMarks, Reject, LastMark
  <2> HIDE DEF x, y, s, c
  <2>3. /\ l > 1 /\ x.marks[l].jump = 1 /\ x.marks[l - 1].jump = 0 /\ x.over = 0
        /\ y = Shape(SubSeq(x.marks, 1, l - 2), x.depth, x.pending, x.marks[l].over)
    <3>1. ~Rises(x, s, y)
      BY <1>4 DEF Rises
    <3>2. ~Scopes(x, s, y)
      BY <1>4 DEF Scopes
    <3>3. Jumps(x, s, y)
      BY <1>3, <3>1, <3>2
    <3>4. s.n # 0
      BY <1>4
    <3>. QED BY <1>4, <3>3, <3>4, Zenon DEF Jumps
  <2>4. /\ l - 1 \in 1..Len(x.marks) /\ l = Len(x.marks) /\ Len(c.marks) = l
        /\ start = c.marks[l - 1].at /\ m = c.marks[l]
    <3>1. Len(c.marks) = l
      BY <1>3, MarksOpen
    <3>2. l \in Nat
      BY <1>3, FitsParts
    <3>. QED BY <2>3, <3>1, <3>2 DEF Last
  <2>5. l > 1 /\ x.marks[l - 1].jump = 0 /\ x.marks[l].jump = 1
    BY <2>3
  <2> HIDE DEF l, start
  <2>6. Fits(w, x) /\ w.marks = c.marks
    BY <1>3, <1>7, <2>4, <2>5, FitsBack
  <2> HIDE DEF w, m
  <2>7. m = w.marks[l] /\ CanPatch(w, m.at) /\ e = Resume(PatchJump(w, m.at), m)
    BY <1>7, <2>4, <2>6
  <2> HIDE DEF e
  <2>8. /\ Fits(WithMarks(e, SubSeq(e.marks, 1, l - 2)),
                Shape(SubSeq(x.marks, 1, l - 2), x.depth, x.pending, x.marks[l].over))
        /\ e.marks = w.marks
    <3>1. x \in Shapes /\ l = Len(x.marks) /\ Fits(w, x)
      BY <1>3, <2>4, <2>6
    <3>. QED BY <2>5, <2>7, <3>1, FitsWhile
  <2>9. Len(e.marks) - 1 - 1 = l - 2
    <3>1. Len(e.marks) = l
      BY <2>4, <2>6, <2>8
    <3>. QED BY <2>4, <3>1
  <2>10. Fits(d, y)
    <3>1. d = WithMarks(e, SubSeq(e.marks, 1, l - 2))
      BY <2>9, Zenon
    <3>. QED BY <2>3, <2>8, <3>1, Zenon
  <2> HIDE DEF d
  <2>11. Fits(d, g.top)
    BY <2>10 DEF y
  <2>12. CASE ended' = "rejected" /\ ctxs' = ctxs /\ todo' = todo /\ program' = program
    BY <2>12, Refused
  <2>13. CASE ctxs' = [ctxs EXCEPT ![Len(ctxs)] = d] /\ todo' = Tail(todo) /\ program' = program /\ ended' = ended
    <3>1. Held(ctxs', todo')
      BY <1>2, <2>11, <2>13, Moved, Zenon
    <3>. QED BY <1>1, <2>13, <3>1, Went
  <2>. QED BY <2>2, <2>12, <2>13
<1>. QED BY <1>5, <1>6, <1>7

(* A loop ends.                                                            *)
LEMMA LoopKept == ASSUME IInv, EndLoop PROVE IInv'
<1>1. ended = "compiling" /\ todo # <<>> /\ Head(todo).do = "loop"
  BY DEF EndLoop, At
<1>2. PICK f, g \in Frames : Move(ctxs, todo, f, g)
  BY <1>1, Finds
<1> DEFINE s == Head(todo)
<1>3. Rises(f.top, s, g.top) \/ Scopes(f.top, s, g.top) \/ Jumps(f.top, s, g.top)
  BY <1>2, MoveParts
<1>4. s.do = "loop"
  BY <1>1
<1> HIDE DEF s
<1>5. ~Rises(f.top, s, g.top)
  BY <1>4 DEF Rises
<1>6. ~Scopes(f.top, s, g.top)
  BY <1>4 DEF Scopes
<1>7. Jumps(f.top, s, g.top)
  BY <1>3, <1>5, <1>6
<1>8. s.n = 0 \/ s.n = 1
  BY <1>4, <1>7, Zenon DEF Jumps
<1>9. Amount = 0 \/ Amount = 1
  BY <1>8 DEF s, Amount
<1>. QED BY <1>9, ForeverKept, WhileKept

(* The number of nodes that are left.                                      *)
LEMMA SpendType ==
  ASSUME IInv, program' = program \/ (program.nodes > 0 /\ Spend)
  PROVE program' \in [nodes : Nat, kinds : SUBSET STRING]
<1>1. program \in [nodes : Nat, kinds : SUBSET STRING]
  BY DEF IInv
<1>. QED BY <1>1 DEF Spend

(* A node's steps in the place of the node.                                *)
LEMMA Replaced ==
  ASSUME IInv, NEW f, NEW g, NEW steps, Move(ctxs, todo, f, g), Chain(f, steps, g),
         todo' = steps \o Tail(todo), ctxs' = ctxs, ended' = ended, ended = "compiling",
         program' = program \/ (program.nodes > 0 /\ Spend)
  PROVE IInv'
<1>1. Framed(ctxs, f) /\ Ends(g, Tail(todo))
  BY DEF Move
<1>2. Ends(f, todo')
  BY <1>1, EndsJoin
<1>3. f \in Frames
  BY <1>2 DEF Ends
<1>4. Held(ctxs', todo')
  BY <1>1, <1>2, <1>3 DEF Held
<1>5. program' \in [nodes : Nat, kinds : SUBSET STRING]
  BY SpendType
<1>. QED BY <1>4, <1>5 DEF IInv

(* The frame of a move, of its parts.                                      *)
LEMMA MoveFrames ==
  ASSUME NEW cs, NEW s, NEW f, NEW g, Move(cs, s, f, g), NEW b, NEW x, b = f.below, x = f.top
  PROVE /\ b \in Seq(Shapes) /\ x.marks \in Seq(OpenMarks) /\ x.depth \in Nat /\ x.pending \in {0, 1}
        /\ x.over \in Int
        /\ f = Fr(b, x.marks, x.depth, x.pending, x.over)
        /\ g = Frame(b, g.top)
<1>1. f \in Frames /\ g \in Frames /\ g.below = f.below
  BY DEF Move, Ends
<1>2. f = Frame(b, x) /\ b \in Seq(Shapes) /\ x \in Shapes /\ g = Frame(b, g.top)
  BY <1>1, FrameParts
<1>3. /\ x.marks \in Seq(OpenMarks) /\ x.depth \in Nat /\ x.pending \in {0, 1} /\ x.over \in Int
      /\ x = Shape(x.marks, x.depth, x.pending, x.over)
  BY <1>2 DEF Shapes, Shape
<1>. QED BY <1>2, <1>3 DEF Fr

(* An expression is compiled.                                              *)
LEMMA ExpressionKept == ASSUME IInv, CompileExpression PROVE IInv'
<1>1. ended = "compiling" /\ todo # <<>> /\ Head(todo).do = "expr"
  BY DEF CompileExpression, At
<1>2. PICK steps : todo' = steps \o Tail(todo) /\ AddsAll(steps, 1)
  <2>1. PICK kind \in DOMAIN Expressions : \E steps \in Expressions[kind] : todo' = steps \o Tail(todo)
    BY Zenon DEF CompileExpression
  <2>2. PICK steps \in Expressions[kind] : todo' = steps \o Tail(todo)
    BY <2>1, Zenon
  <2>. QED BY <2>2, ExpressionAdds, Zenon
<1>3. ctxs' = ctxs /\ ended' = ended /\ (program' = program \/ (program.nodes > 0 /\ Spend))
  BY DEF CompileExpression
<1>4. PICK f, g \in Frames : Move(ctxs, todo, f, g)
  BY <1>1, Finds
<1> DEFINE x == f.top
           y == g.top
           s == Head(todo)
           b == f.below
<1>5. y = Over(x, x.over + 1)
  <2>1. s.do = "expr"
    BY <1>1
  <2> HIDE DEF s
  <2>2. Rises(x, s, y) \/ Scopes(x, s, y) \/ Jumps(x, s, y)
    BY <1>4, MoveParts DEF s
  <2>3. ~Scopes(x, s, y)
    BY <2>1 DEF Scopes
  <2>4. ~Jumps(x, s, y)
    BY <2>1, Zenon DEF Jumps
  <2>5. Rises(x, s, y)
    BY <2>2, <2>3, <2>4
  <2>. QED BY <2>1, <2>5 DEF Rises
<1>6. /\ b \in Seq(Shapes) /\ x.marks \in Seq(OpenMarks) /\ x.depth \in Nat /\ x.pending \in {0, 1}
      /\ x.over \in Int
      /\ f = Fr(b, x.marks, x.depth, x.pending, x.over) /\ g = Frame(b, y)
  BY <1>4, MoveFrames
<1> HIDE DEF x, y, b
<1>7. g = Fr(b, x.marks, x.depth, x.pending, x.over + 1)
  BY <1>5, <1>6 DEF Fr, Over
<1>8. Chain(Fr(b, x.marks, x.depth, x.pending, x.over), steps,
            Fr(b, x.marks, x.depth, x.pending, x.over + 1))
  BY <1>2, <1>6, Zenon DEF AddsAll
<1>9. Chain(f, steps, g)
  BY <1>6, <1>7, <1>8
<1>. QED BY <1>1, <1>2, <1>3, <1>4, <1>9, Replaced, Zenon

(* What a statement's node may be.                                         *)
LEMMA KindsParts == ASSUME NEW place PROVE Kinds(place) \subseteq DOMAIN Statements
<1>1. "block" \in DOMAIN Statements
  BY DEF Statements
<1> DEFINE D == DOMAIN Statements
<1> HIDE DEF D
<1>2. Kinds(place) \subseteq D
  BY <1>1 DEF Kinds, D
<1>. QED BY <1>2 DEF D

(* A statement is compiled.                                                *)
LEMMA StatementKept == ASSUME IInv, CompileStatement PROVE IInv'
<1>1. ended = "compiling" /\ todo # <<>> /\ Head(todo).do = "stmt"
  BY DEF CompileStatement, At
<1>2. \E steps : todo' = steps \o Tail(todo) /\ Keeps(steps)
  <2>1. CASE \E kind \in Kinds(Arg) \cap program.kinds : \E steps \in Statements[kind] : todo' = steps \o Tail(todo)
    <3>1. PICK kind \in Kinds(Arg) : \E steps \in Statements[kind] : todo' = steps \o Tail(todo)
      BY <2>1, Zenon
    <3>2. PICK steps \in Statements[kind] : todo' = steps \o Tail(todo)
      BY <3>1, Zenon
    <3>3. kind \in DOMAIN Statements
      BY KindsParts
    <3>4. Keeps(steps)
      BY <3>3, StatementKeeps
    <3>. QED BY <3>2, <3>4, Zenon
  <2>2. CASE todo' = <<Begin, EndScope>> \o Tail(todo)
    BY <2>2, KeepsBlank, Zenon
  <2>. QED BY <2>1, <2>2, Zenon DEF CompileStatement
<1>3. PICK steps : todo' = steps \o Tail(todo) /\ Keeps(steps)
  BY <1>2, Zenon
<1>4. ctxs' = ctxs /\ ended' = ended /\ (program' = program \/ (program.nodes > 0 /\ Spend))
  BY DEF CompileStatement
<1>5. PICK f, g \in Frames : Move(ctxs, todo, f, g)
  BY <1>1, Finds
<1> DEFINE x == f.top
           y == g.top
           s == Head(todo)
           b == f.below
<1>6. y = x /\ x.over = 0 /\ x.pending = 0
  <2>1. s.do = "stmt"
    BY <1>1
  <2> HIDE DEF s
  <2>2. Rises(x, s, y) \/ Scopes(x, s, y) \/ Jumps(x, s, y)
    BY <1>5, MoveParts DEF s
  <2>3. ~Scopes(x, s, y)
    BY <2>1 DEF Scopes
  <2>4. ~Jumps(x, s, y)
    BY <2>1, Zenon DEF Jumps
  <2>5. Rises(x, s, y)
    BY <2>2, <2>3, <2>4
  <2>. QED BY <2>1, <2>5 DEF Rises
<1>7. /\ b \in Seq(Shapes) /\ x.marks \in Seq(OpenMarks) /\ x.depth \in Nat
      /\ f = Fr(b, x.marks, x.depth, x.pending, x.over) /\ g = Frame(b, y) /\ f \in Frames
      /\ f = Frame(b, x)
  BY <1>5, MoveFrames, FrameParts
<1> HIDE DEF x, y, b
<1>8. Chain(Fr(b, x.marks, x.depth, 0, 0), steps, Fr(b, x.marks, x.depth, 0, 0))
  BY <1>3, <1>7 DEF Keeps
<1>9. Chain(f, steps, g)
  BY <1>6, <1>7, <1>8
<1>. QED BY <1>1, <1>3, <1>4, <1>5, <1>9, Replaced, Zenon

(* The store of a lambda's argument.                                       *)
Argument == Step("argument", None, 0)

(* So many arguments lower by so much.                                     *)
LEMMA ArgumentsLower ==
  ASSUME NEW n \in Nat, NEW t \in Seq(Steps), Len(t) = n, \A i \in 1..n : t[i] = Argument
  PROVE AddsAll(t, 0 - n)
<1> SUFFICES ASSUME NEW b \in Seq(Shapes), NEW m \in Seq(OpenMarks), NEW d \in Nat, NEW p \in {0, 1}, NEW o \in Int
             PROVE Chain(Fr(b, m, d, p, o), t, Fr(b, m, d, p, o + (0 - n)))
  BY DEF AddsAll
<1> DEFINE A == [i \in 1..Len(t) + 1 |-> Fr(b, m, d, p, o - (i - 1))]
<1>0. Adds(Argument, -1)
  <2>1. Argument \in Steps /\ Argument.do = "argument"
    BY DEF Steps, Dos, Args, Argument, Step
  <2>2. \A x \in Shapes : x.over + (-1) = x.over - 1
    BY DEF Shapes
  <2>3. \A x \in Shapes : Rises(x, Argument, Over(x, x.over + (-1)))
    BY <2>1, <2>2 DEF Rises
  <2>. QED BY <2>1, <2>3, AddsFrom
<1>1. A \in [1..Len(t) + 1 -> Frames]
  <2>1. ASSUME NEW i \in 1..Len(t) + 1 PROVE Fr(b, m, d, p, o - (i - 1)) \in Frames
    <3>1. o - (i - 1) \in Int
      OBVIOUS
    <3>. QED BY <3>1, FrType
  <2>. QED BY <2>1
<1>2. A[1] = Fr(b, m, d, p, o) /\ A[Len(t) + 1] = Fr(b, m, d, p, o + (0 - n))
  <2>1. 1 \in 1..Len(t) + 1 /\ o - (1 - 1) = o
    OBVIOUS
  <2>2. Len(t) + 1 \in 1..Len(t) + 1 /\ o - ((Len(t) + 1) - 1) = o + (0 - n)
    OBVIOUS
  <2>3. A[1] = Fr(b, m, d, p, o - (1 - 1)) /\ A[Len(t) + 1] = Fr(b, m, d, p, o - ((Len(t) + 1) - 1))
    BY <2>1, <2>2
  <2>. QED BY <2>1, <2>2, <2>3
<1>3. ASSUME NEW k \in 1..Len(t) PROVE Flows(A[k], t[k], A[k + 1])
  <2>1. A[k] = Fr(b, m, d, p, o - (k - 1)) /\ A[k + 1] = Fr(b, m, d, p, o - ((k + 1) - 1))
    OBVIOUS
  <2>2. o - (k - 1) \in Int /\ (o - (k - 1)) + (-1) = o - ((k + 1) - 1)
    OBVIOUS
  <2>3. Flows(Fr(b, m, d, p, o - (k - 1)), Argument, Fr(b, m, d, p, (o - (k - 1)) + (-1)))
    BY <1>0, <2>2, Zenon DEF Adds
  <2>. QED BY <2>1, <2>2, <2>3
<1> HIDE DEF A
<1>. QED BY <1>1, <1>2, <1>3, Zenon DEF Chain

(* The frame of a function that is entered, with the steps that store its  *)
(* arguments.                                                              *)
Stores(type, n) == IF type \in Lambdas THEN Times(n, <<Argument>>) ELSE <<>>

(* They lead to the frame that the function's body begins at.              *)
LEMMA StoresLead ==
  ASSUME NEW b \in Seq(Shapes), NEW type \in Types, NEW n \in Nat
  PROVE Chain(Frame(b, Shape(<<>>, Bottom(type), 0, IF type \in Lambdas THEN n ELSE 0)), Stores(type, n),
              Frame(b, Fresh(type)))
<1>1. <<>> \in Seq(OpenMarks) /\ 0 \in {0, 1} /\ 0 \in Int /\ n \in Int /\ n + (0 - n) = 0 /\ 0 \in Nat /\ 1 \in Nat
  OBVIOUS
<1>2. type # "script"
  BY DEF Types, Lambdas
<1>3. CASE type \in Lambdas
  <2>1. Argument \in Steps
    BY DEF Steps, Dos, Args, Argument, Step
  <2>2. AddsAll(Times(n, <<Argument>>), 0 - n)
    BY <2>1, TimesOne, ArgumentsLower, Zenon
  <2>3. Chain(Fr(b, <<>>, 0, 0, n), Times(n, <<Argument>>), Fr(b, <<>>, 0, 0, n + (0 - n)))
    BY <1>1, <2>2, Zenon DEF AddsAll
  <2>4. Bottom(type) = 0 /\ Fresh(type) = Shape(<<>>, 0, 0, 0) /\ Stores(type, n) = Times(n, <<Argument>>)
    BY <1>3 DEF Bottom, Fresh, Stores
  <2>. QED BY <1>1, <1>3, <2>3, <2>4 DEF Fr
<1>4. CASE type \notin Lambdas
  <2>1. Bottom(type) = 1 /\ Fresh(type) = Shape(<<>>, 1, 0, 0) /\ Stores(type, n) = <<>>
    BY <1>2, <1>4 DEF Bottom, Fresh, Stores
  <2>2. Fr(b, <<>>, 1, 0, 0) \in Frames
    BY <1>1, FrType, Zenon
  <2>3. Chain(Fr(b, <<>>, 1, 0, 0), <<>>, Fr(b, <<>>, 1, 0, 0))
    BY <2>2, ChainEmpty
  <2>. QED BY <1>4, <2>1, <2>3 DEF Fr
<1>. QED BY <1>3, <1>4

(* The frame with another context on top.                                  *)
LEMMA FramedMore ==
  ASSUME NEW cs, NEW f, NEW c, NEW y \in Shapes, Framed(cs, f), Fits(c, y)
  PROVE Framed(Append(cs, c), Frame(Append(f.below, f.top), y))
<1> DEFINE n == Len(cs)
           ds == Append(cs, c)
           b == f.below
           x == f.top
           t == Append(b, x)
           g == Frame(t, y)
<1>1. /\ b \in Seq(Shapes) /\ x \in Shapes /\ cs \in Seq(Contexts) /\ n \in Nat /\ n > 0 /\ Len(b) \in Nat
      /\ n = Len(b) + 1 /\ Fits(cs[n], x)
  BY FramedParts
<1>2. c \in Contexts
  BY DEF Fits
<1>3. \A i \in 1..Len(b) : Fits(cs[i], b[i])
  BY DEF Framed
<1> HIDE DEF b, x
<1>4. t \in Seq(Shapes) /\ Len(t) = n /\ t[n] = x /\ \A i \in 1..Len(b) : t[i] = b[i]
  BY <1>1
<1>5. ds \in Seq(Contexts) /\ Len(ds) = n + 1 /\ ds[n + 1] = c /\ \A i \in 1..n : ds[i] = cs[i]
  BY <1>1, <1>2
<1> HIDE DEF t, ds, n
<1>6. g \in Frames /\ g.below = t /\ g.top = y
  BY <1>4, FrameParts
<1> HIDE DEF g
<1>7. \A i \in 1..n : i = n \/ i \in 1..Len(b)
  BY <1>1
<1>8. \A i \in 1..Len(t) : Fits(ds[i], t[i])
  <2> SUFFICES ASSUME NEW i \in 1..n PROVE Fits(ds[i], t[i])
    BY <1>4
  <2>1. CASE i = n
    <3>1. ds[n] = cs[n]
      BY <2>1, <1>5
    <3>. QED BY <2>1, <3>1, <1>1, <1>4
  <2>2. CASE i \in 1..Len(b)
    <3>1. ds[i] = cs[i] /\ t[i] = b[i]
      BY <2>2, <1>4, <1>5
    <3>. QED BY <2>2, <3>1, <1>3
  <2>. QED BY <1>7, <2>1, <2>2
<1>9. Framed(ds, g)
  BY <1>4, <1>5, <1>6, <1>8 DEF Framed
<1>. QED BY <1>9 DEF ds, g, t, b, x

(* A function is entered.                                                  *)
LEMMA EnterKept == ASSUME IInv, EnterFunction PROVE IInv'
<1> DEFINE s == Head(todo)
           type == s.arg
           n == s.n
           c == Context(type, n)
<1>1. ended = "compiling" /\ todo # <<>> /\ s.do = "enter"
  BY DEF EnterFunction, At
<1>2. ctxs' = Append(ctxs, c) /\ todo' = Stores(type, n) \o Tail(todo) /\ program' = program /\ ended' = ended
  BY Zenon DEF EnterFunction, Arg, Amount, Stores, Argument
<1>3. PICK f \in Frames : Framed(ctxs, f) /\ Ends(f, todo)
  BY DEF IInv, Held
<1>4. PICK g \in Frames : Flows(f, s, g) /\ Ends(g, Tail(todo))
  BY <1>1, <1>3, EndsHead
<1>5. s \in Steps
  BY <1>1, <1>3, EndsType
<1> DEFINE b == Append(f.below, f.top)
<1> HIDE DEF s
<1>6. type \in Types /\ g = Frame(b, Fresh(type))
  <2>1. ~Rises(f.top, s, g.top)
    BY <1>1 DEF Rises
  <2>2. ~Scopes(f.top, s, g.top)
    BY <1>1 DEF Scopes
  <2>3. ~Jumps(f.top, s, g.top)
    BY <1>1, Zenon DEF Jumps
  <2>. QED BY <1>1, <1>4, <2>1, <2>2, <2>3 DEF Flows
<1>7. n \in Nat
  BY <1>5 DEF Steps
<1>8. f.below \in Seq(Shapes) /\ f.top \in Shapes
  BY FrameParts
<1>9. b \in Seq(Shapes)
  BY <1>8
<1> DEFINE o == IF type \in Lambdas THEN n ELSE 0
           y == Shape(<<>>, Bottom(type), 0, o)
<1>10. type # "script"
  BY <1>6 DEF Types, Lambdas
<1> HIDE DEF type, n
<1>11. Fits(c, y)
  BY <1>6, <1>7, <1>10, FitsContext
<1>12. y \in Shapes
  <2>1. <<>> \in Seq(OpenMarks) /\ Bottom(type) \in Nat /\ o \in Int
    BY <1>7 DEF Bottom
  <2>. QED BY <2>1 DEF Shape, Shapes
<1>13. Chain(Frame(b, y), Stores(type, n), g)
  BY <1>6, <1>7, <1>9, StoresLead, Zenon
<1> HIDE DEF c, y
<1>14. Framed(ctxs', Frame(b, y))
  BY <1>2, <1>3, <1>11, <1>12, FramedMore
<1>15. Ends(Frame(b, y), todo')
  BY <1>2, <1>4, <1>13, EndsJoin
<1> HIDE DEF b
<1>16. Held(ctxs', todo')
  BY <1>14, <1>15 DEF Held, Ends
<1>. QED BY <1>1, <1>2, <1>16, Went

(* The contexts without the innermost one.                                 *)
LEMMA FramedLess ==
  ASSUME NEW cs, NEW f, Framed(cs, f), f.below # <<>>
  PROVE /\ Framed(Front(cs), Frame(Front(f.below), Last(f.below)))
        /\ Len(Front(cs)) = Len(cs) - 1 /\ Front(cs)[Len(cs) - 1] = cs[Len(cs) - 1]
        /\ Fits(cs[Len(cs) - 1], Last(f.below)) /\ Last(f.below) \in Shapes
        /\ Frame(Front(f.below), Last(f.below)) \in Frames
<1> DEFINE n == Len(cs)
           ds == Front(cs)
           b == f.below
           t == Front(b)
           x == Last(b)
           g == Frame(t, x)
<1>1. b \in Seq(Shapes) /\ cs \in Seq(Contexts) /\ n \in Nat /\ n > 0 /\ Len(b) \in Nat /\ n = Len(b) + 1
  BY FramedParts
<1>2. \A i \in 1..Len(b) : Fits(cs[i], b[i])
  BY DEF Framed
<1>3. b # <<>>
  OBVIOUS
<1> HIDE DEF b
<1>0. b \in Seq(Shapes) /\ Len(b) \in Nat /\ Len(b) > 0
  BY <1>1, <1>3
<1>4. Len(b) > 0 /\ x = b[Len(b)] /\ x \in Shapes
  BY <1>0 DEF Last
<1>5. t \in Seq(Shapes) /\ Len(t) = Len(b) - 1 /\ \A i \in 1..Len(b) - 1 : t[i] = b[i]
  <2> DEFINE k == Len(b) - 1
  <2>1. k \in 0..Len(b)
    BY <1>0
  <2> HIDE DEF k
  <2>2. SubSeq(b, 1, k) \in Seq(Shapes) /\ Len(SubSeq(b, 1, k)) = k /\ \A i \in 1..k : SubSeq(b, 1, k)[i] = b[i]
    BY <1>0, <2>1, FirstParts
  <2>3. t = SubSeq(b, 1, k)
    BY DEF Front, k
  <2>. QED BY <2>2, <2>3 DEF k
<1>6. ds \in Seq(Contexts) /\ Len(ds) = n - 1 /\ \A i \in 1..n - 1 : ds[i] = cs[i]
  BY <1>1 DEF Front
<1> HIDE DEF x, t, ds, n
<1>7. g \in Frames /\ g.below = t /\ g.top = x
  BY <1>4, <1>5, FrameParts
<1> HIDE DEF g
<1>8. n - 1 = Len(b) /\ Len(b) \in 1..Len(b) /\ n - 1 \in 1..n - 1
  BY <1>1, <1>4
<1>9. ds[n - 1] = cs[n - 1] /\ Fits(cs[n - 1], x)
  BY <1>2, <1>4, <1>6, <1>8
<1>10. \A i \in 1..Len(t) : Fits(ds[i], t[i])
  <2> SUFFICES ASSUME NEW i \in 1..Len(b) - 1 PROVE Fits(ds[i], t[i])
    BY <1>5
  <2>1. i \in 1..Len(b) /\ i \in 1..n - 1
    BY <1>1
  <2>. QED BY <2>1, <1>2, <1>5, <1>6
<1>11. Len(ds) = Len(t) + 1 /\ Fits(ds[Len(ds)], x)
  BY <1>1, <1>5, <1>6, <1>8, <1>9
<1>12. Framed(ds, g)
  BY <1>5, <1>6, <1>7, <1>10, <1>11 DEF Framed
<1>. QED BY <1>4, <1>6, <1>7, <1>9, <1>12 DEF ds, g, t, x, b, n

(* What is emitted when a function is left, into the context around it.    *)
Made(out, type, u) ==
  LET named == IF type \in Lambdas THEN out ELSE AddName(out)
      pairs == Times(u, <<1, 0>>)
  IN IF type = "method" THEN Owe(Emit(named, "METHOD", <<LastIndex(named)>>, 0), -1)
     ELSE Emit(named, "CLOSURE", <<u % 256>> \o pairs, 0)

(* A closure lies on the stack; what a method takes off it is accounted.   *)
LEMMA FitsMade ==
  ASSUME NEW c, NEW x \in Shapes, NEW type \in Types, NEW u \in Nat, Fits(c, x)
  PROVE Fits(Made(c, type, u), Over(x, x.over + (IF type = "method" THEN 0 ELSE 1)))
<1> DEFINE named == IF type \in Lambdas THEN c ELSE AddName(c)
<1>1. Fits(named, x)
  BY FitsName
<1> HIDE DEF named
<1>2. x.over \in Int
  BY <1>1, FitsParts
<1>3. CASE type = "method"
  <2>1. "METHOD" \in Plain \cap OneByte /\ Effect("METHOD", 0) = -1
    <3>1. "METHOD" \in Plain
      BY Emitted
    <3>2. Effect("METHOD", 0) = -1
      BY DEF Effect, Pushes, Pops
    <3>. QED BY <3>1, <3>2 DEF OneByte
  <2>2. LastIndex(named) \in 0..255
    BY <1>1, IndexType
  <2> DEFINE d == Emit(named, "METHOD", <<LastIndex(named)>>, 0)
  <2>3. Fits(d, Over(x, x.over + (-1)))
    <3>1. -1 \in Int
      BY Less1, Zenon
    <3>2. Fits(Emit(named, "METHOD", <<LastIndex(named)>>, 0), Over(x, x.over + (-1)))
      BY <1>1, <2>1, <2>2, <3>1, FitsByte, Zenon
    <3>. QED BY <3>2
  <2> HIDE DEF d
  <2>4. x.over + (-1) \in Int /\ -1 \in Int /\ (x.over + (-1)) - (-1) = x.over + 0
    BY <1>2
  <2>5. Fits(Owe(d, -1), Over(x, (x.over + (-1)) - (-1)))
    BY <2>3, <2>4, OweOver, Zenon
  <2>6. Made(c, type, u) = Owe(d, -1)
    BY <1>3 DEF Made, d, named
  <2>. QED BY <1>3, <2>4, <2>5, <2>6
<1>4. CASE type # "method"
  <2>1. Fits(Emit(named, "CLOSURE", <<u % 256>> \o Times(u, <<1, 0>>), 0), Over(x, x.over + 1))
    BY <1>1, FitsClosure
  <2>2. Made(c, type, u) = Emit(named, "CLOSURE", <<u % 256>> \o Times(u, <<1, 0>>), 0)
    BY <1>4, Zenon DEF Made, named
  <2>. QED BY <1>4, <2>1, <2>2
<1>. QED BY <1>3, <1>4

(* A declared function's closure is bound to its name.                     *)
Binds(type) == IF type = "function" THEN <<Define("func")>> ELSE <<>>

(* That leads to the frame around the function.                            *)
LEMMA BindsLead ==
  ASSUME NEW b \in Seq(Shapes), NEW x \in Shapes, NEW type \in Types, type = "function" => x.pending = 0
  PROVE Chain(Frame(b, Over(x, x.over + (IF type = "method" THEN 0 ELSE 1))), Binds(type),
              Frame(b, Over(x, x.over + (IF type \in Lambdas THEN 1 ELSE 0))))
<1>1. x.over \in Int /\ x.over + 0 \in Int /\ x.over + 1 \in Int
  BY DEF Shapes
<1>2. Over(x, x.over + 0) \in Shapes /\ Over(x, x.over + 1) \in Shapes
  BY <1>1, ShapeType
<1>3. Frame(b, Over(x, x.over + 0)) \in Frames /\ Frame(b, Over(x, x.over + 1)) \in Frames
  BY <1>2, FrameParts
<1>4. CASE type = "function"
  <2> DEFINE s == Define("func")
             y == Over(x, x.over + 1)
             z == Over(x, x.over + 0)
  <2>1. s \in Steps /\ s.do = "define" /\ s.arg = "func"
    BY DEF Steps, Dos, Args, Define, Step
  <2>2. y.pending = 0 /\ y.over = x.over + 1 /\ (x.over + 1) - 1 = x.over + 0
    BY <1>1, <1>4, OverParts
  <2>3. z = Over(y, y.over - 1)
    BY <2>2, OverTwice
  <2> HIDE DEF s, y, z
  <2>4. Scopes(y, s, z)
    BY <2>1, <2>2, <2>3 DEF Scopes
  <2>5. Flows(Frame(b, y), s, Frame(b, z))
    BY <2>4, FrameParts DEF Flows
  <2>6. Frame(b, y) \in Frames /\ Frame(b, z) \in Frames
    BY <1>3 DEF y, z
  <2>7. Chain(Frame(b, y), <<s>>, Frame(b, z))
    BY <2>1, <2>5, <2>6, ChainOne
  <2>8. type \notin Lambdas /\ type # "method"
    BY <1>4 DEF Lambdas
  <2>. QED BY <1>4, <2>7, <2>8 DEF Binds, s, y, z
<1>5. CASE type # "function"
  <2>1. type \in Lambdas <=> type # "method"
    BY <1>5 DEF Types, Lambdas
  <2>2. Binds(type) = <<>>
    BY <1>5 DEF Binds
  <2>. QED BY <1>3, <2>1, <2>2, ChainEmpty
<1>. QED BY <1>4, <1>5

(* A function is left.                                                     *)
LEMMA LeaveKept == ASSUME IInv, LeaveFunction PROVE IInv'
<1> DEFINE s == Head(todo)
           type == s.arg
           n == Len(ctxs)
           out == ctxs[n - 1]
<1>1. ended = "compiling" /\ todo # <<>> /\ s.do = "leave"
  BY DEF LeaveFunction, At
<1>2. \/ ended' = "crashed" /\ ctxs' = ctxs /\ todo' = todo /\ program' = program
      \/ /\ \E u \in 0..MaxUpvalues : ctxs' = [Front(ctxs) EXCEPT ![n - 1] = Made(out, type, u)]
         /\ todo' = Binds(type) \o Tail(todo) /\ program' = program /\ ended' = ended
  BY Zenon DEF LeaveFunction, Arg, Made, Binds
<1>3. CASE ended' = "crashed" /\ ctxs' = ctxs /\ todo' = todo /\ program' = program
  BY <1>3, Refused
<1>4. CASE /\ \E u \in 0..MaxUpvalues : ctxs' = [Front(ctxs) EXCEPT ![n - 1] = Made(out, type, u)]
           /\ todo' = Binds(type) \o Tail(todo) /\ program' = program /\ ended' = ended
  <2>1. PICK u \in Nat : ctxs' = [Front(ctxs) EXCEPT ![n - 1] = Made(out, type, u)]
    <3>1. 0..MaxUpvalues \subseteq Nat
      OBVIOUS
    <3>. QED BY <1>4, <3>1, Zenon
  <2>2. PICK f \in Frames : Framed(ctxs, f) /\ Ends(f, todo)
    BY DEF IInv, Held
  <2>3. PICK g \in Frames : Flows(f, s, g) /\ Ends(g, Tail(todo))
    BY <1>1, <2>2, EndsHead
  <2> DEFINE b == Front(f.below)
             x == Last(f.below)
             y == Over(x, x.over + (IF type = "method" THEN 0 ELSE 1))
             made == Made(out, type, u)
  <2> HIDE DEF s
  <2>4. /\ type \in Types /\ f.below # <<>> /\ g.below = b /\ (type = "function" => x.pending = 0)
        /\ g.top = Over(x, x.over + (IF type \in Lambdas THEN 1 ELSE 0))
    <3>1. ~Rises(f.top, s, g.top)
      BY <1>1 DEF Rises
    <3>2. ~Scopes(f.top, s, g.top)
      BY <1>1 DEF Scopes
    <3>3. ~Jumps(f.top, s, g.top)
      BY <1>1, Zenon DEF Jumps
    <3>. QED BY <1>1, <2>3, <3>1, <3>2, <3>3 DEF Flows
  <2>5. /\ Framed(Front(ctxs), Frame(b, x)) /\ Len(Front(ctxs)) = n - 1
        /\ Fits(out, x) /\ x \in Shapes /\ Frame(b, x) \in Frames
    BY <2>2, <2>4, FramedLess
  <2> HIDE DEF b, x, type, out
  <2>6. Fits(made, y)
    BY <2>4, <2>5, FitsMade
  <2>7. x.over \in Int /\ b \in Seq(Shapes)
    BY <2>5, FrameParts, Zenon DEF Shapes
  <2>8. y \in Shapes
    <3>1. x.over + (IF type = "method" THEN 0 ELSE 1) \in Int
      BY <2>7
    <3>. QED BY <2>5, <3>1, ShapeType
  <2>9. g = Frame(b, Over(x, x.over + (IF type \in Lambdas THEN 1 ELSE 0)))
    BY <2>4, FrameParts
  <2>10. Chain(Frame(b, y), Binds(type), g)
    BY <2>4, <2>5, <2>7, <2>9, BindsLead
  <2> HIDE DEF y, made, n
  <2>11. ctxs' = [Front(ctxs) EXCEPT ![Len(Front(ctxs))] = made]
    BY <2>1, <2>5 DEF made
  <2>12. Framed([Front(ctxs) EXCEPT ![Len(Front(ctxs))] = made], Frame(Frame(b, x).below, y))
    BY <2>5, <2>6, <2>8, FramedTop, Zenon
  <2>13. Framed(ctxs', Frame(b, y))
    BY <2>11, <2>12, FrameParts
  <2>14. Ends(Frame(b, y), todo')
    BY <1>4, <2>3, <2>10, EndsJoin
  <2>15. Held(ctxs', todo')
    BY <2>13, <2>14 DEF Held, Ends
  <2>. QED BY <1>1, <1>4, <2>15, Went
<1>. QED BY <1>2, <1>3, <1>4, Zenon

(* The script ends.                                                        *)
LEMMA EndKept == ASSUME IInv, CompileEnd PROVE IInv'
<1> DEFINE s == Head(todo)
           n == Len(ctxs)
           c == Emit(Now, "HALT", <<>>, 0)
<1>1. ended = "compiling" /\ todo # <<>> /\ s.do = "halt"
  BY DEF CompileEnd, At
<1>2. ctxs' = [ctxs EXCEPT ![n] = c] /\ ended' = "done" /\ todo' = <<>> /\ program' = program
  BY DEF CompileEnd, SetNow
<1>3. PICK f \in Frames : Framed(ctxs, f) /\ Ends(f, todo)
  BY DEF IInv, Held
<1>4. PICK g \in Frames : Flows(f, s, g)
  BY <1>1, <1>3, EndsHead
<1> DEFINE x == f.top
<1> HIDE DEF s
<1>5. Final(f) /\ x.over = 0
  <2>1. ~Rises(f.top, s, g.top)
    BY <1>1 DEF Rises
  <2>2. ~Scopes(f.top, s, g.top)
    BY <1>1 DEF Scopes
  <2>3. ~Jumps(f.top, s, g.top)
    BY <1>1, Zenon DEF Jumps
  <2>. QED BY <1>1, <1>4, <2>1, <2>2, <2>3 DEF Flows, Final
<1>6. Fits(Now, x) /\ x \in Shapes /\ f = Frame(f.below, x)
  BY <1>3, FramedParts DEF Now
<1>7. Fits(c, x)
  <2>1. "HALT" \in Plain /\ "HALT" \notin OneByte /\ Effect("HALT", 0) = 0
    BY Emitted DEF OneByte, Effect, Pushes, Pops
  <2>2. <<>> \in Codes /\ Len(<<>>) = 0 /\ 0 \in Int
    BY DEF Codes
  <2>3. Fits(c, Over(x, x.over + Effect("HALT", 0)))
    BY <1>6, <2>1, <2>2, FitsEmit
  <2>4. Over(x, x.over + 0) = x
    BY <1>6 DEF Over, Shape, Shapes
  <2>. QED BY <2>1, <2>3, <2>4
<1> HIDE DEF x, c
<1>8. Framed(ctxs', f)
  <2>1. Framed([ctxs EXCEPT ![n] = c], Frame(f.below, x))
    BY <1>3, <1>6, <1>7, FramedTop, Zenon
  <2>. QED BY <1>2, <1>6, <2>1
<1>9. Ends(f, <<>>)
  BY <1>5, ChainEmpty DEF Ends
<1>10. Held(ctxs', todo')
  BY <1>2, <1>8, <1>9 DEF Held
<1>. QED BY <1>2, <1>10 DEF IInv

-----------------------------------------------------------------------------
(* The invariant.                                                          *)

(* The programs.                                                           *)
LEMMA ProgramsType == \A v \in Vocabularies : v \in [nodes : Nat, kinds : SUBSET STRING]
BY CodeAssumption

(* It holds of the script that nothing has been compiled of.               *)
LEMMA Begins == ASSUME Init PROVE IInv
<1> DEFINE c == Context("script", 0)
           x == Shape(<<>>, 0, 0, 0)
           f == Frame(<<>>, x)
<1>1. PICK n \in 0..MaxParts : todo = Times(n, <<Decl>>) \o <<Halt>>
  BY Zenon DEF Init
<1>2. n \in Nat
  BY PartsType DEF Parts
<1>3. <<>> \in Seq(Shapes) /\ <<>> \in Seq(OpenMarks) /\ 0 \in Nat /\ 0 \in {0, 1} /\ 0 \in Int
  OBVIOUS
<1>4. Keeps(Times(n, <<Decl>>))
  BY <1>2, KeepsMany
<1>5. Chain(f, Times(n, <<Decl>>), f)
  BY <1>3, <1>4, Zenon DEF Keeps, Fr
<1>6. f \in Frames /\ f.below = <<>> /\ f.top = x /\ x \in Shapes
  <2>1. x \in Shapes
    BY <1>3 DEF Shape, Shapes
  <2>. QED BY <1>3, <2>1, FrameParts, Zenon
<1>7. x.marks = <<>> /\ x.depth = 0 /\ x.pending = 0 /\ x.over = 0
  BY ShapeParts
<1>8. Fits(c, x)
  <2>1. "script" \notin Lambdas /\ Bottom("script") = 0
    BY DEF Lambdas, Bottom
  <2>2. Fits(c, Shape(<<>>, Bottom("script"), 0, IF "script" \in Lambdas THEN 0 ELSE 0))
    BY FitsContext
  <2>. QED BY <2>1, <2>2
<1>9. c \in Contexts
  BY <1>8 DEF Fits
<1> HIDE DEF c, x, f
<1>10. Halt \in Steps /\ Halt.do = "halt"
  BY DEF Halt, Steps, Dos, Args, Step
<1>11. Final(f)
  BY <1>6, <1>7 DEF Final, Rest
<1>12. Flows(f, Halt, f)
  BY <1>6, <1>7, <1>10, <1>11 DEF Flows, Final
<1>13. Ends(f, <<Halt>>)
  <2>1. Chain(f, <<Halt>>, f)
    BY <1>6, <1>10, <1>12, ChainOne
  <2>. QED BY <1>6, <1>11, <2>1 DEF Ends
<1>14. Ends(f, todo)
  BY <1>1, <1>5, <1>13, EndsJoin
<1>15. Framed(ctxs, f)
  <2>1. ctxs = <<c>>
    BY DEF Init, c
  <2>2. ctxs \in Seq(Contexts) /\ Len(ctxs) = 1 /\ ctxs[1] = c
    BY <1>9, <2>1
  <2>3. Len(f.below) = 0
    BY <1>6
  <2>. QED BY <1>6, <1>8, <2>2, <2>3 DEF Framed
<1>16. Held(ctxs, todo)
  BY <1>6, <1>14, <1>15 DEF Held
<1>17. program \in [nodes : Nat, kinds : SUBSET STRING]
  <2>1. program \in Vocabularies
    BY DEF Init
  <2>2. \A v \in Vocabularies : v \in [nodes : Nat, kinds : SUBSET STRING]
    BY ProgramsType
  <2>. QED BY <2>1, <2>2
<1>18. ended = "compiling"
  BY DEF Init
<1>. QED BY <1>16, <1>17, <1>18 DEF IInv

(* An assignment's target that is refused ends the compilation.            *)
LEMMA RefuseKept == ASSUME IInv, InvalidTarget PROVE IInv'
<1>1. ended' = "rejected" /\ ctxs' = ctxs /\ todo' = todo /\ program' = program
  BY DEF InvalidTarget, Reject
<1>. QED BY <1>1, Refused

(* Every step keeps it.                                                    *)
LEMMA StepKept == ASSUME IInv, [Next]_vars PROVE IInv'
<1>1. CASE UNCHANGED vars
  BY <1>1 DEF vars, IInv
<1>2. CASE CompileExpression
  BY <1>2, ExpressionKept
<1>3. CASE CompileStatement
  BY <1>3, StatementKept
<1>4. CASE EmitOp
  BY <1>4, OpKept
<1>5. CASE EmitName
  BY <1>5, NameKept
<1>6. CASE EmitConstant
  BY <1>6, ConstantKept
<1>7. CASE EmitOne
  BY <1>7, OneKept
<1>8. CASE NamedVariable
  BY <1>8, VariableKept
<1>9. CASE BeginScope
  BY <1>9, BeginKept
<1>10. CASE LeaveScope
  BY <1>10, ScopeKept
<1>11. CASE DeclareVariable
  BY <1>11, DeclareKept
<1>12. CASE DefineVariable
  BY <1>12, DefineKept
<1>13. CASE EmitJump
  BY <1>13, JumpKept
<1>14. CASE PatchElse
  BY <1>14, ElseKept
<1>15. CASE PatchEnd
  BY <1>15, JoinKept
<1>16. CASE StartLoop
  BY <1>16, StartKept
<1>17. CASE EndLoop
  BY <1>17, LoopKept
<1>18. CASE EnterFunction
  BY <1>18, EnterKept
<1>19. CASE StoreArgument
  BY <1>19, ArgumentKept
<1>20. CASE LeaveFunction
  BY <1>20, LeaveKept
<1>21. CASE CompileEnd
  BY <1>21, EndKept
<1>22. CASE InvalidTarget
  BY <1>22, RefuseKept
<1>. QED BY <1>1, <1>2, <1>3, <1>4, <1>5, <1>6, <1>7, <1>8, <1>9, <1>10, <1>11, <1>12, <1>13, <1>14,
            <1>15, <1>16, <1>17, <1>18, <1>19, <1>20, <1>21, <1>22 DEF Next

(* In every state of a compilation the steps that are left lead on from a  *)
(* frame that the contexts fit: the code of each is a row of instructions  *)
(* as they were written, its open jumps, scopes and stack are those that   *)
(* the next steps expect.                                                  *)
THEOREM CodeInvariant == Spec => []IInv
<1>1. Init => IInv
  BY Begins
<1>2. IInv /\ [Next]_vars => IInv'
  BY StepKept
<1>. QED BY <1>1, <1>2, PTL DEF Spec

-----------------------------------------------------------------------------
(* Types.                                                                  *)

(* Every context fits a shape.                                             *)
LEMMA AllFit ==
  ASSUME IInv
  PROVE /\ ctxs \in Seq(Contexts) /\ Len(ctxs) \in Nat /\ Len(ctxs) > 0
        /\ \A d \in 1..Len(ctxs) : \E x \in Shapes : Fits(ctxs[d], x)
<1>1. PICK f \in Frames : Framed(ctxs, f)
  BY DEF IInv, Held
<1> DEFINE n == Len(ctxs)
           b == f.below
<1>2. /\ b \in Seq(Shapes) /\ f.top \in Shapes /\ ctxs \in Seq(Contexts) /\ n \in Nat /\ n > 0
      /\ Len(b) \in Nat /\ n = Len(b) + 1 /\ Fits(ctxs[n], f.top)
  BY <1>1, FramedParts
<1>3. \A i \in 1..Len(b) : Fits(ctxs[i], b[i])
  BY <1>1 DEF Framed
<1> HIDE DEF b, n
<1>4. ASSUME NEW d \in 1..n PROVE \E x \in Shapes : Fits(ctxs[d], x)
  <2>1. CASE d = n
    BY <1>2, <2>1
  <2>2. CASE d \in 1..Len(b)
    <3>1. b[d] \in Shapes
      BY <1>2, <2>2, ElementOfSeq
    <3>. QED BY <1>3, <2>2, <3>1
  <2>3. d = n \/ d \in 1..Len(b)
    BY <1>2
  <2>. QED BY <2>1, <2>2, <2>3
<1>. QED BY <1>2, <1>4 DEF n

(* The marks of a context that fits are at places of its code.             *)
LEMMA FitsMarks ==
  ASSUME NEW c, NEW x \in Shapes, Fits(c, x), NEW k \in 1..Len(c.marks)
  PROVE c.marks[k].at \in 0..Len(c.code)
<1>1. c \in Contexts /\ Jumping(c, x.marks)
  BY DEF Fits
<1>2. Marked(c.code, c.insns, c.marks[k], x.marks[k])
  BY <1>1 DEF Jumping
<1>3. c.marks \in Seq(Marks) /\ Len(c.code) \in Nat
  BY <1>1, ContextParts
<1>4. c.marks[k] \in Marks
  BY <1>3, ElementOfSeq
<1>5. c.marks[k].at \in Nat
  BY <1>4 DEF Marks
<1>6. c.marks[k].at <= Len(c.code)
  BY <1>2 DEF Marked
<1>. QED BY <1>3, <1>5, <1>6

(* The bytes and marks of such a context.                                  *)
LEMMA FitsTyped ==
  ASSUME NEW c, NEW x \in Shapes, Fits(c, x)
  PROVE /\ \A i \in DOMAIN c.code : c.code[i] \in 0..255
        /\ \A m \in Range(c.marks) : m.at \in 0..Count(c)
        /\ c.depth \in Nat
<1>1. c \in Contexts
  BY DEF Fits
<1>2. c.code \in Seq(0..255) /\ c.marks \in Seq(Marks) /\ c.depth \in Nat
  BY <1>1, ContextParts
<1>3. \A i \in DOMAIN c.code : c.code[i] \in 0..255
  <2> DEFINE S == 0..255
  <2>1. c.code \in Seq(S)
    BY <1>2
  <2> HIDE DEF S
  <2>2. \A i \in DOMAIN c.code : c.code[i] \in S
    BY <2>1
  <2>. QED BY <2>2 DEF S
<1>4. \A m \in Range(c.marks) : m.at \in 0..Count(c)
  <2>1. DOMAIN c.marks = 1..Len(c.marks)
    BY <1>2
  <2>2. ASSUME NEW m \in Range(c.marks) PROVE m.at \in 0..Count(c)
    <3>1. PICK k \in 1..Len(c.marks) : m = c.marks[k]
      BY <2>1 DEF Range
    <3>2. c.marks[k].at \in 0..Len(c.code)
      BY FitsMarks
    <3>. QED BY <3>1, <3>2 DEF Count
  <2>. QED BY <2>2
<1>. QED BY <1>2, <1>3, <1>4

(* Where the steps of a context end its shape is at rest.                  *)
LEMMA Rests ==
  ASSUME IInv, ended = "done" \/ At("leave")
  PROVE \E x \in Shapes : Fits(Now, x) /\ Rest(x)
<1>1. PICK f \in Frames : Framed(ctxs, f) /\ Ends(f, todo)
  BY DEF IInv, Held
<1>2. f.top \in Shapes /\ Fits(Now, f.top)
  BY <1>1, FramedParts DEF Now
<1>3. CASE ended = "done"
  <2>1. Ends(f, <<>>)
    BY <1>1, <1>3 DEF IInv
  <2>2. PICK g \in Frames : Chain(f, <<>>, g) /\ Final(g)
    BY <2>1 DEF Ends
  <2>3. Rest(f.top)
    BY <2>2, ChainEnd DEF Final
  <2>. QED BY <1>2, <2>3
<1>4. CASE At("leave")
  <2> DEFINE s == Head(todo)
  <2>1. s.do = "leave" /\ todo # <<>>
    BY <1>4 DEF At
  <2>2. PICK g \in Frames : Flows(f, s, g)
    BY <1>1, <2>1, EndsHead
  <2> HIDE DEF s
  <2>3. ~Rises(f.top, s, g.top)
    BY <2>1 DEF Rises
  <2>4. ~Scopes(f.top, s, g.top)
    BY <2>1 DEF Scopes
  <2>5. ~Jumps(f.top, s, g.top)
    BY <2>1, Zenon DEF Jumps
  <2>6. Rest(f.top)
    BY <2>1, <2>2, <2>3, <2>4, <2>5 DEF Flows
  <2>. QED BY <1>2, <2>6
<1>. QED BY <1>3, <1>4

(* A context that is at rest has nothing open.                             *)
LEMMA RestsOpen ==
  ASSUME NEW c, NEW x \in Shapes, Fits(c, x), Rest(x)
  PROVE c.marks = <<>> /\ c.depth = 0
<1>1. c \in Contexts /\ Jumping(c, x.marks) /\ c.depth = x.depth
  BY DEF Fits
<1>2. x.marks = <<>> /\ x.depth = 0
  BY DEF Rest
<1>3. Len(c.marks) = 0 /\ c.marks \in Seq(Marks)
  BY <1>1, <1>2, ContextParts DEF Jumping
<1>. QED BY <1>1, <1>2, <1>3

(* In every program every byte of code is a byte and every mark a place of *)
(* the code; where a function is left and at the end no jump and no scope  *)
(* is open.                                                                *)
THEOREM CodeTypes == Spec => []TypeOK
<1>1. ASSUME IInv PROVE TypeOK
  <2>1. DOMAIN ctxs = 1..Len(ctxs)
    BY AllFit
  <2>2. ASSUME NEW d \in DOMAIN ctxs
        PROVE /\ \A i \in DOMAIN ctxs[d].code : ctxs[d].code[i] \in 0..255
              /\ \A m \in Range(ctxs[d].marks) : m.at \in 0..Count(ctxs[d])
              /\ ctxs[d].depth \in Nat
    <3>1. PICK x \in Shapes : Fits(ctxs[d], x)
      BY <2>1, <1>1, AllFit
    <3> DEFINE c == ctxs[d]
    <3>2. Fits(c, x)
      BY <3>1
    <3> HIDE DEF c
    <3>3. /\ \A i \in DOMAIN c.code : c.code[i] \in 0..255
          /\ \A m \in Range(c.marks) : m.at \in 0..Count(c)
          /\ c.depth \in Nat
      BY <3>2, FitsTyped
    <3>. QED BY <3>3 DEF c
  <2>3. ended = "done" \/ At("leave") => Now.marks = <<>> /\ Now.depth = 0
    BY <1>1, Rests, RestsOpen
  <2>4. ended \in {"compiling", "done", "rejected", "crashed"} /\ program.nodes \in Nat
    BY <1>1 DEF IInv
  <2>. QED BY <2>2, <2>3, <2>4 DEF TypeOK
<1>. QED BY <1>1, CodeInvariant, PTL

-----------------------------------------------------------------------------
(* The stack.                                                              *)

(* Between statements the frame is as high as its account says.            *)
LEMMA Heights ==
  ASSUME IInv, At("stmt") \/ At("loop") \/ At("halt") \/ At("leave")
  PROVE Now.account.height = Len(Now.locals) + Now.account.owed + Kept
<1> DEFINE s == Head(todo)
<1>1. PICK f \in Frames : Framed(ctxs, f) /\ Ends(f, todo)
  BY DEF IInv, Held
<1>2. f.top \in Shapes /\ Fits(Now, f.top)
  BY <1>1, FramedParts DEF Now
<1>3. s.do \in {"stmt", "loop", "halt", "leave"} /\ todo # <<>>
  BY DEF At
<1>4. PICK g \in Frames : Flows(f, s, g)
  BY <1>1, <1>3, EndsHead
<1>5. Kept = (IF s.do = "leave" /\ s.arg = "arrow" THEN 1 ELSE 0)
  BY <1>3 DEF Kept, At, Arg
<1> HIDE DEF s
<1>6. f.top.over = (IF s.do = "leave" /\ s.arg = "arrow" THEN 1 ELSE 0)
  <2>1. ~Scopes(f.top, s, g.top)
    BY <1>3 DEF Scopes
  <2>2. CASE s.do = "stmt"
    <3>1. ~Jumps(f.top, s, g.top)
      BY <2>2, Zenon DEF Jumps
    <3>2. Rises(f.top, s, g.top)
      BY <1>4, <2>1, <2>2, <3>1 DEF Flows
    <3>. QED BY <2>2, <3>2 DEF Rises
  <2>3. CASE s.do = "loop"
    <3>1. ~Rises(f.top, s, g.top)
      BY <2>3 DEF Rises
    <3>2. Jumps(f.top, s, g.top)
      BY <1>4, <2>1, <2>3, <3>1 DEF Flows
    <3>3. f.top.over = 0
      BY <2>3, <3>2, Zenon DEF Jumps
    <3>. QED BY <2>3, <3>3
  <2>4. CASE s.do \in {"halt", "leave"}
    <3>1. ~Rises(f.top, s, g.top)
      BY <2>4 DEF Rises
    <3>2. ~Jumps(f.top, s, g.top)
      BY <2>4, Zenon DEF Jumps
    <3>. QED BY <1>4, <2>1, <2>4, <3>1, <3>2 DEF Flows
  <2>. QED BY <1>3, <2>2, <2>3, <2>4
<1>7. Now.account.height = Len(Now.locals) + Now.account.owed + f.top.over
  BY <1>2, FitsParts
<1>. QED BY <1>5, <1>6, <1>7

(* In every program, whatever it nests, the stack between statements holds *)
(* a value for each local and what is owed, no more and no less.           *)
THEOREM HeightAccounted == Spec => []HeightAccount
<1>1. IInv => HeightAccount
  BY Heights DEF HeightAccount
<1>. QED BY <1>1, CodeInvariant, PTL

-----------------------------------------------------------------------------
(* What vm_run reads.                                                      *)

(* "one" is no opcode.                                                     *)
LEMMA OneNone == "one" \notin Range(Opcodes)
<1>1. DOMAIN Opcodes = 1..67
  BY DEF Opcodes
<1>2. \A i \in 1..67 : Opcodes[i] # "one"
  BY DEF Opcodes
<1>. QED BY <1>1, <1>2 DEF Range

(* The byte at the place of an instruction.                                *)
FirstByte(c, i) == c.code[c.insns[i].at + 1]

(* A byte of code.                                                         *)
LEMMA CodeByte ==
  ASSUME NEW code \in Seq(0..255), NEW p \in Nat, p < Len(code)
  PROVE code[p + 1] \in Bytes
<1> DEFINE S == 0..255
           q == p + 1
<1>1. code \in Seq(S)
  OBVIOUS
<1>2. q \in 1..Len(code)
  <2>1. Len(code) \in Nat
    OBVIOUS
  <2>. QED BY <2>1
<1> HIDE DEF S, q
<1>3. code[q] \in S
  BY <1>1, <1>2, ElementOfSeq
<1>. QED BY <1>3 DEF S, q, Bytes

(* An instruction of a context, and where it lies.                         *)
LEMMA LaidParts ==
  ASSUME NEW c \in Contexts, Laid(c.code, c.insns), NEW i \in 1..Len(c.insns)
  PROVE /\ Lies(c.code, c.insns[i], After(c.code, c.insns, i))
        /\ c.insns[i].at \in Nat /\ c.insns[i].at < Len(c.code) /\ c.insns[i].to \in Int
        /\ FirstByte(c, i) \in Bytes
        /\ c.insns[i].op \in Plain \cup JumpOps \cup {"LOOP", "CLOSURE", "one"}
<1>1. c.code \in Seq(0..255) /\ c.insns \in Seq(Insns) /\ Len(c.code) \in Nat
  BY ContextParts
<1>2. After(c.code, c.insns, i) \in Nat /\ c.insns[i] \in Insns
  BY <1>1, AfterType
<1>3. c.insns[i].at \in Nat /\ c.insns[i].to \in Int
  BY <1>2, InsnParts
<1>4. c.insns[i].op \in Plain \cup JumpOps \cup {"LOOP", "CLOSURE", "one"}
  BY <1>2 DEF Insns
<1>5. /\ Lies(c.code, c.insns[i], After(c.code, c.insns, i))
      /\ c.insns[i].at < After(c.code, c.insns, i) /\ After(c.code, c.insns, i) <= Len(c.code)
  BY DEF Laid
<1>6. c.insns[i].at < Len(c.code)
  BY <1>1, <1>2, <1>3, <1>5
<1>7. FirstByte(c, i) \in Bytes
  <2> DEFINE p == c.insns[i].at
             code == c.code
  <2>1. code \in Seq(0..255) /\ p \in Nat /\ p < Len(code)
    BY <1>1, <1>3, <1>6
  <2> HIDE DEF p, code
  <2>2. code[p + 1] \in Bytes
    BY <2>1, CodeByte
  <2>. QED BY <2>2, Zenon DEF FirstByte, p, code
<1>. QED BY <1>3, <1>4, <1>5, <1>6, <1>7

(* A loop's offset is counted from behind it.                              *)
LEMMA LiesLoop ==
  ASSUME NEW code, NEW insn, NEW next, Lies(code, insn, next), insn.op = "LOOP"
  PROVE insn.at + 3 - (code[insn.at + 2] * 256 + code[insn.at + 3]) = insn.to
<1>1. insn.op \notin Plain /\ insn.op \notin JumpOps
  BY DEF Plain, TwoBytes, JumpOps
<1>. QED BY <1>1, Zenon DEF Lies

(* In every program every loop goes back to the first byte of an           *)
(* instruction, that of its condition or its body.                         *)
THEOREM LoopsGoBack == Spec => []LoopsReturn
<1>1. ASSUME IInv PROVE LoopsReturn
  <2>1. Len(ctxs) \in 1..Len(ctxs)
    BY <1>1, AllFit
  <2>2. PICK x \in Shapes : Fits(Now, x)
    BY <1>1, <2>1, AllFit DEF Now
  <2> DEFINE c == Now
  <2>3. c \in Contexts /\ Laid(c.code, c.insns)
    BY <2>2 DEF Fits
  <2> HIDE DEF c
  <2>4. c.insns \in Seq(Insns)
    BY <2>3, ContextParts
  <2>5. DOMAIN c.insns = 1..Len(c.insns)
    BY <2>4
  <2>6. ASSUME NEW i \in 1..Len(c.insns), c.insns[i].op = "LOOP"
        PROVE /\ c.insns[i].at + 3 - (c.code[c.insns[i].at + 2] * 256 + c.code[c.insns[i].at + 3]) = c.insns[i].to
              /\ \E j \in 1..Len(c.insns) : c.insns[j].at = c.insns[i].to
    <3>1. Lies(c.code, c.insns[i], After(c.code, c.insns, i))
      BY <2>3, LaidParts
    <3>2. \E j \in 1..Len(c.insns) : c.insns[j].at = c.insns[i].to
      BY <2>3, <2>6 DEF Laid
    <3>. QED BY <2>6, <3>1, <3>2, LiesLoop
  <2>. QED BY <2>5, <2>6, Zenon DEF LoopsReturn, c
<1>. QED BY <1>1, CodeInvariant, PTL

(* vm_run takes an instruction for what it is, and goes on at the next.    *)
Understood(c, i) ==
  Reads(c, c.insns[i].at) = c.insns[i].op /\ c.insns[i].at + Width(c, c.insns[i].at) = NextPlace(c, i)

(* What is read at a byte.                                                 *)
LEMMA ReadsNumber ==
  ASSUME NEW c, NEW p, c.code[p + 1] \in 0..66
  PROVE Reads(c, p) = Opcodes[c.code[p + 1] + 1]
<1>1. c.code[p + 1] < Len(Opcodes)
  BY Numbers
<1>. QED BY <1>1 DEF Reads

(* An opcode is read at its number.                                        *)
LEMMA ReadsOpcode ==
  ASSUME NEW c, NEW p, NEW op \in Range(Opcodes), c.code[p + 1] = Number[op]
  PROVE Reads(c, p) = op
<1>1. Number[op] \in 0..66 /\ Opcodes[Number[op] + 1] = op
  BY Numbers
<1>. QED BY <1>1, ReadsNumber

(* A plain instruction is understood.                                      *)
LEMMA PlainUnderstood ==
  ASSUME NEW c, NEW i, c.insns[i].op \in Plain, Lies(c.code, c.insns[i], After(c.code, c.insns, i))
  PROVE Understood(c, i)
<1> DEFINE insn == c.insns[i]
           at == insn.at
           op == insn.op
           next == After(c.code, c.insns, i)
<1>1. op \in Range(Opcodes) /\ op \notin TwoBytes /\ op # "CLOSURE"
  BY DEF Plain
<1>2. op # "one" /\ op # "LOOP" /\ op \notin JumpOps
  BY <1>1, OneNone DEF TwoBytes, JumpOps
<1> HIDE DEF insn, at, op, next
<1>3. c.code[at + 1] = Number[op] /\ next = at + (IF op \in OneByte THEN 2 ELSE 1)
  BY <1>1, <1>2, Zenon DEF Lies, insn, at, op, next
<1>4. Reads(c, at) = op
  BY <1>1, <1>3, ReadsOpcode
<1>5. Width(c, at) = (IF op \in OneByte THEN 2 ELSE 1)
  BY <1>1, <1>4 DEF Width
<1>6. NextPlace(c, i) = next
  BY DEF NextPlace, next, After, Count
<1>. QED BY <1>3, <1>4, <1>5, <1>6 DEF Understood, at, op, insn

(* A loop is.                                                              *)
LEMMA LoopUnderstood ==
  ASSUME NEW c, NEW i, c.insns[i].op = "LOOP", Lies(c.code, c.insns[i], After(c.code, c.insns, i))
  PROVE Understood(c, i)
<1> DEFINE insn == c.insns[i]
           at == insn.at
           op == insn.op
           next == After(c.code, c.insns, i)
<1>1. op \notin Plain /\ op \notin JumpOps /\ op = "LOOP"
  BY DEF Plain, TwoBytes, JumpOps
<1>2. op \in Range(Opcodes) /\ op \notin OneByte /\ op \in TwoBytes
  BY <1>1, Emitted DEF OneByte, TwoBytes
<1> HIDE DEF insn, at, op, next
<1>3. c.code[at + 1] = Number[op] /\ next = at + 3
  BY <1>1, Zenon DEF Lies, insn, at, op, next
<1>4. Reads(c, at) = op
  BY <1>2, <1>3, ReadsOpcode
<1>5. Width(c, at) = 3
  BY <1>1, <1>2, <1>4 DEF Width
<1>6. NextPlace(c, i) = next
  BY DEF NextPlace, next, After, Count
<1>. QED BY <1>3, <1>4, <1>5, <1>6 DEF Understood, at, op, insn

(* The byte for "one" is read as another opcode.                           *)
LEMMA OneMistaken ==
  ASSUME NEW c, NEW i, c.insns[i].op = "one", Lies(c.code, c.insns[i], After(c.code, c.insns, i))
  PROVE ~Understood(c, i)
<1> DEFINE insn == c.insns[i]
           at == insn.at
           op == insn.op
           next == After(c.code, c.insns, i)
<1>1. op \notin Plain /\ op \notin JumpOps /\ op = "one"
  BY OneNone DEF Plain, JumpOps
<1> HIDE DEF insn, at, op, next
<1>2. c.code[at + 1] = 1
  BY <1>1, Zenon DEF Lies, insn, at, op, next
<1>3. Reads(c, at) = Opcodes[1 + 1]
  <2>1. c.code[at + 1] \in 0..66
    BY <1>2
  <2>. QED BY <1>2, <2>1, ReadsNumber
<1>4. Reads(c, at) = "CONST_FLOAT"
  BY <1>3, OpcodePlaces
<1>5. Reads(c, at) # op
  BY <1>1, <1>4
<1>. QED BY <1>5 DEF Understood, at, op, insn

(* A closure is taken for an odd number of bytes, and has an even one.     *)
LEMMA ClosureMistaken ==
  ASSUME NEW c \in Contexts, NEW i, c.insns[i].op = "CLOSURE", c.insns[i].at \in Nat,
         Lies(c.code, c.insns[i], After(c.code, c.insns, i))
  PROVE ~Understood(c, i)
<1> DEFINE insn == c.insns[i]
           at == insn.at
           op == insn.op
           next == After(c.code, c.insns, i)
           b == Byte(c, at + 2)
<1>1. op \notin Plain /\ op \notin JumpOps /\ op = "CLOSURE"
  BY DEF Plain, JumpOps
<1>2. op \in Range(Opcodes) /\ op \notin OneByte /\ op \notin TwoBytes
  BY <1>1, Emitted DEF OneByte, TwoBytes
<1>3. b \in Nat
  <2>1. c.code \in Seq(0..255) /\ Len(c.code) \in Nat
    BY ContextParts
  <2> DEFINE p == at + 2
  <2>2. p \in Nat
    OBVIOUS
  <2> HIDE DEF p
  <2>3. CASE p < Len(c.code)
    <3> DEFINE S == 0..255
               q == p + 1
    <3>1. q \in 1..Len(c.code) /\ c.code \in Seq(S)
      BY <2>1, <2>2, <2>3
    <3> HIDE DEF S, q
    <3>2. c.code[q] \in S
      BY <3>1, ElementOfSeq
    <3>3. c.code[p + 1] \in Nat
      BY <3>2 DEF S, q
    <3>. QED BY <2>3, <3>3 DEF Byte, Count, p
  <2>4. CASE ~(p < Len(c.code))
    BY <2>4 DEF Byte, Count, p
  <2>. QED BY <2>3, <2>4
<1>4. at \in Nat
  OBVIOUS
<1> HIDE DEF insn, at, op, next, b
<1>5. c.code[at + 1] = Number[op] /\ Paired(at, next)
  BY <1>1, Zenon DEF Lies, insn, at, op, next
<1>6. Reads(c, at) = op
  BY <1>2, <1>5, ReadsOpcode
<1>7. Width(c, at) = 3 + 2 * b
  BY <1>1, <1>2, <1>6 DEF Width, b
<1>8. NextPlace(c, i) = next
  BY DEF NextPlace, next, After, Count
<1>9. at + (3 + 2 * b) # next
  <2>1. PICK u \in Nat : next = at + 2 + 2 * u
    BY <1>5 DEF Paired
  <2>2. at + (3 + 2 * b) # at + 2 + 2 * u
    BY <1>3, <1>4
  <2>. QED BY <2>1, <2>2
<1>. QED BY <1>7, <1>8, <1>9 DEF Understood, at, op, insn

(* A jump that is patched is understood where its distance's high byte,    *)
(* which lies on its opcode, is that opcode.                               *)
LEMMA JumpUnderstood ==
  ASSUME NEW c, NEW i, c.insns[i].op \in JumpOps, c.insns[i].to # -1,
         FirstByte(c, i) \in Bytes, Lies(c.code, c.insns[i], After(c.code, c.insns, i))
  PROVE Understood(c, i) <=> LooksLikeJump(c.insns[i])
<1> DEFINE insn == c.insns[i]
           at == insn.at
           op == insn.op
           to == insn.to
           next == After(c.code, c.insns, i)
           b == c.code[at + 1]
<1>1. op \notin Plain /\ op \in JumpOps /\ op # "one" /\ op # "CLOSURE" /\ op # "LOOP" /\ to # -1
  BY DEF Plain, TwoBytes, JumpOps
<1>2. op \in Range(Opcodes) /\ op \notin OneByte /\ op \in TwoBytes
  BY <1>1, Emitted DEF OneByte, TwoBytes, JumpOps
<1>3. b \in Bytes
  BY Zenon DEF FirstByte
<1> HIDE DEF insn, at, op, next, to, b
<1>4. b = (to - at - 2) \div 256 /\ next = at + 3
  BY <1>1, Zenon DEF Lies, insn, at, op, next, to, b
<1>5. NextPlace(c, i) = next
  BY Zenon DEF NextPlace, next, After, Count
<1>6. LooksLikeJump(insn) <=> b = Number[op]
  BY <1>4, Zenon DEF LooksLikeJump, at, op, to
<1>7. Understood(c, i) <=> (Reads(c, at) = op /\ at + Width(c, at) = next)
  BY <1>5, Zenon DEF Understood, at, op, insn
<1>8. CASE b = Number[op]
  <2>1. Reads(c, at) = op
    <3>1. c.code[at + 1] = Number[op]
      BY <1>8 DEF b
    <3>. QED BY <1>2, <3>1, ReadsOpcode
  <2>2. Width(c, at) = 3
    BY <1>1, <1>2, <2>1 DEF Width
  <2>3. Understood(c, i)
    BY <1>4, <1>7, <2>1, <2>2
  <2>. QED BY <1>6, <1>8, <2>3 DEF insn
<1>9. CASE b # Number[op]
  <2>1. Reads(c, at) # op
    <3>1. CASE b \in 0..66
      <4>1. Reads(c, at) = Opcodes[b + 1]
        BY <3>1, ReadsNumber DEF b
      <4>2. Opcodes[b + 1] # op
        BY <1>1, <1>9, <3>1, JumpNumbers
      <4>. QED BY <4>1, <4>2
    <3>2. CASE b \notin 0..66
      <4>1. ~(b < Len(Opcodes))
        BY <1>3, <3>2, Numbers DEF Bytes
      <4>2. Reads(c, at) = "unknown"
        BY <4>1 DEF Reads, b
      <4>. QED BY <1>1, <4>2 DEF JumpOps
    <3>. QED BY <3>1, <3>2
  <2>2. ~Understood(c, i)
    BY <1>7, <2>1
  <2>. QED BY <1>6, <1>9, <2>2 DEF insn
<1>. QED BY <1>8, <1>9

(* A context at rest has no jump that is not patched.                      *)
LEMMA RestsPatched ==
  ASSUME NEW c, NEW x \in Shapes, Fits(c, x), Rest(x), NEW i \in 1..Len(c.insns), c.insns[i].op \in JumpOps
  PROVE c.insns[i].to # -1
<1>1. Jumping(c, x.marks) /\ Len(x.marks) = 0
  BY DEF Fits, Rest
<1>2. \A k \in 1..Len(x.marks) : FALSE
  BY <1>1
<1>. QED BY <1>1, <1>2 DEF Jumping

(* The opcodes that EmitJump writes.                                       *)
LEMMA JumpsAre == Range(Jump) = JumpOps
BY DEF Range, Jump, JumpOps

(* In every program vm_run reads every instruction as it was written but   *)
(* the byte for "one", closures, and jumps whose distance has not their    *)
(* own opcode as its high byte: those it never reads as written.           *)
THEOREM CodeReads == Spec => []ReadAsWritten
<1>1. ASSUME IInv, Finished PROVE \A i \in DOMAIN Now.insns :
        Understood(Now, i) <=> /\ Now.insns[i].op \notin {"one", "CLOSURE"}
                               /\ Now.insns[i].op \in JumpOps => LooksLikeJump(Now.insns[i])
  <2>1. PICK x \in Shapes : Fits(Now, x) /\ Rest(x)
    BY <1>1, Rests DEF Finished
  <2> DEFINE c == Now
  <2> HIDE DEF c
  <2>2. Fits(c, x) /\ Rest(x)
    BY <2>1 DEF c
  <2>3. c \in Contexts /\ Laid(c.code, c.insns)
    BY <2>2 DEF Fits
  <2>4. DOMAIN c.insns = 1..Len(c.insns)
    <3>1. c.insns \in Seq(Insns)
      BY <2>3, ContextParts
    <3>. QED BY <3>1
  <2>5. ASSUME NEW i \in 1..Len(c.insns)
        PROVE Understood(c, i) <=> /\ c.insns[i].op \notin {"one", "CLOSURE"}
                                   /\ c.insns[i].op \in JumpOps => LooksLikeJump(c.insns[i])
    <3> DEFINE op == c.insns[i].op
    <3>1. /\ Lies(c.code, c.insns[i], After(c.code, c.insns, i)) /\ c.insns[i].at \in Nat
          /\ FirstByte(c, i) \in Bytes
          /\ op \in Plain \cup JumpOps \cup {"LOOP", "CLOSURE", "one"}
      BY <2>3, LaidParts
    <3>2. CASE op \in Plain
      <4>1. op # "one" /\ op # "CLOSURE" /\ op \notin JumpOps
        BY <3>2, OneNone DEF Plain, TwoBytes, JumpOps
      <4>. QED BY <3>1, <3>2, <4>1, PlainUnderstood
    <3>3. CASE op = "LOOP"
      <4>1. op # "one" /\ op # "CLOSURE" /\ op \notin JumpOps
        BY <3>3 DEF JumpOps
      <4>. QED BY <3>1, <3>3, <4>1, LoopUnderstood
    <3>4. CASE op = "one"
      BY <3>1, <3>4, OneMistaken
    <3>5. CASE op = "CLOSURE"
      BY <2>3, <3>1, <3>5, ClosureMistaken
    <3>6. CASE op \in JumpOps
      <4>1. op # "one" /\ op # "CLOSURE"
        BY <3>6 DEF JumpOps
      <4>2. c.insns[i].to # -1
        BY <2>2, <3>6, RestsPatched
      <4>3. Understood(c, i) <=> LooksLikeJump(c.insns[i])
        BY <3>1, <3>6, <4>2, JumpUnderstood
      <4>. QED BY <3>6, <4>1, <4>3
    <3>. QED BY <3>1, <3>2, <3>3, <3>4, <3>5, <3>6
  <2>. QED BY <2>4, <2>5, Zenon DEF c
<1>2. IInv => ReadAsWritten
  <2>1. ASSUME IInv, Finished, NEW i \in DOMAIN Now.insns
        PROVE (Reads(Now, Now.insns[i].at) = Now.insns[i].op
               /\ Now.insns[i].at + Width(Now, Now.insns[i].at) = NextPlace(Now, i))
                <=> /\ Now.insns[i].op \notin {"one", "CLOSURE"}
                    /\ Now.insns[i].op \in JumpOps => LooksLikeJump(Now.insns[i])
    BY <1>1, <2>1, Zenon DEF Understood
  <2>. QED BY <2>1, JumpsAre, Zenon DEF ReadAsWritten
<1>. QED BY <1>2, CodeInvariant, PTL
=============================================================================
