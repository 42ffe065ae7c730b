--------------------------- MODULE SkpScopes_proofs ---------------------------
(***************************************************************************)
(* Proofs about SkpScopes for programs of any size and depth, tables and   *)
(* names of any number: no scope gets two variables of one name, and a     *)
(* declaration is refused only for that, or for want of room.              *)
(***************************************************************************)
EXTENDS SkpScopes, SequenceTheorems, WellFoundedInduction, TLAPS

(* Among numbers up to N there is a largest.                               *)
LEMMA LargestUpTo ==
  ASSUME NEW N \in Nat, NEW S \in SUBSET (0..N), S # {}
  PROVE  \E n \in S : \A m \in S : m <= n
  <1> DEFINE T == {N - n : n \in S}
  <1>1. T \subseteq Nat /\ T # {}
    <2>1. \A n \in S : n \in 0..N
      OBVIOUS
    <2>2. \A n \in 0..N : N - n \in Nat
      OBVIOUS
    <2>3. T # {}
      OBVIOUS
    <2> QED
      BY <2>1, <2>2, <2>3
  <1>2. PICK x \in T : \A y \in T : ~(<<y, x>> \in OpToRel(<, Nat))
    BY <1>1, NatLessThanWellFounded, WFMin
  <1>3. PICK n \in S : x = N - n
    BY <1>2
  <1>4. \A y \in T : ~(y < x)
    BY <1>1, <1>2 DEF OpToRel
  <1>5. \A m \in S : ~(N - m < N - n)
    BY <1>3, <1>4
  <1>6. n \in 0..N /\ \A m \in S : m \in 0..N
    BY <1>3
  <1> QED
    BY <1>3, <1>5, <1>6

-----------------------------------------------------------------------------
(* One context.                                                            *)
Size(c)       == Len(c.locals)
NameAt(c, p)  == c.locals[p].name
DepthAt(c, p) == c.locals[p].depth

Well(c) ==
  /\ DOMAIN c = {"locals", "upvalues", "scope_depth", "from"}
  /\ c.locals \in Seq(Locals(Int))
  /\ c.scope_depth \in Nat

(* The table of d begins with the first n locals of c.                     *)
Begins(c, d, n) ==
  \A p \in 1..n : NameAt(d, p) = NameAt(c, p) /\ DepthAt(d, p) = DepthAt(c, p)

SameTable(c, d) == Well(d) /\ Size(d) = Size(c) /\ Begins(c, d, Size(c))

(* What is known of a context's table.                                     *)
LEMMA TableFacts ==
  ASSUME NEW c, Well(c)
  PROVE  /\ Size(c) \in Nat
         /\ c.locals = <<>> <=> Size(c) = 0
         /\ \A p \in 1..Size(c) : /\ NameAt(c, p) \in Names \cup {This, Iter}
                                  /\ DepthAt(c, p) \in Int
  <1>1. c.locals \in Seq(Locals(Int))
    BY DEF Well
  <1>2. Len(c.locals) \in Nat /\ \A p \in 1..Len(c.locals) : c.locals[p] \in Locals(Int)
    BY <1>1
  <1>3. c.locals = <<>> <=> Len(c.locals) = 0
    BY <1>1
  <1>4. \A r \in Locals(Int) : r.name \in Names \cup {This, Iter} /\ r.depth \in Int
    BY DEF Locals
  <1> QED
    BY <1>2, <1>3, <1>4 DEF Size, NameAt, DepthAt

(* begin_scope.                                                            *)
LEMMA BeginScopeIs ==
  ASSUME NEW c, Well(c)
  PROVE  SameTable(c, BeginScope(c)) /\ BeginScope(c).scope_depth = c.scope_depth + 1
  BY DEF Well, BeginScope, SameTable, Size, Begins, NameAt, DepthAt

(* The table that declare_variable leaves when it adds n.                  *)
Adds(c, d, n) ==
  /\ Well(d) /\ d.scope_depth = c.scope_depth
  /\ Size(d) = Size(c) + 1 /\ Begins(c, d, Size(c))
  /\ NameAt(d, Size(d)) = n /\ DepthAt(d, Size(d)) = -1

(* declare_variable.                                                       *)
LEMMA DeclareIs ==
  ASSUME NEW c, NEW n \in Names \cup {Iter}, Well(c), ~Rejected(c, n)
  PROVE  IF c.scope_depth = 0 THEN Declare(c, n) = c ELSE Adds(c, Declare(c, n), n)
  <1>1. CASE c.scope_depth = 0
    BY <1>1 DEF Declare
  <1>2. CASE c.scope_depth # 0
    <2> DEFINE e == [name |-> n, depth |-> -1, captured |-> FALSE]
    <2> DEFINE d == Declare(c, n)
    <2>1. d = [c EXCEPT !.locals = Append(@, e)]
      BY <1>2 DEF Declare
    <2>2. d.locals = Append(c.locals, e) /\ DOMAIN d = DOMAIN c
          /\ d.scope_depth = c.scope_depth
      BY <2>1 DEF Well
    <2>3. e \in Locals(Int) /\ e.name = n /\ e.depth = -1
      BY DEF Locals
    <2> HIDE DEF e, d
    <2>4. /\ d.locals \in Seq(Locals(Int))
          /\ Len(d.locals) = Len(c.locals) + 1
          /\ \A i \in 1..Len(c.locals) : d.locals[i] = c.locals[i]
          /\ d.locals[Len(c.locals) + 1] = e
      BY <2>2, <2>3, AppendProperties DEF Well
    <2>5. Adds(c, d, n)
      BY <2>2, <2>3, <2>4 DEF Well, Adds, Begins, Size, NameAt, DepthAt
    <2> QED
      BY <1>2, <2>5 DEF d
  <1> QED
    BY <1>1, <1>2

(* The table that define_variable leaves.                                  *)
Gives(c, d) ==
  /\ Well(d) /\ d.scope_depth = c.scope_depth /\ Size(d) = Size(c)
  /\ \A p \in 1..Size(c) :
       /\ NameAt(d, p) = NameAt(c, p)
       /\ DepthAt(d, p) = IF p = Size(c) /\ c.scope_depth # 0 THEN c.scope_depth
                          ELSE DepthAt(c, p)

(* define_variable.                                                        *)
LEMMA DefineIs ==
  ASSUME NEW c, Well(c)
  PROVE  Gives(c, Define(c)) /\ (c.scope_depth = 0 => Define(c) = c)
  <1>1. CASE c.scope_depth = 0
    BY <1>1 DEF Define, Gives
  <1>2. CASE c.locals = <<>>
    <2>1. Size(c) = 0 /\ Define(c) = c
      BY <1>2, TableFacts DEF Define
    <2> QED
      BY <2>1 DEF Gives
  <1>3. CASE c.scope_depth # 0 /\ c.locals # <<>>
    <2>1. PICK s : s = c.locals
      OBVIOUS
    <2>2. PICK n : n = Len(s)
      OBVIOUS
    <2>3. s \in Seq(Locals(Int)) /\ n \in Nat \ {0} /\ n \in 1..n
      BY <1>3, <2>1, <2>2, EmptySeq DEF Well
    <2>4. PICK r : r = [s[n] EXCEPT !.depth = c.scope_depth]
      OBVIOUS
    <2>5. s[n] \in Locals(Int)
      BY <2>2, <2>3, ElementOfSeq
    <2>6. r \in Locals(Int) /\ r.name = s[n].name /\ r.depth = c.scope_depth
      BY <2>4, <2>5 DEF Locals, Well
    <2>7. PICK u : u = [s EXCEPT ![n] = r]
      OBVIOUS
    <2>8. Define(c) = [c EXCEPT !.locals = u]
      BY <1>3, <2>1, <2>2, <2>4, <2>7 DEF Define, Well
    <2>9. /\ u \in Seq(Locals(Int)) /\ Len(u) = n
          /\ \A p \in 1..n : u[p] = IF p = n THEN r ELSE s[p]
      BY <2>2, <2>3, <2>6, <2>7, ExceptSeq
    <2>10. PICK d : d = Define(c)
      OBVIOUS
    <2>11. d.locals = u /\ d.scope_depth = c.scope_depth /\ DOMAIN d = DOMAIN c
      BY <2>8, <2>10 DEF Well
    <2>12. Gives(c, d)
      BY <1>3, <2>1, <2>2, <2>3, <2>6, <2>9, <2>11
        DEF Gives, Well, Size, NameAt, DepthAt
    <2> QED
      BY <1>3, <2>10, <2>12
  <1> QED
    BY <1>1, <1>2, <1>3

(* The table that end_scope leaves.                                        *)
Drops(c, d) ==
  /\ Well(d) /\ d.scope_depth = c.scope_depth - 1
  /\ Size(d) \in 0..Size(c) /\ Begins(c, d, Size(d))
  /\ Size(d) > 0 => DepthAt(c, Size(d)) <= c.scope_depth - 1
  /\ \A p \in Size(d) + 1..Size(c) : DepthAt(c, p) > c.scope_depth - 1

(* end_scope.                                                              *)
LEMMA EndScopeIs ==
  ASSUME NEW c, Well(c), c.scope_depth > 0
  PROVE  Drops(c, EndScope(c))
  <1>1. PICK N : N = Size(c)
    OBVIOUS
  <1>2. PICK d : d = c.scope_depth - 1
    OBVIOUS
  <1>3. N \in Nat /\ d \in Nat /\ \A p \in 1..N : DepthAt(c, p) \in Int
    BY <1>1, <1>2, TableFacts DEF Well
  <1> DEFINE kept == {n \in 0..N : n > 0 => DepthAt(c, n) <= d}
  <1>4. 0 \in kept /\ kept \in SUBSET (0..N)
    BY <1>3
  <1> DEFINE M == CHOOSE n \in kept : \A m \in kept : m <= n
  <1>5. M \in kept /\ \A m \in kept : m <= M
    BY <1>3, <1>4, LargestUpTo
  <1>6. EndScope(c) = [c EXCEPT !.scope_depth = d, !.locals = SubSeq(c.locals, 1, M)]
    BY <1>1, <1>2 DEF EndScope, Size, DepthAt, Well
  <1> HIDE DEF M
  <1>7. M \in 0..N /\ (M > 0 => DepthAt(c, M) <= d)
    BY <1>5
  <1>8. \A p \in M + 1..N : DepthAt(c, p) > d
    <2>1. SUFFICES ASSUME NEW p \in M + 1..N PROVE DepthAt(c, p) > d
      OBVIOUS
    <2>2. p \in 1..N /\ p \in 0..N /\ ~(p <= M)
      BY <1>3, <1>7
    <2>3. p \notin kept
      BY <1>5, <2>2
    <2> QED
      BY <1>3, <2>2, <2>3
  <1> HIDE DEF kept
  <1>9. PICK e : e = EndScope(c)
    OBVIOUS
  <1>10. e.locals = SubSeq(c.locals, 1, M) /\ e.scope_depth = d /\ DOMAIN e = DOMAIN c
    BY <1>6, <1>9 DEF Well
  <1>11. /\ e.locals \in Seq(Locals(Int)) /\ Len(e.locals) = M
         /\ \A p \in 1..M : e.locals[p] = c.locals[p]
    <2>1. c.locals \in Seq(Locals(Int)) /\ Len(c.locals) = N
      BY <1>1 DEF Well, Size
    <2>2. \A p \in 1..M : p \in 1..N
      BY <1>3, <1>7
    <2>3. \A p \in 1..M : c.locals[p] \in Locals(Int)
      BY <2>1, <2>2, ElementOfSeq
    <2>4. /\ SubSeq(c.locals, 1, M) \in Seq(Locals(Int))
          /\ Len(SubSeq(c.locals, 1, M)) = IF 1 <= M THEN M - 1 + 1 ELSE 0
          /\ \A p \in 1..M - 1 + 1 : SubSeq(c.locals, 1, M)[p] = c.locals[1 + p - 1]
      BY <1>7, <2>3, SubSeqProperties
    <2> QED
      BY <1>3, <1>7, <1>10, <2>4
  <1>12. Drops(c, e)
    BY <1>1, <1>2, <1>3, <1>7, <1>8, <1>10, <1>11
      DEF Drops, Well, Size, Begins, NameAt, DepthAt
  <1> QED
    BY <1>9, <1>12

-----------------------------------------------------------------------------
(* The inductive invariant. It is about the path of constructs and the     *)
(* contexts, and about two numbers for every place k of the path: C[k],    *)
(* the context that is innermost there, and D[k], how many scopes that     *)
(* context has open there.                                                 *)
Opening == {"block", "for", "foreach"}         \* they begin a scope
Entered == {"function", "method", "lambda"}    \* they create a context
Pending == {"var", "iterable"}                 \* a local without depth is last
Naming  == Opening \cup {"function", "method"} \* what a local is noted in
Holding == {"block", "function", "method"}     \* their names have locals
Whats   == Opening \cup Entered \cup Pending \cup {"class"}

Entries == [what : Whats, names : Seq(Names \cup {Iter})]

(* A for-each loop whose variable is not declared yet.                     *)
LoopAt(path, k) ==
  k > 0 /\ path[k].what = "foreach" /\ path[k].names = <<Iter>>

(* In a variable's value there can be functions only; and this is about    *)
(* programs whose functions are all declared at the top.                   *)
PathOK(path) ==
  /\ path \in Seq(Entries)
  /\ \A k \in 1..Len(path) : IsInjective(path[k].names)
  /\ \A k \in 1..Len(path) : path[k].what = "function" => k = 1
  /\ \A k \in 1..Len(path) - 1 :
       path[k].what \in Pending => path[k + 1].what = "lambda"
  /\ \A k \in 1..Len(path) : path[k].what = "iterable" => LoopAt(path, k - 1)

(* The contexts are well formed, and the script's is always there.         *)
CtxsOK(cs) ==
  /\ cs \in Seq(Range(cs))
  /\ Len(cs) >= 1
  /\ \A i \in 1..Len(cs) : Well(cs[i])

(* How C and D follow from the path.                                       *)
Climbs(C, D, path) ==
  /\ C \in [Nat -> Nat] /\ D \in [Nat -> Nat] /\ C[0] = 1 /\ D[0] = 0
  /\ \A k \in 1..Len(path) :
       /\ C[k] = IF path[k].what \in Entered THEN C[k - 1] + 1 ELSE C[k - 1]
       /\ D[k] = IF path[k].what = "lambda" THEN 0
                 ELSE IF path[k].what \in Entered THEN 1
                 ELSE IF path[k].what \in Opening THEN D[k - 1] + 1
                 ELSE D[k - 1]
  /\ \A j, k \in 0..Len(path) :
       j <= k => C[j] <= C[k] /\ (C[j] = C[k] => D[j] <= D[k])

(* They are true of the contexts, the outer ones as they were left.        *)
Aligned(C, D, path, cs) ==
  /\ C[Len(path)] = Len(cs)
  /\ \A k \in 0..Len(path) :
       k = Len(path) \/ C[k + 1] # C[k] => cs[C[k]].scope_depth = D[k]

(* Context i has a local at place j that is not defined yet.               *)
PendsAt(C, D, path, i, j) ==
  j \in 1..Len(path) /\ C[j] = i /\ D[j] > 0 /\ path[j].what \in Pending

(* The name m of the block at place k has local p, no outer scope's local  *)
(* lies behind it, and it is the last only while its own value is compiled.*)
Keeps(C, D, path, c, k, m, p) ==
  /\ p \in 1..Size(c)
  /\ NameAt(c, p) = m
  /\ DepthAt(c, p) = -1 \/ DepthAt(c, p) = D[k]
  /\ \A q \in p..Size(c) : DepthAt(c, q) = -1 \/ DepthAt(c, q) >= D[k]
  /\ \A j \in Nat : PendsAt(C, D, path, C[k], j) /\ k < j =>
       p < Size(c) \/ (j = k + 1 /\ path[j].what = "var")

(* Every name that an open block has noted still has its local.            *)
KeepsNames(C, D, path, cs) ==
  \A k \in 1..Len(path) : path[k].what \in Holding =>
    \A x \in 1..Len(path[k].names) :
      \E p \in Nat : Keeps(C, D, path, cs[C[k]], k, path[k].names[x], p)

(* Local p is what a loop left behind: its hidden variable, and after it   *)
(* the one that never gets a depth.                                        *)
StuckAt(C, D, path, c, i, p) ==
  /\ p \in 1..Size(c) /\ NameAt(c, p) = Iter
  /\ \/ /\ p < Size(c) /\ DepthAt(c, p + 1) = -1
        /\ \A j \in Nat : PendsAt(C, D, path, i, j) => p + 1 < Size(c)
     \/ /\ p = Size(c)
        /\ \E j \in Nat : PendsAt(C, D, path, i, j) /\ path[j].what = "iterable"

(* Local p is noted in the construct at place k.                           *)
NotedAt(C, D, path, c, i, p, k) ==
  /\ k \in 1..Len(path) /\ C[k] = i /\ path[k].what \in Naming
  /\ Contains(path[k].names, NameAt(c, p))
  /\ \/ DepthAt(c, p) = D[k]
     \/ /\ DepthAt(c, p) = -1 /\ p = Size(c)
        /\ PendsAt(C, D, path, i, k + 1)

(* Every local is noted, and deeper ones come later.                       *)
InOrder(C, D, path, c, i) ==
  /\ \A p \in 1..Size(c) :
       DepthAt(c, p) = 0 \/ \E k \in Nat : NotedAt(C, D, path, c, i, p, k)
  /\ \A p, q \in 1..Size(c) :
       p < q => DepthAt(c, p) <= DepthAt(c, q) \/ DepthAt(c, q) = -1
  /\ \A j \in Nat : PendsAt(C, D, path, i, j) =>
       path[j].what = "var" /\ Size(c) > 0 /\ DepthAt(c, Size(c)) = -1

(* A context is in order until a for-each loop leaves its variables in it. *)
StuckOrInOrder(C, D, path, cs) ==
  \A i \in 1..Len(cs) :
    \/ \E p \in Nat : StuckAt(C, D, path, cs[i], i, p)
    \/ InOrder(C, D, path, cs[i], i)

Inv(C, D, path, cs) ==
  /\ PathOK(path) /\ CtxsOK(cs)
  /\ Climbs(C, D, path) /\ Aligned(C, D, path, cs)
  /\ KeepsNames(C, D, path, cs) /\ StuckOrInOrder(C, D, path, cs)

Holds(path, cs) == \E C, D : Inv(C, D, path, cs)

IInv == Holds(nest, ctxs)

-----------------------------------------------------------------------------
(* The path.                                                               *)
LEMMA PathFacts ==
  ASSUME NEW path, PathOK(path)
  PROVE  /\ Len(path) \in Nat
         /\ path = <<>> <=> Len(path) = 0
         /\ \A k \in 1..Len(path) : /\ path[k].what \in Whats
                                    /\ path[k].names \in Seq(Names \cup {Iter})
                                    /\ Len(path[k].names) \in Nat
  <1>1. Len(path) \in Nat /\ \A k \in 1..Len(path) : path[k] \in Entries
    BY DEF PathOK
  <1>2. \A e \in Entries : e.what \in Whats /\ e.names \in Seq(Names \cup {Iter})
    BY DEF Entries
  <1>3. \A s \in Seq(Names \cup {Iter}) : Len(s) \in Nat
    OBVIOUS
  <1>4. path = <<>> <=> Len(path) = 0
    BY DEF PathOK
  <1> QED
    BY <1>1, <1>2, <1>3, <1>4

(* The path with one construct more.                                       *)
Grown(path, path2, w, names) ==
  /\ Len(path2) = Len(path) + 1
  /\ \A k \in 1..Len(path) : path2[k] = path[k]
  /\ path2[Len(path2)].what = w /\ path2[Len(path2)].names = names

(* A construct can be entered in any other but where a value is expected.  *)
LEMMA PushPath ==
  ASSUME NEW path, PathOK(path),
         NEW w \in Whats, NEW names \in Seq(Names \cup {Iter}), IsInjective(names),
         w = "function" => path = <<>>,
         path # <<>> /\ path[Len(path)].what \in Pending => w = "lambda",
         w = "iterable" => LoopAt(path, Len(path))
  PROVE  /\ PathOK(Append(path, Construct(w, names)))
         /\ Grown(path, Append(path, Construct(w, names)), w, names)
  <1>1. PICK e : e = Construct(w, names)
    OBVIOUS
  <1>2. PICK n : n = Len(path)
    OBVIOUS
  <1>3. PICK r : r = Append(path, e)
    OBVIOUS
  <1>4. e \in Entries /\ e.what = w /\ e.names = names
    BY <1>1 DEF Construct, Entries
  <1>5. n \in Nat /\ path \in Seq(Entries) /\ (path = <<>> <=> n = 0)
    BY <1>2, PathFacts DEF PathOK
  <1>6. /\ r \in Seq(Entries) /\ Len(r) = n + 1
        /\ \A k \in 1..n : r[k] = path[k]
        /\ r[n + 1] = e
    BY <1>2, <1>3, <1>4, <1>5, AppendProperties
  <1>7. \A k \in 1..n + 1 : k \in 1..n \/ k = n + 1
    BY <1>5
  <1>8. \A k \in 1..n + 1 : IsInjective(r[k].names)
    BY <1>2, <1>4, <1>6, <1>7 DEF PathOK
  <1>9. \A k \in 1..n + 1 : r[k].what = "function" => k = 1
    BY <1>2, <1>4, <1>5, <1>6, <1>7 DEF PathOK
  <1>10. \A k \in 1..n : r[k].what \in Pending => r[k + 1].what = "lambda"
    <2>1. \A k \in 1..n : k = n \/ (k \in 1..n - 1 /\ k + 1 \in 1..n)
      BY <1>5
    <2>2. \A k \in 1..n - 1 : path[k].what \in Pending => path[k + 1].what = "lambda"
      BY <1>2 DEF PathOK
    <2>3. n # 0 /\ path[n].what \in Pending => w = "lambda"
      BY <1>2, <1>5
    <2>4. \A k \in 1..n : n # 0
      BY <1>5
    <2> QED
      BY <1>4, <1>6, <2>1, <2>2, <2>3, <2>4
  <1>11. \A k \in 1..n + 1 : r[k].what = "iterable" => LoopAt(r, k - 1)
    <2>1. \A k \in 1..n : path[k].what = "iterable" => LoopAt(path, k - 1)
      BY <1>2 DEF PathOK
    <2>2. \A k \in 1..n : k - 1 > 0 => k - 1 \in 1..n
      BY <1>5
    <2>3. n + 1 - 1 = n /\ (n > 0 => n \in 1..n)
      BY <1>5
    <2>4. \A k \in 1..n : LoopAt(path, k - 1) => LoopAt(r, k - 1)
      BY <1>6, <2>2 DEF LoopAt
    <2>5. LoopAt(path, n) => LoopAt(r, n)
      BY <1>6, <2>3 DEF LoopAt
    <2> QED
      BY <1>2, <1>4, <1>6, <1>7, <2>1, <2>3, <2>4, <2>5
  <1>12. PathOK(r)
    <2>1. Len(r) - 1 = n
      BY <1>5, <1>6
    <2> QED
      BY <1>6, <1>8, <1>9, <1>10, <1>11, <2>1 DEF PathOK
  <1>13. Grown(path, r, w, names)
    BY <1>2, <1>4, <1>6 DEF Grown
  <1> QED
    BY <1>1, <1>3, <1>12, <1>13

(* The path with one construct less.                                       *)
Shrunk(path, path2) ==
  Len(path) = Len(path2) + 1 /\ \A k \in 1..Len(path2) : path2[k] = path[k]

(* Any construct can be left.                                              *)
LEMMA PopPath ==
  ASSUME NEW path, PathOK(path), path # <<>>
  PROVE  PathOK(Front(path)) /\ Shrunk(path, Front(path))
  <1>1. PICK n \in Nat : n + 1 = Len(path)
    <2>1. Len(path) \in Nat /\ Len(path) # 0
      BY PathFacts
    <2>2. Len(path) - 1 \in Nat /\ (Len(path) - 1) + 1 = Len(path)
      BY <2>1
    <2> QED
      BY <2>2
  <1>2. PICK r : r = Front(path)
    OBVIOUS
  <1>3. r = SubSeq(path, 1, n)
    <2>1. Len(path) - 1 = n
      BY <1>1
    <2> QED
      BY <1>2, <2>1 DEF Front
  <1>4. \A k \in 1..n : k \in 1..Len(path)
    BY <1>1
  <1>5. \A k \in 1..n : path[k] \in Entries
    BY <1>4, ElementOfSeq DEF PathOK
  <1>6. r \in Seq(Entries) /\ Len(r) = n /\ \A k \in 1..n : r[k] = path[k]
    <2>1. /\ SubSeq(path, 1, n) \in Seq(Entries)
          /\ Len(SubSeq(path, 1, n)) = IF 1 <= n THEN n - 1 + 1 ELSE 0
          /\ \A k \in 1..n - 1 + 1 : SubSeq(path, 1, n)[k] = path[1 + k - 1]
      BY <1>5, SubSeqProperties
    <2> QED
      BY <1>3, <2>1
  <1>7. \A k \in 1..n - 1 : k \in 1..n /\ k + 1 \in 1..n /\ k \in 1..Len(path) - 1
    BY <1>1
  <1>8. PathOK(r)
    <2>1. \A k \in 1..n : IsInjective(r[k].names) /\ (r[k].what = "function" => k = 1)
      BY <1>4, <1>6 DEF PathOK
    <2>2. \A k \in 1..n - 1 : r[k].what \in Pending => r[k + 1].what = "lambda"
      BY <1>6, <1>7 DEF PathOK
    <2>3. \A k \in 1..n : r[k].what = "iterable" => LoopAt(r, k - 1)
      <3>1. \A k \in 1..n : path[k].what = "iterable" => LoopAt(path, k - 1)
        BY <1>4 DEF PathOK
      <3>2. \A k \in 1..n : k - 1 > 0 => k - 1 \in 1..n
        OBVIOUS
      <3> QED
        BY <1>6, <3>1, <3>2 DEF LoopAt
    <2> QED
      BY <1>6, <2>1, <2>2, <2>3 DEF PathOK
  <1> QED
    BY <1>1, <1>2, <1>6, <1>8 DEF Shrunk

(* The path with one name more in its innermost construct.                 *)
Renamed(path, path2, n) ==
  /\ Len(path2) = Len(path)
  /\ \A k \in 1..Len(path) : path2[k].what = path[k].what
  /\ \A k \in 1..Len(path) - 1 : path2[k].names = path[k].names
  /\ path2[Len(path)].names = Append(path[Len(path)].names, n)

(* An injective list with a new element.                                   *)
LEMMA StillInjective ==
  ASSUME NEW S, NEW s \in Seq(S), NEW n \in S, IsInjective(s), ~Contains(s, n)
  PROVE  IsInjective(Append(s, n))
  <1>1. PICK t : t = Append(s, n)
    OBVIOUS
  <1>2. PICK l \in Nat : l = Len(s) /\ DOMAIN s = 1..l
    OBVIOUS
  <1>3. DOMAIN t = 1..l + 1 /\ t[l + 1] = n /\ \A i \in 1..l : t[i] = s[i]
    BY <1>1, <1>2
  <1>4. \A i \in 1..l : s[i] # n
    BY <1>2 DEF Contains
  <1>5. \A i, j \in 1..l : s[i] = s[j] => i = j
    BY <1>2 DEF IsInjective
  <1>6. \A i \in 1..l + 1 : i \in 1..l \/ i = l + 1
    BY <1>2
  <1>7. \A i, j \in 1..l + 1 : t[i] = t[j] => i = j
    BY <1>3, <1>4, <1>5, <1>6
  <1> QED
    BY <1>1, <1>3, <1>7 DEF IsInjective

(* A new name can be noted.                                                *)
LEMMA NotePath ==
  ASSUME NEW path, PathOK(path), path # <<>>, NEW n \in Names \cup {Iter},
         ~Contains(path[Len(path)].names, n)
  PROVE  PathOK(Noted(path, n)) /\ Renamed(path, Noted(path, n), n)
  <1>1. PICK l : l = Len(path)
    OBVIOUS
  <1>2. l \in Nat /\ l # 0 /\ l \in 1..l /\ path \in Seq(Entries)
    BY <1>1, PathFacts DEF PathOK
  <1>3. PICK o : o = path[l]
    OBVIOUS
  <1>4. o \in Entries
    BY <1>1, <1>2, <1>3, ElementOfSeq
  <1>5. PICK s : s = Append(o.names, n)
    OBVIOUS
  <1>6. o.names \in Seq(Names \cup {Iter}) /\ IsInjective(o.names)
    BY <1>1, <1>2, <1>3, <1>4 DEF PathOK, Entries
  <1>7. s \in Seq(Names \cup {Iter}) /\ IsInjective(s)
    BY <1>1, <1>3, <1>5, <1>6, StillInjective
  <1>8. PICK e : e = [o EXCEPT !.names = s]
    OBVIOUS
  <1>9. e \in Entries /\ e.what = o.what /\ e.names = s
    BY <1>4, <1>7, <1>8 DEF Entries
  <1>10. PICK r : r = [path EXCEPT ![l] = e]
    OBVIOUS
  <1>11. r = Noted(path, n)
    BY <1>1, <1>3, <1>5, <1>8, <1>10 DEF Noted
  <1>12. /\ r \in Seq(Entries) /\ Len(r) = l
         /\ \A k \in 1..l : r[k] = IF k = l THEN e ELSE path[k]
    BY <1>1, <1>2, <1>9, <1>10, ExceptSeq
  <1>13. \A k \in 1..l : r[k].what = path[k].what
    BY <1>3, <1>9, <1>12
  <1>14. \A k \in 1..l - 1 : k \in 1..l /\ k + 1 \in 1..l /\ k # l
    BY <1>2
  <1>15. \A k \in 1..l - 1 : r[k].names = path[k].names
    BY <1>12, <1>14
  <1>16. PathOK(r)
    <2>1. \A k \in 1..l : IsInjective(r[k].names)
      BY <1>1, <1>7, <1>9, <1>12 DEF PathOK
    <2>2. \A k \in 1..l : r[k].what = "function" => k = 1
      BY <1>1, <1>13 DEF PathOK
    <2>3. \A k \in 1..l - 1 : r[k].what \in Pending => r[k + 1].what = "lambda"
      BY <1>1, <1>13, <1>14 DEF PathOK
    <2>4. \A k \in 1..l : r[k].what = "iterable" => LoopAt(r, k - 1)
      <3>1. \A k \in 1..l : path[k].what = "iterable" => LoopAt(path, k - 1)
        BY <1>1 DEF PathOK
      <3>2. \A k \in 1..l : k - 1 > 0 => k - 1 \in 1..l - 1 /\ k - 1 \in 1..l
        BY <1>2
      <3> QED
        BY <1>13, <1>15, <3>1, <3>2 DEF LoopAt
    <2> QED
      BY <1>12, <2>1, <2>2, <2>3, <2>4 DEF PathOK
  <1>17. Renamed(path, r, n)
    BY <1>1, <1>2, <1>3, <1>5, <1>9, <1>12, <1>13, <1>15 DEF Renamed
  <1> QED
    BY <1>11, <1>16, <1>17

-----------------------------------------------------------------------------
(* The contexts and depths along the path.                                 *)
LEMMA ClimbFacts ==
  ASSUME NEW C, NEW D, NEW path, Climbs(C, D, path)
  PROVE  \A k \in Nat : C[k] \in Nat /\ D[k] \in Nat
  BY DEF Climbs

(* A path that begins like another climbs like it.                         *)
LEMMA ClimbShorter ==
  ASSUME NEW C, NEW D, NEW path, NEW path2, Climbs(C, D, path),
         Len(path) \in Nat, Len(path2) \in Nat, Len(path2) <= Len(path),
         \A k \in 1..Len(path2) : path2[k].what = path[k].what
  PROVE  Climbs(C, D, path2)
  <1>1. /\ \A k \in 1..Len(path2) : k \in 1..Len(path)
        /\ \A k \in 0..Len(path2) : k \in 0..Len(path)
    OBVIOUS
  <1> QED
    BY <1>1 DEF Climbs

(* An open value of the innermost context is the innermost construct.      *)
LEMMA PendsLast ==
  ASSUME NEW C, NEW D, NEW path, PathOK(path), Climbs(C, D, path),
         NEW j, PendsAt(C, D, path, C[Len(path)], j)
  PROVE  j = Len(path) /\ path[Len(path)].what \in Pending
  <1>1. PICK n \in Nat : n = Len(path)
    BY PathFacts
  <1>2. j \in 1..n /\ C[j] = C[n] /\ path[j].what \in Pending
    BY <1>1 DEF PendsAt
  <1>3. CASE j # n
    <2>1. j \in 1..n - 1 /\ j + 1 \in 1..n /\ j + 1 \in 0..n /\ n \in 0..n
          /\ j + 1 - 1 = j /\ j + 1 <= n
      BY <1>2, <1>3
    <2>2. path[j + 1].what = "lambda"
      BY <1>1, <1>2, <2>1 DEF PathOK
    <2>3. C[j + 1] = C[j] + 1
      <3>1. PICK k : k = j + 1
        OBVIOUS
      <3>2. k \in 1..Len(path) /\ k - 1 = j /\ path[k].what \in Entered
        BY <1>1, <1>2, <2>1, <2>2, <3>1 DEF Entered
      <3> QED
        BY <3>1, <3>2 DEF Climbs
    <2>4. C[j + 1] <= C[n]
      BY <1>1, <2>1 DEF Climbs
    <2>5. C[j] \in Nat
      BY <2>1, ClimbFacts
    <2> QED
      BY <1>2, <2>3, <2>4, <2>5
  <1> QED
    BY <1>1, <1>2, <1>3

(* A scope is deeper than those of its context around it.                  *)
LEMMA Deeper ==
  ASSUME NEW C, NEW D, NEW path, Climbs(C, D, path), Len(path) \in Nat,
         NEW k \in 1..Len(path), path[k].what \in Opening,
         NEW j \in 0..k - 1, C[j] = C[k]
  PROVE  D[j] < D[k]
  <1>1. k - 1 \in 0..Len(path) /\ j \in 0..Len(path) /\ j <= k - 1
    OBVIOUS
  <1>2. path[k].what \notin Entered /\ path[k].what # "lambda"
    BY DEF Opening, Entered
  <1>3. C[k] = C[k - 1] /\ D[k] = D[k - 1] + 1
    BY <1>2 DEF Climbs
  <1>4. D[j] <= D[k - 1]
    BY <1>1, <1>3 DEF Climbs
  <1>5. D[j] \in Nat /\ D[k - 1] \in Nat
    BY <1>1, ClimbFacts
  <1> QED
    BY <1>3, <1>4, <1>5

(* Where locals are noted a scope is open.                                 *)
LEMMA Positive ==
  ASSUME NEW C, NEW D, NEW path, Climbs(C, D, path), Len(path) \in Nat,
         NEW k \in 1..Len(path), path[k].what \in Naming
  PROVE  D[k] > 0
  <1>1. k - 1 \in Nat
    OBVIOUS
  <1>2. D[k - 1] \in Nat
    BY <1>1, ClimbFacts
  <1>3. D[k] = 1 \/ D[k] = D[k - 1] + 1
    BY DEF Climbs, Naming, Opening, Entered
  <1> QED
    BY <1>2, <1>3

(* One construct more.                                                     *)
Raised(C, n, v) == [k \in Nat |-> IF k = n + 1 THEN v ELSE C[k]]

ContextIn(C, n, w) == IF w \in Entered THEN C[n] + 1 ELSE C[n]
DepthIn(D, n, w) ==
  IF w = "lambda" THEN 0 ELSE IF w \in Entered THEN 1
  ELSE IF w \in Opening THEN D[n] + 1 ELSE D[n]

Higher(C, D, C2, D2, n, w) ==
  /\ \A k \in 0..n : C2[k] = C[k] /\ D2[k] = D[k]
  /\ C2[n + 1] = ContextIn(C, n, w) /\ D2[n + 1] = DepthIn(D, n, w)

(* The innermost construct's context and depth.                            *)
LEMMA ClimbLast ==
  ASSUME NEW C, NEW D, NEW path, Climbs(C, D, path), NEW n \in Nat, Len(path) = n + 1
  PROVE  /\ C[n + 1] = ContextIn(C, n, path[n + 1].what)
         /\ D[n + 1] = DepthIn(D, n, path[n + 1].what)
  <1>1. PICK k : k = n + 1
    OBVIOUS
  <1>2. k \in 1..Len(path) /\ k - 1 = n
    BY <1>1
  <1>3. PICK w : w = path[k].what
    OBVIOUS
  <1>4. /\ C[k] = IF w \in Entered THEN C[n] + 1 ELSE C[n]
        /\ D[k] = IF w = "lambda" THEN 0 ELSE IF w \in Entered THEN 1
                  ELSE IF w \in Opening THEN D[n] + 1 ELSE D[n]
    BY <1>2, <1>3 DEF Climbs
  <1> QED
    BY <1>1, <1>3, <1>4 DEF ContextIn, DepthIn

(* The numbers for a path with one construct more.                         *)
LEMMA ClimbPush ==
  ASSUME NEW C, NEW D, NEW path, NEW path2, NEW w, NEW names,
         Climbs(C, D, path), Len(path) \in Nat, Grown(path, path2, w, names)
  PROVE  \E C2, D2 : Climbs(C2, D2, path2) /\ Higher(C, D, C2, D2, Len(path), w)
  <1>1. PICK n \in Nat : n = Len(path)
    OBVIOUS
  <1>2. PICK C2, D2 : /\ C2 = Raised(C, n, ContextIn(C, n, w))
                      /\ D2 = Raised(D, n, DepthIn(D, n, w))
    OBVIOUS
  <1>3. \A k \in Nat : C[k] \in Nat /\ D[k] \in Nat
    BY ClimbFacts
  <1>4. ContextIn(C, n, w) \in Nat /\ DepthIn(D, n, w) \in Nat
    BY <1>3 DEF ContextIn, DepthIn
  <1>5. C2 \in [Nat -> Nat] /\ D2 \in [Nat -> Nat]
    BY <1>2, <1>3, <1>4 DEF Raised
  <1>6. Higher(C, D, C2, D2, n, w)
    <2>1. n + 1 \in Nat /\ \A k \in 0..n : k \in Nat /\ k # n + 1
      OBVIOUS
    <2> QED
      BY <1>2, <2>1 DEF Raised, Higher
  <1>7. C2[0] = 1 /\ D2[0] = 0
    <2>1. 0 \in 0..n
      OBVIOUS
    <2> QED
      BY <1>6, <2>1 DEF Higher, Climbs
  <1>8. Len(path2) = n + 1 /\ path2[n + 1].what = w /\ \A k \in 1..n : path2[k] = path[k]
    BY <1>1 DEF Grown
  <1>9. \A k \in 1..n + 1 :
          /\ C2[k] = IF path2[k].what \in Entered THEN C2[k - 1] + 1 ELSE C2[k - 1]
          /\ D2[k] = IF path2[k].what = "lambda" THEN 0
                     ELSE IF path2[k].what \in Entered THEN 1
                     ELSE IF path2[k].what \in Opening THEN D2[k - 1] + 1
                     ELSE D2[k - 1]
    <2>1. \A k \in 1..n : k \in 0..n /\ k - 1 \in 0..n
      OBVIOUS
    <2>2. n \in 0..n /\ n + 1 - 1 = n /\ \A k \in 1..n + 1 : k \in 1..n \/ k = n + 1
      OBVIOUS
    <2>3. C2[n + 1] = IF w \in Entered THEN C2[n] + 1 ELSE C2[n]
      BY <1>6, <2>2 DEF Higher, ContextIn
    <2>4. D2[n + 1] = IF w = "lambda" THEN 0 ELSE IF w \in Entered THEN 1
                      ELSE IF w \in Opening THEN D2[n] + 1 ELSE D2[n]
      BY <1>6, <2>2 DEF Higher, DepthIn
    <2>5. \A k \in 1..n : /\ C2[k] = C[k] /\ D2[k] = D[k]
                          /\ C2[k - 1] = C[k - 1] /\ D2[k - 1] = D[k - 1]
      BY <1>6, <2>1 DEF Higher
    <2>6. \A k \in 1..n :
          /\ C[k] = IF path[k].what \in Entered THEN C[k - 1] + 1 ELSE C[k - 1]
          /\ D[k] = IF path[k].what = "lambda" THEN 0
                     ELSE IF path[k].what \in Entered THEN 1
                     ELSE IF path[k].what \in Opening THEN D[k - 1] + 1
                     ELSE D[k - 1]
      BY <1>1 DEF Climbs
    <2>7. SUFFICES ASSUME NEW k \in 1..n + 1
          PROVE /\ C2[k] = IF path2[k].what \in Entered THEN C2[k - 1] + 1 ELSE C2[k - 1]
                /\ D2[k] = IF path2[k].what = "lambda" THEN 0
                           ELSE IF path2[k].what \in Entered THEN 1
                           ELSE IF path2[k].what \in Opening THEN D2[k - 1] + 1
                           ELSE D2[k - 1]
      OBVIOUS
    <2>8. CASE k = n + 1
      BY <1>8, <2>2, <2>3, <2>4, <2>8
    <2>9. CASE k \in 1..n
      BY <1>8, <2>5, <2>6, <2>9
    <2> QED
      BY <2>2, <2>8, <2>9
  <1>10. \A j, k \in 0..n + 1 :
           j <= k => C2[j] <= C2[k] /\ (C2[j] = C2[k] => D2[j] <= D2[k])
    <2>1. \A j, k \in 0..n : j <= k => C[j] <= C[k] /\ (C[j] = C[k] => D[j] <= D[k])
      BY <1>1 DEF Climbs
    <2>2. \A j \in 0..n : j <= n /\ n \in 0..n /\ j \in Nat
      OBVIOUS
    <2>3. \A j \in 0..n : C[j] <= C[n] /\ (C[j] = C[n] => D[j] <= D[n])
      BY <2>1, <2>2
    <2>4. \A j \in 0..n : C[j] <= ContextIn(C, n, w)
      BY <1>3, <2>2, <2>3 DEF ContextIn
    <2>5. \A j \in 0..n : C[j] = ContextIn(C, n, w) => D[j] <= DepthIn(D, n, w)
      <3>1. SUFFICES ASSUME NEW j \in 0..n, C[j] = ContextIn(C, n, w)
                     PROVE  D[j] <= DepthIn(D, n, w)
        OBVIOUS
      <3>2. C[j] \in Nat /\ C[n] \in Nat /\ D[j] \in Nat /\ D[n] \in Nat /\ C[j] <= C[n]
        BY <1>3, <2>2, <2>3
      <3>3. w \notin Entered /\ C[j] = C[n]
        BY <3>1, <3>2 DEF ContextIn
      <3>4. w # "lambda"
        BY <3>3 DEF Entered
      <3>5. D[j] <= D[n]
        BY <2>3, <3>3
      <3> QED
        BY <3>2, <3>3, <3>4, <3>5 DEF DepthIn
    <2>6. \A j \in 0..n + 1 : j \in 0..n \/ j = n + 1
      OBVIOUS
    <2>7. \A j \in 0..n : ~(n + 1 <= j)
      OBVIOUS
    <2>8. SUFFICES ASSUME NEW j \in 0..n + 1, NEW k \in 0..n + 1, j <= k
                   PROVE  C2[j] <= C2[k] /\ (C2[j] = C2[k] => D2[j] <= D2[k])
      OBVIOUS
    <2>9. CASE j \in 0..n /\ k \in 0..n
      BY <1>6, <2>1, <2>8, <2>9 DEF Higher
    <2>10. CASE j \in 0..n /\ k = n + 1
      BY <1>6, <2>4, <2>5, <2>10 DEF Higher
    <2>11. CASE j = n + 1 /\ k = n + 1
      BY <1>4, <1>6, <2>11 DEF Higher
    <2> QED
      BY <2>6, <2>7, <2>8, <2>9, <2>10, <2>11
  <1>11. Climbs(C2, D2, path2)
    BY <1>5, <1>7, <1>8, <1>9, <1>10 DEF Climbs
  <1> QED
    BY <1>1, <1>6, <1>11

-----------------------------------------------------------------------------
(* The contexts.                                                           *)
LEMMA CtxsFacts ==
  ASSUME NEW cs, CtxsOK(cs)
  PROVE  /\ Len(cs) \in Nat /\ Len(cs) \in 1..Len(cs)
         /\ \A i \in 1..Len(cs) : Well(cs[i])
  <1>1. Len(cs) \in Nat /\ Len(cs) >= 1
    BY DEF CtxsOK
  <1> QED
    BY <1>1 DEF CtxsOK

(* The innermost context has changed.                                      *)
TopSet(cs, c) == [cs EXCEPT ![Len(cs)] = c]

(* The table and the contexts after it.                                    *)
LEMMA SetCtxs ==
  ASSUME NEW cs, CtxsOK(cs), NEW c, Well(c), NEW cs2, cs2 = TopSet(cs, c)
  PROVE  /\ CtxsOK(cs2) /\ Len(cs2) = Len(cs)
         /\ \A i \in 1..Len(cs) : cs2[i] = IF i = Len(cs) THEN c ELSE cs[i]
  <1>1. PICK t : t = Len(cs)
    OBVIOUS
  <1>2. PICK u : u = [cs EXCEPT ![t] = c]
    OBVIOUS
  <1>9. u = cs2
    BY <1>1, <1>2 DEF TopSet
  <1>3. PICK S : S = Range(cs) \cup {c}
    OBVIOUS
  <1>4. cs \in Seq(S) /\ c \in S /\ t \in 1..t /\ t >= 1
    BY <1>1, <1>3, CtxsFacts, SeqMonotonic DEF CtxsOK
  <1>5. /\ u \in Seq(S) /\ Len(u) = t
        /\ \A i \in 1..t : u[i] = IF i = t THEN c ELSE cs[i]
    BY <1>1, <1>2, <1>4, ExceptSeq
  <1>6. u \in Seq(Range(u))
    BY <1>5, SeqOfRange
  <1>7. \A i \in 1..t : Well(u[i])
    BY <1>1, <1>5, CtxsFacts
  <1>8. CtxsOK(u)
    BY <1>4, <1>5, <1>6, <1>7 DEF CtxsOK
  <1> QED
    BY <1>1, <1>5, <1>8, <1>9

(* A context has come.                                                     *)
LEMMA PushCtxs ==
  ASSUME NEW cs, CtxsOK(cs), NEW c, Well(c)
  PROVE  LET cs2 == Append(cs, c) IN
         /\ CtxsOK(cs2) /\ Len(cs2) = Len(cs) + 1
         /\ \A i \in 1..Len(cs) : cs2[i] = cs[i]
         /\ cs2[Len(cs) + 1] = c
  <1>1. PICK t : t = Len(cs)
    OBVIOUS
  <1>2. PICK u : u = Append(cs, c)
    OBVIOUS
  <1>3. PICK S : S = Range(cs) \cup {c}
    OBVIOUS
  <1>4. cs \in Seq(S) /\ c \in S /\ t \in Nat /\ t >= 1
    BY <1>1, <1>3, CtxsFacts, SeqMonotonic DEF CtxsOK
  <1>5. /\ u \in Seq(S) /\ Len(u) = t + 1
        /\ \A i \in 1..t : u[i] = cs[i]
        /\ u[t + 1] = c
    BY <1>1, <1>2, <1>4, AppendProperties
  <1>6. u \in Seq(Range(u))
    BY <1>5, SeqOfRange
  <1>7. \A i \in 1..t + 1 : i \in 1..t \/ i = t + 1
    BY <1>4
  <1>8. \A i \in 1..t + 1 : Well(u[i])
    BY <1>1, <1>5, <1>7, CtxsFacts
  <1>9. CtxsOK(u)
    BY <1>4, <1>5, <1>6, <1>8 DEF CtxsOK
  <1> QED
    BY <1>1, <1>2, <1>5, <1>9

(* The innermost context has gone.                                         *)
LEMMA PopCtxs ==
  ASSUME NEW cs, CtxsOK(cs), Len(cs) > 1
  PROVE  /\ CtxsOK(Front(cs)) /\ Len(Front(cs)) = Len(cs) - 1
         /\ \A i \in 1..Len(cs) - 1 : Front(cs)[i] = cs[i]
  <1>1. PICK t \in Nat : t + 1 = Len(cs) /\ Len(cs) - 1 = t /\ t >= 1
    <2>1. Len(cs) \in Nat
      BY CtxsFacts
    <2>2. Len(cs) - 1 \in Nat /\ Len(cs) - 1 + 1 = Len(cs) /\ Len(cs) - 1 >= 1
      BY <2>1
    <2> QED
      BY <2>2
  <1>2. PICK u : u = Front(cs)
    OBVIOUS
  <1>3. PICK S : S = Range(cs)
    OBVIOUS
  <1>4. \A i \in 1..t : i \in 1..Len(cs)
    BY <1>1
  <1>5. \A i \in 1..t : cs[i] \in S
    BY <1>3, <1>4, ElementOfSeq DEF CtxsOK
  <1>6. u = SubSeq(cs, 1, t)
    BY <1>1, <1>2 DEF Front
  <1>7. u \in Seq(S) /\ Len(u) = t /\ \A i \in 1..t : u[i] = cs[i]
    <2>1. /\ SubSeq(cs, 1, t) \in Seq(S)
          /\ Len(SubSeq(cs, 1, t)) = IF 1 <= t THEN t - 1 + 1 ELSE 0
          /\ \A i \in 1..t - 1 + 1 : SubSeq(cs, 1, t)[i] = cs[1 + i - 1]
      BY <1>5, SubSeqProperties
    <2> QED
      BY <1>1, <1>6, <2>1
  <1>8. u \in Seq(Range(u))
    BY <1>7, SeqOfRange
  <1>9. \A i \in 1..t : Well(u[i])
    BY <1>4, <1>7, CtxsFacts
  <1>10. CtxsOK(u)
    BY <1>1, <1>7, <1>8, <1>9 DEF CtxsOK
  <1> QED
    BY <1>1, <1>2, <1>7, <1>10

(* Every place of the path is in one of the contexts.                      *)
LEMMA InContexts ==
  ASSUME NEW C, NEW D, NEW path, NEW cs, PathOK(path), CtxsOK(cs),
         Climbs(C, D, path), Aligned(C, D, path, cs)
  PROVE  /\ \A k \in 0..Len(path) : C[k] \in 1..Len(cs)
         /\ cs[Len(cs)].scope_depth = D[Len(path)]
  <1>1. PICK n \in Nat : n = Len(path)
    BY PathFacts
  <1>2. 0 \in 0..n /\ n \in 0..n /\ \A k \in 0..n : 0 <= k /\ k <= n /\ k \in Nat
    OBVIOUS
  <1>3. \A k \in 0..n : C[0] <= C[k] /\ C[k] <= C[n] /\ C[k] \in Nat
    BY <1>1, <1>2, ClimbFacts DEF Climbs
  <1>4. C[0] = 1 /\ C[n] = Len(cs) /\ cs[C[n]].scope_depth = D[n]
    BY <1>1, <1>2 DEF Climbs, Aligned
  <1>5. \A k \in 0..n : C[k] \in 1..Len(cs)
    BY <1>3, <1>4
  <1> QED
    BY <1>1, <1>4, <1>5

-----------------------------------------------------------------------------
(* What a step leaves as it is. Context i sees the same constructs in the  *)
(* path and in path2, but for some that mean nothing for its table.        *)
Sees(C, D, path, C2, D2, path2, i) ==
  \A k \in Nat :
    /\ PendsAt(C2, D2, path2, i, k) <=> PendsAt(C, D, path, i, k)
    /\ PendsAt(C, D, path, i, k) => path2[k].what = path[k].what
    /\ k \in 1..Len(path) /\ C[k] = i /\ path[k].what \in Naming =>
         /\ k \in 1..Len(path2) /\ C2[k] = i /\ D2[k] = D[k]
         /\ path2[k].what = path[k].what
         /\ \A m : Contains(path[k].names, m) => Contains(path2[k].names, m)

(* A block's names keep their locals in a table that stays.                *)
LEMMA KeepsSame ==
  ASSUME NEW C, NEW D, NEW path, NEW C2, NEW D2, NEW path2, NEW i, NEW k, NEW m, NEW p,
         NEW c, NEW d, Well(c), SameTable(c, d), Sees(C, D, path, C2, D2, path2, i),
         C[k] = i, C2[k] = i, D2[k] = D[k], Keeps(C, D, path, c, k, m, p)
  PROVE  Keeps(C2, D2, path2, d, k, m, p)
  <1>1. Size(c) \in Nat /\ Size(d) = Size(c)
        /\ \A q \in 1..Size(c) : NameAt(d, q) = NameAt(c, q) /\ DepthAt(d, q) = DepthAt(c, q)
    BY TableFacts DEF SameTable, Begins
  <1>2. p \in 1..Size(c) /\ \A q \in p..Size(c) : q \in 1..Size(c)
    BY <1>1 DEF Keeps
  <1>3. /\ NameAt(d, p) = m
        /\ DepthAt(d, p) = -1 \/ DepthAt(d, p) = D2[k]
        /\ \A q \in p..Size(d) : DepthAt(d, q) = -1 \/ DepthAt(d, q) >= D2[k]
    BY <1>1, <1>2 DEF Keeps
  <1>4. \A j \in Nat : PendsAt(C2, D2, path2, C2[k], j) /\ k < j =>
          p < Size(d) \/ (j = k + 1 /\ path2[j].what = "var")
    BY <1>1 DEF Keeps, Sees
  <1> QED
    BY <1>1, <1>2, <1>3, <1>4 DEF Keeps

(* What a loop left behind stays in a table that stays.                    *)
LEMMA StuckSame ==
  ASSUME NEW C, NEW D, NEW path, NEW C2, NEW D2, NEW path2, NEW i, NEW p,
         NEW c, NEW d, Well(c), SameTable(c, d), Sees(C, D, path, C2, D2, path2, i),
         StuckAt(C, D, path, c, i, p)
  PROVE  StuckAt(C2, D2, path2, d, i, p)
  <1>1. Size(c) \in Nat /\ Size(d) = Size(c)
        /\ \A q \in 1..Size(c) : NameAt(d, q) = NameAt(c, q) /\ DepthAt(d, q) = DepthAt(c, q)
    BY TableFacts DEF SameTable, Begins
  <1>2. p \in 1..Size(c) /\ NameAt(d, p) = Iter
    BY <1>1 DEF StuckAt
  <1>3. CASE /\ p < Size(c) /\ DepthAt(c, p + 1) = -1
             /\ \A j \in Nat : PendsAt(C, D, path, i, j) => p + 1 < Size(c)
    <2>1. p + 1 \in 1..Size(c)
      BY <1>1, <1>2, <1>3
    <2>2. DepthAt(d, p + 1) = -1
      BY <1>1, <1>3, <2>1
    <2>3. \A j \in Nat : PendsAt(C2, D2, path2, i, j) => p + 1 < Size(d)
      BY <1>1, <1>3 DEF Sees
    <2> QED
      BY <1>1, <1>2, <1>3, <2>2, <2>3 DEF StuckAt
  <1>4. CASE /\ p = Size(c)
             /\ \E j \in Nat : PendsAt(C, D, path, i, j) /\ path[j].what = "iterable"
    <2>1. \E j \in Nat : PendsAt(C2, D2, path2, i, j) /\ path2[j].what = "iterable"
      BY <1>4 DEF Sees
    <2> QED
      BY <1>1, <1>2, <1>4, <2>1 DEF StuckAt
  <1> QED
    BY <1>3, <1>4 DEF StuckAt

(* A table that stays is noted as it was.                                  *)
LEMMA NotedSame ==
  ASSUME NEW C, NEW D, NEW path, NEW C2, NEW D2, NEW path2, NEW i,
         NEW c, NEW d, Sees(C, D, path, C2, D2, path2, i), NEW p, NEW k \in Nat,
         Size(d) = Size(c), NameAt(d, p) = NameAt(c, p), DepthAt(d, p) = DepthAt(c, p),
         NotedAt(C, D, path, c, i, p, k)
  PROVE  NotedAt(C2, D2, path2, d, i, p, k)
  <1>1. /\ k \in 1..Len(path2) /\ C2[k] = i /\ D2[k] = D[k]
        /\ path2[k].what = path[k].what
        /\ Contains(path2[k].names, NameAt(c, p))
    BY DEF NotedAt, Sees
  <1>2. k + 1 \in Nat
    OBVIOUS
  <1>3. PendsAt(C, D, path, i, k + 1) => PendsAt(C2, D2, path2, i, k + 1)
    BY <1>2 DEF Sees
  <1> QED
    BY <1>1, <1>3 DEF NotedAt

(* A table in order stays in order.                                        *)
LEMMA OrderSame ==
  ASSUME NEW C, NEW D, NEW path, NEW C2, NEW D2, NEW path2, NEW i,
         NEW c, NEW d, Well(c), SameTable(c, d), Sees(C, D, path, C2, D2, path2, i),
         InOrder(C, D, path, c, i)
  PROVE  InOrder(C2, D2, path2, d, i)
  <1>1. Size(c) \in Nat /\ Size(d) = Size(c)
        /\ \A q \in 1..Size(c) : NameAt(d, q) = NameAt(c, q) /\ DepthAt(d, q) = DepthAt(c, q)
    BY TableFacts DEF SameTable, Begins
  <1>2. \A p \in 1..Size(c) :
          DepthAt(d, p) = 0 \/ \E k \in Nat : NotedAt(C2, D2, path2, d, i, p, k)
    <2>1. SUFFICES ASSUME NEW p \in 1..Size(c), DepthAt(c, p) # 0
                   PROVE  \E k \in Nat : NotedAt(C2, D2, path2, d, i, p, k)
      BY <1>1
    <2>2. PICK k \in Nat : NotedAt(C, D, path, c, i, p, k)
      BY <2>1 DEF InOrder
    <2>3. NotedAt(C2, D2, path2, d, i, p, k)
      BY <1>1, <2>2, NotedSame
    <2> QED
      BY <2>3
  <1>3. \A p, q \in 1..Size(c) :
          p < q => DepthAt(d, p) <= DepthAt(d, q) \/ DepthAt(d, q) = -1
    BY <1>1 DEF InOrder
  <1>4. \A j \in Nat : PendsAt(C2, D2, path2, i, j) =>
          path2[j].what = "var" /\ Size(d) > 0 /\ DepthAt(d, Size(d)) = -1
    <2>1. SUFFICES ASSUME NEW j \in Nat, PendsAt(C2, D2, path2, i, j)
                   PROVE path2[j].what = "var" /\ Size(d) > 0 /\ DepthAt(d, Size(d)) = -1
      OBVIOUS
    <2>2. PendsAt(C, D, path, i, j) /\ path2[j].what = path[j].what
      BY <2>1 DEF Sees
    <2>3. path[j].what = "var" /\ Size(c) > 0 /\ DepthAt(c, Size(c)) = -1
      BY <2>2 DEF InOrder
    <2>4. Size(c) \in 1..Size(c)
      BY <1>1, <2>3
    <2> QED
      BY <1>1, <2>2, <2>3, <2>4
  <1> QED
    BY <1>1, <1>2, <1>3, <1>4 DEF InOrder

(* A step that leaves the tables of the contexts there were.               *)
LEMMA QuietStep ==
  ASSUME NEW C, NEW D, NEW path, NEW cs, NEW C2, NEW D2, NEW path2, NEW cs2,
         Inv(C, D, path, cs),
         PathOK(path2), CtxsOK(cs2), Climbs(C2, D2, path2), Aligned(C2, D2, path2, cs2),
         \A k \in 1..Len(path2) : path2[k].what \in Holding =>
           \/ path2[k].names = <<>>
           \/ /\ k \in 1..Len(path) /\ path2[k] = path[k]
              /\ C2[k] = C[k] /\ D2[k] = D[k] /\ C[k] \in 1..Len(cs2),
         \A i \in 1..Len(cs2) :
           \/ /\ i \in 1..Len(cs) /\ SameTable(cs[i], cs2[i])
              /\ Sees(C, D, path, C2, D2, path2, i)
           \/ i \notin 1..Len(cs) /\ InOrder(C2, D2, path2, cs2[i], i)
  PROVE  Inv(C2, D2, path2, cs2)
  <1>1. ASSUME NEW k \in 1..Len(path2), path2[k].what \in Holding,
               NEW x \in 1..Len(path2[k].names)
        PROVE  \E p \in Nat : Keeps(C2, D2, path2, cs2[C2[k]], k, path2[k].names[x], p)
    <2>1. path2[k].names # <<>>
      <3>1. SUFFICES ASSUME path2[k].names = <<>> PROVE FALSE
        OBVIOUS
      <3>2. x \in 1..0
        BY <1>1, <3>1
      <3> QED
        BY <3>2
    <2>2. /\ k \in 1..Len(path) /\ path2[k] = path[k]
          /\ C2[k] = C[k] /\ D2[k] = D[k] /\ C[k] \in 1..Len(cs2)
      BY <1>1, <2>1
    <2>3. k \in 0..Len(path)
      BY <2>2
    <2>4. C[k] \in 1..Len(cs)
      BY <2>3, InContexts DEF Inv
    <2>5. SameTable(cs[C[k]], cs2[C[k]]) /\ Sees(C, D, path, C2, D2, path2, C[k])
      BY <2>2, <2>4
    <2>6. Well(cs[C[k]])
      BY <2>4 DEF Inv, CtxsOK
    <2>7. PICK p \in Nat : Keeps(C, D, path, cs[C[k]], k, path[k].names[x], p)
      BY <1>1, <2>2 DEF Inv, KeepsNames
    <2>8. Keeps(C2, D2, path2, cs2[C[k]], k, path[k].names[x], p)
      BY <2>2, <2>5, <2>6, <2>7, KeepsSame
    <2> QED
      BY <2>2, <2>8
  <1>2. ASSUME NEW i \in 1..Len(cs2)
        PROVE  \/ \E p \in Nat : StuckAt(C2, D2, path2, cs2[i], i, p)
               \/ InOrder(C2, D2, path2, cs2[i], i)
    <2>1. CASE i \in 1..Len(cs)
      <3>1. SameTable(cs[i], cs2[i]) /\ Sees(C, D, path, C2, D2, path2, i)
        BY <1>2, <2>1
      <3>2. Well(cs[i])
        BY <2>1 DEF Inv, CtxsOK
      <3>3. \/ \E p \in Nat : StuckAt(C, D, path, cs[i], i, p)
            \/ InOrder(C, D, path, cs[i], i)
        BY <2>1 DEF Inv, StuckOrInOrder
      <3> QED
        BY <3>1, <3>2, <3>3, StuckSame, OrderSame
    <2>2. CASE i \notin 1..Len(cs)
      BY <1>2, <2>2
    <2> QED
      BY <2>1, <2>2
  <1> QED
    BY <1>1, <1>2 DEF Inv, KeepsNames, StuckOrInOrder

(* What a context sees of a construct that is entered.                     *)
LEMMA SeesPush ==
  ASSUME NEW C, NEW D, NEW path, NEW C2, NEW D2, NEW path2, NEW w, NEW names,
         Len(path) \in Nat, Grown(path, path2, w, names),
         Higher(C, D, C2, D2, Len(path), w),
         NEW i, w \notin Pending \/ DepthIn(D, Len(path), w) = 0
                  \/ ContextIn(C, Len(path), w) # i
  PROVE  Sees(C, D, path, C2, D2, path2, i)
  <1>1. PICK n \in Nat : n = Len(path)
    OBVIOUS
  <1>2. /\ Len(path2) = n + 1 /\ path2[n + 1].what = w
        /\ \A k \in 1..n : path2[k] = path[k]
    BY <1>1 DEF Grown
  <1>3. /\ \A k \in 0..n : C2[k] = C[k] /\ D2[k] = D[k]
        /\ C2[n + 1] = ContextIn(C, n, w) /\ D2[n + 1] = DepthIn(D, n, w)
    BY <1>1 DEF Higher
  <1>4. /\ \A k \in 1..n : k \in 0..n /\ k \in 1..n + 1
        /\ \A k \in 1..n + 1 : k \in 1..n \/ k = n + 1
    OBVIOUS
  <1>5. ~PendsAt(C2, D2, path2, i, n + 1)
    BY <1>1, <1>2, <1>3 DEF PendsAt
  <1>6. ASSUME NEW k \in Nat
        PROVE  /\ PendsAt(C2, D2, path2, i, k) <=> PendsAt(C, D, path, i, k)
               /\ PendsAt(C, D, path, i, k) => path2[k].what = path[k].what
    <2>1. CASE k \in 1..n
      BY <1>1, <1>2, <1>3, <1>4, <2>1 DEF PendsAt
    <2>2. CASE k \notin 1..n
      <3>1. ~PendsAt(C, D, path, i, k)
        BY <1>1, <2>2 DEF PendsAt
      <3>2. ~PendsAt(C2, D2, path2, i, k)
        <4>1. CASE k = n + 1
          BY <1>5, <4>1
        <4>2. CASE k # n + 1
          BY <1>2, <1>4, <2>2, <4>2 DEF PendsAt
        <4> QED
          BY <4>1, <4>2
      <3> QED
        BY <3>1, <3>2
    <2> QED
      BY <2>1, <2>2
  <1>7. ASSUME NEW k \in 1..n, C[k] = i, path[k].what \in Naming
        PROVE  /\ k \in 1..n + 1 /\ C2[k] = i /\ D2[k] = D[k]
               /\ path2[k].what = path[k].what
               /\ \A m : Contains(path[k].names, m) => Contains(path2[k].names, m)
    BY <1>2, <1>3, <1>4, <1>7
  <1> QED
    BY <1>1, <1>2, <1>6, <1>7 DEF Sees

(* What a context sees of a construct that is left.                        *)
LEMMA SeesPop ==
  ASSUME NEW C, NEW D, NEW path, NEW path2,
         Len(path2) \in Nat, Shrunk(path, path2),
         NEW i, path[Len(path)].what \notin Pending \cup Naming \/ C[Len(path)] # i
  PROVE  Sees(C, D, path, C, D, path2, i)
  <1>1. PICK n \in Nat : n = Len(path2)
    OBVIOUS
  <1>2. Len(path) = n + 1 /\ \A k \in 1..n : path2[k] = path[k]
    BY <1>1 DEF Shrunk
  <1>3. \A k \in 1..n + 1 : k \in 1..n \/ k = n + 1
    OBVIOUS
  <1>4. \A k \in 1..n : k \in 1..n + 1
    OBVIOUS
  <1>5. ~PendsAt(C, D, path, i, n + 1)
    BY <1>2 DEF PendsAt
  <1>6. ASSUME NEW k \in Nat
        PROVE  /\ PendsAt(C, D, path2, i, k) <=> PendsAt(C, D, path, i, k)
               /\ PendsAt(C, D, path, i, k) => path2[k].what = path[k].what
    <2>1. CASE k \in 1..n
      BY <1>1, <1>2, <1>4, <2>1 DEF PendsAt
    <2>2. CASE k \notin 1..n
      <3>1. ~PendsAt(C, D, path2, i, k)
        BY <1>1, <2>2 DEF PendsAt
      <3>2. ~PendsAt(C, D, path, i, k)
        <4>1. CASE k = n + 1
          BY <1>5, <4>1
        <4>2. CASE k # n + 1
          BY <1>2, <1>3, <2>2, <4>2 DEF PendsAt
        <4> QED
          BY <4>1, <4>2
      <3> QED
        BY <3>1, <3>2
    <2> QED
      BY <2>1, <2>2
  <1>7. ASSUME NEW k \in 1..n + 1, C[k] = i, path[k].what \in Naming
        PROVE  /\ k \in 1..n
               /\ path2[k].what = path[k].what
               /\ \A m : Contains(path[k].names, m) => Contains(path2[k].names, m)
    <2>1. k # n + 1
      BY <1>2, <1>7
    <2>2. k \in 1..n
      BY <1>3, <2>1
    <2> QED
      BY <1>2, <2>2
  <1> QED
    BY <1>1, <1>2, <1>6, <1>7 DEF Sees

(* The depths of the contexts when a construct is entered.                 *)
LEMMA AlignPush ==
  ASSUME NEW C, NEW D, NEW path, NEW cs, NEW C2, NEW D2, NEW path2, NEW cs2,
         NEW w, NEW names, PathOK(path), CtxsOK(cs),
         Climbs(C, D, path), Aligned(C, D, path, cs),
         Grown(path, path2, w, names), Higher(C, D, C2, D2, Len(path), w),
         w \notin Entered, Len(cs2) = Len(cs),
         \A i \in 1..Len(cs) - 1 : cs2[i].scope_depth = cs[i].scope_depth,
         cs2[Len(cs)].scope_depth = DepthIn(D, Len(path), w)
  PROVE  Aligned(C2, D2, path2, cs2)
  <1>1. PICK n \in Nat : n = Len(path)
    BY PathFacts
  <1>2. PICK t \in Nat : t = Len(cs)
    BY CtxsFacts
  <1>3. \A k \in 0..n : C[k] \in 1..t /\ k \in Nat
    BY <1>1, <1>2, InContexts
  <1>4. C[n] = t /\ \A k \in 0..n : C[k + 1] # C[k] /\ k # n => cs[C[k]].scope_depth = D[k]
    BY <1>1, <1>2 DEF Aligned
  <1>5. /\ \A k \in 0..n : C2[k] = C[k] /\ D2[k] = D[k]
        /\ C2[n + 1] = t /\ D2[n + 1] = DepthIn(D, n, w)
    BY <1>1, <1>4 DEF Higher, ContextIn
  <1>6. Len(path2) = n + 1
    BY <1>1 DEF Grown
  <1>7. ASSUME NEW k \in 0..n + 1, k = n + 1 \/ C2[k + 1] # C2[k]
        PROVE  cs2[C2[k]].scope_depth = D2[k]
    <2>1. CASE k = n + 1
      BY <1>1, <1>2, <1>5, <2>1
    <2>2. CASE k = n
      <3>1. C2[n + 1] = C2[n] /\ n # n + 1
        BY <1>4, <1>5
      <3> QED
        BY <1>7, <2>2, <3>1
    <2>3. CASE k \in 0..n - 1
      <3>1. k \in 0..n /\ k + 1 \in 0..n /\ k # n /\ n \in 0..n /\ k + 1 <= n /\ k <= n
            /\ k <= k + 1 /\ k # n + 1
        BY <2>3
      <3>2. C[k + 1] # C[k] /\ C[k + 1] <= C[n] /\ C[k] <= C[k + 1]
        BY <1>1, <1>5, <1>7, <3>1 DEF Climbs
      <3>3. C[k] \in 1..t - 1
        BY <1>3, <1>4, <3>1, <3>2
      <3>4. cs[C[k]].scope_depth = D[k]
        BY <1>4, <3>1, <3>2
      <3> QED
        BY <1>2, <1>5, <3>1, <3>3, <3>4
    <2>4. k = n + 1 \/ k = n \/ k \in 0..n - 1
      OBVIOUS
    <2> QED
      BY <2>1, <2>2, <2>3, <2>4
  <1> QED
    BY <1>2, <1>5, <1>6, <1>7 DEF Aligned

(* The same when a function is entered.                                    *)
LEMMA AlignEnter ==
  ASSUME NEW C, NEW D, NEW path, NEW cs, NEW C2, NEW D2, NEW path2, NEW cs2,
         NEW w, NEW names, PathOK(path), CtxsOK(cs),
         Climbs(C, D, path), Aligned(C, D, path, cs),
         Grown(path, path2, w, names), Higher(C, D, C2, D2, Len(path), w),
         w \in Entered, Len(cs2) = Len(cs) + 1,
         \A i \in 1..Len(cs) : cs2[i] = cs[i],
         cs2[Len(cs) + 1].scope_depth = DepthIn(D, Len(path), w)
  PROVE  Aligned(C2, D2, path2, cs2)
  <1>1. PICK n \in Nat : n = Len(path)
    BY PathFacts
  <1>2. PICK t \in Nat : t = Len(cs)
    BY CtxsFacts
  <1>3. \A k \in 0..n : C[k] \in 1..t
    BY <1>1, <1>2, InContexts
  <1>4. C[n] = t /\ \A k \in 0..n : k = n \/ C[k + 1] # C[k] => cs[C[k]].scope_depth = D[k]
    BY <1>1, <1>2 DEF Aligned
  <1>5. /\ \A k \in 0..n : C2[k] = C[k] /\ D2[k] = D[k]
        /\ C2[n + 1] = t + 1 /\ D2[n + 1] = DepthIn(D, n, w)
    BY <1>1, <1>4 DEF Higher, ContextIn
  <1>6. Len(path2) = n + 1
    BY <1>1 DEF Grown
  <1>7. ASSUME NEW k \in 0..n + 1, k = n + 1 \/ C2[k + 1] # C2[k]
        PROVE  cs2[C2[k]].scope_depth = D2[k]
    <2>1. CASE k = n + 1
      BY <1>1, <1>2, <1>5, <2>1
    <2>2. CASE k # n + 1
      <3>1. k \in 0..n /\ (k = n \/ k + 1 \in 0..n)
        BY <2>2
      <3>2. k = n \/ C[k + 1] # C[k]
        BY <1>5, <1>7, <2>2, <3>1
      <3> QED
        BY <1>2, <1>3, <1>4, <1>5, <3>1, <3>2
    <2> QED
      BY <2>1, <2>2
  <1> QED
    BY <1>2, <1>5, <1>6, <1>7 DEF Aligned

(* The depths of the contexts when a construct is left.                    *)
LEMMA AlignPop ==
  ASSUME NEW C, NEW D, NEW path, NEW cs, NEW path2, NEW cs2,
         PathOK(path), CtxsOK(cs), Climbs(C, D, path), Aligned(C, D, path, cs),
         PathOK(path2), Shrunk(path, path2), path[Len(path)].what \notin Entered,
         Len(cs2) = Len(cs),
         \A i \in 1..Len(cs) - 1 : cs2[i].scope_depth = cs[i].scope_depth,
         cs2[Len(cs)].scope_depth = D[Len(path2)]
  PROVE  Aligned(C, D, path2, cs2)
  <1>1. PICK n \in Nat : n = Len(path2)
    BY PathFacts
  <1>2. PICK t \in Nat : t = Len(cs)
    BY CtxsFacts
  <1>3. Len(path) = n + 1 /\ n + 1 \in 1..n + 1 /\ n + 1 - 1 = n
    BY <1>1 DEF Shrunk
  <1>4. \A k \in 0..n + 1 : C[k] \in 1..t
    BY <1>2, <1>3, InContexts
  <1>5. C[n] = t /\ \A k \in 0..n : C[k + 1] # C[k] => cs[C[k]].scope_depth = D[k]
    <2>1. C[n + 1] = t /\ \A k \in 0..n + 1 : k = n + 1 \/ C[k + 1] # C[k] =>
                                                cs[C[k]].scope_depth = D[k]
      BY <1>2, <1>3 DEF Aligned
    <2>2. C[n + 1] = C[n]
      BY <1>3, ClimbLast DEF ContextIn
    <2>3. \A k \in 0..n : k \in 0..n + 1
      OBVIOUS
    <2> QED
      BY <2>1, <2>2, <2>3
  <1>6. ASSUME NEW k \in 0..n, k = n \/ C[k + 1] # C[k]
        PROVE  cs2[C[k]].scope_depth = D[k]
    <2>1. CASE k = n
      BY <1>1, <1>2, <1>5, <2>1
    <2>2. CASE k # n
      <3>1. /\ k \in 0..n + 1 /\ k + 1 \in 0..n + 1 /\ n \in 0..n + 1
            /\ k + 1 <= n /\ k <= k + 1
        BY <2>2
      <3>2. C[k + 1] # C[k] /\ C[k + 1] <= C[n] /\ C[k] <= C[k + 1]
        BY <1>3, <1>6, <2>2, <3>1 DEF Climbs
      <3>3. C[k] \in 1..t - 1
        BY <1>4, <1>5, <3>1, <3>2
      <3> QED
        BY <1>2, <1>5, <3>2, <3>3
    <2> QED
      BY <2>1, <2>2
  <1> QED
    BY <1>1, <1>2, <1>5, <1>6 DEF Aligned

(* The same when a function is left.                                       *)
LEMMA AlignLeave ==
  ASSUME NEW C, NEW D, NEW path, NEW cs, NEW path2, NEW cs2,
         PathOK(path), CtxsOK(cs), Climbs(C, D, path), Aligned(C, D, path, cs),
         PathOK(path2), Shrunk(path, path2), path[Len(path)].what \in Entered,
         Len(cs2) = Len(cs) - 1,
         \A i \in 1..Len(cs) - 1 : cs2[i] = cs[i]
  PROVE  Aligned(C, D, path2, cs2) /\ Len(cs) > 1
  <1>1. PICK n \in Nat : n = Len(path2)
    BY PathFacts
  <1>2. PICK t \in Nat : t = Len(cs)
    BY CtxsFacts
  <1>3. Len(path) = n + 1 /\ n + 1 \in 1..n + 1 /\ n + 1 - 1 = n
        /\ n \in 0..n + 1 /\ n + 1 \in 0..n + 1
    BY <1>1 DEF Shrunk
  <1>4. \A k \in 0..n + 1 : C[k] \in 1..t
    BY <1>2, <1>3, InContexts
  <1>5. C[n] = t - 1
    <2>1. C[n + 1] = t
      BY <1>2, <1>3 DEF Aligned
    <2>2. C[n + 1] = C[n] + 1
      BY <1>3, ClimbLast DEF ContextIn
    <2> QED
      BY <1>3, <1>4, <2>1, <2>2
  <1>6. ASSUME NEW k \in 0..n, k = n \/ C[k + 1] # C[k]
        PROVE  cs2[C[k]].scope_depth = D[k]
    <2>1. k \in 0..n + 1 /\ k <= n /\ k # n + 1
      OBVIOUS
    <2>2. C[k] <= C[n]
      BY <1>3, <2>1 DEF Climbs
    <2>3. C[k] \in 1..t - 1
      BY <1>4, <1>5, <2>1, <2>2
    <2>4. C[k + 1] # C[k]
      <3>1. C[n + 1] = C[n] + 1
        BY <1>3, ClimbLast DEF ContextIn
      <3>2. k = n => C[k + 1] # C[k]
        BY <1>4, <1>3, <3>1
      <3> QED
        BY <1>6, <3>2
    <2>5. cs[C[k]].scope_depth = D[k]
      BY <1>3, <2>1, <2>4 DEF Aligned
    <2> QED
      BY <1>2, <2>3, <2>5
  <1>7. t > 1
    BY <1>3, <1>4, <1>5
  <1> QED
    BY <1>1, <1>2, <1>5, <1>6, <1>7 DEF Aligned

-----------------------------------------------------------------------------
(* The steps of the visitor, on any path and contexts.                     *)
LEMMA TableItself ==
  ASSUME NEW c, Well(c)
  PROVE  SameTable(c, c)
  BY DEF SameTable, Begins

(* Marks and upvalues change nothing.                                      *)
LEMMA SameStep ==
  ASSUME NEW C, NEW D, NEW path, NEW cs, NEW cs2, Inv(C, D, path, cs),
         CtxsOK(cs2), Len(cs2) = Len(cs),
         \A i \in 1..Len(cs) : /\ SameTable(cs[i], cs2[i])
                               /\ cs2[i].scope_depth = cs[i].scope_depth
  PROVE  Inv(C, D, path, cs2)
  <1>1. \A k \in 0..Len(path) : C[k] \in 1..Len(cs)
    BY InContexts DEF Inv
  <1>2. Aligned(C, D, path, cs2)
    BY <1>1 DEF Aligned, Inv
  <1>3. \A i : Sees(C, D, path, C, D, path, i)
    BY DEF Sees
  <1>4. \A k \in 1..Len(path) : k \in 0..Len(path)
    OBVIOUS
  <1> QED
    BY <1>1, <1>2, <1>3, <1>4, QuietStep DEF Inv

(* A scope or a class is entered, or a variable of the script.             *)
LEMMA PushStep ==
  ASSUME NEW C, NEW D, NEW path, NEW cs, NEW path2, NEW cs2, NEW w,
         Inv(C, D, path, cs),
         w \in Opening \cup {"class", "var"}, w = "var" => D[Len(path)] = 0,
         path # <<>> => path[Len(path)].what \notin Pending,
         path2 = Append(path, Construct(w, <<>>)),
         CtxsOK(cs2), Len(cs2) = Len(cs), \A i \in 1..Len(cs) - 1 : cs2[i] = cs[i],
         SameTable(cs[Len(cs)], cs2[Len(cs)]),
         cs2[Len(cs)].scope_depth = cs[Len(cs)].scope_depth + IF w \in Opening THEN 1 ELSE 0
  PROVE  \E C2, D2 : Inv(C2, D2, path2, cs2) /\ Higher(C, D, C2, D2, Len(path), w)
  <1>1. w \in Whats /\ w \notin Entered /\ w # "lambda" /\ w # "function"
        /\ w # "iterable"
    <2>1. \A v \in Opening \cup {"class", "var"} :
            /\ v \in Whats /\ v \notin Entered /\ v # "lambda" /\ v # "function"
            /\ v # "iterable"
      BY DEF Whats, Opening, Entered, Pending
    <2> QED
      BY <2>1
  <1>2. <<>> \in Seq(Names \cup {Iter}) /\ IsInjective(<<>>)
    BY DEF IsInjective
  <1>3. PathOK(path2) /\ Grown(path, path2, w, <<>>)
    BY <1>1, <1>2, PushPath DEF Inv
  <1>4. PICK n \in Nat : n = Len(path)
    BY PathFacts DEF Inv
  <1>5. PICK t \in Nat : t = Len(cs) /\ t \in 1..t
    BY CtxsFacts DEF Inv
  <1>6. PICK C2, D2 : Climbs(C2, D2, path2) /\ Higher(C, D, C2, D2, n, w)
    BY <1>3, <1>4, ClimbPush DEF Inv
  <1>7. /\ \A k \in 0..n : C[k] \in 1..t
        /\ cs[t].scope_depth = D[n] /\ D[n] \in Nat
    BY <1>4, <1>5, InContexts, ClimbFacts DEF Inv
  <1>8. cs2[t].scope_depth = DepthIn(D, n, w)
    BY <1>1, <1>5, <1>7 DEF DepthIn
  <1>9. Aligned(C2, D2, path2, cs2)
    BY <1>1, <1>3, <1>4, <1>5, <1>6, <1>8, AlignPush DEF Inv
  <1>10. w \notin Pending \/ DepthIn(D, n, w) = 0
    BY <1>1, <1>4 DEF DepthIn, Pending, Opening
  <1>11. \A i : Sees(C, D, path, C2, D2, path2, i)
    BY <1>3, <1>4, <1>6, <1>10, SeesPush
  <1>12. \A i \in 1..t : SameTable(cs[i], cs2[i])
    <2>1. \A i \in 1..t : i = t \/ i \in 1..t - 1
      OBVIOUS
    <2>2. \A i \in 1..t : Well(cs[i])
      BY <1>5, CtxsFacts DEF Inv
    <2> QED
      BY <1>5, <2>1, <2>2, TableItself
  <1>13. \A k \in 1..Len(path2) :
           \/ path2[k].names = <<>>
           \/ /\ k \in 1..n /\ path2[k] = path[k]
              /\ C2[k] = C[k] /\ D2[k] = D[k] /\ C[k] \in 1..t
    <2>1. Len(path2) = n + 1 /\ path2[n + 1].names = <<>> /\ \A k \in 1..n : path2[k] = path[k]
      BY <1>3, <1>4 DEF Grown
    <2>2. \A k \in 1..n + 1 : k = n + 1 \/ (k \in 1..n /\ k \in 0..n)
      OBVIOUS
    <2> QED
      BY <1>6, <1>7, <2>1, <2>2 DEF Higher
  <1>14. Inv(C2, D2, path2, cs2)
    BY <1>3, <1>4, <1>5, <1>6, <1>9, <1>11, <1>12, <1>13, QuietStep
  <1> QED
    BY <1>4, <1>6, <1>14

(* A function is entered: it has only slot 0.                              *)
LEMMA EnterStep ==
  ASSUME NEW C, NEW D, NEW path, NEW cs, NEW path2, NEW cs2, NEW w, NEW names, NEW c,
         Inv(C, D, path, cs), w \in Entered,
         names \in Seq(Names \cup {Iter}), IsInjective(names), w \in Holding => names = << >>,
         w = "function" => path = <<>>,
         path # <<>> /\ path[Len(path)].what \in Pending => w = "lambda",
         path2 = Append(path, Construct(w, names)), cs2 = Append(cs, c),
         Well(c), Size(c) = 1, DepthAt(c, 1) = 0,
         c.scope_depth = IF w = "lambda" THEN 0 ELSE 1
  PROVE  \E C2, D2 : Inv(C2, D2, path2, cs2) /\ Higher(C, D, C2, D2, Len(path), w)
  <1>1. w \in Whats /\ w \notin Pending /\ w # "iterable"
    BY DEF Whats, Pending, Entered
  <1>2. PathOK(path2) /\ Grown(path, path2, w, names)
    BY <1>1, PushPath DEF Inv
  <1>3. PICK n \in Nat : n = Len(path)
    BY PathFacts DEF Inv
  <1>4. PICK t \in Nat : t = Len(cs) /\ t \in 1..t
    BY CtxsFacts DEF Inv
  <1>5. PICK C2, D2 : Climbs(C2, D2, path2) /\ Higher(C, D, C2, D2, n, w)
    BY <1>2, <1>3, ClimbPush DEF Inv
  <1>6. \A k \in 0..n : C[k] \in 1..t
    BY <1>3, <1>4, InContexts DEF Inv
  <1>7. /\ CtxsOK(cs2) /\ Len(cs2) = t + 1
        /\ \A i \in 1..t : cs2[i] = cs[i]
        /\ cs2[t + 1] = c
    BY <1>4, PushCtxs DEF Inv
  <1>8. c.scope_depth = DepthIn(D, n, w)
    BY DEF DepthIn
  <1>9. Aligned(C2, D2, path2, cs2)
    BY <1>2, <1>3, <1>4, <1>5, <1>7, <1>8, AlignEnter DEF Inv
  <1>10. \A i : Sees(C, D, path, C2, D2, path2, i)
    BY <1>1, <1>2, <1>3, <1>5, SeesPush
  <1>11. \A i \in 1..t : SameTable(cs[i], cs2[i])
    <2>1. \A i \in 1..t : Well(cs[i])
      BY <1>4, CtxsFacts DEF Inv
    <2> QED
      BY <1>7, <2>1, TableItself
  <1>12. InOrder(C2, D2, path2, cs2[t + 1], t + 1)
    <2>1. \A j \in Nat : ~PendsAt(C2, D2, path2, t + 1, j)
      <3>1. \A j \in 1..n + 1 : (j \in 1..n /\ j \in 0..n) \/ j = n + 1
        OBVIOUS
      <3>2. \A j \in 1..n : C2[j] \in 1..t
        BY <1>5, <1>6, <3>1 DEF Higher
      <3>3. Len(path2) = n + 1 /\ path2[n + 1].what = w
        BY <1>2, <1>3 DEF Grown
      <3>4. \A j \in 1..n : C2[j] # t + 1
        BY <3>2
      <3> QED
        BY <1>1, <3>1, <3>3, <3>4 DEF PendsAt
    <2> QED
      BY <1>7, <2>1 DEF InOrder
  <1>13. \A k \in 1..n + 1 :
           \/ k = n + 1 /\ path2[k].what = w /\ path2[k].names = names
           \/ /\ k \in 1..n /\ path2[k] = path[k]
              /\ C2[k] = C[k] /\ D2[k] = D[k] /\ C[k] \in 1..t + 1
    <2>1. /\ Len(path2) = n + 1 /\ path2[n + 1].what = w /\ path2[n + 1].names = names
          /\ \A k \in 1..n : path2[k] = path[k]
      BY <1>2, <1>3 DEF Grown
    <2>2. \A k \in 1..n + 1 : k = n + 1 \/ (k \in 1..n /\ k \in 0..n)
      OBVIOUS
    <2>3. \A i \in 1..t : i \in 1..t + 1
      OBVIOUS
    <2> QED
      BY <1>5, <1>6, <2>1, <2>2, <2>3 DEF Higher
  <1>14. \A i \in 1..Len(cs2) :
           \/ /\ i \in 1..Len(cs) /\ SameTable(cs[i], cs2[i])
              /\ Sees(C, D, path, C2, D2, path2, i)
           \/ i \notin 1..Len(cs) /\ InOrder(C2, D2, path2, cs2[i], i)
    <2>1. \A i \in 1..t + 1 : i \in 1..t \/ (i \notin 1..t /\ i = t + 1)
      OBVIOUS
    <2> QED
      BY <1>4, <1>7, <1>10, <1>11, <1>12, <2>1
  <1>15. \A k \in 1..Len(path2) : path2[k].what \in Holding =>
           \/ path2[k].names = <<>>
           \/ /\ k \in 1..Len(path) /\ path2[k] = path[k]
              /\ C2[k] = C[k] /\ D2[k] = D[k] /\ C[k] \in 1..Len(cs2)
    <2>1. Len(path2) = n + 1
      BY <1>2, <1>3 DEF Grown
    <2> QED
      BY <1>3, <1>7, <1>13, <2>1
  <1>16. Inv(C2, D2, path2, cs2)
    BY <1>2, <1>5, <1>7, <1>9, <1>14, <1>15, QuietStep
  <1> QED
    BY <1>3, <1>5, <1>16

(* A function or a class is left.                                          *)
LEMMA LeaveStep ==
  ASSUME NEW C, NEW D, NEW path, NEW cs, NEW cs2,
         Inv(C, D, path, cs), path # <<>>,
         path[Len(path)].what \in Entered \cup {"class"},
         cs2 = IF path[Len(path)].what = "class" THEN cs ELSE Front(cs)
  PROVE  /\ Inv(C, D, Front(path), cs2)
         /\ path[Len(path)].what # "class" => Len(cs) > 1
  <1>1. PICK path2 : path2 = Front(path)
    OBVIOUS
  <1>2. PathOK(path2) /\ Shrunk(path, path2)
    BY <1>1, PopPath DEF Inv
  <1>3. PICK n \in Nat : n = Len(path2)
    BY <1>2, PathFacts
  <1>4. Len(path) = n + 1 /\ \A k \in 1..n : path2[k] = path[k]
    BY <1>2, <1>3 DEF Shrunk
  <1>5. PICK t \in Nat : t = Len(cs) /\ t \in 1..t
    BY CtxsFacts DEF Inv
  <1>6. PICK w : w = path[n + 1].what
    OBVIOUS
  <1>7. /\ \A k \in 0..n + 1 : C[k] \in 1..t
        /\ cs[t].scope_depth = D[n + 1]
    BY <1>4, <1>5, InContexts DEF Inv
  <1>8. C[n + 1] = ContextIn(C, n, w) /\ D[n + 1] = DepthIn(D, n, w) /\ C[n + 1] = t
    BY <1>4, <1>5, <1>6, ClimbLast DEF Inv, Aligned
  <1>9. Climbs(C, D, path2)
    BY <1>3, <1>4, ClimbShorter DEF Inv
  <1>10. \A i \in 1..t : Well(cs[i])
    BY <1>5, CtxsFacts DEF Inv
  <1>11. \A k \in 1..n : k \in 0..n + 1 /\ k <= n
    OBVIOUS
  <1>12. CASE w = "class"
    <2>1. w \notin Entered /\ w \notin Opening /\ w # "lambda"
          /\ w \notin Pending \cup Naming
      BY <1>12 DEF Entered, Opening, Pending, Naming
    <2>2. cs2 = cs /\ cs[t].scope_depth = D[n]
      BY <1>4, <1>6, <1>7, <1>8, <1>12, <2>1 DEF DepthIn
    <2>3. Aligned(C, D, path2, cs2)
      BY <1>2, <1>3, <1>4, <1>5, <1>6, <2>1, <2>2, AlignPop DEF Inv
    <2>4. \A i : Sees(C, D, path, C, D, path2, i)
      BY <1>2, <1>3, <1>4, <1>6, <2>1, SeesPop
    <2>5. \A i \in 1..t : SameTable(cs[i], cs2[i])
      BY <1>10, <2>2, TableItself
    <2>6. CtxsOK(cs2)
      BY <2>2 DEF Inv
    <2>7. \A k \in 1..n : k \in 1..Len(path) /\ path2[k] = path[k] /\ C[k] \in 1..t
      BY <1>4, <1>7, <1>11
    <2>8. Inv(C, D, path2, cs2)
      BY <1>2, <1>3, <1>5, <1>9, <2>2, <2>3, <2>4, <2>5, <2>6, <2>7, QuietStep
    <2> QED
      BY <1>1, <1>4, <1>6, <1>12, <2>8
  <1>13. CASE w \in Entered
    <2>1. cs2 = Front(cs)
      BY <1>4, <1>6, <1>13 DEF Entered
    <2>2. C[n] = t - 1 /\ t > 1 /\ t - 1 \in 1..t /\ n \in 0..n + 1
      <3>1. C[n + 1] = C[n] + 1 /\ C[n] \in 1..t
        BY <1>7, <1>8, <1>13 DEF ContextIn
      <3> QED
        BY <1>8, <3>1
    <2>3. /\ CtxsOK(cs2) /\ Len(cs2) = t - 1
          /\ \A i \in 1..t - 1 : cs2[i] = cs[i]
      BY <1>5, <2>1, <2>2, PopCtxs DEF Inv
    <2>4. Aligned(C, D, path2, cs2)
      BY <1>2, <1>4, <1>5, <1>6, <1>13, <2>3, AlignLeave DEF Inv
    <2>5. \A i \in 1..t - 1 : Sees(C, D, path, C, D, path2, i)
      <3>1. \A i \in 1..t - 1 : C[n + 1] # i
        BY <1>8
      <3> QED
        BY <1>2, <1>3, <1>4, <3>1, SeesPop
    <2>6. \A i \in 1..t - 1 : i \in 1..t /\ SameTable(cs[i], cs2[i])
      BY <1>10, <2>3, TableItself
    <2>7. \A k \in 1..n : k \in 1..Len(path) /\ path2[k] = path[k] /\ C[k] \in 1..t - 1
      <3>1. SUFFICES ASSUME NEW k \in 1..n PROVE C[k] \in 1..t - 1
        BY <1>4, <1>11
      <3>2. C[k] <= C[n] /\ C[k] \in 1..t
        BY <1>4, <1>7, <1>11, <2>2 DEF Inv, Climbs
      <3> QED
        BY <2>2, <3>2
    <2>8. Inv(C, D, path2, cs2)
      BY <1>2, <1>3, <1>5, <1>9, <2>3, <2>4, <2>5, <2>6, <2>7, QuietStep
    <2> QED
      BY <1>1, <1>5, <2>2, <2>8
  <1> QED
    BY <1>4, <1>6, <1>12, <1>13

(* What a step that changes the table of the innermost context leaves: the *)
(* other contexts, and the blocks in them.                                 *)
OthersStay(C, D, path, cs, C2, D2, path2, cs2, t) ==
  /\ \A i \in 1..t - 1 : cs2[i] = cs[i] /\ Sees(C, D, path, C2, D2, path2, i)
  /\ \A k \in 1..Len(path2) : path2[k].what \in Holding /\ C2[k] # t =>
       k \in 1..Len(path) /\ path2[k] = path[k] /\ C2[k] = C[k] /\ D2[k] = D[k]

(* What has to hold of the table c of the innermost context t.             *)
TopKeeps(C, D, path, c, t) ==
  \A k \in 1..Len(path) : path[k].what \in Holding /\ C[k] = t =>
    \A x \in 1..Len(path[k].names) :
      \E p \in Nat : Keeps(C, D, path, c, k, path[k].names[x], p)

TopStuckOrInOrder(C, D, path, c, t) ==
  (\E p \in Nat : StuckAt(C, D, path, c, t, p)) \/ InOrder(C, D, path, c, t)

(* A step that changes the table of the innermost context only.            *)
LEMMA TopStep ==
  ASSUME NEW C, NEW D, NEW path, NEW cs, NEW C2, NEW D2, NEW path2, NEW cs2,
         NEW t, t = Len(cs), Inv(C, D, path, cs),
         PathOK(path2), CtxsOK(cs2), Climbs(C2, D2, path2), Aligned(C2, D2, path2, cs2),
         Len(cs2) = t, OthersStay(C, D, path, cs, C2, D2, path2, cs2, t),
         TopKeeps(C2, D2, path2, cs2[t], t), TopStuckOrInOrder(C2, D2, path2, cs2[t], t)
  PROVE  Inv(C2, D2, path2, cs2)
  <1>1. t \in Nat /\ t = Len(cs) /\ t \in 1..t
    BY CtxsFacts DEF Inv
  <1>2. \A i \in 1..t : i = t \/ i \in 1..t - 1
    OBVIOUS
  <1>3. ASSUME NEW k \in 1..Len(path2), path2[k].what \in Holding,
               NEW x \in 1..Len(path2[k].names)
        PROVE  \E p \in Nat : Keeps(C2, D2, path2, cs2[C2[k]], k, path2[k].names[x], p)
    <2>1. CASE C2[k] = t
      BY <1>1, <1>3, <2>1 DEF TopKeeps
    <2>2. CASE C2[k] # t
      <3>1. k \in 1..Len(path) /\ path2[k] = path[k] /\ C2[k] = C[k] /\ D2[k] = D[k]
        BY <1>1, <1>3, <2>2 DEF OthersStay
      <3>2. k \in 0..Len(path)
        BY <3>1
      <3>3. C[k] \in 1..t
        BY <1>1, <3>2, InContexts DEF Inv
      <3>4. C[k] \in 1..t - 1
        BY <1>2, <2>2, <3>1, <3>3
      <3>5. cs2[C[k]] = cs[C[k]] /\ Sees(C, D, path, C2, D2, path2, C[k])
        BY <1>1, <3>4 DEF OthersStay
      <3>6. Well(cs[C[k]]) /\ SameTable(cs[C[k]], cs[C[k]])
        BY <1>1, <3>3, TableItself DEF Inv, CtxsOK
      <3>7. PICK p \in Nat : Keeps(C, D, path, cs[C[k]], k, path[k].names[x], p)
        BY <1>3, <3>1 DEF Inv, KeepsNames
      <3>8. Keeps(C2, D2, path2, cs2[C[k]], k, path[k].names[x], p)
        BY <3>1, <3>5, <3>6, <3>7, KeepsSame
      <3> QED
        BY <3>1, <3>8
    <2> QED
      BY <2>1, <2>2
  <1>4. ASSUME NEW i \in 1..t
        PROVE  \/ \E p \in Nat : StuckAt(C2, D2, path2, cs2[i], i, p)
               \/ InOrder(C2, D2, path2, cs2[i], i)
    <2>1. CASE i = t
      BY <1>1, <2>1 DEF TopStuckOrInOrder
    <2>2. CASE i \in 1..t - 1
      <3>1. cs2[i] = cs[i] /\ Sees(C, D, path, C2, D2, path2, i)
        BY <1>1, <2>2 DEF OthersStay
      <3>2. Well(cs[i]) /\ SameTable(cs[i], cs[i])
        BY <1>1, TableItself DEF Inv, CtxsOK
      <3>3. \/ \E p \in Nat : StuckAt(C, D, path, cs[i], i, p)
            \/ InOrder(C, D, path, cs[i], i)
        BY <1>1 DEF Inv, StuckOrInOrder
      <3> QED
        BY <3>1, <3>2, <3>3, StuckSame, OrderSame
    <2> QED
      BY <1>2, <2>1, <2>2
  <1> QED
    BY <1>1, <1>3, <1>4 DEF Inv, KeepsNames, StuckOrInOrder

(* What a context sees of a name that is noted.                            *)
LEMMA SeesNote ==
  ASSUME NEW C, NEW D, NEW path, NEW path2, NEW n, PathOK(path), path # <<>>,
         Renamed(path, path2, n), NEW i
  PROVE  Sees(C, D, path, C, D, path2, i)
  <1>1. PICK l \in Nat : l = Len(path) /\ l \in 1..l
    <2>1. Len(path) \in Nat /\ Len(path) # 0
      BY PathFacts
    <2> QED
      BY <2>1
  <1>2. /\ Len(path2) = l
        /\ \A k \in 1..l : path2[k].what = path[k].what
        /\ \A k \in 1..l - 1 : path2[k].names = path[k].names
        /\ path2[l].names = Append(path[l].names, n)
    BY <1>1 DEF Renamed
  <1>3. \A m : Contains(path[l].names, m) => Contains(path2[l].names, m)
    <2>1. PICK s : s = path[l].names
      OBVIOUS
    <2>2. s \in Seq(Names \cup {Iter}) /\ Len(s) \in Nat
      BY <1>1, <2>1, PathFacts
    <2>3. Len(Append(s, n)) = Len(s) + 1 /\ \A x \in 1..Len(s) : Append(s, n)[x] = s[x]
      BY <2>2
    <2>4. \A x \in 1..Len(s) : x \in 1..Len(s) + 1
      BY <2>2
    <2>5. \A m : Contains(s, m) => Contains(Append(s, n), m)
      BY <2>3, <2>4 DEF Contains
    <2> QED
      BY <1>2, <2>1, <2>5
  <1>4. \A k \in 1..l : k = l \/ k \in 1..l - 1
    OBVIOUS
  <1>5. \A k \in 1..l : \A m : Contains(path[k].names, m) => Contains(path2[k].names, m)
    BY <1>2, <1>3, <1>4
  <1>6. \A k : PendsAt(C, D, path2, i, k) <=> PendsAt(C, D, path, i, k)
    BY <1>1, <1>2 DEF PendsAt
  <1>7. \A k : PendsAt(C, D, path, i, k) => path2[k].what = path[k].what
    BY <1>1, <1>2 DEF PendsAt
  <1> QED
    BY <1>1, <1>2, <1>5, <1>6, <1>7 DEF Sees

(* What a context sees of one change after another.                        *)
LEMMA SeesBoth ==
  ASSUME NEW C, NEW D, NEW path, NEW path1, NEW C2, NEW D2, NEW path2, NEW i,
         Sees(C, D, path, C, D, path1, i), Sees(C, D, path1, C2, D2, path2, i)
  PROVE  Sees(C, D, path, C2, D2, path2, i)
  <1>1. \A k \in Nat : /\ PendsAt(C2, D2, path2, i, k) <=> PendsAt(C, D, path, i, k)
                       /\ PendsAt(C, D, path, i, k) => path2[k].what = path[k].what
    BY DEF Sees
  <1>2. ASSUME NEW k \in Nat, k \in 1..Len(path), C[k] = i, path[k].what \in Naming
        PROVE  /\ k \in 1..Len(path2) /\ C2[k] = i /\ D2[k] = D[k]
               /\ path2[k].what = path[k].what
               /\ \A m : Contains(path[k].names, m) => Contains(path2[k].names, m)
    <2>1. /\ k \in 1..Len(path1) /\ path1[k].what = path[k].what
          /\ \A m : Contains(path[k].names, m) => Contains(path1[k].names, m)
      BY <1>2 DEF Sees
    <2>2. /\ k \in 1..Len(path2) /\ C2[k] = i /\ D2[k] = D[k]
          /\ path2[k].what = path1[k].what
          /\ \A m : Contains(path1[k].names, m) => Contains(path2[k].names, m)
      BY <1>2, <2>1 DEF Sees
    <2> QED
      BY <2>1, <2>2
  <1> QED
    BY <1>1, <1>2 DEF Sees

-----------------------------------------------------------------------------
(* A variable is declared.                                                 *)

(* What an added table holds.                                              *)
LEMMA AddsFacts ==
  ASSUME NEW c, NEW d, NEW x, Well(c), Adds(c, d, x)
  PROVE  /\ Size(c) \in Nat /\ Size(d) = Size(c) + 1 /\ Size(d) \in 1..Size(d)
         /\ \A p \in 1..Size(d) : p \in 1..Size(c) \/ p = Size(d)
         /\ \A p \in 1..Size(c) : /\ p \in 1..Size(d) /\ p < Size(d)
                                  /\ NameAt(d, p) = NameAt(c, p)
                                  /\ DepthAt(d, p) = DepthAt(c, p)
                                  /\ DepthAt(c, p) \in Int
         /\ NameAt(d, Size(d)) = x /\ DepthAt(d, Size(d)) = -1
  <1>1. PICK n \in Nat : n = Size(c)
    BY TableFacts
  <1>2. Size(d) = n + 1
    BY <1>1 DEF Adds
  <1>3. /\ n + 1 \in 1..n + 1
        /\ \A p \in 1..n + 1 : p \in 1..n \/ p = n + 1
        /\ \A p \in 1..n : p \in 1..n + 1 /\ p < n + 1
    OBVIOUS
  <1>4. /\ \A p \in 1..n : NameAt(d, p) = NameAt(c, p) /\ DepthAt(d, p) = DepthAt(c, p)
        /\ NameAt(d, n + 1) = x /\ DepthAt(d, n + 1) = -1
    BY <1>1, <1>2 DEF Adds, Begins
  <1>5. \A p \in 1..n : DepthAt(c, p) \in Int
    BY <1>1, TableFacts
  <1> QED
    BY <1>1, <1>2, <1>3, <1>4, <1>5

(* A block's names keep their locals.                                      *)
LEMMA KeepsAdded ==
  ASSUME NEW C, NEW D, NEW path, NEW C2, NEW D2, NEW path2, NEW k, NEW m, NEW p,
         NEW c, NEW d, NEW x, Well(c), Adds(c, d, x),
         D2[k] = D[k], Keeps(C, D, path, c, k, m, p)
  PROVE  Keeps(C2, D2, path2, d, k, m, p)
  <1>1. /\ p \in 1..Size(c) /\ NameAt(c, p) = m
        /\ DepthAt(c, p) = -1 \/ DepthAt(c, p) = D[k]
        /\ \A q \in p..Size(c) : DepthAt(c, q) = -1 \/ DepthAt(c, q) >= D[k]
    BY DEF Keeps
  <1>2. p \in 1..Size(d) /\ p < Size(d) /\ NameAt(d, p) = m /\ DepthAt(d, p) = DepthAt(c, p)
    BY <1>1, AddsFacts
  <1>3. \A q \in p..Size(d) : DepthAt(d, q) = -1 \/ DepthAt(d, q) >= D[k]
    <2>1. PICK n \in Nat : n = Size(c) /\ Size(d) = n + 1
      BY AddsFacts
    <2>2. \A q \in p..n + 1 : q = n + 1 \/ (q \in p..n /\ q \in 1..n)
      BY <1>1, <2>1
    <2> QED
      BY <1>1, <2>1, <2>2, AddsFacts
  <1> QED
    BY <1>1, <1>2, <1>3 DEF Keeps

(* The new name's local is the last.                                       *)
LEMMA KeepsNew ==
  ASSUME NEW C, NEW D, NEW path, NEW k, NEW c, NEW d, NEW x, Well(c), Adds(c, d, x),
         \A j \in Nat : PendsAt(C, D, path, C[k], j) /\ k < j =>
           j = k + 1 /\ path[j].what = "var"
  PROVE  Keeps(C, D, path, d, k, x, Size(d))
  <1>1. PICK n \in Nat : Size(d) = n /\ n \in 1..n
    BY AddsFacts
  <1>2. NameAt(d, n) = x /\ DepthAt(d, n) = -1
    BY <1>1, AddsFacts
  <1>3. \A q \in n..n : q = n
    OBVIOUS
  <1> QED
    BY <1>1, <1>2, <1>3 DEF Keeps

(* What a loop left behind stays.                                          *)
LEMMA StuckAdded ==
  ASSUME NEW C, NEW D, NEW path, NEW C2, NEW D2, NEW path2, NEW i, NEW p,
         NEW c, NEW d, NEW x, Well(c), Adds(c, d, x),
         \A j \in Nat : ~PendsAt(C, D, path, i, j), StuckAt(C, D, path, c, i, p)
  PROVE  StuckAt(C2, D2, path2, d, i, p)
  <1>1. p \in 1..Size(c) /\ NameAt(c, p) = Iter /\ p < Size(c) /\ DepthAt(c, p + 1) = -1
    BY DEF StuckAt
  <1>2. PICK n \in Nat : n = Size(c) /\ Size(d) = n + 1
    BY AddsFacts
  <1>3. p \in 1..n + 1 /\ p < n + 1 /\ p + 1 < n + 1 /\ p + 1 \in 1..n
    BY <1>1, <1>2
  <1>4. NameAt(d, p) = Iter /\ DepthAt(d, p + 1) = -1
    BY <1>1, <1>2, <1>3, AddsFacts
  <1> QED
    BY <1>2, <1>3, <1>4 DEF StuckAt

(* The new local is noted, the others are as they were.                    *)
LEMMA OrderAdded ==
  ASSUME NEW C, NEW D, NEW path, NEW C2, NEW D2, NEW path2, NEW i, NEW k0 \in Nat,
         NEW c, NEW d, NEW x, Well(c), Adds(c, d, x),
         \A j \in Nat : ~PendsAt(C, D, path, i, j),
         \A k \in 1..Len(path) : C[k] = i =>
           /\ k \in 1..Len(path2) /\ C2[k] = i /\ D2[k] = D[k] /\ path2[k] = path[k],
         k0 \in 1..Len(path2), C2[k0] = i, path2[k0].what \in Naming,
         Contains(path2[k0].names, x), PendsAt(C2, D2, path2, i, k0 + 1),
         \A j \in Nat : PendsAt(C2, D2, path2, i, j) => path2[j].what = "var",
         InOrder(C, D, path, c, i)
  PROVE  InOrder(C2, D2, path2, d, i)
  <1>1. PICK n \in Nat : n = Size(c) /\ Size(d) = n + 1 /\ n + 1 > 0
    <2>1. Size(c) \in Nat /\ Size(d) = Size(c) + 1
      BY AddsFacts
    <2> QED
      BY <2>1
  <1>2. ASSUME NEW p \in 1..n + 1
        PROVE  DepthAt(d, p) = 0 \/ \E k \in Nat : NotedAt(C2, D2, path2, d, i, p, k)
    <2>1. CASE p = n + 1
      <3>1. NotedAt(C2, D2, path2, d, i, p, k0)
        BY <1>1, <2>1, AddsFacts DEF NotedAt
      <3> QED
        BY <3>1
    <2>2. CASE p \in 1..n
      <3>1. NameAt(d, p) = NameAt(c, p) /\ DepthAt(d, p) = DepthAt(c, p)
        BY <1>1, <2>2, AddsFacts
      <3>2. CASE DepthAt(c, p) = 0
        BY <3>1, <3>2
      <3>3. CASE DepthAt(c, p) # 0
        <4>1. PICK k \in Nat : NotedAt(C, D, path, c, i, p, k)
          BY <1>1, <2>2, <3>3 DEF InOrder
        <4>2. DepthAt(c, p) = D[k] /\ k \in 1..Len(path) /\ C[k] = i
              /\ path[k].what \in Naming /\ Contains(path[k].names, NameAt(c, p))
          BY <4>1 DEF NotedAt
        <4>3. NotedAt(C2, D2, path2, d, i, p, k)
          BY <3>1, <4>2 DEF NotedAt
        <4> QED
          BY <4>3
      <3> QED
        BY <3>2, <3>3
    <2> QED
      BY <1>1, <2>1, <2>2, AddsFacts
  <1>3. ASSUME NEW p \in 1..n + 1, NEW q \in 1..n + 1, p < q
        PROVE  DepthAt(d, p) <= DepthAt(d, q) \/ DepthAt(d, q) = -1
    <2>1. CASE q = n + 1
      BY <1>1, <2>1, AddsFacts
    <2>2. CASE q # n + 1
      <3>1. p \in 1..n /\ q \in 1..n
        BY <1>3, <2>2
      <3>2. DepthAt(c, p) <= DepthAt(c, q) \/ DepthAt(c, q) = -1
        BY <1>1, <1>3, <3>1 DEF InOrder
      <3> QED
        BY <1>1, <3>1, <3>2, AddsFacts
    <2> QED
      BY <2>1, <2>2
  <1>4. DepthAt(d, n + 1) = -1
    BY <1>1, AddsFacts
  <1> QED
    BY <1>1, <1>2, <1>3, <1>4 DEF InOrder

(* In the innermost context nothing is open but what the path ends in.     *)
LEMMA NothingOpen ==
  ASSUME NEW C, NEW D, NEW path, NEW cs, Inv(C, D, path, cs),
         path # <<>> => path[Len(path)].what \notin Pending
  PROVE  \A j \in Nat : ~PendsAt(C, D, path, Len(cs), j)
  <1>1. SUFFICES ASSUME NEW j \in Nat, PendsAt(C, D, path, Len(cs), j) PROVE FALSE
    OBVIOUS
  <1>2. C[Len(path)] = Len(cs)
    BY DEF Inv, Aligned
  <1>3. j = Len(path) /\ path[Len(path)].what \in Pending
    BY <1>1, <1>2, PendsLast DEF Inv
  <1>4. j \in 1..Len(path)
    BY <1>1 DEF PendsAt
  <1>5. path # <<>>
    <2>1. Len(path) # 0
      BY <1>3, <1>4
    <2> QED
      BY <2>1, PathFacts DEF Inv
  <1> QED
    BY <1>3, <1>5

(* The names of the innermost construct after one is noted.                *)
LEMMA NotedNames ==
  ASSUME NEW path, PathOK(path), path # <<>>, NEW path1, NEW n, Renamed(path, path1, n),
         NEW x \in 1..Len(path1[Len(path)].names)
  PROVE  /\ Contains(path1[Len(path)].names, n)
         /\ \/ path1[Len(path)].names[x] = n
            \/ /\ x \in 1..Len(path[Len(path)].names)
               /\ path1[Len(path)].names[x] = path[Len(path)].names[x]
  <1>1. PICK s : s = path[Len(path)].names
    OBVIOUS
  <1>2. s \in Seq(Names \cup {Iter})
    <2>1. Len(path) \in 1..Len(path)
      <3>1. Len(path) \in Nat /\ Len(path) # 0
        BY PathFacts
      <3> QED
        BY <3>1
    <2> QED
      BY <1>1, <2>1, PathFacts
  <1>3. PICK l \in Nat : l = Len(s)
    BY <1>2
  <1>4. PICK u : u = Append(s, n)
    OBVIOUS
  <1>5. Len(u) = l + 1 /\ u[l + 1] = n /\ \A y \in 1..l : u[y] = s[y]
    BY <1>2, <1>3, <1>4
  <1>6. path1[Len(path)].names = u
    BY <1>1, <1>4 DEF Renamed
  <1>7. l + 1 \in 1..l + 1 /\ \A y \in 1..l + 1 : y \in 1..l \/ y = l + 1
    OBVIOUS
  <1>8. Contains(u, n)
    BY <1>5, <1>7 DEF Contains
  <1>9. x \in 1..l + 1
    BY <1>5, <1>6
  <1> QED
    BY <1>1, <1>3, <1>5, <1>6, <1>7, <1>8, <1>9

(* A name is declared and noted, and its value comes next.                 *)
LEMMA DeclareStep ==
  ASSUME NEW C, NEW D, NEW path, NEW cs, NEW path2, NEW cs2, NEW d, NEW pend,
         Inv(C, D, path, cs), path # <<>>, path[Len(path)].what \in Naming,
         NEW x \in Names \cup {Iter}, ~Contains(path[Len(path)].names, x),
         \/ pend = "var"
         \/ /\ pend = "iterable" /\ x = Iter
            /\ path[Len(path)].what = "foreach" /\ path[Len(path)].names = <<>>,
         path2 = Append(Noted(path, x), Construct(pend, <<>>)),
         Adds(cs[Len(cs)], d, x), cs2 = TopSet(cs, d)
  PROVE  \E C2, D2 : Inv(C2, D2, path2, cs2) /\ Higher(C, D, C2, D2, Len(path), pend)
  <1>1. PICK n \in Nat : n = Len(path) /\ n \in 1..n
    <2>1. Len(path) \in Nat /\ Len(path) # 0
      BY PathFacts DEF Inv
    <2> QED
      BY <2>1
  <1>2. PICK t \in Nat : t = Len(cs) /\ t \in 1..t
    BY CtxsFacts DEF Inv
  <1>3. PICK path1 : path1 = Noted(path, x)
    OBVIOUS
  <1>4. PathOK(path1) /\ Renamed(path, path1, x)
    BY <1>3, NotePath DEF Inv
  <1>5. /\ Len(path1) = n
        /\ \A k \in 1..n : path1[k].what = path[k].what
        /\ \A k \in 1..n - 1 : path1[k].names = path[k].names
        /\ path1[n].names = Append(path[n].names, x)
    BY <1>1, <1>4 DEF Renamed
  <1>6. pend \in Pending /\ pend \in Whats /\ pend \notin Entered /\ pend \notin Opening
        /\ pend # "function" /\ pend # "lambda" /\ pend \notin Holding
    BY DEF Pending, Whats, Entered, Opening, Holding
  <1>7. path[n].what \notin Pending /\ path1 # <<>>
    <2>1. path[n].what \notin Pending
      BY <1>1 DEF Naming, Pending, Opening
    <2>2. Len(path1) # 0
      BY <1>1, <1>5
    <2> QED
      BY <1>4, <2>1, <2>2, PathFacts
  <1>8. pend = "iterable" => LoopAt(path1, n)
    <2>1. SUFFICES ASSUME pend = "iterable" PROVE LoopAt(path1, n)
      OBVIOUS
    <2>2. x = Iter /\ path[n].what = "foreach" /\ path[n].names = <<>>
      BY <1>1, <2>1
    <2>3. path1[n].names = <<Iter>>
      BY <1>5, <2>2
    <2> QED
      BY <1>1, <1>5, <2>2, <2>3 DEF LoopAt
  <1>9. PathOK(path2) /\ Grown(path1, path2, pend, <<>>)
    <2>1. <<>> \in Seq(Names \cup {Iter}) /\ IsInjective(<<>>)
      BY DEF IsInjective
    <2> QED
      BY <1>1, <1>3, <1>4, <1>5, <1>6, <1>7, <1>8, <2>1, PushPath
  <1>10. Climbs(C, D, path1)
    BY <1>1, <1>5, ClimbShorter DEF Inv
  <1>11. PICK C2, D2 : Climbs(C2, D2, path2) /\ Higher(C, D, C2, D2, n, pend)
    BY <1>5, <1>9, <1>10, ClimbPush
  <1>12. /\ \A k \in 0..n : C2[k] = C[k] /\ D2[k] = D[k]
         /\ C2[n + 1] = C[n] /\ D2[n + 1] = D[n]
    BY <1>6, <1>11 DEF Higher, ContextIn, DepthIn
  <1>13. C[n] = t /\ cs[t].scope_depth = D[n] /\ D[n] > 0
    <2>1. C[n] = t
      BY <1>1, <1>2 DEF Inv, Aligned
    <2>2. cs[t].scope_depth = D[n]
      BY <1>1, <1>2, InContexts DEF Inv
    <2>3. D[n] > 0
      BY <1>1, Positive DEF Inv
    <2> QED
      BY <2>1, <2>2, <2>3
  <1>14. Aligned(C, D, path1, cs)
    BY <1>1, <1>5 DEF Inv, Aligned
  <1>15. PICK c : c = cs[t]
    OBVIOUS
  <1>16. Well(c) /\ Adds(c, d, x) /\ Well(d) /\ d.scope_depth = D[n]
    BY <1>2, <1>13, <1>15, CtxsFacts DEF Inv, Adds
  <1>17. /\ CtxsOK(cs2) /\ Len(cs2) = t
         /\ \A i \in 1..t : cs2[i] = IF i = t THEN d ELSE cs[i]
    <2>1. CtxsOK(cs) /\ Well(d)
      BY <1>16 DEF Inv
    <2>2. /\ CtxsOK(cs2) /\ Len(cs2) = Len(cs)
          /\ \A i \in 1..Len(cs) : cs2[i] = IF i = Len(cs) THEN d ELSE cs[i]
      BY <2>1, SetCtxs
    <2> QED
      BY <1>2, <2>2
  <1>18. \A i \in 1..t - 1 : cs2[i] = cs[i]
    <2>1. \A i \in 1..t - 1 : i \in 1..t /\ i # t
      OBVIOUS
    <2> QED
      BY <1>17, <2>1
  <1>19. Aligned(C2, D2, path2, cs2)
    <2>1. cs2[t].scope_depth = DepthIn(D, n, pend)
      BY <1>2, <1>6, <1>16, <1>17 DEF DepthIn
    <2>2. \A i \in 1..Len(cs) - 1 : cs2[i].scope_depth = cs[i].scope_depth
      BY <1>2, <1>18
    <2>3. Higher(C, D, C2, D2, Len(path1), pend) /\ Len(cs2) = Len(cs)
      BY <1>2, <1>5, <1>11, <1>17
    <2>4. cs2[Len(cs)].scope_depth = DepthIn(D, Len(path1), pend)
      BY <1>2, <1>5, <2>1
    <2> QED
      BY <1>4, <1>6, <1>9, <1>10, <1>14, <2>2, <2>3, <2>4, AlignPush DEF Inv
  <1>20. \A i : Sees(C, D, path, C, D, path1, i)
    BY <1>4, SeesNote DEF Inv
  <1>21. \A i \in 1..t - 1 : cs2[i] = cs[i] /\ Sees(C, D, path, C2, D2, path2, i)
    <2>1. SUFFICES ASSUME NEW i \in 1..t - 1 PROVE Sees(C, D, path, C2, D2, path2, i)
      BY <1>18
    <2>2. ContextIn(C, n, pend) # i
      BY <1>6, <1>13 DEF ContextIn
    <2>3. Sees(C, D, path1, C2, D2, path2, i)
      BY <1>5, <1>9, <1>11, <2>2, SeesPush
    <2> QED
      BY <1>20, <2>3, SeesBoth
  <1>22. /\ Len(path2) = n + 1 /\ path2[n + 1].what = pend
         /\ \A k \in 1..n : path2[k] = path1[k]
         /\ \A k \in 1..n : k \in 0..n /\ k \in 1..n + 1 /\ k # n + 1
         /\ \A k \in 1..n + 1 : k \in 1..n \/ k = n + 1
    <2>1. /\ \A k \in 1..n : k \in 0..n /\ k \in 1..n + 1 /\ k # n + 1
          /\ \A k \in 1..n + 1 : k \in 1..n \/ k = n + 1
      OBVIOUS
    <2>2. Len(path2) = n + 1
      BY <1>5, <1>9 DEF Grown
    <2>3. path2[n + 1].what = pend /\ \A k \in 1..n : path2[k] = path1[k]
      BY <1>5, <1>9, <2>2 DEF Grown
    <2> QED
      BY <2>1, <2>2, <2>3
  <1>23. \A k \in 1..n : k = n \/ k \in 1..n - 1
    OBVIOUS
  <1>24. \A k \in 1..Len(path2) : path2[k].what \in Holding /\ C2[k] # t =>
           k \in 1..n /\ path2[k] = path[k] /\ C2[k] = C[k] /\ D2[k] = D[k]
    <2>1. SUFFICES ASSUME NEW k \in 1..n + 1, path2[k].what \in Holding, C2[k] # t
                   PROVE  k \in 1..n /\ path2[k] = path[k] /\ C2[k] = C[k] /\ D2[k] = D[k]
      BY <1>22
    <2>2. k \in 1..n
      BY <1>6, <1>22, <2>1
    <2>3. k \in 1..n - 1
      BY <1>12, <1>13, <1>22, <1>23, <2>1, <2>2
    <2>4. path1[k] = path[k]
      BY <1>3, <2>2, <2>3, <1>1, <1>5 DEF Noted, Inv, PathOK
    <2> QED
      BY <1>12, <1>22, <2>2, <2>4
  <1>25. \A j \in Nat : PendsAt(C2, D2, path2, t, j) => j = n + 1
    <2>1. SUFFICES ASSUME NEW j \in Nat, PendsAt(C2, D2, path2, t, j) PROVE j = n + 1
      OBVIOUS
    <2>2. C2[Len(path2)] = t
      BY <1>12, <1>13, <1>22
    <2>3. PendsAt(C2, D2, path2, C2[Len(path2)], j)
      BY <2>1, <2>2
    <2>4. j = Len(path2)
      BY <1>9, <1>11, <2>3, PendsLast
    <2> QED
      BY <1>22, <2>4
  <1>26. \A k \in 1..Len(path2) : path2[k].what \in Holding /\ C2[k] = t =>
           \A y \in 1..Len(path2[k].names) :
             \E p \in Nat : Keeps(C2, D2, path2, d, k, path2[k].names[y], p)
    <2>1. SUFFICES ASSUME NEW k \in 1..n + 1, path2[k].what \in Holding, C2[k] = t,
                          NEW y \in 1..Len(path2[k].names)
                   PROVE  \E p \in Nat : Keeps(C2, D2, path2, d, k, path2[k].names[y], p)
      BY <1>22
    <2>2. k \in 1..n /\ path2[k] = path1[k] /\ path[k].what \in Holding
          /\ C[k] = t /\ D2[k] = D[k]
      BY <1>5, <1>6, <1>12, <1>22, <2>1
    <2>3. CASE y \in 1..Len(path[k].names) /\ path1[k].names[y] = path[k].names[y]
      <3>1. PICK p \in Nat : Keeps(C, D, path, c, k, path[k].names[y], p)
        BY <1>1, <1>15, <2>2, <2>3 DEF Inv, KeepsNames
      <3>2. Keeps(C2, D2, path2, d, k, path[k].names[y], p)
        BY <1>16, <2>2, <3>1, KeepsAdded
      <3> QED
        BY <2>2, <2>3, <3>2
    <2>4. CASE k = n /\ path1[n].names[y] = x
      <3>1. pend = "var"
        BY <1>1, <2>2, <2>4 DEF Holding
      <3>2. \A j \in Nat : PendsAt(C2, D2, path2, C2[k], j) /\ k < j =>
              j = k + 1 /\ path2[j].what = "var"
        BY <1>22, <1>25, <2>1, <2>4, <3>1
      <3>3. Keeps(C2, D2, path2, d, k, x, Size(d))
        BY <1>16, <3>2, KeepsNew
      <3>4. Size(d) \in Nat
        BY <1>16, TableFacts
      <3> QED
        BY <2>2, <2>4, <3>3, <3>4
    <2>5. CASE k \in 1..n - 1
      BY <1>5, <2>1, <2>2, <2>3, <2>5
    <2>6. CASE k = n
      <3>1. y \in 1..Len(path1[Len(path)].names)
        BY <1>1, <2>1, <2>2, <2>6
      <3>2. \/ path1[n].names[y] = x
            \/ y \in 1..Len(path[n].names) /\ path1[n].names[y] = path[n].names[y]
        BY <1>1, <1>4, <3>1, NotedNames DEF Inv
      <3> QED
        BY <2>3, <2>4, <2>6, <3>2
    <2> QED
      BY <1>23, <2>2, <2>5, <2>6
  <1>27. \A j \in Nat : ~PendsAt(C, D, path, t, j)
    BY <1>1, <1>2, <1>7, NothingOpen
  <1>28. \A j \in Nat : ~PendsAt(C, D, path1, t, j)
    BY <1>20, <1>27 DEF Sees
  <1>29. n + 1 \in Nat /\ PendsAt(C2, D2, path2, t, n + 1)
    <2>1. n + 1 \in Nat /\ n + 1 \in 1..n + 1
      OBVIOUS
    <2> QED
      BY <1>6, <1>12, <1>13, <1>22, <2>1 DEF PendsAt
  <1>30. \/ \E p \in Nat : StuckAt(C2, D2, path2, d, t, p)
         \/ InOrder(C2, D2, path2, d, t)
    <2>1. CASE \E p \in Nat : StuckAt(C, D, path, c, t, p)
      BY <1>16, <1>27, <2>1, StuckAdded
    <2>2. CASE InOrder(C, D, path, c, t) /\ pend = "iterable"
      <3>1. Size(d) \in Nat /\ Size(d) \in 1..Size(d) /\ NameAt(d, Size(d)) = Iter
        <4>1. x = Iter
          BY <2>2
        <4>2. Size(d) \in Nat
          BY <1>16, TableFacts
        <4> QED
          BY <1>16, <4>1, <4>2, AddsFacts
      <3>2. StuckAt(C2, D2, path2, d, t, Size(d))
        BY <1>22, <1>29, <2>2, <3>1 DEF StuckAt
      <3> QED
        BY <3>1, <3>2
    <2>3. CASE InOrder(C, D, path, c, t) /\ pend = "var"
      <3>1. InOrder(C, D, path1, c, t)
        BY <1>16, <1>20, <2>3, OrderSame, TableItself
      <3>2. Contains(path2[n].names, x) /\ path2[n].what \in Naming
        <4>1. PICK y : y \in 1..Len(path1[n].names)
          <5>1. path[n].names \in Seq(Names \cup {Iter}) /\ Len(path[n].names) \in Nat
            BY <1>1, PathFacts DEF Inv
          <5>2. Len(path1[n].names) = Len(path[n].names) + 1
            BY <1>5, <5>1
          <5>3. 1 \in 1..Len(path[n].names) + 1
            BY <5>1
          <5> QED
            BY <5>2, <5>3
        <4>2. Contains(path1[n].names, x)
          BY <1>1, <1>4, <4>1, NotedNames DEF Inv
        <4> QED
          BY <1>1, <1>5, <1>22, <4>2
      <3>3. \A k \in 1..n : C[k] = t =>
              k \in 1..n + 1 /\ C2[k] = t /\ D2[k] = D[k] /\ path2[k] = path1[k]
        BY <1>12, <1>22
      <3>4. C2[n] = t /\ n \in 1..n + 1
        BY <1>1, <1>12, <1>13, <1>22
      <3>5. \A j \in Nat : PendsAt(C2, D2, path2, t, j) => path2[j].what = "var"
        BY <1>22, <1>25, <2>3
      <3>6. InOrder(C2, D2, path2, d, t)
        <4>1. \A k \in 1..Len(path1) : C[k] = t =>
                /\ k \in 1..Len(path2) /\ C2[k] = t /\ D2[k] = D[k]
                /\ path2[k] = path1[k]
          BY <1>5, <1>22, <3>3
        <4>2. n \in 1..Len(path2)
          BY <1>22, <3>4
        <4> QED
          BY <1>16, <1>28, <1>29, <3>1, <3>2, <3>4, <3>5, <4>1, <4>2, OrderAdded
      <3> QED
        BY <3>6
    <2>4. \/ \E p \in Nat : StuckAt(C, D, path, c, t, p)
          \/ InOrder(C, D, path, c, t)
      BY <1>2, <1>15 DEF Inv, StuckOrInOrder
    <2> QED
      BY <2>1, <2>2, <2>3, <2>4
  <1>31. Inv(C2, D2, path2, cs2)
    <2>1. cs2[t] = d
      BY <1>2, <1>17
    <2>2. OthersStay(C, D, path, cs, C2, D2, path2, cs2, t)
      <3>1. \A k \in 1..Len(path2) : path2[k].what \in Holding /\ C2[k] # t =>
              /\ k \in 1..Len(path) /\ path2[k] = path[k]
              /\ C2[k] = C[k] /\ D2[k] = D[k]
        BY <1>1, <1>24
      <3> QED
        BY <1>21, <3>1 DEF OthersStay
    <2>3. TopKeeps(C2, D2, path2, cs2[t], t)
      BY <1>26, <2>1 DEF TopKeeps
    <2>4. TopStuckOrInOrder(C2, D2, path2, cs2[t], t)
      BY <1>30, <2>1 DEF TopStuckOrInOrder
    <2>5. t = Len(cs) /\ Inv(C, D, path, cs)
      BY <1>2
    <2>6. PathOK(path2) /\ Climbs(C2, D2, path2) /\ CtxsOK(cs2) /\ Len(cs2) = t
      BY <1>9, <1>11, <1>17
    <2> QED
      BY <1>19, <2>2, <2>3, <2>4, <2>5, <2>6, TopStep
  <1>32. Higher(C, D, C2, D2, Len(path), pend)
    BY <1>1, <1>11
  <1> QED
    BY <1>31, <1>32

(* The innermost construct, not a function, is left, and the innermost     *)
(* context has the table d then.                                           *)
Popped(C, D, path, cs, path2, cs2, d, n, t) ==
  /\ n \in Nat /\ t \in Nat /\ t \in 1..t /\ Well(cs[t])
  /\ Len(path) = n + 1 /\ Len(path2) = n
  /\ \A k \in 1..n : path2[k] = path[k]
  /\ C[n] = t /\ C[n + 1] = t
  /\ PathOK(path2) /\ CtxsOK(cs2) /\ Climbs(C, D, path2)
  /\ Aligned(C, D, path2, cs2) /\ Len(cs2) = t /\ cs2[t] = d
  /\ OthersStay(C, D, path, cs, C, D, path2, cs2, t)
  /\ \A j \in Nat : ~PendsAt(C, D, path2, t, j)

(* One construct is left.                                                  *)
LEMMA PopTop ==
  ASSUME NEW C, NEW D, NEW path, NEW cs, NEW path2, NEW cs2, NEW d, NEW n, NEW t,
         Inv(C, D, path, cs), path # <<>>, path[Len(path)].what \notin Entered,
         path2 = Front(path), n = Len(path2), t = Len(cs),
         Well(d), d.scope_depth = D[n], cs2 = TopSet(cs, d)
  PROVE  Popped(C, D, path, cs, path2, cs2, d, n, t)
  <1>1. PathOK(path) /\ CtxsOK(cs) /\ Climbs(C, D, path) /\ Aligned(C, D, path, cs)
    BY DEF Inv
  <1>2. PathOK(path2) /\ Shrunk(path, path2)
    BY <1>1, PopPath
  <1>3. n \in Nat /\ Len(path) = n + 1 /\ \A k \in 1..n : path2[k] = path[k]
    BY <1>2, PathFacts DEF Shrunk
  <1>4. t \in Nat /\ t \in 1..t /\ Well(cs[t])
    BY <1>1, CtxsFacts
  <1>5. Climbs(C, D, path2)
    BY <1>1, <1>3, ClimbShorter
  <1>6. path[n + 1].what \notin Entered
    BY <1>3
  <1>7. C[n + 1] = C[n]
    BY <1>1, <1>3, <1>6, ClimbLast DEF ContextIn
  <1>8. C[n + 1] = t
    BY <1>1, <1>3 DEF Aligned
  <1>10. /\ CtxsOK(cs2) /\ Len(cs2) = Len(cs)
         /\ \A i \in 1..Len(cs) : cs2[i] = IF i = Len(cs) THEN d ELSE cs[i]
    BY <1>1, SetCtxs
  <1>11. Len(cs2) = t /\ cs2[t] = d /\ \A i \in 1..t - 1 : cs2[i] = cs[i]
    <2>1. \A i \in 1..t - 1 : i \in 1..t /\ i # t
      BY <1>4
    <2> QED
      BY <1>4, <1>10, <2>1
  <1>12. Aligned(C, D, path2, cs2)
    <2>1. \A i \in 1..Len(cs) - 1 : cs2[i].scope_depth = cs[i].scope_depth
      BY <1>11
    <2>2. cs2[Len(cs)].scope_depth = D[Len(path2)] /\ Len(cs2) = Len(cs)
      BY <1>11
    <2> QED
      BY <1>1, <1>2, <2>1, <2>2, AlignPop
  <1>13. OthersStay(C, D, path, cs, C, D, path2, cs2, t)
    <2>1. ASSUME NEW i \in 1..t - 1
          PROVE  cs2[i] = cs[i] /\ Sees(C, D, path, C, D, path2, i)
      <3>1. i # t
        BY <1>4
      <3>2. C[Len(path)] # i
        BY <1>3, <1>8, <3>1
      <3>3. Len(path2) \in Nat
        BY <1>3
      <3> QED
        BY <1>2, <1>11, <3>2, <3>3, SeesPop
    <2>2. ASSUME NEW k \in 1..n PROVE k \in 1..Len(path) /\ path2[k] = path[k]
      BY <1>3
    <2> QED
      BY <2>1, <2>2 DEF OthersStay
  <1>14. ASSUME NEW j \in Nat, PendsAt(C, D, path2, t, j) PROVE FALSE
    <2>1. PendsAt(C, D, path2, C[Len(path2)], j)
      BY <1>7, <1>8, <1>14
    <2>2. j = n /\ path2[n].what \in Pending /\ n \in 1..n
      BY <1>2, <1>5, <1>14, <2>1, PendsLast DEF PendsAt
    <2>3. path[n].what \in Pending /\ n \in 1..Len(path) - 1
      BY <1>3, <2>2
    <2>4. path[n + 1].what = "lambda"
      BY <1>1, <2>3 DEF PathOK
    <2> QED
      BY <1>6, <2>4 DEF Entered
  <1> QED
    BY <1>2, <1>3, <1>4, <1>5, <1>7, <1>8, <1>10, <1>11, <1>12, <1>13, <1>14 DEF Popped

(* The path without its innermost construct, which is in context t as well *)
(* as the one around it.                                                   *)
Leaves(C, D, path, path2, n, t) ==
  /\ n \in Nat /\ Len(path) = n + 1 /\ Len(path2) = n
  /\ \A k \in 1..n : path2[k] = path[k]
  /\ C[n] = t /\ C[n + 1] = t
  /\ PathOK(path) /\ Climbs(C, D, path)
  /\ \A j \in Nat : ~PendsAt(C, D, path2, t, j)

(* The depths and the pending places then.                                 *)
LEMMA LeavesFacts ==
  ASSUME NEW C, NEW D, NEW path, NEW path2, NEW n, NEW t, Leaves(C, D, path, path2, n, t)
  PROVE  /\ \A k \in 1..n : D[k] \in Nat /\ (C[k] = t => D[k] <= D[n])
         /\ \A j \in Nat : PendsAt(C, D, path, t, j) =>
              j = n + 1 /\ path[n + 1].what \in Pending /\ D[n + 1] > 0
         /\ path[n + 1].what \in Pending /\ D[n + 1] > 0 => PendsAt(C, D, path, t, n + 1)
         /\ D[n] \in Nat /\ D[n + 1] \in Nat
  <1>1. /\ n \in Nat /\ Len(path) = n + 1 /\ C[n] = t /\ C[n + 1] = t
        /\ PathOK(path) /\ Climbs(C, D, path)
    BY DEF Leaves
  <1>2. \A k \in 1..n : k \in Nat /\ k \in 0..n + 1 /\ k <= n
    BY <1>1
  <1>3. n \in 0..n + 1 /\ n + 1 \in 1..n + 1 /\ n + 1 \in Nat
    BY <1>1
  <1>4. D[n] \in Nat /\ D[n + 1] \in Nat /\ \A k \in 1..n : D[k] \in Nat
    BY <1>1, <1>2, <1>3, ClimbFacts
  <1>5. \A k \in 1..n : C[k] = t => D[k] <= D[n]
    BY <1>1, <1>2, <1>3 DEF Climbs
  <1>6. ASSUME NEW j \in Nat, PendsAt(C, D, path, t, j)
        PROVE  j = n + 1 /\ path[n + 1].what \in Pending /\ D[n + 1] > 0
    <2>1. PendsAt(C, D, path, C[Len(path)], j)
      BY <1>1, <1>6
    <2>2. j = Len(path) /\ path[Len(path)].what \in Pending
      BY <1>1, <2>1, PendsLast
    <2>3. D[j] > 0
      BY <1>6 DEF PendsAt
    <2> QED
      BY <1>1, <2>2, <2>3
  <1>7. path[n + 1].what \in Pending /\ D[n + 1] > 0 => PendsAt(C, D, path, t, n + 1)
    BY <1>1, <1>3 DEF PendsAt
  <1> QED
    BY <1>4, <1>5, <1>6, <1>7

(* A block's names keep their locals when a variable gets its value.       *)
LEMMA KeepsDefined ==
  ASSUME NEW C, NEW D, NEW path, NEW path2, NEW n, NEW t, Leaves(C, D, path, path2, n, t),
         path[n + 1].what = "var", D[n + 1] = D[n],
         NEW c, NEW d, Well(c), Gives(c, d), c.scope_depth = D[n],
         TopKeeps(C, D, path, c, t)
  PROVE  TopKeeps(C, D, path2, d, t)
  <1>1. PICK N \in Nat : N = Size(c)
    BY TableFacts
  <1>2. \A p \in 1..N : DepthAt(c, p) \in Int
    BY <1>1, TableFacts
  <1>3. /\ Size(d) = N
        /\ \A p \in 1..N : /\ NameAt(d, p) = NameAt(c, p)
                           /\ DepthAt(d, p) = IF p = N /\ D[n] # 0 THEN D[n]
                                              ELSE DepthAt(c, p)
    BY <1>1 DEF Gives
  <1>4. /\ n \in Nat /\ Len(path) = n + 1 /\ Len(path2) = n /\ C[n] = t
        /\ \A k \in 1..n : path2[k] = path[k]
        /\ \A j \in Nat : ~PendsAt(C, D, path2, t, j)
    BY DEF Leaves
  <1>5. SUFFICES ASSUME NEW k \in 1..n, path2[k].what \in Holding, C[k] = t,
                        NEW x \in 1..Len(path2[k].names)
                 PROVE  \E p \in Nat : Keeps(C, D, path2, d, k, path2[k].names[x], p)
    BY <1>4 DEF TopKeeps
  <1>6. PICK m : m = path[k].names[x]
    OBVIOUS
  <1>7. path2[k] = path[k] /\ k \in 1..n + 1 /\ k < n + 1
    BY <1>4
  <1>8. PICK p \in Nat : Keeps(C, D, path, c, k, m, p)
    BY <1>4, <1>5, <1>6, <1>7 DEF TopKeeps
  <1>9. /\ p \in 1..N /\ NameAt(c, p) = m
        /\ DepthAt(c, p) = -1 \/ DepthAt(c, p) = D[k]
        /\ \A q \in p..N : DepthAt(c, q) = -1 \/ DepthAt(c, q) >= D[k]
    BY <1>1, <1>8 DEF Keeps
  <1>10. D[k] \in Nat /\ D[k] <= D[n] /\ D[n] \in Nat
    BY <1>5, LeavesFacts
  <1>11. \A q \in p..N : q \in 1..N
    BY <1>9
  <1>12. \A q \in p..N : DepthAt(d, q) = -1 \/ DepthAt(d, q) >= D[k]
    BY <1>3, <1>9, <1>10, <1>11
  <1>13. DepthAt(d, p) = -1 \/ DepthAt(d, p) = D[k]
    <2>1. CASE p = N /\ D[n] # 0
      <3>1. PendsAt(C, D, path, t, n + 1)
        BY <1>10, <2>1, LeavesFacts DEF Pending
      <3>2. n + 1 \in Nat
        BY <1>4
      <3>3. p < N \/ n + 1 = k + 1
        BY <1>1, <1>5, <1>7, <1>8, <3>1, <3>2 DEF Keeps
      <3>4. k = n
        BY <1>4, <1>9, <2>1, <3>3
      <3> QED
        BY <1>3, <1>9, <2>1, <3>4
    <2>2. CASE ~(p = N /\ D[n] # 0)
      BY <1>3, <1>9, <2>2
    <2> QED
      BY <2>1, <2>2
  <1>14. Keeps(C, D, path2, d, k, m, p)
    BY <1>3, <1>4, <1>5, <1>9, <1>12, <1>13 DEF Keeps
  <1> QED
    BY <1>6, <1>7, <1>14

(* What a loop left behind stays when a variable gets its value.           *)
LEMMA StuckDefined ==
  ASSUME NEW C, NEW D, NEW path, NEW path2, NEW n, NEW t, Leaves(C, D, path, path2, n, t),
         path[n + 1].what = "var", D[n + 1] = D[n],
         NEW c, NEW d, Well(c), Gives(c, d), c.scope_depth = D[n],
         NEW p \in Nat, StuckAt(C, D, path, c, t, p)
  PROVE  StuckAt(C, D, path2, d, t, p)
  <1>1. PICK N \in Nat : N = Size(c)
    BY TableFacts
  <1>2. /\ Size(d) = N
        /\ \A q \in 1..N : /\ NameAt(d, q) = NameAt(c, q)
                           /\ DepthAt(d, q) = IF q = N /\ D[n] # 0 THEN D[n]
                                              ELSE DepthAt(c, q)
    BY <1>1 DEF Gives
  <1>3. n + 1 \in Nat /\ \A j \in Nat : ~PendsAt(C, D, path2, t, j)
    BY DEF Leaves
  <1>4. \A j \in Nat : PendsAt(C, D, path, t, j) => path[j].what = "var"
    BY LeavesFacts
  <1>5. /\ p \in 1..N /\ NameAt(c, p) = Iter /\ p < N /\ DepthAt(c, p + 1) = -1
        /\ \A j \in Nat : PendsAt(C, D, path, t, j) => p + 1 < N
    BY <1>1, <1>4 DEF StuckAt
  <1>6. D[n] # 0 => p + 1 < N
    <2>1. SUFFICES ASSUME D[n] # 0 PROVE p + 1 < N
      OBVIOUS
    <2>2. D[n + 1] > 0
      BY <2>1, LeavesFacts
    <2>3. PendsAt(C, D, path, t, n + 1)
      BY <2>2, LeavesFacts DEF Pending
    <2> QED
      BY <1>3, <1>5, <2>3
  <1>7. p + 1 \in 1..N
    BY <1>1, <1>5
  <1>8. DepthAt(d, p + 1) = -1 /\ NameAt(d, p) = Iter
    BY <1>1, <1>2, <1>5, <1>6, <1>7
  <1> QED
    BY <1>2, <1>3, <1>5, <1>8 DEF StuckAt

(* A table in order stays in order when a variable gets its value.         *)
LEMMA OrderDefined ==
  ASSUME NEW C, NEW D, NEW path, NEW path2, NEW n, NEW t, Leaves(C, D, path, path2, n, t),
         path[n + 1].what = "var", D[n + 1] = D[n],
         NEW c, NEW d, Well(c), Gives(c, d), c.scope_depth = D[n],
         InOrder(C, D, path, c, t)
  PROVE  InOrder(C, D, path2, d, t)
  <1>1. PICK N \in Nat : N = Size(c)
    BY TableFacts
  <1>2. \A p \in 1..N : DepthAt(c, p) \in Int
    BY <1>1, TableFacts
  <1>3. /\ Size(d) = N
        /\ \A p \in 1..N : /\ NameAt(d, p) = NameAt(c, p)
                           /\ DepthAt(d, p) = IF p = N /\ D[n] # 0 THEN D[n]
                                              ELSE DepthAt(c, p)
    BY <1>1 DEF Gives
  <1>4. /\ n \in Nat /\ Len(path) = n + 1 /\ Len(path2) = n /\ C[n] = t
        /\ \A k \in 1..n : path2[k] = path[k]
        /\ \A j \in Nat : ~PendsAt(C, D, path2, t, j)
    BY DEF Leaves
  <1>5. path[n + 1].what \notin Naming /\ path[n + 1].what \in Pending
    BY DEF Naming, Pending, Opening
  <1>6. ASSUME NEW p \in 1..N, NEW k \in Nat, NotedAt(C, D, path, c, t, p, k)
        PROVE  /\ k \in 1..n /\ C[k] = t /\ D[k] \in Nat /\ D[k] <= D[n]
               /\ path2[k] = path[k] /\ path[k].what \in Naming
               /\ Contains(path[k].names, NameAt(c, p))
               /\ DepthAt(c, p) = D[k] \/ (p = N /\ k = n /\ D[n] # 0)
    <2>1. /\ k \in 1..n + 1 /\ C[k] = t /\ path[k].what \in Naming
          /\ Contains(path[k].names, NameAt(c, p))
          /\ \/ DepthAt(c, p) = D[k]
             \/ p = N /\ PendsAt(C, D, path, t, k + 1)
      BY <1>1, <1>4, <1>6 DEF NotedAt
    <2>2. k # n + 1
      BY <1>5, <2>1
    <2>3. k \in 1..n
      BY <1>4, <2>1, <2>2
    <2>4. PendsAt(C, D, path, t, k + 1) => k = n /\ D[n] # 0
      <3>1. k + 1 \in Nat
        BY <1>6
      <3>2. PendsAt(C, D, path, t, k + 1) => k + 1 = n + 1 /\ D[n + 1] > 0
        BY <3>1, LeavesFacts
      <3> QED
        BY <1>4, <1>6, <3>2, LeavesFacts
    <2>5. D[k] \in Nat /\ D[k] <= D[n]
      BY <2>1, <2>3, LeavesFacts
    <2> QED
      BY <1>4, <2>1, <2>3, <2>4, <2>5
  <1>7. D[n] \in Nat
    BY LeavesFacts
  <1>8. ASSUME N > 0, D[n] # 0
        PROVE  DepthAt(c, N) = -1
    <2>1. PendsAt(C, D, path, t, n + 1) /\ n + 1 \in Nat
      BY <1>4, <1>5, <1>7, <1>8, LeavesFacts
    <2> QED
      BY <1>1, <2>1 DEF InOrder
  <1>9. ASSUME NEW p \in 1..N
        PROVE  DepthAt(d, p) = 0 \/ \E k \in Nat : NotedAt(C, D, path2, d, t, p, k)
    <2>1. DepthAt(c, p) = 0 \/ \E k \in Nat : NotedAt(C, D, path, c, t, p, k)
      BY <1>1, <1>9 DEF InOrder
    <2>2. p = N /\ D[n] # 0 => DepthAt(c, p) # 0
      BY <1>1, <1>8, <1>9
    <2>3. CASE DepthAt(c, p) = 0
      BY <1>3, <1>9, <2>2, <2>3
    <2>4. CASE DepthAt(c, p) # 0
      <3>1. PICK k \in Nat : NotedAt(C, D, path, c, t, p, k)
        BY <2>1, <2>4
      <3>2. /\ k \in 1..n /\ C[k] = t /\ D[k] \in Nat /\ D[k] <= D[n]
            /\ path2[k] = path[k] /\ path[k].what \in Naming
            /\ Contains(path[k].names, NameAt(c, p))
            /\ DepthAt(c, p) = D[k] \/ (p = N /\ k = n /\ D[n] # 0)
        BY <1>6, <1>9, <3>1
      <3>3. DepthAt(d, p) = D[k]
        <4>1. CASE p = N /\ D[n] # 0
          <5>1. N > 0
            BY <1>1, <1>9
          <5>2. DepthAt(c, p) # D[k]
            BY <1>8, <3>2, <4>1, <5>1
          <5> QED
            BY <1>3, <1>9, <3>2, <4>1, <5>2
        <4>2. CASE ~(p = N /\ D[n] # 0)
          BY <1>3, <1>9, <3>2, <4>2
        <4> QED
          BY <4>1, <4>2
      <3>4. NotedAt(C, D, path2, d, t, p, k)
        BY <1>3, <1>4, <1>9, <3>2, <3>3 DEF NotedAt
      <3> QED
        BY <3>4
    <2> QED
      BY <2>3, <2>4
  <1>10. ASSUME NEW p \in 1..N, NEW q \in 1..N, p < q
         PROVE  DepthAt(d, p) <= DepthAt(d, q) \/ DepthAt(d, q) = -1
    <2>1. DepthAt(c, p) <= DepthAt(c, q) \/ DepthAt(c, q) = -1
      BY <1>1, <1>10 DEF InOrder
    <2>2. p # N /\ DepthAt(d, p) = DepthAt(c, p)
      BY <1>1, <1>3, <1>10
    <2>3. CASE q = N /\ D[n] # 0
      <3>1. DepthAt(d, q) = D[n]
        BY <1>3, <1>10, <2>3
      <3>2. DepthAt(c, p) = 0 \/ \E k \in Nat : NotedAt(C, D, path, c, t, p, k)
        BY <1>1, <1>10 DEF InOrder
      <3>3. ASSUME NEW k \in Nat, NotedAt(C, D, path, c, t, p, k)
            PROVE  DepthAt(c, p) <= D[n]
        <4>1. /\ D[k] \in Nat /\ D[k] <= D[n]
              /\ DepthAt(c, p) = D[k] \/ (p = N /\ k = n /\ D[n] # 0)
          BY <1>6, <1>10, <3>3
        <4> QED
          BY <2>2, <4>1
      <3> QED
        BY <1>7, <2>2, <3>1, <3>2, <3>3
    <2>4. CASE ~(q = N /\ D[n] # 0)
      BY <1>3, <1>10, <2>1, <2>2, <2>4
    <2> QED
      BY <2>3, <2>4
  <1>11. \A p \in 1..Size(d) :
           DepthAt(d, p) = 0 \/ \E k \in Nat : NotedAt(C, D, path2, d, t, p, k)
    BY <1>3, <1>9
  <1>12. \A p, q \in 1..Size(d) :
           p < q => DepthAt(d, p) <= DepthAt(d, q) \/ DepthAt(d, q) = -1
    BY <1>3, <1>10
  <1>13. \A j \in Nat : PendsAt(C, D, path2, t, j) =>
           path2[j].what = "var" /\ Size(d) > 0 /\ DepthAt(d, Size(d)) = -1
    BY <1>4
  <1> QED
    BY <1>11, <1>12, <1>13 DEF InOrder

(* What the invariant says of the innermost context.                       *)
LEMMA InvTop ==
  ASSUME NEW C, NEW D, NEW path, NEW cs, Inv(C, D, path, cs), NEW t, t = Len(cs)
  PROVE  TopKeeps(C, D, path, cs[t], t) /\ TopStuckOrInOrder(C, D, path, cs[t], t)
  <1>1. t \in 1..Len(cs)
    BY CtxsFacts DEF Inv
  <1>2. TopKeeps(C, D, path, cs[t], t)
    BY DEF Inv, KeepsNames, TopKeeps
  <1>3. TopStuckOrInOrder(C, D, path, cs[t], t)
    BY <1>1 DEF Inv, StuckOrInOrder, TopStuckOrInOrder
  <1> QED
    BY <1>2, <1>3

(* A variable gets its value.                                              *)
LEMMA DefineStep ==
  ASSUME NEW C, NEW D, NEW path, NEW cs, NEW path2, NEW cs2, NEW d,
         Inv(C, D, path, cs), path # <<>>, path[Len(path)].what = "var",
         path2 = Front(path), Gives(cs[Len(cs)], d), cs2 = TopSet(cs, d)
  PROVE  Inv(C, D, path2, cs2)
  <1>1. PICK n : n = Len(path2)
    OBVIOUS
  <1>2. PICK t : t = Len(cs)
    OBVIOUS
  <1>3. path[Len(path)].what \notin Entered
    BY DEF Entered
  <1>4. Well(d) /\ d.scope_depth = cs[t].scope_depth
    BY <1>2 DEF Gives
  <1>5. cs[t].scope_depth = D[Len(path)]
    BY <1>2, InContexts DEF Inv
  <1>6. Len(path) \in Nat /\ Shrunk(path, path2) /\ Len(path2) \in Nat
    BY PopPath, PathFacts DEF Inv
  <1>7. Len(path) = n + 1 /\ n \in Nat
    BY <1>1, <1>6 DEF Shrunk
  <1>8. D[n + 1] = DepthIn(D, n, path[n + 1].what)
    BY <1>7, ClimbLast DEF Inv
  <1>9. path[n + 1].what = "var"
    BY <1>7
  <1>10. D[n + 1] = D[n]
    BY <1>8, <1>9 DEF DepthIn, Entered, Opening
  <1>11. d.scope_depth = D[n] /\ cs[t].scope_depth = D[n]
    BY <1>4, <1>5, <1>7, <1>10
  <1>12. /\ t \in Nat /\ t \in 1..t /\ Well(cs[t])
         /\ \A k \in 1..n : path2[k] = path[k]
         /\ C[n] = t /\ C[n + 1] = t
         /\ PathOK(path2) /\ CtxsOK(cs2) /\ Climbs(C, D, path2)
         /\ Aligned(C, D, path2, cs2) /\ Len(cs2) = t /\ cs2[t] = d
         /\ OthersStay(C, D, path, cs, C, D, path2, cs2, t)
         /\ \A j \in Nat : ~PendsAt(C, D, path2, t, j)
    <2>1. Well(d) /\ d.scope_depth = D[n]
      BY <1>4, <1>11
    <2>2. Popped(C, D, path, cs, path2, cs2, d, n, t)
      BY <1>1, <1>2, <1>3, <2>1, PopTop
    <2> QED
      BY <2>2 DEF Popped
  <1>13. Leaves(C, D, path, path2, n, t)
    BY <1>1, <1>7, <1>12 DEF Leaves, Inv
  <1>14. TopKeeps(C, D, path, cs[t], t) /\ TopStuckOrInOrder(C, D, path, cs[t], t)
    BY <1>2, InvTop
  <1>15. Gives(cs[t], d)
    BY <1>2
  <1>16. TopKeeps(C, D, path2, cs2[t], t)
    BY <1>9, <1>10, <1>11, <1>12, <1>13, <1>14, <1>15, KeepsDefined
  <1>17. TopStuckOrInOrder(C, D, path2, cs2[t], t)
    <2>1. CASE InOrder(C, D, path, cs[t], t)
      <3>1. InOrder(C, D, path2, d, t)
        BY <1>9, <1>10, <1>11, <1>12, <1>13, <1>15, <2>1, OrderDefined
      <3> QED
        BY <1>12, <3>1 DEF TopStuckOrInOrder
    <2>2. CASE \E p \in Nat : StuckAt(C, D, path, cs[t], t, p)
      <3>1. PICK p \in Nat : StuckAt(C, D, path, cs[t], t, p)
        BY <2>2
      <3>2. StuckAt(C, D, path2, d, t, p)
        BY <1>9, <1>10, <1>11, <1>12, <1>13, <1>15, <3>1, StuckDefined
      <3> QED
        BY <1>12, <3>2 DEF TopStuckOrInOrder
    <2> QED
      BY <1>14, <2>1, <2>2 DEF TopStuckOrInOrder
  <1> QED
    BY <1>2, <1>12, <1>16, <1>17, TopStep

(* A block's names keep their locals when a scope in it is left.           *)
LEMMA KeepsDropped ==
  ASSUME NEW C, NEW D, NEW path, NEW path2, NEW n, NEW t, Leaves(C, D, path, path2, n, t),
         path[n + 1].what \in Opening, D[n + 1] = D[n] + 1,
         NEW c, NEW d, Well(c), Drops(c, d), c.scope_depth = D[n + 1],
         TopKeeps(C, D, path, c, t)
  PROVE  TopKeeps(C, D, path2, d, t)
  <1>1. PICK N \in Nat : N = Size(c)
    BY TableFacts
  <1>2. \A p \in 1..N : DepthAt(c, p) \in Int
    BY <1>1, TableFacts
  <1>3. PICK M \in 0..N : M = Size(d)
    BY <1>1 DEF Drops
  <1>4. D[n] \in Nat
    BY LeavesFacts
  <1>5. /\ \A p \in 1..M : NameAt(d, p) = NameAt(c, p) /\ DepthAt(d, p) = DepthAt(c, p)
        /\ \A p \in M + 1..N : DepthAt(c, p) > D[n]
    BY <1>1, <1>3, <1>4 DEF Drops, Begins
  <1>6. /\ n \in Nat /\ Len(path) = n + 1 /\ Len(path2) = n /\ C[n] = t
        /\ \A k \in 1..n : path2[k] = path[k]
        /\ \A j \in Nat : ~PendsAt(C, D, path2, t, j)
    BY DEF Leaves
  <1>7. SUFFICES ASSUME NEW k \in 1..n, path2[k].what \in Holding, C[k] = t,
                        NEW x \in 1..Len(path2[k].names)
                 PROVE  \E p \in Nat : Keeps(C, D, path2, d, k, path2[k].names[x], p)
    BY <1>6 DEF TopKeeps
  <1>8. PICK m : m = path[k].names[x]
    OBVIOUS
  <1>9. path2[k] = path[k] /\ k \in 1..n + 1
    BY <1>6
  <1>10. PICK p \in Nat : Keeps(C, D, path, c, k, m, p)
    BY <1>6, <1>7, <1>8, <1>9 DEF TopKeeps
  <1>11. /\ p \in 1..N /\ NameAt(c, p) = m
         /\ DepthAt(c, p) = -1 \/ DepthAt(c, p) = D[k]
         /\ \A q \in p..N : DepthAt(c, q) = -1 \/ DepthAt(c, q) >= D[k]
    BY <1>1, <1>10 DEF Keeps
  <1>12. D[k] \in Nat /\ D[k] <= D[n]
    BY <1>7, LeavesFacts
  <1>13. p \in 1..M
    <2>1. ~(DepthAt(c, p) > D[n])
      BY <1>4, <1>11, <1>12
    <2>2. p \notin M + 1..N
      BY <1>5, <2>1
    <2> QED
      BY <1>3, <1>11, <2>2
  <1>14. \A q \in p..M : q \in 1..M /\ q \in p..N
    BY <1>3, <1>11
  <1>15. \A q \in p..M : DepthAt(d, q) = -1 \/ DepthAt(d, q) >= D[k]
    BY <1>5, <1>11, <1>14
  <1>16. Keeps(C, D, path2, d, k, m, p)
    BY <1>3, <1>5, <1>6, <1>7, <1>11, <1>13, <1>15 DEF Keeps
  <1> QED
    BY <1>8, <1>9, <1>16

(* What a loop left behind stays when a scope around it is left.           *)
LEMMA StuckDropped ==
  ASSUME NEW C, NEW D, NEW path, NEW path2, NEW n, NEW t, Leaves(C, D, path, path2, n, t),
         path[n + 1].what \in Opening, D[n + 1] = D[n] + 1,
         NEW c, NEW d, Well(c), Drops(c, d), c.scope_depth = D[n + 1],
         NEW p \in Nat, StuckAt(C, D, path, c, t, p)
  PROVE  StuckAt(C, D, path2, d, t, p)
  <1>1. PICK N \in Nat : N = Size(c)
    BY TableFacts
  <1>2. PICK M \in 0..N : M = Size(d)
    BY <1>1 DEF Drops
  <1>3. D[n] \in Nat
    BY LeavesFacts
  <1>4. /\ \A q \in 1..M : NameAt(d, q) = NameAt(c, q) /\ DepthAt(d, q) = DepthAt(c, q)
        /\ \A q \in M + 1..N : DepthAt(c, q) > D[n]
    BY <1>1, <1>2, <1>3 DEF Drops, Begins
  <1>5. \A j \in Nat : ~PendsAt(C, D, path2, t, j)
    BY DEF Leaves
  <1>6. \A j \in Nat : ~PendsAt(C, D, path, t, j)
    BY LeavesFacts DEF Opening, Pending
  <1>7. p \in 1..N /\ NameAt(c, p) = Iter /\ p < N /\ DepthAt(c, p + 1) = -1
    BY <1>1, <1>6 DEF StuckAt
  <1>8. p + 1 \in 1..N /\ p + 1 \notin M + 1..N
    BY <1>3, <1>4, <1>7
  <1>9. p \in 1..M /\ p < M /\ p + 1 \in 1..M
    BY <1>7, <1>8
  <1>10. NameAt(d, p) = Iter /\ DepthAt(d, p + 1) = -1
    BY <1>4, <1>7, <1>9
  <1> QED
    BY <1>2, <1>5, <1>9, <1>10 DEF StuckAt

(* A table in order stays in order when a scope is left: only locals of    *)
(* that scope go.                                                          *)
LEMMA OrderDropped ==
  ASSUME NEW C, NEW D, NEW path, NEW path2, NEW n, NEW t, Leaves(C, D, path, path2, n, t),
         path[n + 1].what \in Opening, D[n + 1] = D[n] + 1,
         NEW c, NEW d, Well(c), Drops(c, d), c.scope_depth = D[n + 1],
         InOrder(C, D, path, c, t)
  PROVE  InOrder(C, D, path2, d, t)
  <1>1. PICK N \in Nat : N = Size(c)
    BY TableFacts
  <1>2. \A p \in 1..N : DepthAt(c, p) \in Int
    BY <1>1, TableFacts
  <1>3. PICK M \in 0..N : M = Size(d)
    BY <1>1 DEF Drops
  <1>4. D[n] \in Nat
    BY LeavesFacts
  <1>5. /\ \A p \in 1..M : NameAt(d, p) = NameAt(c, p) /\ DepthAt(d, p) = DepthAt(c, p)
        /\ M > 0 => DepthAt(c, M) <= D[n]
    BY <1>1, <1>3, <1>4 DEF Drops, Begins
  <1>6. /\ n \in Nat /\ Len(path) = n + 1 /\ Len(path2) = n
        /\ \A k \in 1..n : path2[k] = path[k]
        /\ \A j \in Nat : ~PendsAt(C, D, path2, t, j)
    BY DEF Leaves
  <1>7. \A j \in Nat : ~PendsAt(C, D, path, t, j)
    BY LeavesFacts DEF Opening, Pending
  <1>8. ASSUME NEW p \in 1..N, NEW k \in Nat, NotedAt(C, D, path, c, t, p, k)
        PROVE  /\ k \in 1..n + 1 /\ C[k] = t /\ path[k].what \in Naming
               /\ Contains(path[k].names, NameAt(c, p)) /\ DepthAt(c, p) = D[k]
               /\ D[k] \in Nat
    <2>1. /\ k \in 1..n + 1 /\ C[k] = t /\ path[k].what \in Naming
          /\ Contains(path[k].names, NameAt(c, p))
          /\ DepthAt(c, p) = D[k] \/ PendsAt(C, D, path, t, k + 1)
      BY <1>6, <1>8 DEF NotedAt
    <2>2. k + 1 \in Nat
      BY <1>8
    <2>3. Climbs(C, D, path)
      BY DEF Leaves
    <2> QED
      BY <1>7, <2>1, <2>2, <2>3, ClimbFacts
  <1>9. \A p \in 1..N : DepthAt(c, p) >= 0
    <2>1. SUFFICES ASSUME NEW p \in 1..N PROVE DepthAt(c, p) >= 0
      OBVIOUS
    <2>2. DepthAt(c, p) = 0 \/ \E k \in Nat : NotedAt(C, D, path, c, t, p, k)
      BY <1>1, <2>1 DEF InOrder
    <2> QED
      BY <1>8, <2>1, <2>2
  <1>10. \A p, q \in 1..N : p < q => DepthAt(c, p) <= DepthAt(c, q)
    <2>1. SUFFICES ASSUME NEW p \in 1..N, NEW q \in 1..N, p < q
                   PROVE  DepthAt(c, p) <= DepthAt(c, q)
      OBVIOUS
    <2>2. DepthAt(c, p) <= DepthAt(c, q) \/ DepthAt(c, q) = -1
      BY <1>1, <2>1 DEF InOrder
    <2>3. DepthAt(c, q) >= 0
      BY <1>9
    <2> QED
      BY <2>2, <2>3
  <1>11. \A p \in 1..M : p \in 1..N
    BY <1>3
  <1>12. \A p \in 1..M : DepthAt(c, p) <= D[n]
    <2>1. SUFFICES ASSUME NEW p \in 1..M PROVE DepthAt(c, p) <= D[n]
      OBVIOUS
    <2>2. M > 0 /\ M \in 1..M /\ (p = M \/ p < M)
      BY <1>3, <2>1
    <2>3. DepthAt(c, M) <= D[n] /\ M \in 1..N /\ p \in 1..N
      BY <1>5, <1>11, <2>2
    <2>4. DepthAt(c, p) <= DepthAt(c, M)
      BY <1>2, <1>10, <2>2, <2>3
    <2> QED
      BY <1>2, <1>4, <2>3, <2>4
  <1>13. \A p \in 1..Size(d) :
           DepthAt(d, p) = 0 \/ \E k \in Nat : NotedAt(C, D, path2, d, t, p, k)
    <2>1. SUFFICES ASSUME NEW p \in 1..M, DepthAt(d, p) # 0
                   PROVE  \E k \in Nat : NotedAt(C, D, path2, d, t, p, k)
      BY <1>3
    <2>2. DepthAt(d, p) = DepthAt(c, p) /\ NameAt(d, p) = NameAt(c, p) /\ p \in 1..N
      BY <1>5, <1>11
    <2>3. PICK k \in Nat : NotedAt(C, D, path, c, t, p, k)
      BY <1>1, <2>1, <2>2 DEF InOrder
    <2>4. /\ k \in 1..n + 1 /\ C[k] = t /\ path[k].what \in Naming
          /\ Contains(path[k].names, NameAt(c, p)) /\ DepthAt(c, p) = D[k]
      BY <1>8, <2>2, <2>3
    <2>5. DepthAt(c, p) <= D[n]
      BY <1>12
    <2>6. k # n + 1
      BY <1>4, <2>4, <2>5
    <2>7. k \in 1..n
      BY <1>6, <2>4, <2>6
    <2>8. NotedAt(C, D, path2, d, t, p, k)
      BY <1>6, <2>2, <2>4, <2>7 DEF NotedAt
    <2> QED
      BY <2>8
  <1>14. \A p, q \in 1..Size(d) :
           p < q => DepthAt(d, p) <= DepthAt(d, q) \/ DepthAt(d, q) = -1
    BY <1>3, <1>5, <1>10, <1>11
  <1>15. \A j \in Nat : PendsAt(C, D, path2, t, j) =>
           path2[j].what = "var" /\ Size(d) > 0 /\ DepthAt(d, Size(d)) = -1
    BY <1>6
  <1> QED
    BY <1>13, <1>14, <1>15 DEF InOrder

(* What ends a path: its length, the context t, and the depth of both.     *)
AtLast(C, D, path, n, t, c) ==
  /\ n \in Nat /\ Len(path) = n + 1 /\ Well(c)
  /\ D[n] \in Nat /\ C[n + 1] = t /\ c.scope_depth = D[n + 1]
  /\ D[n + 1] = DepthIn(D, n, path[n + 1].what)

(* The innermost construct and the innermost context's depth.              *)
LEMMA LastPlace ==
  ASSUME NEW C, NEW D, NEW path, NEW cs, Inv(C, D, path, cs), path # <<>>,
         NEW n, n = Len(Front(path)), NEW t, t = Len(cs)
  PROVE  AtLast(C, D, path, n, t, cs[t])
  <1>1. PathOK(path) /\ CtxsOK(cs) /\ Climbs(C, D, path) /\ Aligned(C, D, path, cs)
    BY DEF Inv
  <1>2. PathOK(Front(path)) /\ Shrunk(path, Front(path))
    BY <1>1, PopPath
  <1>3. n \in Nat /\ Len(path) = n + 1
    BY <1>2, PathFacts DEF Shrunk
  <1>4. Well(cs[t])
    BY <1>1, CtxsFacts
  <1>5. C[n + 1] = t
    BY <1>1, <1>3 DEF Aligned
  <1>6. cs[t].scope_depth = D[n + 1]
    BY <1>1, <1>3, InContexts
  <1>7. D[n + 1] = DepthIn(D, n, path[n + 1].what)
    BY <1>1, <1>3, ClimbLast
  <1>8. D[n] \in Nat
    BY <1>1, <1>3, ClimbFacts
  <1> QED
    BY <1>3, <1>4, <1>5, <1>6, <1>7, <1>8 DEF AtLast

(* A scope is left.                                                        *)
LEMMA EndStep ==
  ASSUME NEW C, NEW D, NEW path, NEW cs, NEW path2, NEW cs2, NEW d,
         Inv(C, D, path, cs), path # <<>>, path[Len(path)].what \in Opening,
         path2 = Front(path), Drops(cs[Len(cs)], d), cs2 = TopSet(cs, d)
  PROVE  Inv(C, D, path2, cs2)
  <1>1. PICK n : n = Len(path2)
    OBVIOUS
  <1>2. PICK t : t = Len(cs)
    OBVIOUS
  <1>3. PICK c : c = cs[t]
    OBVIOUS
  <1>4. path[Len(path)].what \notin Entered /\ path[Len(path)].what # "lambda"
    BY DEF Entered, Opening
  <1>5. /\ n \in Nat /\ Len(path) = n + 1 /\ Well(c)
        /\ D[n] \in Nat /\ C[n + 1] = t /\ c.scope_depth = D[n + 1]
        /\ D[n + 1] = DepthIn(D, n, path[n + 1].what)
    <2>1. AtLast(C, D, path, n, t, cs[t])
      BY <1>1, <1>2, LastPlace
    <2> QED
      BY <1>3, <2>1 DEF AtLast
  <1>6. path[n + 1].what \in Opening /\ path[n + 1].what \notin Entered
        /\ path[n + 1].what # "lambda"
    BY <1>4, <1>5
  <1>7. D[n + 1] = D[n] + 1
    BY <1>5, <1>6 DEF DepthIn
  <1>8. Drops(c, d)
    BY <1>2, <1>3
  <1>9. Well(d) /\ d.scope_depth = D[n]
    BY <1>5, <1>7, <1>8 DEF Drops
  <1>10. Popped(C, D, path, cs, path2, cs2, d, n, t)
    BY <1>1, <1>2, <1>4, <1>9, PopTop
  <1>11. /\ PathOK(path2) /\ CtxsOK(cs2) /\ Climbs(C, D, path2)
         /\ Aligned(C, D, path2, cs2) /\ Len(cs2) = t /\ cs2[t] = d
         /\ OthersStay(C, D, path, cs, C, D, path2, cs2, t)
    BY <1>10 DEF Popped
  <1>12. Leaves(C, D, path, path2, n, t)
    BY <1>10 DEF Leaves, Popped, Inv
  <1>13. TopKeeps(C, D, path, c, t) /\ TopStuckOrInOrder(C, D, path, c, t)
    BY <1>2, <1>3, InvTop
  <1>14. TopKeeps(C, D, path2, cs2[t], t)
    BY <1>5, <1>6, <1>7, <1>8, <1>11, <1>12, <1>13, KeepsDropped
  <1>15. TopStuckOrInOrder(C, D, path2, cs2[t], t)
    <2>1. CASE InOrder(C, D, path, c, t)
      <3>1. InOrder(C, D, path2, d, t)
        BY <1>5, <1>6, <1>7, <1>8, <1>12, <2>1, OrderDropped
      <3> QED
        BY <1>11, <3>1 DEF TopStuckOrInOrder
    <2>2. CASE \E p \in Nat : StuckAt(C, D, path, c, t, p)
      <3>1. PICK p \in Nat : StuckAt(C, D, path, c, t, p)
        BY <2>2
      <3>2. StuckAt(C, D, path2, d, t, p)
        BY <1>5, <1>6, <1>7, <1>8, <1>12, <3>1, StuckDropped
      <3> QED
        BY <1>11, <3>2 DEF TopStuckOrInOrder
    <2> QED
      BY <1>13, <2>1, <2>2 DEF TopStuckOrInOrder
  <1> QED
    BY <1>2, <1>11, <1>14, <1>15, TopStep

(* The table of a for-each loop's context after its hidden variable has    *)
(* its depth s and the loop's own variable is declared.                    *)
Loops(c, d, s) ==
  /\ Size(c) \in Nat /\ Size(d) = Size(c) + 1
  /\ \A p \in 1..Size(c) : /\ NameAt(d, p) = NameAt(c, p)
                           /\ DepthAt(d, p) = IF p = Size(c) THEN s ELSE DepthAt(c, p)
  /\ DepthAt(d, Size(d)) = -1

(* What compile_foreach does to the table.                                 *)
LEMMA LoopsIs ==
  ASSUME NEW c, NEW e, NEW d, NEW x, Well(c), Gives(c, e), c.scope_depth # 0,
         Adds(e, d, x)
  PROVE  Loops(c, d, c.scope_depth)
  <1>1. PICK N \in Nat : N = Size(c)
    BY TableFacts
  <1>2. Size(e) = N
        /\ \A p \in 1..N : /\ NameAt(e, p) = NameAt(c, p)
                           /\ DepthAt(e, p) = IF p = N THEN c.scope_depth
                                              ELSE DepthAt(c, p)
    BY <1>1 DEF Gives
  <1>3. Size(d) = N + 1
        /\ \A p \in 1..N : NameAt(d, p) = NameAt(e, p) /\ DepthAt(d, p) = DepthAt(e, p)
    BY <1>2 DEF Adds, Begins
  <1>4. DepthAt(d, Size(d)) = -1
    BY DEF Adds
  <1> QED
    BY <1>1, <1>2, <1>3, <1>4 DEF Loops

(* A block's names keep their locals when a loop's variable is declared.   *)
LEMMA KeepsLooped ==
  ASSUME NEW C, NEW D, NEW path, NEW path1, NEW path2, NEW n, NEW t,
         Leaves(C, D, path, path1, n, t), path[n + 1].what = "iterable",
         D[n + 1] = D[n], D[n] > 0, path[n].what = "foreach", Len(path2) = n,
         path2[n].what = "foreach", \A k \in 1..n - 1 : path2[k] = path1[k],
         \A j \in Nat : ~PendsAt(C, D, path2, t, j),
         NEW c, NEW d, Well(c), Loops(c, d, D[n]), TopKeeps(C, D, path, c, t)
  PROVE  TopKeeps(C, D, path2, d, t)
  <1>1. PICK N \in Nat : N = Size(c)
    BY TableFacts
  <1>2. /\ Size(d) = N + 1 /\ DepthAt(d, N + 1) = -1
        /\ \A p \in 1..N : /\ NameAt(d, p) = NameAt(c, p)
                           /\ DepthAt(d, p) = IF p = N THEN D[n] ELSE DepthAt(c, p)
    BY <1>1 DEF Loops
  <1>3. /\ n \in Nat /\ Len(path) = n + 1 /\ C[n] = t
        /\ \A k \in 1..n : path1[k] = path[k]
    BY DEF Leaves
  <1>4. SUFFICES ASSUME NEW k \in 1..n, path2[k].what \in Holding, C[k] = t,
                        NEW x \in 1..Len(path2[k].names)
                 PROVE  \E p \in Nat : Keeps(C, D, path2, d, k, path2[k].names[x], p)
    BY DEF TopKeeps
  <1>5. k # n
    BY <1>4 DEF Holding
  <1>6. k \in 1..n - 1 /\ k \in 1..n + 1 /\ k < n + 1
    BY <1>3, <1>5
  <1>7. path2[k] = path[k]
    BY <1>3, <1>4, <1>6
  <1>8. PICK m : m = path[k].names[x]
    OBVIOUS
  <1>9. PICK p \in Nat : Keeps(C, D, path, c, k, m, p)
    BY <1>3, <1>4, <1>6, <1>7, <1>8 DEF TopKeeps
  <1>10. /\ p \in 1..N /\ NameAt(c, p) = m
         /\ DepthAt(c, p) = -1 \/ DepthAt(c, p) = D[k]
         /\ \A q \in p..N : DepthAt(c, q) = -1 \/ DepthAt(c, q) >= D[k]
    BY <1>1, <1>9 DEF Keeps
  <1>11. p < N
    <2>1. n + 1 \in Nat /\ PendsAt(C, D, path, t, n + 1)
      BY <1>3, LeavesFacts DEF Pending
    <2>2. p < N \/ n + 1 = k + 1
      BY <1>1, <1>4, <1>6, <1>9, <2>1 DEF Keeps
    <2> QED
      BY <1>3, <1>5, <2>2
  <1>12. D[k] \in Nat /\ D[k] <= D[n] /\ D[n] \in Nat
    BY <1>4, LeavesFacts
  <1>13. \A q \in p..N + 1 : q = N + 1 \/ (q \in p..N /\ q \in 1..N)
    BY <1>10
  <1>14. \A q \in p..N + 1 : DepthAt(d, q) = -1 \/ DepthAt(d, q) >= D[k]
    BY <1>2, <1>10, <1>12, <1>13
  <1>15. NameAt(d, p) = m /\ (DepthAt(d, p) = -1 \/ DepthAt(d, p) = D[k])
    BY <1>1, <1>2, <1>10, <1>11
  <1>16. p \in 1..Size(d)
    BY <1>2, <1>10
  <1>17. Keeps(C, D, path2, d, k, m, p)
    BY <1>2, <1>4, <1>14, <1>15, <1>16 DEF Keeps
  <1> QED
    BY <1>7, <1>8, <1>17

(* The loop's variables are what it will leave behind.                     *)
LEMMA StuckLooped ==
  ASSUME NEW C, NEW D, NEW path, NEW path1, NEW path2, NEW n, NEW t,
         Leaves(C, D, path, path1, n, t), path[n + 1].what = "iterable",
         D[n + 1] = D[n], D[n] > 0,
         \A j \in Nat : ~PendsAt(C, D, path2, t, j),
         NEW c, NEW d, Well(c), Loops(c, d, D[n]), TopStuckOrInOrder(C, D, path, c, t)
  PROVE  TopStuckOrInOrder(C, D, path2, d, t)
  <1>1. PICK N \in Nat : N = Size(c)
    BY TableFacts
  <1>2. /\ Size(d) = N + 1 /\ DepthAt(d, N + 1) = -1
        /\ \A p \in 1..N : /\ NameAt(d, p) = NameAt(c, p)
                           /\ DepthAt(d, p) = IF p = N THEN D[n] ELSE DepthAt(c, p)
    BY <1>1 DEF Loops
  <1>3. n + 1 \in Nat /\ PendsAt(C, D, path, t, n + 1)
    <2>1. n + 1 \in Nat
      BY DEF Leaves
    <2>2. path[n + 1].what \in Pending /\ D[n + 1] > 0
      BY DEF Pending
    <2> QED
      BY <2>1, <2>2, LeavesFacts
  <1>4. ~InOrder(C, D, path, c, t)
    BY <1>3 DEF InOrder
  <1>5. PICK p \in Nat : StuckAt(C, D, path, c, t, p)
    BY <1>4 DEF TopStuckOrInOrder
  <1>6. /\ p \in 1..N /\ NameAt(c, p) = Iter
        /\ (p + 1 < N /\ DepthAt(c, p + 1) = -1) \/ p = N
    BY <1>1, <1>3, <1>5 DEF StuckAt
  <1>7. p \in 1..N + 1 /\ p < N + 1 /\ (p + 1 < N => p + 1 \in 1..N)
    BY <1>6
  <1>8. NameAt(d, p) = Iter /\ DepthAt(d, p + 1) = -1
    BY <1>1, <1>2, <1>6, <1>7
  <1>9. StuckAt(C, D, path2, d, t, p)
    BY <1>2, <1>7, <1>8 DEF StuckAt
  <1> QED
    BY <1>9 DEF TopStuckOrInOrder

(* A for-each loop's variable is declared, and its body comes next.        *)
LEMMA IterStep ==
  ASSUME NEW C, NEW D, NEW path, NEW cs, NEW path2, NEW cs2, NEW d, NEW e,
         Inv(C, D, path, cs), path # <<>>, path[Len(path)].what = "iterable",
         NEW x \in Names, path2 = Noted(Front(path), x),
         Gives(cs[Len(cs)], e), Adds(e, d, x), cs2 = TopSet(cs, d)
  PROVE  Inv(C, D, path2, cs2)
  <1>1. PICK path1 : path1 = Front(path)
    OBVIOUS
  <1>2. PICK n : n = Len(path1)
    OBVIOUS
  <1>3. PICK t : t = Len(cs)
    OBVIOUS
  <1>4. PICK c : c = cs[t]
    OBVIOUS
  <1>5. path[Len(path)].what \notin Entered
    BY DEF Entered
  <1>6. /\ n \in Nat /\ Len(path) = n + 1 /\ Well(c)
        /\ D[n] \in Nat /\ C[n + 1] = t /\ c.scope_depth = D[n + 1]
        /\ D[n + 1] = DepthIn(D, n, path[n + 1].what)
    <2>1. AtLast(C, D, path, n, t, cs[t])
      BY <1>1, <1>2, <1>3, LastPlace
    <2> QED
      BY <1>4, <2>1 DEF AtLast
  <1>7. path[n + 1].what = "iterable"
    BY <1>6
  <1>8. D[n + 1] = D[n]
    BY <1>6, <1>7 DEF DepthIn, Entered, Opening
  <1>9. n > 0 /\ n \in 1..n /\ path[n].what = "foreach" /\ path[n].names = <<Iter>>
    <2>1. LoopAt(path, n + 1 - 1)
      BY <1>6, <1>7 DEF Inv, PathOK
    <2>2. LoopAt(path, n)
      BY <1>6, <2>1
    <2> QED
      BY <1>6, <2>2 DEF LoopAt
  <1>10. D[n] > 0
    <2>1. n \in 1..Len(path) /\ Len(path) \in Nat /\ path[n].what \in Naming
      BY <1>6, <1>9 DEF Naming, Opening
    <2> QED
      BY <2>1, Positive DEF Inv
  <1>11. Gives(c, e) /\ Well(e) /\ e.scope_depth = D[n]
    BY <1>3, <1>4, <1>6, <1>8 DEF Gives
  <1>12. Well(d) /\ d.scope_depth = D[n]
    BY <1>11 DEF Adds
  <1>13. Popped(C, D, path, cs, path1, cs2, d, n, t)
    BY <1>1, <1>2, <1>3, <1>5, <1>12, PopTop
  <1>14. /\ PathOK(path1) /\ CtxsOK(cs2) /\ Climbs(C, D, path1)
         /\ Aligned(C, D, path1, cs2) /\ Len(cs2) = t /\ cs2[t] = d
         /\ OthersStay(C, D, path, cs, C, D, path1, cs2, t)
         /\ \A k \in 1..n : path1[k] = path[k]
    BY <1>13 DEF Popped
  <1>15. /\ \A j \in Nat : ~PendsAt(C, D, path1, t, j)
         /\ C[n] = t /\ t \in Nat
    BY <1>13 DEF Popped
  <1>16. Leaves(C, D, path, path1, n, t)
    BY <1>13 DEF Leaves, Popped, Inv
  <1>17. path1 # <<>> /\ ~Contains(path1[Len(path1)].names, x)
    <2>1. Len(path1) # 0
      BY <1>2, <1>9
    <2>2. path1[Len(path1)].names = <<Iter>>
      BY <1>2, <1>9, <1>14
    <2>3. x # Iter
      BY NamesAssumption
    <2>4. ~Contains(<<Iter>>, x)
      BY <2>3 DEF Contains
    <2> QED
      BY <1>14, <2>1, <2>2, <2>4, PathFacts
  <1>18. PathOK(path2) /\ Renamed(path1, path2, x)
    BY <1>1, <1>14, <1>17, NotePath
  <1>19. /\ Len(path2) = n
         /\ \A k \in 1..n : path2[k].what = path1[k].what
    BY <1>2, <1>18 DEF Renamed
  <1>20. \A k \in 1..n - 1 : path2[k] = path1[k] /\ k \in 1..n
    <2>1. path1 \in Seq(Entries)
      BY <1>14 DEF PathOK
    <2>2. path2 = [path1 EXCEPT ![n].names = Append(@, x)]
      BY <1>1, <1>2, <1>17 DEF Noted
    <2>3. \A k \in 1..n - 1 : k \in 1..n /\ k # n
      BY <1>6
    <2> QED
      BY <1>2, <2>1, <2>2, <2>3
  <1>21. \A i : Sees(C, D, path1, C, D, path2, i)
    BY <1>14, <1>17, <1>18, SeesNote
  <1>22. Climbs(C, D, path2)
    BY <1>2, <1>6, <1>14, <1>19, ClimbShorter
  <1>23. Aligned(C, D, path2, cs2)
    BY <1>2, <1>14, <1>19 DEF Aligned
  <1>24. OthersStay(C, D, path, cs, C, D, path2, cs2, t)
    <2>1. ASSUME NEW i \in 1..t - 1
          PROVE  cs2[i] = cs[i] /\ Sees(C, D, path, C, D, path2, i)
      <3>1. cs2[i] = cs[i] /\ Sees(C, D, path, C, D, path1, i)
        BY <1>14 DEF OthersStay
      <3> QED
        BY <1>21, <3>1, SeesBoth
    <2>2. ASSUME NEW k \in 1..n, C[k] # t PROVE k \in 1..Len(path) /\ path2[k] = path[k]
      <3>1. k \in 1..n - 1 /\ k \in 1..n + 1
        BY <1>6, <1>15, <2>2
      <3> QED
        BY <1>6, <1>14, <1>20, <3>1
    <2> QED
      BY <1>19, <2>1, <2>2 DEF OthersStay
  <1>25. \A j \in Nat : ~PendsAt(C, D, path2, t, j)
    BY <1>15, <1>21 DEF Sees
  <1>26. Loops(c, d, D[n])
    BY <1>6, <1>8, <1>10, <1>11, LoopsIs
  <1>27. TopKeeps(C, D, path, c, t) /\ TopStuckOrInOrder(C, D, path, c, t)
    BY <1>3, <1>4, InvTop
  <1>28. path2[n].what = "foreach" /\ \A k \in 1..n - 1 : path2[k] = path1[k]
    BY <1>9, <1>14, <1>19, <1>20
  <1>29. TopKeeps(C, D, path2, cs2[t], t)
    <2>1. TopKeeps(C, D, path2, d, t)
      BY <1>6, <1>7, <1>8, <1>9, <1>10, <1>16, <1>19, <1>25, <1>26, <1>27, <1>28,
         KeepsLooped
    <2> QED
      BY <1>14, <2>1
  <1>30. TopStuckOrInOrder(C, D, path2, cs2[t], t)
    <2>1. TopStuckOrInOrder(C, D, path2, d, t)
      BY <1>6, <1>7, <1>8, <1>10, <1>16, <1>25, <1>26, <1>27, StuckLooped
    <2> QED
      BY <1>14, <2>1
  <1> QED
    BY <1>3, <1>14, <1>18, <1>22, <1>23, <1>24, <1>29, <1>30, TopStep

-----------------------------------------------------------------------------
(* Names: what resolving one leaves of the contexts.                       *)
Marked(cs, cs2) ==
  /\ CtxsOK(cs2) /\ Len(cs2) = Len(cs)
  /\ \A i \in 1..Len(cs) :
       SameTable(cs[i], cs2[i]) /\ cs2[i].scope_depth = cs[i].scope_depth

(* A mark on a local leaves its name and depth.                            *)
LEMMA MarkIs ==
  ASSUME NEW c, Well(c), NEW r, NEW d, d = [c EXCEPT !.locals[r].captured = TRUE]
  PROVE  SameTable(c, d) /\ d.scope_depth = c.scope_depth
  <1>1. PICK s : s = c.locals
    OBVIOUS
  <1>2. PICK n \in Nat : n = Len(s) /\ s \in Seq(Locals(Int)) /\ DOMAIN s = 1..n
    BY <1>1 DEF Well
  <1>3. PICK m : m = [s[r] EXCEPT !.captured = TRUE]
    OBVIOUS
  <1>4. PICK u : u = [s EXCEPT ![r] = m]
    OBVIOUS
  <1>5. d = [c EXCEPT !.locals = u]
    BY <1>1, <1>3, <1>4 DEF Well
  <1>6. d.locals = u /\ d.scope_depth = c.scope_depth /\ DOMAIN d = DOMAIN c
    BY <1>5 DEF Well
  <1>7. /\ u \in Seq(Locals(Int)) /\ Len(u) = n
        /\ \A p \in 1..n : u[p].name = s[p].name /\ u[p].depth = s[p].depth
    <2>1. CASE r \in 1..n
      <3>1. s[r] \in Locals(Int)
        BY <1>2, <2>1, ElementOfSeq
      <3>2. m \in Locals(Int) /\ m.name = s[r].name /\ m.depth = s[r].depth
        BY <1>3, <3>1 DEF Locals
      <3>3. u \in Seq(Locals(Int)) /\ Len(u) = n
            /\ \A p \in 1..n : u[p] = IF p = r THEN m ELSE s[p]
        BY <1>2, <1>4, <2>1, <3>2, ExceptSeq
      <3> QED
        BY <3>2, <3>3
    <2>2. CASE r \notin 1..n
      <3>1. u = s
        BY <1>2, <1>4, <2>2
      <3> QED
        BY <1>2, <3>1
    <2> QED
      BY <2>1, <2>2
  <1> QED
    BY <1>1, <1>2, <1>6, <1>7 DEF SameTable, Well, Size, Begins, NameAt, DepthAt

(* What resolve_upvalue does to the tables on the way.                     *)
LEMMA CapturedIs ==
  ASSUME NEW cs, CtxsOK(cs), NEW o, NEW n
  PROVE  Marked(cs, Captured(cs, o, n))
  <1>1. PICK N \in Nat : N = Len(cs) /\ N \in 1..N
    BY CtxsFacts
  <1>2. PICK u : u = Captured(cs, o, n)
    OBVIOUS
  <1>3. PICK r : r = ResolveLocal(cs[o], n)
    OBVIOUS
  <1>4. PICK a : a = Added(cs, o, n)
    OBVIOUS
  <1>5. u = [i \in 1..N |->
               CASE i = o + 1 /\ r <= Len(cs[i].locals) ->
                      [cs[i] EXCEPT !.locals[r].captured = TRUE]
                 [] i > o + 1 /\ (i - o) % 2 = 0 -> [cs[i] EXCEPT !.upvalues = a[i].table]
                 [] OTHER -> cs[i]]
    BY <1>1, <1>2, <1>3, <1>4 DEF Captured
  <1>6. ASSUME NEW i \in 1..N
        PROVE  \/ u[i] = [cs[i] EXCEPT !.locals[r].captured = TRUE]
               \/ u[i] = [cs[i] EXCEPT !.upvalues = a[i].table]
               \/ u[i] = cs[i]
    BY <1>5
  <1>7. ASSUME NEW i \in 1..N
        PROVE  SameTable(cs[i], u[i]) /\ u[i].scope_depth = cs[i].scope_depth
    <2>1. PICK c : c = cs[i]
      OBVIOUS
    <2>2. Well(c)
      BY <1>1, <2>1, CtxsFacts
    <2>3. CASE u[i] = [c EXCEPT !.locals[r].captured = TRUE]
      BY <2>1, <2>2, <2>3, MarkIs
    <2>4. CASE u[i] = [c EXCEPT !.upvalues = a[i].table]
      <3>1. PICK d : d = u[i]
        OBVIOUS
      <3>2. d.locals = c.locals /\ d.scope_depth = c.scope_depth /\ DOMAIN d = DOMAIN c
        BY <2>2, <2>4, <3>1 DEF Well
      <3>3. SameTable(c, d)
        BY <2>2, <3>2 DEF SameTable, Well, Size, Begins, NameAt, DepthAt
      <3> QED
        BY <2>1, <3>1, <3>2, <3>3
    <2>5. CASE u[i] = c
      BY <2>1, <2>2, <2>5, TableItself
    <2> QED
      BY <1>6, <2>1, <2>3, <2>4, <2>5
  <1>8. DOMAIN u = 1..N
    BY <1>5
  <1>9. u \in Seq(Range(u)) /\ Len(u) = N
    <2>1. u \in [1..N -> Range(u)]
      <3>1. u = [i \in 1..N |-> u[i]]
        BY <1>5
      <3>2. \A i \in 1..N : u[i] \in Range(u)
        BY <1>8 DEF Range
      <3> QED
        BY <3>1, <3>2
    <2> QED
      BY <1>1, <2>1
  <1>10. CtxsOK(u)
    <2>1. \A i \in 1..N : Well(u[i])
      BY <1>7 DEF SameTable
    <2> QED
      BY <1>1, <1>9, <2>1 DEF CtxsOK
  <1> QED
    BY <1>1, <1>2, <1>7, <1>9, <1>10 DEF Marked

(* named_variable, with one name and with two.                             *)
LEMMA NamedIs ==
  ASSUME NEW cs, CtxsOK(cs), NEW n
  PROVE  Marked(cs, Named(cs, n).ctxs)
  <1>1. Marked(cs, cs)
    BY CtxsFacts, TableItself DEF Marked
  <1>2. Named(cs, n).ctxs = cs \/ Named(cs, n).ctxs = Captured(cs, Owner(cs, n), n)
    BY DEF Named
  <1> QED
    BY <1>1, <1>2, CapturedIs

(* Names leave the tables alone but for marks and upvalues.                *)
LEMMA NamedAllIs ==
  ASSUME NEW cs, CtxsOK(cs), NEW n, NEW m
  PROVE  Marked(cs, NamedAll(cs, n, m).ctxs)
  <1>1. PICK cs1 : cs1 = Named(cs, n).ctxs
    OBVIOUS
  <1>2. Marked(cs, cs1) /\ CtxsOK(cs1)
    BY <1>1, NamedIs DEF Marked
  <1>3. Marked(cs1, Named(cs1, m).ctxs)
    BY <1>2, NamedIs
  <1>4. PICK cs2 : cs2 = Named(cs1, m).ctxs
    OBVIOUS
  <1>5. Marked(cs, cs2)
    <2>1. Len(cs1) = Len(cs) /\ Len(cs2) = Len(cs) /\ CtxsOK(cs2)
      BY <1>2, <1>3, <1>4 DEF Marked
    <2>2. ASSUME NEW i \in 1..Len(cs)
          PROVE  SameTable(cs[i], cs2[i]) /\ cs2[i].scope_depth = cs[i].scope_depth
      <3>1. SameTable(cs[i], cs1[i]) /\ cs1[i].scope_depth = cs[i].scope_depth
        BY <1>2 DEF Marked
      <3>2. SameTable(cs1[i], cs2[i]) /\ cs2[i].scope_depth = cs1[i].scope_depth
        BY <1>3, <1>4, <2>1 DEF Marked
      <3>3. SameTable(cs[i], cs2[i])
        BY <3>1, <3>2 DEF SameTable, Begins
      <3> QED
        BY <3>1, <3>2, <3>3
    <2> QED
      BY <2>1, <2>2 DEF Marked
  <1> QED
    BY <1>1, <1>2, <1>4, <1>5 DEF NamedAll

-----------------------------------------------------------------------------
(* The sequences that the steps build.                                     *)
LEMMA FrontOfAppend ==
  ASSUME NEW S, NEW s \in Seq(S), NEW x \in S
  PROVE  Front(Append(s, x)) = s
  <1>1. PICK n \in Nat : n = Len(s)
    OBVIOUS
  <1>2. PICK u : u = Append(s, x)
    OBVIOUS
  <1>3. u \in Seq(S) /\ Len(u) = n + 1 /\ \A i \in 1..n : u[i] = s[i]
    BY <1>1, <1>2
  <1>4. Front(u) = SubSeq(u, 1, n)
    BY <1>1, <1>3 DEF Front
  <1>5. SubSeq(u, 1, n) = s
    <2>1. SubSeq(u, 1, n) \in Seq(S) /\ Len(SubSeq(u, 1, n)) = n
          /\ \A i \in 1..n : SubSeq(u, 1, n)[i] = u[i]
      BY <1>1, <1>3
    <2>2. \A i \in 1..n : SubSeq(u, 1, n)[i] = s[i]
      BY <1>3, <2>1
    <2> QED
      BY <1>1, <2>1, <2>2, SeqEqual
  <1> QED
    BY <1>2, <1>4, <1>5

(* A name in a construct that has just been entered.                       *)
LEMMA NotedAppended ==
  ASSUME NEW path \in Seq(Entries), NEW w \in Whats, NEW x \in Names \cup {Iter}
  PROVE  Noted(Append(path, Construct(w, <<>>)), x) = Append(path, Construct(w, <<x>>))
  <1>1. PICK n \in Nat : n = Len(path)
    OBVIOUS
  <1>2. PICK a : a = Construct(w, <<>>)
    OBVIOUS
  <1>3. PICK b : b = Construct(w, <<x>>)
    OBVIOUS
  <1>4. a \in Entries /\ b \in Entries
    <2>1. <<>> \in Seq(Names \cup {Iter}) /\ <<x>> \in Seq(Names \cup {Iter})
      OBVIOUS
    <2> QED
      BY <1>2, <1>3, <2>1 DEF Entries, Construct
  <1>5. [a EXCEPT !.names = Append(@, x)] = b
    <2>1. Append(<<>>, x) = <<x>>
      OBVIOUS
    <2> QED
      BY <1>2, <1>3, <2>1 DEF Construct
  <1>6. PICK u : u = Append(path, a)
    OBVIOUS
  <1>7. u \in Seq(Entries) /\ Len(u) = n + 1 /\ u[n + 1] = a
        /\ \A i \in 1..n : u[i] = path[i]
    BY <1>1, <1>4, <1>6
  <1>8. u # <<>>
    BY <1>1, <1>7
  <1>9. Noted(u, x) = [u EXCEPT ![n + 1] = [a EXCEPT !.names = Append(@, x)]]
    BY <1>7, <1>8 DEF Noted
  <1>10. PICK v : v = [u EXCEPT ![n + 1] = b]
    OBVIOUS
  <1>11. v \in Seq(Entries) /\ Len(v) = n + 1 /\ v[n + 1] = b
         /\ \A i \in 1..n : v[i] = path[i]
    <2>1. DOMAIN u = 1..n + 1 /\ n + 1 \in 1..n + 1 /\ \A i \in 1..n : i \in 1..n + 1 /\ i # n + 1
      BY <1>1, <1>7
    <2>2. v \in Seq(Entries) /\ Len(v) = n + 1
          /\ \A i \in 1..n + 1 : v[i] = IF i = n + 1 THEN b ELSE u[i]
      BY <1>4, <1>7, <1>10, <2>1, ExceptSeq
    <2> QED
      BY <1>7, <2>1, <2>2
  <1>12. PICK z : z = Append(path, b)
    OBVIOUS
  <1>13. z \in Seq(Entries) /\ Len(z) = n + 1 /\ z[n + 1] = b
         /\ \A i \in 1..n : z[i] = path[i]
    BY <1>1, <1>4, <1>12
  <1>14. v = z
    <2>1. \A i \in 1..n + 1 : i \in 1..n \/ i = n + 1
      BY <1>1
    <2>2. \A i \in 1..n + 1 : v[i] = z[i]
      BY <1>11, <1>13, <2>1
    <2> QED
      BY <1>11, <1>13, <2>2, SeqEqual
  <1> QED
    BY <1>2, <1>3, <1>5, <1>6, <1>9, <1>10, <1>12, <1>14

(* Two constructs, one after the other and at once.                        *)
LEMMA TwoMore ==
  ASSUME NEW S, NEW s \in Seq(S), NEW x \in S, NEW y \in S
  PROVE  Append(Append(s, x), y) = s \o <<x, y>>
  OBVIOUS

(* The innermost context is set twice.                                     *)
LEMMA SetTwice ==
  ASSUME NEW cs, CtxsOK(cs), NEW c, Well(c), NEW d
  PROVE  TopSet(TopSet(cs, c), d) = TopSet(cs, d)
  <1>1. PICK t \in Nat : t = Len(cs)
    BY CtxsFacts
  <1>2. PICK u : u = TopSet(cs, c)
    OBVIOUS
  <1>3. Len(u) = t
    BY <1>1, <1>2, SetCtxs
  <1>4. u = [cs EXCEPT ![t] = c]
    BY <1>1, <1>2 DEF TopSet
  <1>5. TopSet(u, d) = [u EXCEPT ![t] = d]
    BY <1>3 DEF TopSet
  <1>6. TopSet(cs, d) = [cs EXCEPT ![t] = d]
    BY <1>1 DEF TopSet
  <1> QED
    BY <1>2, <1>4, <1>5, <1>6

(* The innermost context is set to what it is.                             *)
LEMMA SetItself ==
  ASSUME NEW cs, CtxsOK(cs)
  PROVE  TopSet(cs, cs[Len(cs)]) = cs
  <1>1. cs = [i \in DOMAIN cs |-> cs[i]]
    BY DEF CtxsOK
  <1> QED
    BY <1>1 DEF TopSet

-----------------------------------------------------------------------------
(* The parts of the visit that enter more than one construct.              *)

(* A scope is entered.                                                     *)
LEMMA ScopeStep ==
  ASSUME NEW C, NEW D, NEW path, NEW cs, NEW path2, NEW cs2, NEW w, NEW c,
         Inv(C, D, path, cs), w \in Opening,
         path # <<>> => path[Len(path)].what \notin Pending,
         path2 = Append(path, Construct(w, <<>>)),
         c = BeginScope(cs[Len(cs)]), cs2 = TopSet(cs, c)
  PROVE  /\ Holds(path2, cs2)
         /\ Well(c) /\ c.scope_depth \in Nat \ {0} /\ cs2[Len(cs2)] = c
         /\ SameTable(cs[Len(cs)], c) /\ PathOK(path2) /\ Grown(path, path2, w, <<>>)
  <1>1. PICK t : t = Len(cs)
    OBVIOUS
  <1>2. t \in Nat /\ t \in 1..t /\ Well(cs[t]) /\ CtxsOK(cs) /\ PathOK(path)
    BY <1>1, CtxsFacts DEF Inv
  <1>3. SameTable(cs[t], c) /\ c.scope_depth = cs[t].scope_depth + 1 /\ Well(c)
    BY <1>1, <1>2, BeginScopeIs DEF SameTable
  <1>4. /\ CtxsOK(cs2) /\ Len(cs2) = Len(cs)
        /\ \A i \in 1..Len(cs) : cs2[i] = IF i = Len(cs) THEN c ELSE cs[i]
    BY <1>2, <1>3, SetCtxs
  <1>5. cs2[Len(cs)] = c /\ \A i \in 1..Len(cs) - 1 : cs2[i] = cs[i]
    <2>1. \A i \in 1..t - 1 : i \in 1..t /\ i # t
      BY <1>2
    <2> QED
      BY <1>1, <1>2, <1>4, <2>1
  <1>6. w \in Opening \cup {"class", "var"} /\ w # "var"
    BY DEF Opening
  <1>7. Holds(path2, cs2)
    <2>1. SameTable(cs[Len(cs)], cs2[Len(cs)])
      BY <1>1, <1>3, <1>5
    <2>2. cs2[Len(cs)].scope_depth
            = cs[Len(cs)].scope_depth + IF w \in Opening THEN 1 ELSE 0
      BY <1>1, <1>3, <1>5
    <2>3. \E C2, D2 : Inv(C2, D2, path2, cs2) /\ Higher(C, D, C2, D2, Len(path), w)
      BY <1>4, <1>5, <1>6, <2>1, <2>2, PushStep
    <2> QED
      BY <2>3 DEF Holds
  <1>8. PathOK(path2) /\ Grown(path, path2, w, <<>>)
    <2>1. <<>> \in Seq(Names \cup {Iter}) /\ IsInjective(<<>>)
      BY DEF IsInjective
    <2>2. w \in Whats /\ w # "function" /\ w # "iterable"
      BY DEF Opening, Whats
    <2> QED
      BY <1>2, <2>1, <2>2, PushPath
  <1>9. c.scope_depth \in Nat \ {0}
    BY <1>2, <1>3 DEF Well
  <1> QED
    BY <1>1, <1>3, <1>4, <1>5, <1>7, <1>8, <1>9

(* A loop is entered, and its variable declared.                           *)
LEMMA LoopStep ==
  ASSUME NEW C, NEW D, NEW path, NEW cs, NEW w, NEW pend, NEW x \in Names \cup {Iter}, NEW c,
         Inv(C, D, path, cs), path # <<>> => path[Len(path)].what \notin Pending,
         (w = "for" /\ pend = "var") \/ (w = "foreach" /\ pend = "iterable" /\ x = Iter),
         c = BeginScope(cs[Len(cs)]), ~Rejected(c, x)
  PROVE  Holds(path \o <<Construct(w, <<x>>), Construct(pend, <<>>)>>,
               TopSet(cs, Declare(c, x)))
  <1>1. PICK path1 : path1 = Append(path, Construct(w, <<>>))
    OBVIOUS
  <1>2. PICK cs1 : cs1 = TopSet(cs, c)
    OBVIOUS
  <1>3. w \in Opening /\ w \in Whats /\ w \in Naming /\ pend \in Whats
    BY DEF Opening, Whats, Naming, Pending
  <1>4. /\ Holds(path1, cs1)
        /\ Well(c) /\ c.scope_depth \in Nat \ {0} /\ cs1[Len(cs1)] = c
        /\ PathOK(path1) /\ Grown(path, path1, w, <<>>)
    BY <1>1, <1>2, <1>3, ScopeStep
  <1>5. PICK C1, D1 : Inv(C1, D1, path1, cs1)
    BY <1>4 DEF Holds
  <1>6. path1[Len(path1)].what = w /\ path1[Len(path1)].names = <<>>
    BY <1>4 DEF Grown
  <1>7. path1 # <<>>
    <2>1. Len(path1) = Len(path) + 1 /\ Len(path) \in Nat
      BY <1>4, PathFacts DEF Grown, Inv
    <2>2. Len(path1) # 0
      BY <2>1
    <2> QED
      BY <1>4, <2>2, PathFacts
  <1>8. PICK d : d = Declare(c, x)
    OBVIOUS
  <1>9. Adds(c, d, x)
    BY <1>4, <1>8, DeclareIs
  <1>10. ~Contains(path1[Len(path1)].names, x)
    BY <1>6 DEF Contains
  <1>11. PICK path2 : path2 = Append(Noted(path1, x), Construct(pend, <<>>))
    OBVIOUS
  <1>12. PICK cs2 : cs2 = TopSet(cs1, d)
    OBVIOUS
  <1>13. Holds(path2, cs2)
    <2>1. path1[Len(path1)].what \in Naming /\ Adds(cs1[Len(cs1)], d, x)
      BY <1>3, <1>4, <1>6, <1>9
    <2>2. \/ pend = "var"
          \/ /\ pend = "iterable" /\ x = Iter
             /\ path1[Len(path1)].what = "foreach" /\ path1[Len(path1)].names = <<>>
      BY <1>6
    <2>3. \E C2, D2 : Inv(C2, D2, path2, cs2) /\ Higher(C1, D1, C2, D2, Len(path1), pend)
      BY <1>5, <1>7, <1>10, <1>11, <1>12, <2>1, <2>2, DeclareStep
    <2> QED
      BY <2>3 DEF Holds
  <1>14. path2 = path \o <<Construct(w, <<x>>), Construct(pend, <<>>)>>
    <2>1. path \in Seq(Entries)
      BY DEF Inv, PathOK
    <2>2. Noted(path1, x) = Append(path, Construct(w, <<x>>))
      BY <1>1, <1>3, <2>1, NotedAppended
    <2>3. Construct(w, <<x>>) \in Entries /\ Construct(pend, <<>>) \in Entries
      BY <1>3 DEF Entries, Construct
    <2> QED
      BY <1>11, <2>1, <2>2, <2>3, TwoMore
  <1>15. cs2 = TopSet(cs, d)
    BY <1>2, <1>4, <1>12, SetTwice DEF Inv
  <1> QED
    BY <1>8, <1>13, <1>14, <1>15

(* What a block or a function has declared is found by declare_variable.   *)
LEMMA FreshName ==
  ASSUME NEW C, NEW D, NEW path, NEW cs, NEW x, Inv(C, D, path, cs), path # <<>>,
         path[Len(path)].what \in Holding, ~Rejected(cs[Len(cs)], x)
  PROVE  ~Contains(path[Len(path)].names, x) /\ cs[Len(cs)].scope_depth # 0
  <1>1. PICK n \in Nat : n = Len(path) /\ n \in 1..n
    <2>1. Len(path) \in Nat /\ Len(path) # 0
      BY PathFacts DEF Inv
    <2> QED
      BY <2>1
  <1>2. PICK c : c = cs[Len(cs)]
    OBVIOUS
  <1>3. C[n] = Len(cs) /\ c.scope_depth = D[n] /\ D[n] > 0
    <2>1. C[n] = Len(cs)
      BY <1>1 DEF Inv, Aligned
    <2>2. c.scope_depth = D[n]
      BY <1>1, <1>2, InContexts DEF Inv
    <2>3. D[n] > 0
      BY <1>1, Positive DEF Inv, Naming, Opening, Holding
    <2> QED
      BY <2>1, <2>2, <2>3
  <1>4. ASSUME Contains(path[n].names, x) PROVE FALSE
    <2>1. PICK y \in 1..Len(path[n].names) : path[n].names[y] = x
      BY <1>4 DEF Contains
    <2>2. PICK p \in Nat : Keeps(C, D, path, cs[C[n]], n, path[n].names[y], p)
      BY <1>1, <2>1 DEF Inv, KeepsNames
    <2>3. /\ p \in 1..Len(c.locals) /\ c.locals[p].name = x
          /\ \A q \in p..Len(c.locals) :
               c.locals[q].depth = -1 \/ c.locals[q].depth >= c.scope_depth
      BY <1>2, <1>3, <2>1, <2>2 DEF Keeps, Size, NameAt, DepthAt
    <2>4. Clash(c, x)
      BY <2>3 DEF Clash
    <2> QED
      BY <1>2, <1>3, <2>4 DEF Rejected
  <1> QED
    BY <1>1, <1>2, <1>3, <1>4

(* A function's context at its start.                                      *)
LEMMA NewContext ==
  ASSUME NEW c, c = Context(FALSE)
  PROVE  Well(c) /\ Size(c) = 1 /\ NameAt(c, 1) = This /\ DepthAt(c, 1) = 0
         /\ c.scope_depth = 0
  <1>1. PICK s : s = <<[name |-> This, depth |-> 0, captured |-> FALSE]>>
    OBVIOUS
  <1>2. s \in Seq(Locals(Int)) /\ Len(s) = 1 /\ s[1].name = This /\ s[1].depth = 0
    BY <1>1 DEF Locals
  <1>3. c.locals = s /\ c.scope_depth = 0
        /\ DOMAIN c = {"locals", "upvalues", "scope_depth", "from"}
    BY <1>1 DEF Context
  <1>4. 0 \in Nat
    OBVIOUS
  <1>5. Well(c)
    BY <1>2, <1>3, <1>4, Zenon DEF Well
  <1>6. Size(c) = 1 /\ NameAt(c, 1) = This /\ DepthAt(c, 1) = 0
    BY <1>2, <1>3, Zenon DEF Size, NameAt, DepthAt
  <1> QED
    BY <1>3, <1>5, <1>6

(* A variable is declared and at once defined.                             *)
LEMMA ParameterStep ==
  ASSUME NEW C, NEW D, NEW path, NEW cs, NEW c, NEW x \in Names \cup {Iter},
         Inv(C, D, path, cs), path # <<>>, path[Len(path)].what \in Naming,
         ~Contains(path[Len(path)].names, x),
         c = cs[Len(cs)], c.scope_depth # 0, ~Rejected(c, x)
  PROVE  Holds(Noted(path, x), TopSet(cs, Define(Declare(c, x))))
  <1>1. PICK d : d = Declare(c, x)
    OBVIOUS
  <1>2. PICK e : e = Define(d)
    OBVIOUS
  <1>3. Well(c) /\ CtxsOK(cs)
    BY CtxsFacts DEF Inv
  <1>4. Adds(c, d, x)
    BY <1>1, <1>3, DeclareIs
  <1>5. Well(d)
    BY <1>4 DEF Adds
  <1>6. Gives(d, e)
    BY <1>2, <1>5, DefineIs
  <1>7. PICK path1 : path1 = Append(Noted(path, x), Construct("var", <<>>))
    OBVIOUS
  <1>8. PICK cs1 : cs1 = TopSet(cs, d)
    OBVIOUS
  <1>9. PICK C1, D1 : Inv(C1, D1, path1, cs1)
    <2>1. PICK pend : pend = "var"
      OBVIOUS
    <2>2. path1 = Append(Noted(path, x), Construct(pend, <<>>)) /\ Adds(cs[Len(cs)], d, x)
      BY <1>4, <1>7, <2>1
    <2>3. \E C2, D2 : Inv(C2, D2, path1, cs1) /\ Higher(C, D, C2, D2, Len(path), pend)
      BY <1>8, <2>1, <2>2, DeclareStep
    <2> QED
      BY <2>3
  <1>10. PICK path2 : path2 = Noted(path, x)
    OBVIOUS
  <1>11. path2 \in Seq(Entries)
    BY <1>10, NotePath DEF Inv, PathOK
  <1>12. Construct("var", <<>>) \in Entries
    BY DEF Construct, Entries, Whats, Pending
  <1>13. Front(path1) = path2
    BY <1>7, <1>10, <1>11, <1>12, FrontOfAppend
  <1>14. path1 # <<>> /\ path1[Len(path1)].what = "var"
    <2>1. PICK n \in Nat : n = Len(path2)
      BY <1>11
    <2>2. Len(path1) = n + 1 /\ path1[n + 1] = Construct("var", <<>>)
      BY <1>7, <1>10, <1>11, <1>12, <2>1
    <2>3. path1 # <<>>
      BY <2>2
    <2> QED
      BY <2>2, <2>3 DEF Construct
  <1>15. Len(cs1) = Len(cs) /\ cs1[Len(cs1)] = d
    <2>1. Len(cs) \in 1..Len(cs)
      BY <1>3, CtxsFacts
    <2>2. /\ Len(cs1) = Len(cs)
          /\ \A i \in 1..Len(cs) : cs1[i] = IF i = Len(cs) THEN d ELSE cs[i]
      BY <1>3, <1>5, <1>8, SetCtxs
    <2> QED
      BY <2>1, <2>2
  <1>16. PICK cs2 : cs2 = TopSet(cs1, e)
    OBVIOUS
  <1>17. Inv(C1, D1, path2, cs2)
    <2>1. path2 = Front(path1) /\ Gives(cs1[Len(cs1)], e)
      BY <1>6, <1>13, <1>15
    <2> QED
      BY <1>9, <1>14, <1>16, <2>1, DefineStep
  <1>18. cs2 = TopSet(cs, e)
    BY <1>3, <1>5, <1>8, <1>16, SetTwice
  <1> QED
    BY <1>1, <1>2, <1>10, <1>17, <1>18 DEF Holds

(* A function is entered.                                                  *)
LEMMA CodeStep ==
  ASSUME NEW C, NEW D, NEW path, NEW cs, NEW w \in {"function", "method"}, NEW c,
         Inv(C, D, path, cs), path # <<>> => path[Len(path)].what \notin Pending,
         w = "function" => path = <<>>, c = BeginScope(Context(FALSE))
  PROVE  Holds(Append(path, Construct(w, <<>>)), Append(cs, c))
  <1>1. Well(c) /\ Size(c) = 1 /\ DepthAt(c, 1) = 0 /\ c.scope_depth = 1
    <2>1. PICK b : b = Context(FALSE)
      OBVIOUS
    <2>2. Well(b) /\ Size(b) = 1 /\ DepthAt(b, 1) = 0 /\ b.scope_depth = 0
      BY <2>1, NewContext
    <2>3. c = BeginScope(b)
      BY <2>1
    <2>4. SameTable(b, c) /\ c.scope_depth = b.scope_depth + 1
      BY <2>2, <2>3, BeginScopeIs
    <2>5. c.scope_depth = 1
      <3>1. c.scope_depth = 0 + 1
        BY <2>2, <2>4, Zenon
      <3>2. 0 + 1 = 1
        OBVIOUS
      <3> QED
        BY <3>1, <3>2, Zenon
    <2>6. Well(c) /\ Size(c) = 1 /\ Begins(b, c, 1)
      BY <2>2, <2>4, Zenon DEF SameTable
    <2>7. 1 \in 1..1
      OBVIOUS
    <2>8. DepthAt(c, 1) = DepthAt(b, 1)
      BY <2>6, <2>7, Zenon DEF Begins
    <2> QED
      BY <2>2, <2>5, <2>6, <2>8
  <1>2. w \in Entered /\ w # "lambda"
    BY DEF Entered
  <1>3. <<>> \in Seq(Names \cup {Iter}) /\ IsInjective(<<>>)
    BY DEF IsInjective
  <1>4. PICK path1 : path1 = Append(path, Construct(w, <<>>))
    OBVIOUS
  <1>5. PICK cs1 : cs1 = Append(cs, c)
    OBVIOUS
  <1>6. c.scope_depth = IF w = "lambda" THEN 0 ELSE 1
    BY <1>1, <1>2
  <1>7. \E C1, D1 : Inv(C1, D1, path1, cs1) /\ Higher(C, D, C1, D1, Len(path), w)
    BY <1>1, <1>2, <1>3, <1>4, <1>5, <1>6, EnterStep
  <1> QED
    BY <1>4, <1>5, <1>7 DEF Holds

-----------------------------------------------------------------------------
(* The actions.                                                            *)
LEMMA InnerIs ==
  ASSUME NEW path, path = nest
  PROVE  /\ path = <<>> => Inner.what = "script"
         /\ path # <<>> => Inner = path[Len(path)]
  BY DEF Inner, Construct

(* compile_var: the value is compiled.                                     *)
LEMMA LeaveVarKeeps ==
  ASSUME IInv, LeaveVar
  PROVE  Holds(nest', ctxs')
  <1>1. PICK path : path = nest
    OBVIOUS
  <1>2. PICK cs : cs = ctxs
    OBVIOUS
  <1>3. PICK C, D : Inv(C, D, path, cs)
    BY <1>1, <1>2 DEF IInv, Holds
  <1>4. PICK path2 : path2 = nest'
    OBVIOUS
  <1>5. PICK cs2 : cs2 = ctxs'
    OBVIOUS
  <1>6. PICK d : d = Define(cs[Len(cs)])
    OBVIOUS
  <1>7. Inner.what = "var" /\ path2 = Front(path) /\ cs2 = TopSet(cs, d)
    BY <1>1, <1>2, <1>4, <1>5, <1>6 DEF LeaveVar, Visit, InContext, Here, TopSet
  <1>8. path # <<>> /\ path[Len(path)].what = "var"
    BY <1>1, <1>7, InnerIs
  <1>9. Gives(cs[Len(cs)], d)
    BY <1>3, <1>6, CtxsFacts, DefineIs DEF Inv
  <1>10. Inv(C, D, path2, cs2)
    BY <1>3, <1>7, <1>8, <1>9, DefineStep
  <1> QED
    BY <1>4, <1>5, <1>10 DEF Holds

(* end_scope on the innermost context.                                     *)
LEMMA ScopeLeft ==
  ASSUME NEW C, NEW D, NEW path, NEW cs, NEW d, Inv(C, D, path, cs), path # <<>>,
         path[Len(path)].what \in Opening, d = EndScope(cs[Len(cs)])
  PROVE  Inv(C, D, Front(path), TopSet(cs, d)) /\ Well(d)
  <1>1. PICK n : n = Len(Front(path))
    OBVIOUS
  <1>2. PICK t : t = Len(cs)
    OBVIOUS
  <1>3. PICK c : c = cs[t]
    OBVIOUS
  <1>4. /\ n \in Nat /\ Len(path) = n + 1 /\ Well(c)
        /\ D[n] \in Nat /\ c.scope_depth = D[n + 1]
        /\ D[n + 1] = DepthIn(D, n, path[n + 1].what)
    <2>1. AtLast(C, D, path, n, t, cs[t])
      BY <1>1, <1>2, LastPlace
    <2> QED
      BY <1>3, <2>1 DEF AtLast
  <1>5. DepthIn(D, n, path[n + 1].what) = D[n] + 1
    BY <1>4 DEF DepthIn, Opening, Entered
  <1>6. c.scope_depth > 0
    BY <1>4, <1>5
  <1>7. Drops(cs[Len(cs)], d)
    BY <1>2, <1>3, <1>4, <1>6, EndScopeIs
  <1> QED
    BY <1>7, EndStep DEF Drops

(* The end of compile_block, compile_for and compile_foreach.              *)
LEMMA LeaveScopeKeeps ==
  ASSUME IInv, LeaveScope
  PROVE  Holds(nest', ctxs')
  <1>1. PICK path : path = nest
    OBVIOUS
  <1>2. PICK cs : cs = ctxs
    OBVIOUS
  <1>3. PICK C, D : Inv(C, D, path, cs)
    BY <1>1, <1>2 DEF IInv, Holds
  <1>4. PICK path2 : path2 = nest'
    OBVIOUS
  <1>5. PICK cs2 : cs2 = ctxs'
    OBVIOUS
  <1>6. PICK c : c = cs[Len(cs)]
    OBVIOUS
  <1>7. PICK d : d = EndScope(c)
    OBVIOUS
  <1>8. Inner.what \in Opening /\ path2 = Front(path) /\ cs2 = TopSet(cs, d)
    BY <1>1, <1>2, <1>4, <1>5, <1>6, <1>7
      DEF LeaveScope, Visit, InContext, Here, TopSet, Opening
  <1>9. path # <<>> /\ path[Len(path)].what \in Opening
    BY <1>1, <1>8, InnerIs DEF Opening
  <1>10. Inv(C, D, path2, cs2)
    BY <1>3, <1>6, <1>7, <1>8, <1>9, ScopeLeft
  <1> QED
    BY <1>4, <1>5, <1>10 DEF Holds

(* The start of compile_block.                                             *)
LEMMA EnterBlockKeeps ==
  ASSUME IInv, EnterBlock
  PROVE  Holds(nest', ctxs')
  <1>1. PICK path : path = nest
    OBVIOUS
  <1>2. PICK cs : cs = ctxs
    OBVIOUS
  <1>3. PICK C, D : Inv(C, D, path, cs)
    BY <1>1, <1>2 DEF IInv, Holds
  <1>4. PICK path2 : path2 = nest'
    OBVIOUS
  <1>5. PICK cs2 : cs2 = ctxs'
    OBVIOUS
  <1>6. PICK c : c = BeginScope(cs[Len(cs)])
    OBVIOUS
  <1>7. PICK w : w = "block"
    OBVIOUS
  <1>8. /\ AtStatement \/ Inner.what = "lambda"
        /\ path2 = Append(path, Construct(w, <<>>)) /\ cs2 = TopSet(cs, c)
    BY <1>1, <1>2, <1>4, <1>5, <1>6, <1>7 DEF EnterBlock, Visit, InContext, Here, TopSet
  <1>9. path # <<>> => path[Len(path)].what \notin Pending
    BY <1>1, <1>8, InnerIs DEF AtStatement, Pending
  <1>10. w \in Opening
    BY <1>7 DEF Opening
  <1>11. Holds(path2, cs2)
    BY <1>3, <1>6, <1>8, <1>9, <1>10, ScopeStep
  <1> QED
    BY <1>4, <1>5, <1>11

(* compile_for, up to the value of its variable.                           *)
LEMMA EnterForKeeps ==
  ASSUME IInv, NEW p \in Names \cup {NoName}, EnterFor(p)
  PROVE  Holds(nest', ctxs')
  <1>1. PICK path : path = nest
    OBVIOUS
  <1>2. PICK cs : cs = ctxs
    OBVIOUS
  <1>3. PICK C, D : Inv(C, D, path, cs)
    BY <1>1, <1>2 DEF IInv, Holds
  <1>4. PICK path2 : path2 = nest'
    OBVIOUS
  <1>5. PICK cs2 : cs2 = ctxs'
    OBVIOUS
  <1>6. PICK c : c = BeginScope(cs[Len(cs)])
    OBVIOUS
  <1>7. AtStatement
    BY DEF EnterFor
  <1>8. path # <<>> => path[Len(path)].what \notin Pending
    BY <1>1, <1>7, InnerIs DEF AtStatement, Pending
  <1>9. CASE p = NoName
    <2>1. PICK w : w = "for"
      OBVIOUS
    <2>2. path2 = Append(path, Construct(w, <<>>)) /\ cs2 = TopSet(cs, c)
      BY <1>1, <1>2, <1>4, <1>5, <1>6, <1>9, <2>1
        DEF EnterFor, Visit, InContext, Here, TopSet
    <2>3. w \in Opening
      BY <2>1 DEF Opening
    <2>4. Holds(path2, cs2)
      BY <1>3, <1>6, <1>8, <2>2, <2>3, ScopeStep
    <2> QED
      BY <1>4, <1>5, <2>4
  <1>10. CASE p # NoName /\ Rejected(c, p)
    <2>1. path2 = path /\ cs2 = cs
      BY <1>1, <1>2, <1>4, <1>5, <1>6, <1>10 DEF EnterFor, Reject, Here
    <2> QED
      BY <1>3, <1>4, <1>5, <2>1 DEF Holds
  <1>11. CASE p # NoName /\ ~Rejected(c, p)
    <2>1. PICK w : w = "for"
      OBVIOUS
    <2>2. PICK pend : pend = "var"
      OBVIOUS
    <2>3. /\ path2 = path \o <<Construct(w, <<p>>), Construct(pend, <<>>)>>
          /\ cs2 = TopSet(cs, Declare(c, p))
      BY <1>1, <1>2, <1>4, <1>5, <1>6, <1>11, <2>1, <2>2
        DEF EnterFor, Visit, InContext, Here, TopSet
    <2>4. PICK x \in Names \cup {Iter} : x = p
      BY <1>11
    <2>5. ~Rejected(c, x)
      BY <1>11, <2>4
    <2>6. Holds(path \o <<Construct(w, <<x>>), Construct(pend, <<>>)>>,
                TopSet(cs, Declare(c, x)))
      BY <1>3, <1>6, <1>8, <2>1, <2>2, <2>5, LoopStep
    <2> QED
      BY <1>4, <1>5, <2>3, <2>4, <2>6
  <1> QED
    BY <1>9, <1>10, <1>11

(* compile_foreach, up to the value it goes through.                       *)
LEMMA EnterForeachKeeps ==
  ASSUME IInv, EnterForeach
  PROVE  Holds(nest', ctxs')
  <1>1. PICK path : path = nest
    OBVIOUS
  <1>2. PICK cs : cs = ctxs
    OBVIOUS
  <1>3. PICK C, D : Inv(C, D, path, cs)
    BY <1>1, <1>2 DEF IInv, Holds
  <1>4. PICK path2 : path2 = nest'
    OBVIOUS
  <1>5. PICK cs2 : cs2 = ctxs'
    OBVIOUS
  <1>6. PICK c : c = BeginScope(cs[Len(cs)])
    OBVIOUS
  <1>7. AtStatement
    BY DEF EnterForeach
  <1>8. path # <<>> => path[Len(path)].what \notin Pending
    BY <1>1, <1>7, InnerIs DEF AtStatement, Pending
  <1>9. CASE Rejected(c, Iter)
    <2>1. path2 = path /\ cs2 = cs
      BY <1>1, <1>2, <1>4, <1>5, <1>6, <1>9 DEF EnterForeach, Reject, Here
    <2> QED
      BY <1>3, <1>4, <1>5, <2>1 DEF Holds
  <1>10. CASE ~Rejected(c, Iter)
    <2>1. PICK w : w = "foreach"
      OBVIOUS
    <2>2. PICK pend : pend = "iterable"
      OBVIOUS
    <2>3. /\ path2 = path \o <<Construct(w, <<Iter>>), Construct(pend, <<>>)>>
          /\ cs2 = TopSet(cs, Declare(c, Iter))
      BY <1>1, <1>2, <1>4, <1>5, <1>6, <1>10, <2>1, <2>2
        DEF EnterForeach, Visit, InContext, Here, TopSet
    <2>4. PICK x \in Names \cup {Iter} : x = Iter
      OBVIOUS
    <2>5. Holds(path \o <<Construct(w, <<x>>), Construct(pend, <<>>)>>,
                TopSet(cs, Declare(c, x)))
      BY <1>3, <1>6, <1>8, <1>10, <2>1, <2>2, <2>4, LoopStep
    <2> QED
      BY <1>4, <1>5, <2>3, <2>4, <2>5
  <1> QED
    BY <1>9, <1>10

(* A class is entered, or a variable of the script.                        *)
LEMMA QuietPush ==
  ASSUME NEW C, NEW D, NEW path, NEW cs, NEW w \in {"class", "var"},
         Inv(C, D, path, cs), w = "var" => D[Len(path)] = 0,
         path # <<>> => path[Len(path)].what \notin Pending
  PROVE  Holds(Append(path, Construct(w, <<>>)), cs)
  <1>1. PICK path2 : path2 = Append(path, Construct(w, <<>>))
    OBVIOUS
  <1>2. CtxsOK(cs) /\ Well(cs[Len(cs)])
    BY CtxsFacts DEF Inv
  <1>3. SameTable(cs[Len(cs)], cs[Len(cs)])
    BY <1>2, TableItself
  <1>4. w \in Opening \cup {"class", "var"} /\ w \notin Opening
    BY DEF Opening
  <1>5. cs[Len(cs)].scope_depth = cs[Len(cs)].scope_depth + IF w \in Opening THEN 1 ELSE 0
    <2>1. cs[Len(cs)].scope_depth \in Nat
      BY <1>2 DEF Well
    <2>2. PICK s \in Nat : s = cs[Len(cs)].scope_depth
      BY <2>1
    <2>3. s = s + 0
      OBVIOUS
    <2> QED
      BY <1>4, <2>2, <2>3
  <1>6. \E C2, D2 : Inv(C2, D2, path2, cs) /\ Higher(C, D, C2, D2, Len(path), w)
    BY <1>1, <1>2, <1>3, <1>4, <1>5, PushStep
  <1> QED
    BY <1>1, <1>6 DEF Holds

(* Nothing is local where nothing is entered.                              *)
LEMMA ScriptTop ==
  ASSUME NEW C, NEW D, NEW path, NEW cs, Inv(C, D, path, cs), path = <<>>
  PROVE  cs[Len(cs)].scope_depth = 0 /\ D[Len(path)] = 0
  <1>1. Len(path) = 0
    OBVIOUS
  <1>2. D[0] = 0
    BY DEF Inv, Climbs
  <1>3. cs[Len(cs)].scope_depth = D[Len(path)]
    BY InContexts DEF Inv
  <1> QED
    BY <1>1, <1>2, <1>3

(* Where something is declared, a block is open or nothing is.             *)
LEMMA DeclaresInBlock ==
  ASSUME NEW C, NEW D, NEW path, NEW cs, Inv(C, D, path, cs), path = nest, AtDeclaration
  PROVE  path # <<>> => path[Len(path)].what = "block"
  <1>1. SUFFICES ASSUME path # <<>> PROVE path[Len(path)].what = "block"
    OBVIOUS
  <1>2. Inner = path[Len(path)] /\ Inner.what \in {"script", "block"}
    BY <1>1, InnerIs DEF AtDeclaration
  <1>3. path[Len(path)].what \in Whats
    <2>1. Len(path) \in Nat /\ Len(path) # 0
      BY <1>1, PathFacts DEF Inv
    <2>2. Len(path) \in 1..Len(path)
      BY <2>1
    <2> QED
      BY <2>2, PathFacts DEF Inv
  <1> QED
    BY <1>2, <1>3 DEF Whats, Opening, Entered, Pending

(* compile_var, up to the value.                                           *)
LEMMA EnterVarKeeps ==
  ASSUME IInv, NEW n \in Names, EnterVar(n)
  PROVE  Holds(nest', ctxs')
  <1>1. PICK path : path = nest
    OBVIOUS
  <1>2. PICK cs : cs = ctxs
    OBVIOUS
  <1>3. PICK C, D : Inv(C, D, path, cs)
    BY <1>1, <1>2 DEF IInv, Holds
  <1>4. PICK path2 : path2 = nest'
    OBVIOUS
  <1>5. PICK cs2 : cs2 = ctxs'
    OBVIOUS
  <1>6. PICK c : c = cs[Len(cs)]
    OBVIOUS
  <1>7. AtDeclaration
    BY DEF EnterVar
  <1>8. path # <<>> => path[Len(path)].what = "block"
    BY <1>1, <1>3, <1>7, DeclaresInBlock
  <1>9. PICK w : w = "var"
    OBVIOUS
  <1>10. CASE Rejected(c, n)
    <2>1. path2 = path /\ cs2 = cs
      BY <1>1, <1>2, <1>4, <1>5, <1>6, <1>10 DEF EnterVar, Reject, Here
    <2> QED
      BY <1>3, <1>4, <1>5, <2>1 DEF Holds
  <1>11. ASSUME ~Rejected(c, n)
         PROVE  /\ path2 = Append(Noted(path, n), Construct(w, <<>>))
                /\ cs2 = TopSet(cs, Declare(c, n))
    BY <1>1, <1>2, <1>4, <1>5, <1>6, <1>9, <1>11
      DEF EnterVar, Visit, InContext, Here, TopSet
  <1>12. CASE ~Rejected(c, n) /\ path = <<>>
    <2>1. c.scope_depth = 0 /\ D[Len(path)] = 0
      BY <1>3, <1>6, <1>12, ScriptTop
    <2>2. Declare(c, n) = c
      BY <2>1 DEF Declare
    <2>3. TopSet(cs, c) = cs
      BY <1>3, <1>6, SetItself DEF Inv
    <2>4. Noted(path, n) = path
      BY <1>12 DEF Noted
    <2>5. path2 = Append(path, Construct(w, <<>>)) /\ cs2 = cs
      BY <1>11, <1>12, <2>2, <2>3, <2>4
    <2>6. w \in {"class", "var"}
      BY <1>9
    <2>7. Holds(Append(path, Construct(w, <<>>)), cs)
      BY <1>3, <1>12, <2>1, <2>6, QuietPush
    <2> QED
      BY <1>4, <1>5, <2>5, <2>7
  <1>13. CASE ~Rejected(c, n) /\ path # <<>>
    <2>1. ~Contains(path[Len(path)].names, n) /\ c.scope_depth # 0
      BY <1>3, <1>6, <1>8, <1>13, FreshName DEF Holding
    <2>2. path[Len(path)].what \in Naming
      BY <1>8, <1>13 DEF Naming, Opening
    <2>3. PICK d : d = Declare(c, n)
      OBVIOUS
    <2>4. PICK x \in Names \cup {Iter} : x = n
      OBVIOUS
    <2>5. Adds(cs[Len(cs)], d, x)
      <3>1. Well(c)
        BY <1>3, <1>6, CtxsFacts DEF Inv
      <3> QED
        BY <1>6, <1>13, <2>1, <2>3, <2>4, <3>1, DeclareIs
    <2>6. path2 = Append(Noted(path, x), Construct(w, <<>>)) /\ cs2 = TopSet(cs, d)
      BY <1>11, <1>13, <2>3, <2>4
    <2>7. ~Contains(path[Len(path)].names, x)
      BY <2>1, <2>4
    <2>8. \E C2, D2 : Inv(C2, D2, path2, cs2) /\ Higher(C, D, C2, D2, Len(path), w)
      BY <1>3, <1>9, <1>13, <2>2, <2>5, <2>6, <2>7, DeclareStep
    <2> QED
      BY <1>4, <1>5, <2>8 DEF Holds
  <1> QED
    BY <1>10, <1>12, <1>13

(* A name is compiled.                                                     *)
LEMMA MarkedStep ==
  ASSUME NEW path, NEW cs, NEW cs2, Holds(path, cs), Marked(cs, cs2)
  PROVE  Holds(path, cs2)
  <1>1. PICK C, D : Inv(C, D, path, cs)
    BY DEF Holds
  <1>2. Inv(C, D, path, cs2)
    BY <1>1, SameStep DEF Marked
  <1> QED
    BY <1>2 DEF Holds

(* compile_class, up to its methods.                                       *)
LEMMA EnterClassKeeps ==
  ASSUME IInv, NEW n \in Names, NEW parent \in Names \cup {NoName}, EnterClass(n, parent)
  PROVE  Holds(nest', ctxs')
  <1>1. PICK path : path = nest
    OBVIOUS
  <1>2. PICK cs : cs = ctxs
    OBVIOUS
  <1>3. PICK C, D : Inv(C, D, path, cs)
    BY <1>1, <1>2 DEF IInv, Holds
  <1>4. PICK path2 : path2 = nest'
    OBVIOUS
  <1>5. PICK cs2 : cs2 = ctxs'
    OBVIOUS
  <1>6. PICK c : c = cs[Len(cs)]
    OBVIOUS
  <1>7. AtDeclaration
    BY DEF EnterClass
  <1>8. path # <<>> => path[Len(path)].what = "block"
    BY <1>1, <1>3, <1>7, DeclaresInBlock
  <1>9. PICK w : w = "class"
    OBVIOUS
  <1>10. CASE Rejected(c, n)
    <2>1. path2 = path /\ cs2 = cs
      BY <1>1, <1>2, <1>4, <1>5, <1>6, <1>10 DEF EnterClass, Reject, Here
    <2> QED
      BY <1>3, <1>4, <1>5, <2>1 DEF Holds
  <1>11. PICK path1 : path1 = Noted(path, n)
    OBVIOUS
  <1>12. PICK cs1 : cs1 = TopSet(cs, Define(Declare(c, n)))
    OBVIOUS
  <1>13. ASSUME ~Rejected(c, n)
         PROVE  /\ path2 = Append(path1, Construct(w, <<>>))
                /\ cs2 = NamedAll(cs1, n, parent).ctxs
    BY <1>1, <1>2, <1>4, <1>5, <1>6, <1>9, <1>11, <1>12, <1>13
      DEF EnterClass, VisitNaming, InContext, Here, TopSet
  <1>14. ASSUME ~Rejected(c, n)
         PROVE  /\ Holds(path1, cs1)
                /\ path1 # <<>> => path1[Len(path1)].what \notin Pending
    <2>1. CASE path = <<>>
      <3>1. c.scope_depth = 0
        BY <1>3, <1>6, <2>1, ScriptTop
      <3>2. Define(Declare(c, n)) = c
        BY <3>1 DEF Declare, Define
      <3>3. TopSet(cs, c) = cs
        BY <1>3, <1>6, SetItself DEF Inv
      <3>4. path1 = path
        BY <1>11, <2>1 DEF Noted
      <3> QED
        BY <1>3, <1>12, <2>1, <3>2, <3>3, <3>4 DEF Holds
    <2>2. CASE path # <<>>
      <3>1. ~Contains(path[Len(path)].names, n) /\ c.scope_depth # 0
        BY <1>3, <1>6, <1>8, <1>14, <2>2, FreshName DEF Holding
      <3>2. path[Len(path)].what \in Naming /\ path[Len(path)].what \notin Pending
        BY <1>8, <2>2 DEF Naming, Opening, Pending
      <3>3. PICK x \in Names \cup {Iter} : x = n
        OBVIOUS
      <3>4. ~Contains(path[Len(path)].names, x) /\ ~Rejected(c, x)
        BY <1>14, <3>1, <3>3
      <3>5. Holds(Noted(path, x), TopSet(cs, Define(Declare(c, x))))
        BY <1>3, <1>6, <2>2, <3>1, <3>2, <3>4, ParameterStep
      <3>6. Renamed(path, path1, x)
        BY <1>3, <1>11, <2>2, <3>3, <3>4, NotePath DEF Inv
      <3>7. Len(path) \in 1..Len(path)
        <4>1. Len(path) \in Nat /\ Len(path) # 0
          BY <1>3, <2>2, PathFacts DEF Inv
        <4> QED
          BY <4>1
      <3>8. path1[Len(path1)].what = path[Len(path)].what
        BY <3>6, <3>7 DEF Renamed
      <3> QED
        BY <1>11, <1>12, <3>2, <3>3, <3>5, <3>8
    <2> QED
      BY <2>1, <2>2
  <1>15. CASE ~Rejected(c, n)
    <2>1. PICK C1, D1 : Inv(C1, D1, path1, cs1)
      BY <1>14, <1>15 DEF Holds
    <2>2. w \in {"class", "var"} /\ w # "var"
      BY <1>9
    <2>3. Holds(Append(path1, Construct(w, <<>>)), cs1)
      BY <1>14, <1>15, <2>1, <2>2, QuietPush
    <2>4. Marked(cs1, NamedAll(cs1, n, parent).ctxs)
      BY <2>1, NamedAllIs DEF Inv
    <2>5. Holds(path2, cs2)
      BY <1>13, <1>15, <2>3, <2>4, MarkedStep
    <2> QED
      BY <1>4, <1>5, <2>5
  <1> QED
    BY <1>10, <1>15

(* The hidden variable of a for-each loop is a local.                      *)
LEMMA LoopDepth ==
  ASSUME NEW C, NEW D, NEW path, NEW cs, Inv(C, D, path, cs), path # <<>>,
         path[Len(path)].what = "iterable"
  PROVE  cs[Len(cs)].scope_depth # 0
  <1>1. PICK n : n = Len(Front(path))
    OBVIOUS
  <1>2. PICK t : t = Len(cs)
    OBVIOUS
  <1>3. /\ n \in Nat /\ Len(path) = n + 1
        /\ D[n] \in Nat /\ cs[t].scope_depth = D[n + 1]
        /\ D[n + 1] = DepthIn(D, n, path[n + 1].what)
    <2>1. AtLast(C, D, path, n, t, cs[t])
      BY <1>1, <1>2, LastPlace
    <2> QED
      BY <2>1 DEF AtLast
  <1>4. path[n + 1].what = "iterable"
    BY <1>3
  <1>5. D[n + 1] = D[n]
    BY <1>3, <1>4 DEF DepthIn, Entered, Opening
  <1>6. n > 0 /\ path[n].what = "foreach"
    <2>1. LoopAt(path, n + 1 - 1)
      BY <1>3, <1>4 DEF Inv, PathOK
    <2>2. LoopAt(path, n)
      BY <1>3, <2>1
    <2> QED
      BY <2>2 DEF LoopAt
  <1>7. D[n] > 0
    <2>1. n \in 1..Len(path) /\ Len(path) \in Nat /\ path[n].what \in Naming
      BY <1>3, <1>6 DEF Naming, Opening
    <2> QED
      BY <2>1, Positive DEF Inv
  <1> QED
    BY <1>2, <1>3, <1>5, <1>7

(* compile_foreach, from its iterable to its body.                         *)
LEMMA LeaveIterableKeeps ==
  ASSUME IInv, NEW n \in Names, LeaveIterable(n)
  PROVE  Holds(nest', ctxs')
  <1>1. PICK path : path = nest
    OBVIOUS
  <1>2. PICK cs : cs = ctxs
    OBVIOUS
  <1>3. PICK C, D : Inv(C, D, path, cs)
    BY <1>1, <1>2 DEF IInv, Holds
  <1>4. PICK path2 : path2 = nest'
    OBVIOUS
  <1>5. PICK cs2 : cs2 = ctxs'
    OBVIOUS
  <1>6. PICK e : e = Define(cs[Len(cs)])
    OBVIOUS
  <1>7. Inner.what = "iterable"
    BY DEF LeaveIterable
  <1>8. path # <<>> /\ path[Len(path)].what = "iterable"
    BY <1>1, <1>7, InnerIs
  <1>9. CASE Rejected(e, n)
    <2>1. path2 = path /\ cs2 = cs
      BY <1>1, <1>2, <1>4, <1>5, <1>6, <1>9 DEF LeaveIterable, Reject, Here
    <2> QED
      BY <1>3, <1>4, <1>5, <2>1 DEF Holds
  <1>10. CASE ~Rejected(e, n)
    <2>1. PICK cs1 : cs1 = TopSet(cs, Declare(e, n))
      OBVIOUS
    <2>2. path2 = Noted(Front(path), n) /\ cs2 = NamedAll(cs1, Iter, n).ctxs
      BY <1>1, <1>2, <1>4, <1>5, <1>6, <1>10, <2>1
        DEF LeaveIterable, VisitNaming, InContext, Here, TopSet
    <2>3. PICK c : c = cs[Len(cs)]
      OBVIOUS
    <2>4. Well(c) /\ c.scope_depth # 0
      BY <1>3, <1>8, <2>3, LoopDepth, CtxsFacts DEF Inv
    <2>5. Gives(c, e)
      BY <1>6, <2>3, <2>4, DefineIs
    <2>6. Well(e) /\ e.scope_depth # 0
      BY <2>4, <2>5 DEF Gives
    <2>7. PICK d : d = Declare(e, n)
      OBVIOUS
    <2>8. Adds(e, d, n)
      BY <1>10, <2>6, <2>7, DeclareIs
    <2>9. Inv(C, D, path2, cs1)
      <3>1. Gives(cs[Len(cs)], e) /\ cs1 = TopSet(cs, d)
        BY <2>1, <2>3, <2>5, <2>7
      <3> QED
        BY <1>3, <1>8, <2>2, <2>8, <3>1, IterStep
    <2>10. Marked(cs1, cs2)
      BY <2>2, <2>9, NamedAllIs DEF Inv
    <2>11. Holds(path2, cs2)
      BY <2>9, <2>10, MarkedStep DEF Holds
    <2> QED
      BY <1>4, <1>5, <2>11
  <1> QED
    BY <1>9, <1>10

(* Programs that declare no function inside another or inside a block.     *)
FunctionsAtTop == "inner function" \notin Constructs

(* compile_func_decl, up to the parameters.                                *)
LEMMA EnterFunctionKeeps ==
  ASSUME FunctionsAtTop, IInv, EnterFunction
  PROVE  Holds(nest', ctxs')
  <1>1. PICK path : path = nest
    OBVIOUS
  <1>2. PICK cs : cs = ctxs
    OBVIOUS
  <1>3. PICK C, D : Inv(C, D, path, cs)
    BY <1>1, <1>2 DEF IInv, Holds
  <1>4. PICK c : c = BeginScope(Context(FALSE))
    OBVIOUS
  <1>5. PICK w : w = "function"
    OBVIOUS
  <1>6. path = <<>> /\ EnterCode("function")
    BY <1>1, Zenon DEF EnterFunction, FunctionsAtTop
  <1>7. nest' = Append(path, Construct(w, <<>>)) /\ ctxs' = Append(cs, c)
    BY <1>1, <1>2, <1>4, <1>5, <1>6 DEF EnterCode, Visit
  <1>8. w \in {"function", "method"}
    BY <1>5
  <1>9. Holds(Append(path, Construct(w, <<>>)), Append(cs, c))
    BY <1>3, <1>4, <1>6, <1>8, CodeStep
  <1> QED
    BY <1>7, <1>9

(* compile_class_decl, from a method on up to its parameters.              *)
LEMMA EnterMethodKeeps ==
  ASSUME IInv, EnterMethod
  PROVE  Holds(nest', ctxs')
  <1>1. PICK path : path = nest
    OBVIOUS
  <1>2. PICK cs : cs = ctxs
    OBVIOUS
  <1>3. PICK C, D : Inv(C, D, path, cs)
    BY <1>1, <1>2 DEF IInv, Holds
  <1>4. PICK c : c = BeginScope(Context(FALSE))
    OBVIOUS
  <1>5. PICK w : w = "method"
    OBVIOUS
  <1>6. path # <<>> => path[Len(path)].what \notin Pending
    BY <1>1, InnerIs DEF EnterMethod, Pending
  <1>7. nest' = Append(path, Construct(w, <<>>)) /\ ctxs' = Append(cs, c)
    BY <1>1, <1>2, <1>4, <1>5 DEF EnterMethod, EnterCode, Visit
  <1>8. w \in {"function", "method"} /\ w # "function"
    BY <1>5
  <1>9. Holds(Append(path, Construct(w, <<>>)), Append(cs, c))
    BY <1>3, <1>4, <1>6, <1>8, CodeStep
  <1> QED
    BY <1>7, <1>9

(* Parameters are expected in a function or a method.                      *)
LEMMA ParametersIn ==
  ASSUME NEW path, path = nest, AtParameters
  PROVE  path # <<>> /\ path[Len(path)].what \in Holding \cap Naming
  <1>1. path # <<>>
    BY InnerIs DEF AtParameters
  <1>2. path[Len(path)].what \in {"function", "method"}
    BY <1>1, InnerIs DEF AtParameters
  <1> QED
    BY <1>1, <1>2 DEF Holding, Naming

(* The loop over the parameters.                                           *)
LEMMA AddParameterKeeps ==
  ASSUME IInv, NEW p \in Names, AddParameter(p)
  PROVE  Holds(nest', ctxs')
  <1>1. PICK path : path = nest
    OBVIOUS
  <1>2. PICK cs : cs = ctxs
    OBVIOUS
  <1>3. PICK C, D : Inv(C, D, path, cs)
    BY <1>1, <1>2 DEF IInv, Holds
  <1>4. PICK c : c = cs[Len(cs)]
    OBVIOUS
  <1>5. c = Here
    BY <1>2, <1>4 DEF Here
  <1>6. path # <<>> /\ path[Len(path)].what \in Holding \cap Naming
    BY <1>1, ParametersIn DEF AddParameter
  <1>7. CASE Rejected(c, p)
    <2>1. nest' = path /\ ctxs' = cs
      BY <1>1, <1>2, <1>5, <1>7 DEF AddParameter, Reject
    <2> QED
      BY <1>3, <2>1 DEF Holds
  <1>8. CASE ~Rejected(c, p)
    <2>1. nest' = Noted(path, p) /\ ctxs' = TopSet(cs, Define(Declare(c, p)))
      BY <1>1, <1>2, <1>5, <1>8 DEF AddParameter, Visit, InContext, TopSet
    <2>2. ~Contains(path[Len(path)].names, p) /\ c.scope_depth # 0
      BY <1>3, <1>4, <1>6, <1>8, FreshName
    <2>3. p \in Names \cup {Iter}
      OBVIOUS
    <2>4. Holds(Noted(path, p), TopSet(cs, Define(Declare(c, p))))
      BY <1>3, <1>4, <1>6, <1>8, <2>2, <2>3, ParameterStep
    <2> QED
      BY <2>1, <2>4
  <1> QED
    BY <1>7, <1>8

(* compile_block of a body.                                                *)
LEMMA EnterBodyKeeps ==
  ASSUME IInv, EnterBody
  PROVE  Holds(nest', ctxs')
  <1>1. PICK path : path = nest
    OBVIOUS
  <1>2. PICK cs : cs = ctxs
    OBVIOUS
  <1>3. PICK C, D : Inv(C, D, path, cs)
    BY <1>1, <1>2 DEF IInv, Holds
  <1>4. PICK path2 : path2 = nest'
    OBVIOUS
  <1>5. PICK cs2 : cs2 = ctxs'
    OBVIOUS
  <1>6. PICK c : c = BeginScope(cs[Len(cs)])
    OBVIOUS
  <1>7. PICK w : w = "block"
    OBVIOUS
  <1>8. path # <<>> => path[Len(path)].what \notin Pending
    BY <1>1, InnerIs DEF EnterBody, AtParameters, Pending
  <1>9. path2 = Append(path, Construct(w, <<>>)) /\ cs2 = TopSet(cs, c)
    BY <1>1, <1>2, <1>4, <1>5, <1>6, <1>7 DEF EnterBody, Visit, InContext, Here, TopSet
  <1>10. w \in Opening
    BY <1>7 DEF Opening
  <1>11. Holds(path2, cs2)
    BY <1>3, <1>6, <1>8, <1>9, <1>10, ScopeStep
  <1> QED
    BY <1>4, <1>5, <1>11

(* compile_lambda, up to the body.                                         *)
LEMMA EnterLambdaKeeps ==
  ASSUME IInv, NEW p \in Names \cup {NoName}, EnterLambda(p)
  PROVE  Holds(nest', ctxs')
  <1>1. PICK path : path = nest
    OBVIOUS
  <1>2. PICK cs : cs = ctxs
    OBVIOUS
  <1>3. PICK C, D : Inv(C, D, path, cs)
    BY <1>1, <1>2 DEF IInv, Holds
  <1>4. PICK path2 : path2 = nest'
    OBVIOUS
  <1>5. PICK cs2 : cs2 = ctxs'
    OBVIOUS
  <1>6. PICK c : c = Context(FALSE)
    OBVIOUS
  <1>7. PICK w : w = "lambda"
    OBVIOUS
  <1>8. PICK names : names = OptionalName(p)
    OBVIOUS
  <1>9. Well(c) /\ Size(c) = 1 /\ NameAt(c, 1) = This /\ DepthAt(c, 1) = 0
        /\ c.scope_depth = 0
    BY <1>6, NewContext
  <1>10. Define(Declare(c, p)) = c
    BY <1>9 DEF Define, Declare
  <1>11. path2 = Append(path, Construct(w, names)) /\ cs2 = Append(cs, c)
    BY <1>1, <1>2, <1>4, <1>5, <1>6, <1>7, <1>8, <1>10 DEF EnterLambda, Visit
  <1>12. w \in Entered /\ w # "function"
    BY <1>7 DEF Entered
  <1>13. names \in Seq(Names \cup {Iter}) /\ IsInjective(names)
    <2>1. CASE p = NoName
      BY <1>8, <2>1 DEF OptionalName, IsInjective
    <2>2. CASE p # NoName
      <3>1. names = <<p>> /\ p \in Names \cup {Iter}
        BY <1>8, <2>2 DEF OptionalName
      <3>2. DOMAIN names = 1..1 /\ \A i, j \in 1..1 : i = j
        BY <3>1
      <3> QED
        BY <3>1, <3>2 DEF IsInjective
    <2> QED
      BY <2>1, <2>2
  <1>14. c.scope_depth = IF w = "lambda" THEN 0 ELSE 1
    BY <1>7, <1>9
  <1>15. w \notin Holding
    BY <1>7 DEF Holding
  <1>16. \E C2, D2 : Inv(C2, D2, path2, cs2) /\ Higher(C, D, C2, D2, Len(path), w)
    BY <1>3, <1>7, <1>9, <1>11, <1>12, <1>13, <1>14, <1>15, EnterStep
  <1> QED
    BY <1>4, <1>5, <1>16 DEF Holds

(* compile_lambda, from its body on.                                       *)
LEMMA LeaveLambdaKeeps ==
  ASSUME IInv, LeaveLambda
  PROVE  Holds(nest', ctxs')
  <1>1. PICK path : path = nest
    OBVIOUS
  <1>2. PICK cs : cs = ctxs
    OBVIOUS
  <1>3. PICK C, D : Inv(C, D, path, cs)
    BY <1>1, <1>2 DEF IInv, Holds
  <1>4. PICK path2 : path2 = nest'
    OBVIOUS
  <1>5. PICK cs2 : cs2 = ctxs'
    OBVIOUS
  <1>6. Inner.what = "lambda" /\ path2 = Front(path) /\ cs2 = Front(cs)
    BY <1>1, <1>2, <1>4, <1>5 DEF LeaveLambda, Visit
  <1>7. path # <<>> /\ path[Len(path)].what = "lambda"
    BY <1>1, <1>6, InnerIs
  <1>8. /\ path[Len(path)].what \in Entered \cup {"class"}
        /\ cs2 = IF path[Len(path)].what = "class" THEN cs ELSE Front(cs)
    BY <1>6, <1>7 DEF Entered
  <1>9. Inv(C, D, path2, cs2)
    BY <1>3, <1>6, <1>7, <1>8, LeaveStep
  <1> QED
    BY <1>4, <1>5, <1>9 DEF Holds

(* A function is left from its body.                                       *)
LEMMA BodyLeft ==
  ASSUME NEW C, NEW D, NEW path, NEW cs, NEW what \in {"function", "method"},
         Inv(C, D, path, cs), Len(path) > 1, path[Len(path)].what = "block",
         path[Len(path) - 1].what = what
  PROVE  Inv(C, D, Front(Front(path)), Front(cs)) /\ Len(cs) > 1
  <1>1. PICK n \in Nat : n = Len(path) /\ n > 1 /\ n \in 1..n
    BY PathFacts DEF Inv
  <1>2. path # <<>>
    BY <1>1, PathFacts DEF Inv
  <1>3. PICK t \in Nat : t = Len(cs) /\ t \in 1..t
    BY CtxsFacts DEF Inv
  <1>4. PICK d : d = EndScope(cs[t])
    OBVIOUS
  <1>5. PICK path1 : path1 = Front(path)
    OBVIOUS
  <1>6. PICK cs1 : cs1 = TopSet(cs, d)
    OBVIOUS
  <1>7. path[Len(path)].what \in Opening
    BY DEF Opening
  <1>8. d = EndScope(cs[Len(cs)])
    BY <1>3, <1>4
  <1>9. Inv(C, D, path1, cs1) /\ Well(d)
    BY <1>2, <1>5, <1>6, <1>7, <1>8, ScopeLeft
  <1>10. Shrunk(path, path1)
    BY <1>2, <1>5, PopPath DEF Inv
  <1>11. Len(path1) = n - 1 /\ path1[n - 1].what = what
    <2>1. n - 1 \in 1..n - 1
      BY <1>1
    <2> QED
      BY <1>1, <1>10, <2>1 DEF Shrunk
  <1>12. path1 # <<>> /\ path1[Len(path1)].what = what
    <2>1. Len(path1) # 0
      BY <1>1, <1>11
    <2> QED
      BY <1>9, <1>11, <2>1, PathFacts DEF Inv
  <1>13. /\ path1[Len(path1)].what \in Entered \cup {"class"}
         /\ path1[Len(path1)].what # "class"
    BY <1>12 DEF Entered
  <1>14. Inv(C, D, Front(path1), Front(cs1)) /\ Len(cs1) > 1
    <2>1. PICK cs2 : cs2 = Front(cs1)
      OBVIOUS
    <2>2. cs2 = IF path1[Len(path1)].what = "class" THEN cs1 ELSE Front(cs1)
      BY <1>13, <2>1
    <2> QED
      BY <1>9, <1>12, <1>13, <2>1, <2>2, LeaveStep
  <1>15. /\ Len(cs1) = t
         /\ \A i \in 1..t : cs1[i] = IF i = t THEN d ELSE cs[i]
    BY <1>3, <1>6, <1>9, SetCtxs DEF Inv
  <1>16. Front(cs1) = Front(cs)
    <2>1. Front(cs1) = [i \in 1..t - 1 |-> cs1[i]] /\ Front(cs) = [i \in 1..t - 1 |-> cs[i]]
      BY <1>3, <1>15 DEF Front
    <2>2. \A i \in 1..t - 1 : i \in 1..t /\ i # t
      BY <1>3
    <2>3. \A i \in 1..t - 1 : cs1[i] = cs[i]
      BY <1>15, <2>2
    <2> QED
      BY <2>1, <2>3
  <1> QED
    BY <1>3, <1>5, <1>14, <1>15, <1>16

(* compile_class_decl, from a method's body on.                            *)
LEMMA LeaveMethodKeeps ==
  ASSUME IInv, LeaveMethod
  PROVE  Holds(nest', ctxs')
  <1>1. PICK path : path = nest
    OBVIOUS
  <1>2. PICK cs : cs = ctxs
    OBVIOUS
  <1>3. PICK C, D : Inv(C, D, path, cs)
    BY <1>1, <1>2 DEF IInv, Holds
  <1>4. nest' = Front(Front(path)) /\ ctxs' = Front(cs)
    BY <1>1, <1>2 DEF LeaveMethod, Visit
  <1>5. Len(path) > 1 /\ path[Len(path) - 1].what = "method" /\ Inner.what = "block"
    BY <1>1 DEF LeaveMethod, InBody
  <1>6. path[Len(path)].what = "block"
    BY <1>1, <1>5, InnerIs
  <1>7. Inv(C, D, Front(Front(path)), Front(cs))
    BY <1>3, <1>5, <1>6, BodyLeft
  <1> QED
    BY <1>4, <1>7 DEF Holds

(* The end of compile_class.                                               *)
LEMMA LeaveClassKeeps ==
  ASSUME IInv, LeaveClass
  PROVE  Holds(nest', ctxs')
  <1>1. PICK path : path = nest
    OBVIOUS
  <1>2. PICK cs : cs = ctxs
    OBVIOUS
  <1>3. PICK C, D : Inv(C, D, path, cs)
    BY <1>1, <1>2 DEF IInv, Holds
  <1>4. PICK path2 : path2 = nest'
    OBVIOUS
  <1>5. PICK cs2 : cs2 = ctxs'
    OBVIOUS
  <1>6. Inner.what = "class" /\ path2 = Front(path) /\ cs2 = cs
    BY <1>1, <1>2, <1>4, <1>5 DEF LeaveClass, Visit
  <1>7. path # <<>> /\ path[Len(path)].what = "class"
    BY <1>1, <1>6, InnerIs
  <1>8. /\ path[Len(path)].what \in Entered \cup {"class"}
        /\ cs2 = IF path[Len(path)].what = "class" THEN cs ELSE Front(cs)
    BY <1>6, <1>7 DEF Entered
  <1>9. Inv(C, D, path2, cs2)
    BY <1>3, <1>6, <1>7, <1>8, LeaveStep
  <1> QED
    BY <1>4, <1>5, <1>9 DEF Holds

(* compile_func_decl, from its body on: the script's context has no local  *)
(* to define.                                                              *)
LEMMA LeaveFunctionKeeps ==
  ASSUME IInv, NEW n \in Names, LeaveFunction(n)
  PROVE  Holds(nest', ctxs')
  <1>1. PICK path : path = nest
    OBVIOUS
  <1>2. PICK cs : cs = ctxs
    OBVIOUS
  <1>3. PICK C, D : Inv(C, D, path, cs)
    BY <1>1, <1>2 DEF IInv, Holds
  <1>4. PICK path2 : path2 = nest'
    OBVIOUS
  <1>5. PICK cs2 : cs2 = ctxs'
    OBVIOUS
  <1>6. Len(path) > 1 /\ path[Len(path) - 1].what = "function" /\ Inner.what = "block"
    BY <1>1 DEF LeaveFunction, InBody
  <1>7. path[Len(path)].what = "block"
    BY <1>1, <1>6, InnerIs
  <1>8. PICK cs1 : cs1 = Front(cs)
    OBVIOUS
  <1>9. PICK path1 : path1 = Front(Front(path))
    OBVIOUS
  <1>10. Inv(C, D, path1, cs1) /\ Len(cs) > 1
    BY <1>3, <1>6, <1>7, <1>8, <1>9, BodyLeft
  <1>11. path1 = <<>>
    <2>1. Len(path) \in Nat /\ path # <<>> /\ PathOK(path)
      BY <1>3, <1>6, PathFacts DEF Inv
    <2>2. Len(path) = 2
      <3>1. Len(path) - 1 \in 1..Len(path)
        BY <1>6, <2>1
      <3>2. Len(path) - 1 = 1
        BY <1>6, <2>1, <3>1 DEF PathOK
      <3> QED
        BY <2>1, <3>2
    <2>3. PICK path0 : path0 = Front(path)
      OBVIOUS
    <2>4. PathOK(path0) /\ Shrunk(path, path0)
      BY <2>1, <2>3, PopPath
    <2>5. Len(path0) \in Nat /\ (path0 = <<>> <=> Len(path0) = 0)
      BY <2>4, PathFacts, Zenon
    <2>6. Len(path0) = 1 /\ path0 # <<>>
      <3>1. PICK m \in Nat : m = Len(path0)
        BY <2>5, Zenon
      <3>2. m + 1 = 2
        BY <2>2, <2>4, <3>1, Zenon DEF Shrunk
      <3>3. Len(path0) = 1 /\ Len(path0) # 0
        BY <3>1, <3>2
      <3> QED
        BY <2>5, <3>3, Zenon
    <2>7. PathOK(path1) /\ Shrunk(path0, path1)
      BY <1>9, <2>3, <2>4, <2>6, PopPath
    <2>8. Len(path1) \in Nat /\ (path1 = <<>> <=> Len(path1) = 0)
      BY <2>7, PathFacts, Zenon
    <2>9. Len(path0) = Len(path1) + 1
      BY <2>7 DEF Shrunk
    <2>10. Len(path1) = 0
      <3>1. PICK m \in Nat : m = Len(path1)
        BY <2>8, Zenon
      <3>2. 1 = m + 1
        BY <2>6, <2>9, <3>1, Zenon
      <3> QED
        BY <3>1, <3>2
    <2> QED
      BY <2>8, <2>10, Zenon
  <1>12. CtxsOK(cs1) /\ Len(cs1) = Len(cs) - 1
    BY <1>3, <1>8, <1>10, PopCtxs DEF Inv
  <1>13. cs1[Len(cs1)].scope_depth = 0
    BY <1>10, <1>11, ScriptTop
  <1>14. Define(cs1[Len(cs1)]) = cs1[Len(cs1)]
    BY <1>13 DEF Define
  <1>15. TopSet(cs1, cs1[Len(cs1)]) = cs1
    BY <1>12, SetItself
  <1>16. cs2 = TopSet(cs1, Define(cs1[Len(cs1)]))
    <2>1. cs2 = [cs1 EXCEPT ![Len(cs) - 1] = Define(@)]
      BY <1>2, <1>5, <1>8 DEF LeaveFunction, Visit
    <2> QED
      BY <1>12, <2>1 DEF TopSet
  <1>17. path2 = <<>>
    BY <1>1, <1>4, <1>9, <1>11 DEF LeaveFunction, Visit, Noted
  <1> QED
    BY <1>4, <1>5, <1>10, <1>11, <1>14, <1>15, <1>16, <1>17 DEF Holds

(* A name in an expression.                                                *)
LEMMA UseNameKeeps ==
  ASSUME IInv, NEW n, UseName(n)
  PROVE  Holds(nest', ctxs')
  <1>1. PICK path : path = nest
    OBVIOUS
  <1>2. PICK cs : cs = ctxs
    OBVIOUS
  <1>3. PICK C, D : Inv(C, D, path, cs)
    BY <1>1, <1>2 DEF IInv, Holds
  <1>4. PICK path2 : path2 = nest'
    OBVIOUS
  <1>5. PICK cs2 : cs2 = ctxs'
    OBVIOUS
  <1>6. path2 = path /\ cs2 = Named(cs, n).ctxs
    BY <1>1, <1>2, <1>4, <1>5 DEF UseName
  <1>7. Marked(cs, cs2)
    BY <1>3, <1>6, NamedIs DEF Inv
  <1> QED
    BY <1>3, <1>4, <1>5, <1>6, <1>7, MarkedStep DEF Holds

(* The compiler's tables fit the path in the initial state.                *)
LEMMA InitHolds ==
  ASSUME Init
  PROVE  IInv
  <1>1. PICK cs : cs = ctxs
    OBVIOUS
  <1>2. PICK path : path = nest
    OBVIOUS
  <1>3. PICK c : c = Context(TRUE)
    BY Zenon
  <1>4. path = <<>> /\ Len(path) = 0 /\ cs = <<c>>
    BY <1>1, <1>2, <1>3 DEF Init
  <1>5. c.locals = <<>> /\ c.scope_depth = 0
        /\ DOMAIN c = {"locals", "upvalues", "scope_depth", "from"}
    BY <1>3 DEF Context
  <1>6. Well(c) /\ Size(c) = 0
    <2>1. <<>> \in Seq(Locals(Int)) /\ 0 \in Nat /\ Len(<<>>) = 0
      OBVIOUS
    <2>2. Well(c)
      BY <1>5, <2>1, Zenon DEF Well
    <2>3. Size(c) = 0
      BY <1>5, <2>1, Zenon DEF Size
    <2> QED
      BY <2>2, <2>3
  <1>7. cs \in Seq(Range(cs)) /\ Len(cs) = 1 /\ cs[1] = c
    <2>1. Len(cs) = 1 /\ cs[1] = c /\ DOMAIN cs = 1..1
      BY <1>4
    <2>2. Range(cs) = {c}
      BY <2>1 DEF Range
    <2>3. cs \in Seq({c})
      BY <1>4
    <2> QED
      BY <2>1, <2>2, <2>3
  <1>8. CtxsOK(cs)
    BY <1>6, <1>7 DEF CtxsOK
  <1>9. PathOK(path)
    BY <1>4 DEF PathOK
  <1>10. PICK C \in [Nat -> Nat] : \A k \in Nat : C[k] = 1
    <2>1. [k \in Nat |-> 1] \in [Nat -> Nat]
      OBVIOUS
    <2> QED
      BY <2>1
  <1>11. PICK D \in [Nat -> Nat] : \A k \in Nat : D[k] = 0
    <2>1. [k \in Nat |-> 0] \in [Nat -> Nat]
      OBVIOUS
    <2> QED
      BY <2>1
  <1>12. Climbs(C, D, path)
    <2>1. \A k \in 0..0 : k \in Nat
      OBVIOUS
    <2> QED
      BY <1>4, <1>10, <1>11, <2>1 DEF Climbs
  <1>13. Aligned(C, D, path, cs)
    <2>1. \A k \in 0..0 : k = 0
      OBVIOUS
    <2> QED
      BY <1>4, <1>5, <1>7, <1>10, <1>11, <2>1 DEF Aligned
  <1>14. KeepsNames(C, D, path, cs)
    BY <1>4 DEF KeepsNames
  <1>15. InOrder(C, D, path, c, 1)
    BY <1>4, <1>6 DEF InOrder, PendsAt
  <1>16. StuckOrInOrder(C, D, path, cs)
    <2>1. \A i \in 1..1 : i = 1
      OBVIOUS
    <2> QED
      BY <1>7, <1>15, <2>1 DEF StuckOrInOrder
  <1>17. Inv(C, D, path, cs)
    BY <1>8, <1>9, <1>12, <1>13, <1>14, <1>16 DEF Inv
  <1> QED
    BY <1>1, <1>2, <1>17 DEF IInv, Holds

-----------------------------------------------------------------------------
(* The invariant holds after every step of the compiler.                   *)
LEMMA StepHolds ==
  ASSUME FunctionsAtTop, IInv, [Next]_vars
  PROVE  IInv'
  <1>1. CASE UNCHANGED vars
    BY <1>1 DEF vars, IInv
  <1>2. ASSUME Next PROVE Holds(nest', ctxs')
    <2>1. CASE \E n \in Names : EnterVar(n)
      BY <2>1, EnterVarKeeps
    <2>2. CASE \E n \in Names : LeaveIterable(n)
      BY <2>2, LeaveIterableKeeps
    <2>3. CASE \E n \in Names : LeaveFunction(n)
      BY <2>3, LeaveFunctionKeeps
    <2>4. CASE \E n \in Names, parent \in Names \cup {NoName} : EnterClass(n, parent)
      BY <2>4, EnterClassKeeps
    <2>5. CASE \E n \in Names \cup {This} : UseName(n)
      BY <2>5, UseNameKeeps
    <2>6. CASE \E p \in Names \cup {NoName} : EnterFor(p)
      BY <2>6, EnterForKeeps
    <2>7. CASE EnterFunction
      BY <2>7, EnterFunctionKeeps
    <2>8. CASE \E p \in Names \cup {NoName} : EnterLambda(p)
      BY <2>8, EnterLambdaKeeps
    <2>9. CASE EnterMethod
      BY <2>9, EnterMethodKeeps
    <2>10. CASE LeaveVar
      BY <2>10, LeaveVarKeeps
    <2>11. CASE EnterBlock
      BY <2>11, EnterBlockKeeps
    <2>12. CASE LeaveScope
      BY <2>12, LeaveScopeKeeps
    <2>13. CASE EnterForeach
      BY <2>13, EnterForeachKeeps
    <2>14. CASE LeaveLambda
      BY <2>14, LeaveLambdaKeeps
    <2>15. CASE LeaveMethod
      BY <2>15, LeaveMethodKeeps
    <2>16. CASE LeaveClass
      BY <2>16, LeaveClassKeeps
    <2>17. CASE \E n \in Names : AddParameter(n)
      BY <2>17, AddParameterKeeps
    <2>18. CASE EnterBody
      BY <2>18, EnterBodyKeeps
    <2> QED
      BY <1>2, <2>1, <2>2, <2>3, <2>4, <2>5, <2>6, <2>7, <2>8, <2>9, <2>10, <2>11,
         <2>12, <2>13, <2>14, <2>15, <2>16, <2>17, <2>18, Zenon DEF Next
  <1>3. ASSUME Holds(nest', ctxs') PROVE IInv'
    BY <1>3 DEF IInv
  <1> QED
    BY <1>1, <1>2, <1>3

(* In programs whose functions are all declared at the top of the script,  *)
(* the tables, the depths and the nesting fit together at every step of    *)
(* the compiler (compiler.c): each context is as deep as the constructs    *)
(* that are open in it, every name a block has declared has a local of     *)
(* that depth, and all locals are in order or are what a loop left behind. *)
THEOREM TablesFit ==
  ASSUME FunctionsAtTop
  PROVE  Spec => []IInv
  <1>1. Init => IInv
    BY InitHolds
  <1>2. IInv /\ [Next]_vars => IInv'
    BY StepHolds
  <1> QED
    BY <1>1, <1>2, PTL DEF Spec

(* In these programs no scope gets two variables of one name, whatever is  *)
(* declared, nested and left before (declare_variable).                    *)
THEOREM ScopesHaveNoDuplicates ==
  ASSUME FunctionsAtTop
  PROVE  Spec => []NoDuplicates
  <1>1. IInv => NoDuplicates
    <2>1. SUFFICES ASSUME IInv PROVE NoDuplicates
      OBVIOUS
    <2>2. PICK path : path = nest
      OBVIOUS
    <2>3. PathOK(path)
      BY <2>1, <2>2 DEF IInv, Holds, Inv
    <2>4. DOMAIN path = 1..Len(path) /\ \A k \in 1..Len(path) : IsInjective(path[k].names)
      BY <2>3 DEF PathOK
    <2> QED
      BY <2>2, <2>4 DEF NoDuplicates
  <1> QED
    BY <1>1, TablesFit, PTL

-----------------------------------------------------------------------------
(* What a name that is refused has against it.                             *)
Excused(path, c, n) ==
  \/ path # <<>> /\ Contains(path[Len(path)].names, n)
  \/ Len(c.locals) >= LocalsMax
  \/ \E k \in DOMAIN c.locals : c.locals[k].name = Iter

(* What a loop left behind is in the table.                                *)
LEMMA IterInTable ==
  ASSUME NEW C, NEW D, NEW path, NEW c, NEW i, NEW p, Well(c), StuckAt(C, D, path, c, i, p)
  PROVE  \E k \in DOMAIN c.locals : c.locals[k].name = Iter
  <1>1. p \in 1..Len(c.locals) /\ c.locals[p].name = Iter
    BY DEF StuckAt, Size, NameAt
  <1>2. DOMAIN c.locals = 1..Len(c.locals)
    BY DEF Well
  <1> QED
    BY <1>1, <1>2

(* Place p of table c is of no scope outside depth s.                      *)
NotOuter(c, p, s) == DepthAt(c, p) = -1 \/ DepthAt(c, p) >= s

(* A construct of function t at depth s or deeper has noted n.             *)
NotesDeep(C, D, path, t, s, n) ==
  \E k \in 1..Len(path) :
    C[k] = t /\ D[k] \in Nat /\ D[k] >= s /\ Contains(path[k].names, n)

(* A local that is not of an outer scope is noted in a deep scope.         *)
LEMMA NotedDeep ==
  ASSUME NEW C, NEW D, NEW path, NEW cs, NEW t, NEW c, NEW p, NEW s \in Nat \ {0},
         Inv(C, D, path, cs), t = Len(cs), c = cs[t],
         path # <<>> => path[Len(path)].what \notin Pending,
         InOrder(C, D, path, c, t), p \in 1..Size(c), NotOuter(c, p, s)
  PROVE  NotesDeep(C, D, path, t, s, NameAt(c, p))
  <1>1. Well(c) /\ DepthAt(c, p) \in Int
    <2>1. Well(c)
      BY CtxsFacts DEF Inv
    <2> QED
      BY <2>1, TableFacts
  <1>2. DepthAt(c, p) # 0
    BY <1>1 DEF NotOuter
  <1>3. PICK k \in Nat : NotedAt(C, D, path, c, t, p, k)
    BY <1>2 DEF InOrder
  <1>4. \A j \in Nat : ~PendsAt(C, D, path, t, j)
    BY NothingOpen
  <1>5. k + 1 \in Nat
    BY <1>3
  <1>6. k \in 1..Len(path) /\ C[k] = t /\ Contains(path[k].names, NameAt(c, p))
        /\ DepthAt(c, p) = D[k]
    BY <1>3, <1>4, <1>5 DEF NotedAt
  <1>7. D[k] \in Nat
    BY <1>3, ClimbFacts DEF Inv
  <1>8. D[k] >= s
    BY <1>6, <1>7 DEF NotOuter
  <1> QED
    BY <1>6, <1>7, <1>8 DEF NotesDeep

(* A declaration in a block or a function is refused with reason.          *)
LEMMA BlockRefuses ==
  ASSUME NEW C, NEW D, NEW path, NEW cs, NEW c, NEW n, Inv(C, D, path, cs),
         c = cs[Len(cs)], path # <<>> => path[Len(path)].what \in Holding, Rejected(c, n)
  PROVE  Excused(path, c, n)
  <1>1. PICK t \in Nat : t = Len(cs) /\ t \in 1..t
    BY CtxsFacts DEF Inv
  <1>2. Well(c) /\ c.scope_depth \in Nat \ {0}
    <2>1. Well(c)
      BY CtxsFacts DEF Inv
    <2> QED
      BY <2>1 DEF Well, Rejected
  <1>3. PICK s \in Nat \ {0} : s = c.scope_depth
    BY <1>2
  <1>4. path # <<>> /\ path[Len(path)].what \in Holding
    <2>1. path # <<>>
      BY <1>2, ScriptTop
    <2> QED
      BY <2>1
  <1>5. PICK N \in Nat : N = Len(path) /\ N \in 1..N
    <2>1. Len(path) \in Nat /\ Len(path) # 0
      BY <1>4, PathFacts DEF Inv
    <2> QED
      BY <2>1
  <1>6. C[N] = t /\ s = D[N]
    <2>1. C[N] = t
      BY <1>1, <1>5 DEF Inv, Aligned
    <2>2. s = D[N]
      BY <1>3, <1>5, InContexts DEF Inv
    <2> QED
      BY <2>1, <2>2
  <1>7. CASE Clash(c, n) /\ InOrder(C, D, path, c, t)
    <2>1. PICK p \in 1..Len(c.locals) :
            /\ c.locals[p].name = n
            /\ \A j \in p..Len(c.locals) :
                 c.locals[j].depth = -1 \/ c.locals[j].depth >= c.scope_depth
      BY <1>7 DEF Clash
    <2>2. p \in p..Len(c.locals)
      BY <1>2, <2>1 DEF Well
    <2>3. p \in 1..Size(c) /\ NameAt(c, p) = n /\ NotOuter(c, p, s)
      BY <1>3, <2>1, <2>2 DEF Size, NameAt, DepthAt, NotOuter
    <2>4. c = cs[t] /\ path[Len(path)].what \notin Pending
      BY <1>1, <1>4 DEF Pending, Holding
    <2>9. NotesDeep(C, D, path, t, s, NameAt(c, p))
      BY <1>1, <1>7, <2>3, <2>4, NotedDeep
    <2>5. PICK k \in 1..Len(path) :
            C[k] = t /\ D[k] \in Nat /\ D[k] >= s /\ Contains(path[k].names, NameAt(c, p))
      BY <2>9 DEF NotesDeep
    <2>6. k = N
      <3>1. SUFFICES ASSUME k # N PROVE FALSE
        OBVIOUS
      <3>2. k \in 0..N - 1 /\ N \in 1..Len(path) /\ Len(path) \in Nat
        BY <1>5, <2>5, <3>1
      <3>3. C[k] = C[N] /\ path[N].what \in Opening \cup Entered
        BY <1>4, <1>5, <1>6, <2>5 DEF Opening, Entered, Holding
      <3>4. D[k] < D[N]
        <4>1. CASE path[N].what \in Opening
          BY <3>2, <3>3, <4>1, Deeper DEF Inv
        <4>2. CASE path[N].what \in Entered
          <5>1. N - 1 \in 0..Len(path) /\ k \in 0..Len(path) /\ k <= N - 1
            BY <3>2
          <5>2. C[k] <= C[N - 1]
            <6>1. \A i, j \in 0..Len(path) : i <= j => C[i] <= C[j]
              BY DEF Inv, Climbs
            <6> QED
              BY <5>1, <6>1
          <5>3. C[N] = C[N - 1] + 1
            <6>1. \A i \in 1..Len(path) :
                    C[i] = IF path[i].what \in Entered THEN C[i - 1] + 1 ELSE C[i - 1]
              BY DEF Inv, Climbs
            <6> QED
              BY <3>2, <4>2, <6>1
          <5>4. C[N - 1] \in Nat /\ C[k] \in Nat
            <6>1. C \in [Nat -> Nat]
              BY DEF Inv, Climbs
            <6>2. N - 1 \in Nat /\ k \in Nat
              BY <3>2
            <6> QED
              BY <6>1, <6>2
          <5> QED
            BY <3>2, <3>3, <5>2, <5>3, <5>4
        <4> QED
          BY <3>3, <4>1, <4>2
      <3>5. D[k] < s /\ D[k] >= s /\ D[k] \in Nat
        BY <1>6, <2>5, <3>4
      <3> QED
        BY <3>5
    <2> QED
      BY <1>4, <1>5, <2>3, <2>5, <2>6 DEF Excused
  <1>8. CASE \E p \in Nat : StuckAt(C, D, path, c, t, p)
    BY <1>2, <1>8, IterInTable DEF Excused
  <1>9. CASE Len(c.locals) >= LocalsMax
    BY <1>9 DEF Excused
  <1>10. (\E p \in Nat : StuckAt(C, D, path, c, t, p)) \/ InOrder(C, D, path, c, t)
    BY <1>1, InvTop DEF TopStuckOrInOrder
  <1> QED
    BY <1>7, <1>8, <1>9, <1>10 DEF Rejected

(* A loop's scope is new: only a full table refuses its variable.          *)
LEMMA LoopRefuses ==
  ASSUME NEW C, NEW D, NEW path, NEW cs, NEW c, NEW n, Inv(C, D, path, cs),
         c = cs[Len(cs)], path # <<>> => path[Len(path)].what \notin Pending,
         Rejected(BeginScope(c), n)
  PROVE  Excused(path, c, n)
  <1>1. PICK t \in Nat : t = Len(cs) /\ t \in 1..t
    BY CtxsFacts DEF Inv
  <1>2. PICK b : b = BeginScope(c)
    OBVIOUS
  <1>3. Well(c)
    BY CtxsFacts DEF Inv
  <1>4. b.locals = c.locals /\ b.scope_depth = c.scope_depth + 1
    BY <1>2, <1>3 DEF BeginScope, Well
  <1>5. PICK N \in Nat : N = Len(path)
    BY PathFacts DEF Inv
  <1>6. C[N] = t /\ c.scope_depth = D[N] /\ D[N] \in Nat
    <2>1. C[N] = t
      BY <1>1, <1>5 DEF Inv, Aligned
    <2>2. c.scope_depth = D[N]
      BY <1>5, InContexts DEF Inv
    <2>3. D[N] \in Nat
      BY ClimbFacts DEF Inv
    <2> QED
      BY <2>1, <2>2, <2>3
  <1>7. PICK s \in Nat \ {0} : s = D[N] + 1
    BY <1>6
  <1>8. CASE Clash(b, n) /\ InOrder(C, D, path, c, t)
    <2>1. PICK p \in 1..Len(b.locals) :
            /\ b.locals[p].name = n
            /\ \A j \in p..Len(b.locals) :
                 b.locals[j].depth = -1 \/ b.locals[j].depth >= b.scope_depth
      BY <1>8 DEF Clash
    <2>2. p \in p..Len(c.locals)
      BY <1>3, <1>4, <2>1 DEF Well
    <2>3. b.scope_depth = s
      BY <1>4, <1>6, <1>7
    <2>10. \A j \in p..Len(c.locals) : c.locals[j].depth = -1 \/ c.locals[j].depth >= s
      BY <1>4, <2>1, <2>3
    <2>4. p \in 1..Size(c) /\ NotOuter(c, p, s)
      BY <1>4, <2>1, <2>2, <2>10 DEF Size, DepthAt, NotOuter
    <2>5. c = cs[t]
      BY <1>1
    <2>9. NotesDeep(C, D, path, t, s, NameAt(c, p))
      BY <1>1, <1>8, <2>4, <2>5, NotedDeep
    <2>6. PICK k \in 1..Len(path) : C[k] = t /\ D[k] \in Nat /\ D[k] >= s
      BY <2>9 DEF NotesDeep
    <2>7. k \in 0..N /\ N \in 0..N /\ k <= N
      BY <1>5, <2>6
    <2>12. \A j, i \in 0..Len(path) : j <= i => C[j] <= C[i] /\ (C[j] = C[i] => D[j] <= D[i])
      BY DEF Inv, Climbs
    <2>8. D[k] <= D[N]
      BY <1>5, <1>6, <2>6, <2>7, <2>12
    <2>11. D[N] \in Nat /\ s = D[N] + 1
      BY <1>6, <1>7
    <2> QED
      BY <2>6, <2>8, <2>11
  <1>9. CASE \E p \in Nat : StuckAt(C, D, path, c, t, p)
    BY <1>3, <1>9, IterInTable DEF Excused
  <1>10. CASE Len(b.locals) >= LocalsMax
    BY <1>4, <1>10 DEF Excused
  <1>11. (\E p \in Nat : StuckAt(C, D, path, c, t, p)) \/ InOrder(C, D, path, c, t)
    BY <1>1, InvTop DEF TopStuckOrInOrder
  <1> QED
    BY <1>2, <1>8, <1>9, <1>10, <1>11 DEF Rejected

(* When a for-each loop's variable is refused its hidden one is a local.   *)
LEMMA IterableRefuses ==
  ASSUME NEW C, NEW D, NEW path, NEW cs, NEW n, Inv(C, D, path, cs),
         path # <<>>, path[Len(path)].what = "iterable"
  PROVE  Excused(path, cs[Len(cs)], n)
  <1>1. PICK t : t = Len(cs)
    OBVIOUS
  <1>2. PICK m : m = Len(Front(path))
    OBVIOUS
  <1>11. PICK c : c = cs[t]
    OBVIOUS
  <1>12. AtLast(C, D, path, m, t, cs[t])
    BY <1>1, <1>2, LastPlace
  <1>3. /\ m \in Nat /\ Len(path) = m + 1 /\ Well(c)
        /\ C[m + 1] = t /\ c.scope_depth = D[m + 1] /\ c = cs[Len(cs)]
    BY <1>1, <1>11, <1>12 DEF AtLast
  <1>4. c.scope_depth # 0 /\ c.scope_depth \in Nat
    <2>1. c.scope_depth # 0
      BY <1>3, LoopDepth
    <2> QED
      BY <1>3, <2>1 DEF Well
  <1>5. D[m + 1] > 0 /\ path[m + 1].what = "iterable" /\ m + 1 \in Nat /\ m + 1 \in 1..m + 1
    BY <1>3, <1>4
  <1>6. PendsAt(C, D, path, t, m + 1)
    BY <1>3, <1>5 DEF PendsAt, Pending
  <1>7. ~InOrder(C, D, path, c, t)
    BY <1>5, <1>6 DEF InOrder
  <1>8. PICK p \in Nat : StuckAt(C, D, path, c, t, p)
    BY <1>1, <1>3, <1>7, <1>11, InvTop DEF TopStuckOrInOrder
  <1> QED
    BY <1>3, <1>8, IterInTable DEF Excused

-----------------------------------------------------------------------------
(* The compiler has stopped at n, and n has something against it.          *)
Refused(n) ==
  nest' = nest /\ ctxs' = ctxs /\ rejected' = n /\ Excused(nest, Here, n)

(* compile_var refuses a name for a reason.                                *)
LEMMA EnterVarReasons ==
  ASSUME IInv, NEW n \in Names, EnterVar(n)
  PROVE  rejected' = NoName \/ Refused(n)
  <1>1. PICK path : path = nest
    OBVIOUS
  <1>2. PICK cs : cs = ctxs
    OBVIOUS
  <1>3. PICK C, D : Inv(C, D, path, cs)
    BY <1>1, <1>2 DEF IInv, Holds
  <1>4. PICK c : c = cs[Len(cs)]
    OBVIOUS
  <1>5. c = Here
    BY <1>2, <1>4 DEF Here
  <1>6. CASE ~Rejected(c, n)
    BY <1>5, <1>6 DEF EnterVar, Visit, Compiling
  <1>7. CASE Rejected(c, n)
    <2>1. path # <<>> => path[Len(path)].what \in Holding
      BY <1>1, <1>3, DeclaresInBlock DEF EnterVar, Holding
    <2>2. Excused(path, c, n)
      BY <1>3, <1>4, <1>7, <2>1, BlockRefuses
    <2>3. nest' = nest /\ ctxs' = ctxs /\ rejected' = n
      BY <1>5, <1>7 DEF EnterVar, Reject
    <2> QED
      BY <1>1, <1>5, <2>2, <2>3 DEF Refused
  <1> QED
    BY <1>6, <1>7

(* compile_class refuses a name for a reason.                              *)
LEMMA EnterClassReasons ==
  ASSUME IInv, NEW n \in Names, NEW parent \in Names \cup {NoName}, EnterClass(n, parent)
  PROVE  rejected' = NoName \/ Refused(n)
  <1>1. PICK path : path = nest
    OBVIOUS
  <1>2. PICK cs : cs = ctxs
    OBVIOUS
  <1>3. PICK C, D : Inv(C, D, path, cs)
    BY <1>1, <1>2 DEF IInv, Holds
  <1>4. PICK c : c = cs[Len(cs)]
    OBVIOUS
  <1>5. c = Here
    BY <1>2, <1>4 DEF Here
  <1>6. CASE ~Rejected(c, n)
    BY <1>5, <1>6 DEF EnterClass, VisitNaming, Compiling
  <1>7. CASE Rejected(c, n)
    <2>1. path # <<>> => path[Len(path)].what \in Holding
      BY <1>1, <1>3, DeclaresInBlock DEF EnterClass, Holding
    <2>2. Excused(path, c, n)
      BY <1>3, <1>4, <1>7, <2>1, BlockRefuses
    <2>3. nest' = nest /\ ctxs' = ctxs /\ rejected' = n
      BY <1>5, <1>7 DEF EnterClass, Reject
    <2> QED
      BY <1>1, <1>5, <2>2, <2>3 DEF Refused
  <1> QED
    BY <1>6, <1>7

(* compile_for refuses a name for a reason.                                *)
LEMMA EnterForReasons ==
  ASSUME IInv, NEW p \in Names \cup {NoName}, EnterFor(p)
  PROVE  rejected' = NoName \/ Refused(p)
  <1>1. PICK path : path = nest
    OBVIOUS
  <1>2. PICK cs : cs = ctxs
    OBVIOUS
  <1>3. PICK C, D : Inv(C, D, path, cs)
    BY <1>1, <1>2 DEF IInv, Holds
  <1>4. PICK c : c = cs[Len(cs)]
    OBVIOUS
  <1>5. c = Here
    BY <1>2, <1>4 DEF Here
  <1>6. CASE p = NoName \/ ~Rejected(BeginScope(c), p)
    BY <1>5, <1>6 DEF EnterFor, Visit, Compiling
  <1>7. CASE p # NoName /\ Rejected(BeginScope(c), p)
    <2>1. path # <<>> => path[Len(path)].what \notin Pending
      BY <1>1, InnerIs DEF EnterFor, AtStatement, Pending
    <2>2. Excused(path, c, p)
      BY <1>3, <1>4, <1>7, <2>1, LoopRefuses
    <2>3. nest' = nest /\ ctxs' = ctxs /\ rejected' = p
      BY <1>5, <1>7 DEF EnterFor, Reject
    <2> QED
      BY <1>1, <1>5, <2>2, <2>3 DEF Refused
  <1> QED
    BY <1>6, <1>7

(* compile_foreach refuses its hidden variable for a reason.               *)
LEMMA EnterForeachReasons ==
  ASSUME IInv, EnterForeach
  PROVE  rejected' = NoName \/ Refused(Iter)
  <1>1. PICK path : path = nest
    OBVIOUS
  <1>2. PICK cs : cs = ctxs
    OBVIOUS
  <1>3. PICK C, D : Inv(C, D, path, cs)
    BY <1>1, <1>2 DEF IInv, Holds
  <1>4. PICK c : c = cs[Len(cs)]
    OBVIOUS
  <1>5. c = Here
    BY <1>2, <1>4 DEF Here
  <1>6. CASE ~Rejected(BeginScope(c), Iter)
    BY <1>5, <1>6 DEF EnterForeach, Visit, Compiling
  <1>7. CASE Rejected(BeginScope(c), Iter)
    <2>1. path # <<>> => path[Len(path)].what \notin Pending
      BY <1>1, InnerIs DEF EnterForeach, AtStatement, Pending
    <2>2. Excused(path, c, Iter)
      BY <1>3, <1>4, <1>7, <2>1, LoopRefuses
    <2>3. nest' = nest /\ ctxs' = ctxs /\ rejected' = Iter
      BY <1>5, <1>7 DEF EnterForeach, Reject
    <2> QED
      BY <1>1, <1>5, <2>2, <2>3 DEF Refused
  <1> QED
    BY <1>6, <1>7

(* compile_foreach refuses the loop's own variable for a reason.           *)
LEMMA LeaveIterableReasons ==
  ASSUME IInv, NEW n \in Names, LeaveIterable(n)
  PROVE  rejected' = NoName \/ Refused(n)
  <1>1. PICK path : path = nest
    OBVIOUS
  <1>2. PICK cs : cs = ctxs
    OBVIOUS
  <1>3. PICK C, D : Inv(C, D, path, cs)
    BY <1>1, <1>2 DEF IInv, Holds
  <1>4. cs[Len(cs)] = Here
    BY <1>2 DEF Here
  <1>5. CASE ~Rejected(Define(Here), n)
    BY <1>5 DEF LeaveIterable, VisitNaming, Compiling
  <1>6. CASE Rejected(Define(Here), n)
    <2>1. path # <<>> /\ path[Len(path)].what = "iterable"
      BY <1>1, InnerIs DEF LeaveIterable
    <2>2. Excused(path, cs[Len(cs)], n)
      BY <1>3, <2>1, IterableRefuses
    <2>3. nest' = nest /\ ctxs' = ctxs /\ rejected' = n
      BY <1>6 DEF LeaveIterable, Reject
    <2> QED
      BY <1>1, <1>4, <2>2, <2>3 DEF Refused
  <1> QED
    BY <1>5, <1>6

(* A parameter is refused for a reason.                                    *)
LEMMA AddParameterReasons ==
  ASSUME IInv, NEW n \in Names, AddParameter(n)
  PROVE  rejected' = NoName \/ Refused(n)
  <1>1. PICK path : path = nest
    OBVIOUS
  <1>2. PICK cs : cs = ctxs
    OBVIOUS
  <1>3. PICK C, D : Inv(C, D, path, cs)
    BY <1>1, <1>2 DEF IInv, Holds
  <1>4. PICK c : c = cs[Len(cs)]
    OBVIOUS
  <1>5. c = Here
    BY <1>2, <1>4 DEF Here
  <1>6. CASE ~Rejected(c, n)
    BY <1>5, <1>6 DEF AddParameter, Visit, Compiling
  <1>7. CASE Rejected(c, n)
    <2>1. path # <<>> => path[Len(path)].what \in Holding
      BY <1>1, ParametersIn DEF AddParameter
    <2>2. Excused(path, c, n)
      BY <1>3, <1>4, <1>7, <2>1, BlockRefuses
    <2>3. nest' = nest /\ ctxs' = ctxs /\ rejected' = n
      BY <1>5, <1>7 DEF AddParameter, Reject
    <2> QED
      BY <1>1, <1>5, <2>2, <2>3 DEF Refused
  <1> QED
    BY <1>6, <1>7

(* What was refused, if anything, has something against it.                *)
Reasoned == rejected # NoName => Excused(nest, Here, rejected)

(* Only the declarations refuse names; the other parts of the visit leave  *)
(* had_error alone.                                                        *)
LEMMA OthersAccept ==
  ASSUME Next,
         ~\E n \in Names : EnterVar(n) \/ LeaveIterable(n) \/ AddParameter(n),
         ~\E n \in Names, parent \in Names \cup {NoName} : EnterClass(n, parent),
         ~\E p \in Names \cup {NoName} : EnterFor(p),
         ~EnterForeach
  PROVE  rejected' = NoName
  <1>1. CASE \E n \in Names : LeaveFunction(n)
    BY <1>1 DEF LeaveFunction, Visit, Compiling
  <1>2. CASE \E n \in Names \cup {This} : UseName(n)
    BY <1>2 DEF UseName, Compiling
  <1>3. CASE EnterFunction
    <2>1. Compiling /\ EnterCode("function")
      BY <1>3, Zenon DEF EnterFunction
    <2> QED
      BY <2>1 DEF EnterCode, Visit, Compiling
  <1>4. CASE \E p \in Names \cup {NoName} : EnterLambda(p)
    BY <1>4 DEF EnterLambda, Visit, Compiling
  <1>5. CASE EnterMethod \/ EnterBody
    BY <1>5 DEF EnterMethod, EnterBody, EnterCode, Visit, Compiling
  <1>6. CASE LeaveVar \/ EnterBlock \/ LeaveScope
    BY <1>6 DEF LeaveVar, EnterBlock, LeaveScope, Visit, Compiling
  <1>7. CASE LeaveLambda \/ LeaveMethod \/ LeaveClass
    BY <1>7 DEF LeaveLambda, LeaveMethod, LeaveClass, Visit, Compiling
  <1> QED
    BY <1>1, <1>2, <1>3, <1>4, <1>5, <1>6, <1>7, Zenon DEF Next

(* A step that refuses a name does it for a reason.                        *)
LEMMA StepReasons ==
  ASSUME IInv, Reasoned, [Next]_vars
  PROVE  Reasoned'
  <1>1. CASE UNCHANGED vars
    BY <1>1 DEF vars, Reasoned, Here
  <1>2. ASSUME rejected' = NoName PROVE Reasoned'
    BY <1>2 DEF Reasoned
  <1>3. ASSUME NEW n, Refused(n) PROVE Reasoned'
    BY <1>3 DEF Refused, Reasoned, Here
  <1>4. CASE Next
    <2>1. CASE \E n \in Names : EnterVar(n)
      BY <1>2, <1>3, <2>1, EnterVarReasons
    <2>2. CASE \E n \in Names : LeaveIterable(n)
      BY <1>2, <1>3, <2>2, LeaveIterableReasons
    <2>3. CASE \E n \in Names, parent \in Names \cup {NoName} : EnterClass(n, parent)
      BY <1>2, <1>3, <2>3, EnterClassReasons
    <2>4. CASE \E p \in Names \cup {NoName} : EnterFor(p)
      BY <1>2, <1>3, <2>4, EnterForReasons
    <2>5. CASE EnterForeach
      BY <1>2, <1>3, <2>5, EnterForeachReasons
    <2>6. CASE \E n \in Names : AddParameter(n)
      BY <1>2, <1>3, <2>6, AddParameterReasons
    <2> QED
      BY <1>2, <1>4, <2>1, <2>2, <2>3, <2>4, <2>5, <2>6, OthersAccept
  <1> QED
    BY <1>1, <1>4

(* In these programs a declaration is refused only if its own scope has    *)
(* the name already, or the table is full, or a for-each loop left         *)
(* variables behind in the function (declare_variable, add_local).         *)
THEOREM RefusedWithReason ==
  ASSUME FunctionsAtTop
  PROVE  Spec => []OnlyDuplicatesRefused
  <1>1. Init => Reasoned
    BY DEF Init, Reasoned
  <1>2. IInv /\ Reasoned /\ [Next]_vars => Reasoned'
    BY StepReasons
  <1>3. Reasoned => OnlyDuplicatesRefused
    <2>1. SUFFICES ASSUME rejected # NoName, Excused(nest, Here, rejected)
                   PROVE  OnlyDuplicatesRefused
      BY DEF Reasoned, OnlyDuplicatesRefused
    <2>2. nest # <<>> => Inner = nest[Len(nest)]
      BY DEF Inner
    <2> QED
      BY <2>1, <2>2 DEF Excused, OnlyDuplicatesRefused
  <1> QED
    BY <1>1, <1>2, <1>3, TablesFit, PTL DEF Spec
=============================================================================
