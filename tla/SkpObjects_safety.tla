-------------------------- MODULE SkpObjects_safety --------------------------
(***************************************************************************)
(* What follows from the invariant of SkpObjects_proofs: when an object is *)
(* given up and what can leak, and the two invariants about keys and about *)
(* copying that need a little more.                                        *)
(***************************************************************************)
EXTENDS SkpObjects_proofs

(* The skp_free recursion enters an object at most once.                   *)
THEOREM EnteredOnce == Spec => []FreedOnce
  <1>1. IInv => FreedOnce
    BY DEF IInv
  <1> QED
    BY <1>1, Invariance, PTL

(* The arrays are packed but for the hole of the operation in progress.    *)
THEOREM ArraysPacked == Spec => []Packed
  <1>1. IInv => Packed
    BY DEF IInv
  <1> QED
    BY <1>1, Invariance, PTL

(* A counted object has a holder.                                          *)
LEMMA HolderExists ==
  ASSUME TypeOK, RefCountExact, NEW o \in Objects, status[o] = "live"
  PROVE  \/ \E h \in Handles : handle[h] = o
         \/ \E c \in Cells : cell[c] = o
  <1>1. rc[o] > 0 /\ rc[o] = Cardinality(HandlesTo(o)) + Cardinality(CellsTo(o))
    BY DEF RefCountExact
  <1>2. HandlesTo(o) # {} \/ CellsTo(o) # {}
    <2>1. Cardinality({}) = 0
      BY FS_EmptySet
    <2> QED
      BY <1>1, <2>1
  <1> QED
    BY <1>2 DEF HandlesTo, CellsTo

(* Only cycles leak: at rest every live object without a holder outside a  *)
(* closed set is an entry of a member of the set.                          *)
THEOREM LeaksAreCycles == Spec => []OnlyCyclesLeak
  <1>1. IInv => OnlyCyclesLeak
    <2> SUFFICES ASSUME IInv,
                        NEW S \in SUBSET {o \in Objects : status[o] = "live"},
                        \A h \in Handles : handle[h] \notin S,
                        \A c \in Cells : cell[c] \in S => c[1] \in S,
                        NEW o \in S
                 PROVE  \E p \in S : \E i \in Positions : cell[<<p, i>>] = o
      BY DEF OnlyCyclesLeak
    <2>1. PICK c \in Cells : cell[c] = o
      BY HolderExists DEF IInv
    <2>2. c[1] \in S /\ c[2] \in Positions /\ c = <<c[1], c[2]>>
      BY <2>1, CellShape
    <2> QED
      BY <2>1, <2>2
  <1> QED
    BY <1>1, Invariance, PTL

-----------------------------------------------------------------------------
(* No step takes more than one reference of an object away.                *)
LEMMA OneReferenceLess ==
  ASSUME TypeOK, [Next]_vars, NEW o \in Objects, status[o] = "live"
  PROVE  rc'[o] \in {rc[o] - 1, rc[o], rc[o] + 1}
  <1>1. rc \in [Objects -> Int] /\ rc[o] \in Int
    BY DEF TypeOK
  <1>2. ASSUME NEW x, Decref(x) PROVE rc'[o] \in {rc[o] - 1, rc[o], rc[o] + 1}
    BY <1>1, <1>2 DEF Decref
  <1>3. ASSUME NEW x, Incref(x) PROVE rc'[o] \in {rc[o] - 1, rc[o], rc[o] + 1}
    BY <1>1, <1>3 DEF Incref
  <1>4. ASSUME NEW x, NEW h, NEW k, Allocate(x, h, k)
        PROVE  rc'[o] \in {rc[o] - 1, rc[o], rc[o] + 1}
    <2>1. x # o /\ rc' = [rc EXCEPT ![x] = 1]
      BY <1>4 DEF Allocate
    <2> QED
      BY <1>1, <2>1
  <1>5. CASE Internal
    BY <1>1, <1>2, <1>3, <1>5 DEF Internal, ReleaseNext, FreeObject, FinishStore,
       FinishRemove, CopyNext, CopyDone, AddEntry
  <1>6. CASE Client
    <2>1. CASE \E x \in Objects, h \in Handles, k \in {"leaf", "list", "dict"} :
                 New(x, h, k)
      BY <1>4, <2>1 DEF New
    <2>2. CASE \/ \E g, h \in Handles : Share(g, h)
               \/ \E c \in Cells, h \in Handles : Keep(c, h)
               \/ \E h \in Handles : Release(h)
      BY <1>2, <1>3, <2>2 DEF Share, Keep, Release
    <2>3. CASE \E l, item \in Objects : ListAppend(l, item)
      BY <1>3, <2>3 DEF ListAppend, AddEntry
    <2>4. CASE \E l, item \in Objects, i \in Positions : ListSet(l, i, item)
      BY <1>2, <2>4 DEF ListSet, Overwrite
    <2>5. CASE \E d, item \in Objects, k \in Keys : DictSet(d, k, item)
      BY <1>2, <1>3, <2>5 DEF DictSet, Overwrite, AddEntry
    <2>6. CASE \E d \in Objects, k \in Keys : DictRemove(d, k)
      BY <1>2, <2>6 DEF DictRemove
    <2>7. CASE \E l, x \in Objects, h \in Handles, s, e \in Bounds :
                 ListSlice(l, x, h, s, e)
      BY <1>4, <2>7 DEF ListSlice
    <2>8. CASE \E a, b, x \in Objects, h \in Handles : ListConcat(a, b, x, h)
      BY <1>4, <2>8 DEF ListConcat
    <2> QED
      BY <1>6, <2>1, <2>2, <2>3, <2>4, <2>5, <2>6, <2>7, <2>8 DEF Client
  <1>7. CASE UNCHANGED vars
    BY <1>1, <1>7 DEF vars
  <1> QED
    BY <1>5, <1>6, <1>7 DEF Next

(* A held object is counted.                                               *)
LEMMA HeldCounted ==
  TypeOK /\ RefCountExact =>
    /\ \A h \in Handles : handle[h] # NoObj => rc[handle[h]] > 0
    /\ \A c \in Cells : cell[c] # NoObj => rc[cell[c]] > 0
  BY NoDangling

(* A step gives an object up only when it takes its last reference.        *)
THEOREM LastReferenceOnly == Spec => NeverFreedWhileHeld
  <1>1. ASSUME IInv, IInv', [Next]_vars, NEW o \in Objects,
               status[o] = "live", status'[o] # "live"
        PROVE  /\ Cardinality(HandlesTo(o)) + Cardinality(CellsTo(o)) = 1
               /\ \A h \in Handles : handle'[h] # o
               /\ \A c \in Cells : cell'[c] # o
    <2>1. /\ rc[o] > 0 /\ rc[o] \in Int
          /\ rc[o] = Cardinality(HandlesTo(o)) + Cardinality(CellsTo(o))
      BY <1>1 DEF IInv, TypeOK, RefCountExact
    <2>2. ~(rc'[o] > 0) /\ rc'[o] \in Int
      BY <1>1 DEF IInv, TypeOK, RefCountExact
    <2>3. rc'[o] \in {rc[o] - 1, rc[o], rc[o] + 1}
      BY <1>1, OneReferenceLess DEF IInv
    <2>4. rc[o] = 1
      BY <2>1, <2>2, <2>3
    <2>5. /\ \A h \in Handles : handle'[h] = o => rc'[o] > 0
          /\ \A c \in Cells : cell'[c] = o => rc'[o] > 0
      <3>1. (TypeOK /\ RefCountExact =>
              /\ \A h \in Handles : handle[h] # NoObj => rc[handle[h]] > 0
              /\ \A c \in Cells : cell[c] # NoObj => rc[cell[c]] > 0)'
        BY HeldCounted, PTL
      <3> QED
        BY <1>1, <3>1, ObjectsAssumption DEF IInv
    <2> QED
      BY <2>1, <2>2, <2>4, <2>5
  <1>2. IInv /\ IInv' /\ [Next]_vars =>
          \A o \in Objects :
            status[o] = "live" /\ status'[o] # "live" =>
              /\ Cardinality(HandlesTo(o)) + Cardinality(CellsTo(o)) = 1
              /\ \A h \in Handles : handle'[h] # o
              /\ \A c \in Cells : cell'[c] # o
    BY <1>1
  <1> QED
    BY <1>2, Invariance, PTL DEF Spec, NeverFreedWhileHeld

-----------------------------------------------------------------------------
(* Copying and keys: the two facts IInv leaves out.                        *)

(* A copying loop never reads the list it builds: the list is new, and the *)
(* lists it is built from are owned.                                       *)
LEMMA CopyApartStep ==
  ASSUME IInv, CopyApart, [Next]_vars
  PROVE  CopyApart'
  <1> SUFFICES ASSUME op'.name = "copy"
               PROVE  op'.obj # op'.item /\ op'.obj # op'.rest
    BY DEF CopyApart
  <1>1. ASSUME NEW l \in Objects, NEW o \in Objects, NEW h \in Handles, NEW k,
               Owned(l), Allocate(o, h, k)
        PROVE  o # l
    BY <1>1, OwnedLive DEF Allocate
  <1>2. CASE op' = op
    BY <1>2 DEF CopyApart
  <1>3. CASE CopyNext
    BY <1>3 DEF CopyNext, CopyApart, IInv, TypeOK, Ops
  <1>4. CASE CopyDone
    <2>1. op.name = "copy" /\ op.obj \in Objects /\ op.obj # op.rest
      BY <1>4 DEF CopyDone, CopyApart, IInv, OpOK
    <2>2. op.rest # NoObj
      BY <1>4 DEF CopyDone, NoOp
    <2>3. op' = [op EXCEPT !.item = op.rest, !.rest = NoObj, !.pos = 1,
                           !.last = count[op.rest]]
      BY <1>4, <2>2 DEF CopyDone
    <2>4. op'.obj = op.obj /\ op'.item = op.rest /\ op'.rest = NoObj
      BY <2>3 DEF IInv, TypeOK, Ops
    <2> QED
      BY <2>1, <2>4, ObjectsAssumption
  <1>5. ASSUME NEW l \in Objects, NEW o \in Objects, NEW h \in Handles,
               NEW s \in Bounds, NEW e \in Bounds, ListSlice(l, o, h, s, e)
        PROVE  op'.obj # op'.item /\ op'.obj # op'.rest
    <2>1. o # l
      BY <1>1, <1>5 DEF ListSlice
    <2>2. op' # op
      BY <1>5 DEF ListSlice, Idle
    <2>3. PICK p, q : op' = [NoOp EXCEPT !.name = "copy", !.obj = o, !.item = l,
                                         !.pos = p, !.last = q]
      BY <1>5, <2>2 DEF ListSlice
    <2>4. op'.obj = o /\ op'.item = l /\ op'.rest = NoObj
      BY <2>3 DEF NoOp
    <2> QED
      BY <2>1, <2>4, ObjectsAssumption
  <1>6. ASSUME NEW a \in Objects, NEW b \in Objects, NEW o \in Objects,
               NEW h \in Handles, ListConcat(a, b, o, h)
        PROVE  op'.obj # op'.item /\ op'.obj # op'.rest
    <2>1. o # a /\ o # b
      BY <1>1, <1>6 DEF ListConcat
    <2>2. op' = [NoOp EXCEPT !.name = "copy", !.obj = o, !.item = a, !.rest = b,
                             !.last = count[a]]
      BY <1>6 DEF ListConcat
    <2>3. op'.obj = o /\ op'.item = a /\ op'.rest = b
      BY <2>2 DEF NoOp
    <2> QED
      BY <2>1, <2>3
  <1>7. CASE Internal
    <2>1. ReleaseNext \/ FreeObject => op' = op
      BY DEF ReleaseNext, FreeObject
    <2>2. ~FinishStore /\ ~FinishRemove
      BY DEF FinishStore, FinishRemove, NoOp
    <2> QED
      BY <1>2, <1>3, <1>4, <1>7, <2>1, <2>2 DEF Internal
  <1>8. CASE Client
    <2>1. ASSUME NEW x, NEW i, NEW item PROVE ~Overwrite(x, i, item)
      BY DEF Overwrite, NoOp
    <2>2. ASSUME NEW d \in Objects, NEW k \in Keys PROVE ~DictRemove(d, k)
      BY DEF DictRemove, NoOp
    <2>3. CASE \/ \E o \in Objects, h \in Handles, k \in {"leaf", "list", "dict"} :
                    New(o, h, k)
               \/ \E g, h \in Handles : Share(g, h)
               \/ \E c \in Cells, h \in Handles : Keep(c, h)
               \/ \E h \in Handles : Release(h)
               \/ \E l, item \in Objects : ListAppend(l, item)
      BY <1>2, <2>3 DEF New, Share, Keep, Release, ListAppend
    <2>4. CASE \E l, item \in Objects, i \in Positions : ListSet(l, i, item)
      BY <2>1, <2>4 DEF ListSet
    <2>5. CASE \E d, item \in Objects, k \in Keys : DictSet(d, k, item)
      BY <1>2, <2>1, <2>5 DEF DictSet
    <2> QED
      BY <1>5, <1>6, <1>8, <2>2, <2>3, <2>4, <2>5 DEF Client
  <1> QED
    BY <1>2, <1>7, <1>8 DEF Next, vars

(* The two facts about keys.                                               *)
KeysOK == KeysPacked /\ DictKeysUnique

(* Keys that only go away, in arrays that only grow, stay unique.          *)
LEMMA KeysKept ==
  ASSUME TypeOK, KeysOK,
         \A c \in Cells : keyAt'[c] \in {keyAt[c], NoKey},
         \A c \in Cells : keyAt'[c] # NoKey => count'[c[1]] >= count[c[1]],
         count' \in [Objects -> Int]
  PROVE  KeysOK'
  <1>1. ASSUME NEW c \in Cells, keyAt'[c] # NoKey
        PROVE  c[2] <= count'[c[1]]
    <2>1. keyAt[c] = keyAt'[c]
      BY <1>1
    <2>2. /\ c[1] \in Objects /\ c[2] \in Int
          /\ c[2] <= count[c[1]] /\ count'[c[1]] >= count[c[1]]
      BY <1>1, <2>1, CellShape DEF KeysOK, KeysPacked, Positions
    <2>3. count[c[1]] \in Int /\ count'[c[1]] \in Int
      BY <2>2 DEF TypeOK
    <2> QED
      BY <2>2, <2>3
  <1>2. ASSUME NEW c \in Cells, NEW d \in Cells, c[1] = d[1],
               keyAt'[c] = keyAt'[d], keyAt'[c] # NoKey
        PROVE  c = d
    <2>1. keyAt[c] = keyAt'[c] /\ keyAt[d] = keyAt'[d]
      BY <1>2
    <2> QED
      BY <1>2, <2>1 DEF KeysOK, DictKeysUnique
  <1> QED
    BY <1>1, <1>2 DEF KeysOK, KeysPacked, DictKeysUnique

(* A new last entry with a key its container does not have.                *)
LEMMA AddEntryKeys ==
  ASSUME TypeOK, KeysOK, NEW o \in Objects, NEW k, NEW item,
         AddEntry(o, k, item),
         k # NoKey => \A i \in Positions : keyAt[<<o, i>>] # k
  PROVE  KeysOK'
  <1> DEFINE n == <<o, count[o] + 1>>
  <1>1. /\ count[o] \in Nat /\ MaxCount \in Nat /\ count[o] < MaxCount
        /\ count' = [count EXCEPT ![o] = @ + 1]
        /\ keyAt' = [keyAt EXCEPT ![n] = k]
    BY CountAssumption DEF AddEntry, TypeOK
  <1>2. n[1] = o /\ n[2] = count[o] + 1
    OBVIOUS
  <1> HIDE DEF n
  <1>3. \A c \in Cells : c = n \/ keyAt'[c] = keyAt[c]
    BY <1>1 DEF TypeOK
  <1>4. \A c \in Cells : c = n => keyAt'[c] = k
    BY <1>1 DEF TypeOK
  <1>5. count'[o] = count[o] + 1 /\ \A x \in Objects : x # o => count'[x] = count[x]
    BY <1>1 DEF TypeOK
  <1>6. ASSUME NEW c \in Cells, keyAt'[c] # NoKey
        PROVE  c[2] <= count'[c[1]]
    <2>1. CASE c = n
      BY <1>1, <1>2, <1>5, <2>1
    <2>2. CASE c # n
      <3>1. c[1] \in Objects /\ c[2] \in Nat /\ c[2] <= count[c[1]]
        BY <1>3, <1>6, <2>2, CellShape DEF KeysOK, KeysPacked, Positions
      <3>2. CASE c[1] = o
        BY <1>1, <1>5, <3>1, <3>2
      <3>3. CASE c[1] # o
        BY <1>5, <3>1, <3>3
      <3> QED
        BY <3>2, <3>3
    <2> QED
      BY <2>1, <2>2
  <1>7. ASSUME NEW c \in Cells, c[1] = o, k # NoKey
        PROVE  keyAt[c] # k
    BY <1>7, CellShape
  <1>8. ASSUME NEW c \in Cells, NEW d \in Cells, c[1] = d[1],
               keyAt'[c] = keyAt'[d], keyAt'[c] # NoKey
        PROVE  c = d
    <2>1. CASE c = n /\ d # n
      BY <1>2, <1>3, <1>4, <1>7, <1>8, <2>1
    <2>2. CASE c # n /\ d = n
      BY <1>2, <1>3, <1>4, <1>7, <1>8, <2>2
    <2>3. CASE c # n /\ d # n
      BY <1>3, <1>8, <2>3 DEF KeysOK, DictKeysUnique
    <2> QED
      BY <2>1, <2>2, <2>3
  <1> QED
    BY <1>6, <1>8 DEF KeysOK, KeysPacked, DictKeysUnique

(* The shift of skp_dict_remove keeps the keys apart and inside the array. *)
LEMMA ShiftKeys ==
  ASSUME IInv, KeysOK, FinishRemove
  PROVE  KeysOK'
  <1>1. PICK o \in Objects, i \in Nat : o = op.obj /\ i = op.pos
    BY CountAssumption DEF IInv, TypeOK, OpOK, Ops, FinishRemove
  <1>2. /\ count[o] \in Nat /\ MaxCount \in Nat /\ count[o] <= MaxCount
        /\ i <= count[o]
    BY <1>1, CountAssumption DEF IInv, TypeOK, OpOK, FinishRemove
  <1>3. /\ keyAt' = Shifted(keyAt, o, i, NoKey)
        /\ count' = [count EXCEPT ![o] = @ - 1]
    BY <1>1 DEF FinishRemove
  <1>4. count'[o] = count[o] - 1 /\ \A x \in Objects : x # o => count'[x] = count[x]
    BY <1>3 DEF IInv, TypeOK
  <1>5. \A c \in Cells : c[1] \in Objects /\ c[2] \in Nat /\ c[2] \in Positions
    BY <1>2, CellShape DEF Positions
  <1>6. ASSUME NEW c \in Cells
        PROVE  keyAt'[c] = IF c[1] # o \/ c[2] < i THEN keyAt[c]
                           ELSE IF c[2] < count[o] THEN keyAt[<<o, c[2] + 1>>]
                           ELSE NoKey
    BY <1>3 DEF Shifted
  <1>7. ASSUME NEW c \in Cells, keyAt'[c] # NoKey
        PROVE  c[2] <= count'[c[1]]
    <2>1. CASE c[1] # o
      BY <1>4, <1>5, <1>6, <1>7, <2>1 DEF KeysOK, KeysPacked
    <2>2. CASE c[1] = o
      <3>1. c[2] < i \/ c[2] < count[o]
        BY <1>6, <1>7, <2>2
      <3> QED
        BY <1>2, <1>4, <1>5, <2>2, <3>1
    <2> QED
      BY <2>1, <2>2
  <1>8. ASSUME NEW c \in Cells, NEW d \in Cells, c[1] = d[1],
               keyAt'[c] = keyAt'[d], keyAt'[c] # NoKey
        PROVE  c = d
    <2>1. CASE c[1] # o
      BY <1>6, <1>8, <2>1 DEF KeysOK, DictKeysUnique
    <2>2. CASE c[1] = o
      <3> DEFINE from(x) == IF x[2] < i THEN x ELSE <<o, x[2] + 1>>
      <3>1. ASSUME NEW x \in Cells, x[1] = o, keyAt'[x] # NoKey
            PROVE  /\ from(x) \in Cells /\ keyAt'[x] = keyAt[from(x)]
                   /\ from(x)[1] = o
                   /\ from(x)[2] = IF x[2] < i THEN x[2] ELSE x[2] + 1
        <4>1. CASE x[2] < i
          BY <1>6, <3>1, <4>1
        <4>2. CASE ~(x[2] < i)
          <5>1. keyAt'[x] = keyAt[<<o, x[2] + 1>>] /\ x[2] < count[o]
            BY <1>6, <3>1, <4>2
          <5>2. x[2] + 1 \in Positions
            BY <1>2, <1>5, <5>1 DEF Positions
          <5>3. <<o, x[2] + 1>> \in Cells
            BY <5>2 DEF Cells
          <5> QED
            BY <3>1, <4>2, <5>1, <5>3
        <4> QED
          BY <4>1, <4>2
      <3>2. /\ from(c) \in Cells /\ keyAt'[c] = keyAt[from(c)] /\ from(c)[1] = o
            /\ from(c)[2] = IF c[2] < i THEN c[2] ELSE c[2] + 1
        BY <1>8, <2>2, <3>1
      <3>3. /\ from(d) \in Cells /\ keyAt'[d] = keyAt[from(d)] /\ from(d)[1] = o
            /\ from(d)[2] = IF d[2] < i THEN d[2] ELSE d[2] + 1
        BY <1>8, <2>2, <3>1
      <3> HIDE DEF from
      <3>4. from(c) = from(d)
        BY <1>8, <3>2, <3>3 DEF KeysOK, DictKeysUnique
      <3>5. c[2] = d[2]
        BY <1>1, <1>5, <3>2, <3>3, <3>4
      <3> QED
        BY <1>8, <3>5, CellShape
    <2> QED
      BY <2>1, <2>2
  <1> QED
    BY <1>7, <1>8 DEF KeysOK, KeysPacked, DictKeysUnique

(* Every step keeps the keys of a dictionary apart.                        *)
LEMMA KeysStep ==
  ASSUME IInv, IInv', KeysOK, [Next]_vars
  PROVE  KeysOK'
  <1> USE DEF IInv
  <1>1. TypeOK /\ count' \in [Objects -> Int] /\ count \in [Objects -> Int]
    BY CountAssumption DEF TypeOK
  <1>2. \A c \in Cells : c[1] \in Objects
    BY CellShape
  <1>3. CASE keyAt' = keyAt /\ count' = count
    BY <1>1, <1>2, <1>3, KeysKept
  <1>4. ASSUME NEW o \in Objects, NEW h, NEW k, Allocate(o, h, k), keyAt' = keyAt
        PROVE  KeysOK'
    <2>1. count[o] = 0 /\ count' = [count EXCEPT ![o] = 0]
      BY <1>4 DEF Allocate, FieldsOK
    <2>2. count' = count
      BY <1>1, <2>1
    <2> QED
      BY <1>3, <1>4, <2>2
  <1>5. CASE ReleaseNext
    <2>1. keyAt' = [keyAt EXCEPT ![<<frees[Len(frees)], next[frees[Len(frees)]]>>] = NoKey]
          /\ count' = count
      BY <1>5 DEF ReleaseNext
    <2>2. \A c \in Cells : keyAt'[c] \in {keyAt[c], NoKey}
      BY <2>1 DEF TypeOK
    <2> QED
      BY <1>1, <1>2, <2>1, <2>2, KeysKept
  <1>6. CASE FreeObject
    <2>1. PICK o : /\ keyAt' = [c \in Cells |-> IF c[1] = o THEN NoKey ELSE keyAt[c]]
                   /\ count' = [count EXCEPT ![o] = 0]
      BY <1>6 DEF FreeObject
    <2>2. \A c \in Cells : keyAt'[c] = IF c[1] = o THEN NoKey ELSE keyAt[c]
      BY <2>1
    <2>3. \A c \in Cells : c[1] # o => count'[c[1]] = count[c[1]]
      BY <1>1, <1>2, <2>1
    <2>4. \A c \in Cells : keyAt'[c] # NoKey => count'[c[1]] >= count[c[1]]
      BY <1>1, <1>2, <2>2, <2>3
    <2> QED
      BY <1>1, <2>2, <2>4, KeysKept
  <1>7. CASE CopyNext
    <2>1. op.obj \in Objects /\ AddEntry(op.obj, NoKey, cell[<<op.item, op.pos>>])
      BY <1>7 DEF CopyNext, OpOK
    <2> QED
      BY <1>1, <2>1, AddEntryKeys
  <1>8. CASE Internal
    <2>1. FinishStore \/ CopyDone => keyAt' = keyAt /\ count' = count
      BY DEF FinishStore, CopyDone
    <2> QED
      BY <1>3, <1>5, <1>6, <1>7, <1>8, <2>1, ShiftKeys DEF Internal
  <1>9. ASSUME NEW l \in Objects, NEW item \in Objects, ListAppend(l, item)
        PROVE  KeysOK'
    BY <1>1, <1>9, AddEntryKeys DEF ListAppend
  <1>10. ASSUME NEW d \in Objects, NEW item \in Objects, NEW k \in Keys,
                DictSet(d, k, item)
         PROVE  KeysOK'
    <2>1. CASE \E i \in Positions : Found(d, k, i) /\ Overwrite(d, i, item)
      BY <1>3, <2>1 DEF Overwrite
    <2>2. CASE /\ ~ \E i \in Positions : Found(d, k, i)
               /\ AddEntry(d, k, item)
      <3>1. ASSUME NEW i \in Positions, keyAt[<<d, i>>] = k
            PROVE  FALSE
        <4>1. /\ <<d, i>> \in Cells /\ k # NoKey /\ i \in Nat
              /\ MaxCount \in Nat /\ i <= MaxCount
          BY KeysAssumption, CountAssumption DEF Cells, Positions
        <4>2. i <= count[d]
          BY <3>1, <4>1 DEF KeysOK, KeysPacked
        <4>3. ASSUME NEW j \in 1 .. i - 1, keyAt[<<d, j>>] = k
              PROVE  FALSE
          <5>1. j \in Positions /\ j # i
            BY <4>1 DEF Positions
          <5>2. <<d, j>> \in Cells
            BY <5>1 DEF Cells
          <5>3. <<d, i>> = <<d, j>>
            BY <3>1, <4>1, <4>3, <5>2 DEF KeysOK, DictKeysUnique
          <5> QED
            BY <5>1, <5>3
        <4> QED
          BY <2>2, <3>1, <4>2, <4>3 DEF Found
      <3> QED
        BY <1>1, <2>2, <3>1, AddEntryKeys
    <2> QED
      BY <1>10, <2>1, <2>2 DEF DictSet
  <1>11. ASSUME NEW d \in Objects, NEW k \in Keys, DictRemove(d, k)
         PROVE  KeysOK'
    <2>1. PICK i \in Positions : keyAt' = [keyAt EXCEPT ![<<d, i>>] = NoKey]
      BY <1>11 DEF DictRemove
    <2>2. \A c \in Cells : keyAt'[c] \in {keyAt[c], NoKey}
      BY <2>1 DEF TypeOK
    <2>3. count' = count
      BY <1>11 DEF DictRemove
    <2> QED
      BY <1>1, <1>2, <2>2, <2>3, KeysKept
  <1>12. CASE Client
    <2>1. CASE \/ \E g, h \in Handles : Share(g, h)
               \/ \E c \in Cells, h \in Handles : Keep(c, h)
               \/ \E h \in Handles : Release(h)
               \/ \E l, item \in Objects, i \in Positions : ListSet(l, i, item)
      BY <1>3, <2>1 DEF Share, Keep, Release, ListSet, Overwrite
    <2>2. CASE \/ \E o \in Objects, h \in Handles, k \in {"leaf", "list", "dict"} :
                    New(o, h, k)
               \/ \E l, o \in Objects, h \in Handles, s, e \in Bounds :
                    ListSlice(l, o, h, s, e)
               \/ \E a, b, o \in Objects, h \in Handles : ListConcat(a, b, o, h)
      BY <1>4, <2>2 DEF New, ListSlice, ListConcat
    <2> QED
      BY <1>9, <1>10, <1>11, <1>12, <2>1, <2>2 DEF Client
  <1> QED
    BY <1>3, <1>8, <1>12 DEF Next, vars

(* The full invariant of the runtime is inductive.                         *)
THEOREM SafetyInvariance == Spec => []SafetyInv
  <1>1. Init => CopyApart /\ KeysOK
    BY DEF Init, NoOp, CopyApart, KeysOK, KeysPacked, DictKeysUnique
  <1>2. IInv /\ IInv' /\ CopyApart /\ KeysOK /\ [Next]_vars => (CopyApart /\ KeysOK)'
    BY CopyApartStep, KeysStep
  <1>3. SafetyInv <=> IInv /\ CopyApart /\ KeysOK
    BY DEF SafetyInv, KeysOK
  <1> QED
    BY <1>1, <1>2, <1>3, Invariance, PTL DEF Spec

(* No dictionary gets two entries for a key, whatever cascade and shift    *)
(* run between its calls.                                                  *)
THEOREM KeysUnique == Spec => []DictKeysUnique
  <1>1. SafetyInv => DictKeysUnique
    BY DEF SafetyInv
  <1> QED
    BY <1>1, SafetyInvariance, PTL

(* The copying loops of skp_list_slice and skp_add read entries that       *)
(* exist, of a list other than the one they build.                         *)
THEOREM CopiesInBounds == Spec => []CopyInBounds
  <1>1. SafetyInv => CopyInBounds
    <2> SUFFICES ASSUME IInv, CopyApart, op.name = "copy", op.pos <= op.last
                 PROVE  cell[<<op.item, op.pos>>] # NoObj /\ op.obj # op.item
      BY DEF SafetyInv, CopyInBounds
    <2>1. PICK o \in Objects, i \in Nat, e \in Nat :
            o = op.item /\ i = op.pos /\ e = op.last /\ i >= 1
      BY CountAssumption DEF IInv, TypeOK, OpOK, Ops
    <2>2. Owned(o) /\ e <= count[o] /\ i <= e
      BY <2>1 DEF IInv, OpOK
    <2>3. next[o] = 1
      BY <2>2, OwnedLive
    <2>4. count[o] \in Nat /\ count[o] <= MaxCount /\ MaxCount \in Nat
      BY CountAssumption DEF IInv, TypeOK
    <2>5. i <= count[o] /\ i \in Positions
      BY <2>1, <2>2, <2>4 DEF Positions
    <2>6. <<o, i>> \in Cells /\ Hole = {}
      BY <2>5 DEF Cells, Hole
    <2>7. cell[<<o, i>>] # NoObj
      BY <2>1, <2>3, <2>5, <2>6 DEF IInv, Packed
    <2> QED
      BY <2>1, <2>7 DEF CopyApart
  <1> QED
    BY <1>1, SafetyInvariance, PTL

=============================================================================
