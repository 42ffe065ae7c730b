-------------------------- MODULE SkpObjects_proofs --------------------------
(***************************************************************************)
(* Proofs about SkpObjects for every set of addresses, every set of        *)
(* handles and keys and every array size.                                  *)
(***************************************************************************)
EXTENDS SkpObjects, FiniteSetTheorems, SequenceTheorems, TLAPS

(* How often a function takes a value.                                     *)
Count(f, S, x) == Cardinality({s \in S : f[s] = x})

(* A cell is the pair of its object and its position.                      *)
LEMMA CellShape ==
  ASSUME NEW c \in Cells
  PROVE  /\ c[1] \in Objects /\ c[2] \in Positions
         /\ c = <<c[1], c[2]>>
  BY DEF Cells

(* The heap has finitely many entry positions, so references can be counted. *)
LEMMA CellsFinite == IsFiniteSet(Cells)
  <1>1. MaxCount \in Nat
    BY CountAssumption
  <1>2. IsFiniteSet(Positions)
    BY <1>1, FS_Interval DEF Positions
  <1> QED
    BY <1>2, ObjectsAssumption, FS_Product DEF Cells

(* Overwriting one position of a function moves one occurrence from the    *)
(* value it had to the value it gets.                                      *)
LEMMA CountExcept ==
  ASSUME NEW S, IsFiniteSet(S), NEW s \in S, NEW f, NEW g, NEW y, NEW x,
         g[s] = y, \A r \in S \ {s} : g[r] = f[r]
  PROVE  Count(g, S, x) = Count(f, S, x) + (IF y = x THEN 1 ELSE 0)
                                         - (IF f[s] = x THEN 1 ELSE 0)
  <1> DEFINE A == {r \in S : f[r] = x}
             B == {r \in S : g[r] = x}
             C == A \ {s}
  <1>1. IsFiniteSet(A)
    BY FS_Subset
  <1>2. /\ IsFiniteSet(C)
        /\ Cardinality(C) = IF s \in A THEN Cardinality(A) - 1 ELSE Cardinality(A)
    BY <1>1, FS_RemoveElement
  <1>3. Cardinality(C \cup {s}) = Cardinality(C) + 1
    BY <1>2, FS_AddElement
  <1>4. Cardinality(A) \in Nat /\ Cardinality(C) \in Nat
    BY <1>1, <1>2, FS_CardinalityType
  <1>5. B = IF y = x THEN C \cup {s} ELSE C
    OBVIOUS
  <1>6. s \in A <=> f[s] = x
    OBVIOUS
  <1> HIDE DEF A, B, C
  <1>7. Cardinality(B) = Cardinality(A) + (IF y = x THEN 1 ELSE 0)
                           - (IF f[s] = x THEN 1 ELSE 0)
    BY <1>2, <1>3, <1>4, <1>5, <1>6
  <1> QED
    BY <1>4, <1>7 DEF Count, A, B
(* A value that is taken somewhere is counted.                             *)
LEMMA CountTaken ==
  ASSUME NEW S, IsFiniteSet(S), NEW f, NEW s \in S
  PROVE  /\ Count(f, S, f[s]) \in Nat \ {0}
  <1> DEFINE A == {r \in S : f[r] = f[s]}
  <1>1. IsFiniteSet(A)
    BY FS_Subset
  <1>2. A # {}
    OBVIOUS
  <1> HIDE DEF A
  <1>3. Cardinality(A) \in Nat /\ Cardinality(A) # 0
    BY <1>1, <1>2, FS_CardinalityType, FS_EmptySet
  <1> QED
    BY <1>3 DEF Count, A

(* Counting gives a natural number.                                        *)
LEMMA CountNat ==
  ASSUME NEW S, IsFiniteSet(S), NEW f, NEW x
  PROVE  Count(f, S, x) \in Nat
  BY FS_Subset, FS_CardinalityType DEF Count

(* Reference counts in the terms of CountExcept.                           *)
LEMMA RefCountForm ==
  RefCountExact <=>
    \A o \in Objects : /\ rc[o] = Count(handle, Handles, o) + Count(cell, Cells, o)
                       /\ status[o] = "live" <=> rc[o] > 0
  BY DEF RefCountExact, Count, HandlesTo, CellsTo

(* No reference dangles.                                                   *)
LEMMA NoDangling ==
  ASSUME TypeOK, RefCountExact
  PROVE  /\ \A o \in Objects : rc[o] \in Nat
         /\ \A h \in Handles : handle[h] # NoObj =>
              handle[h] \in Objects /\ status[handle[h]] = "live" /\ rc[handle[h]] > 0
         /\ \A c \in Cells : cell[c] # NoObj =>
              cell[c] \in Objects /\ status[cell[c]] = "live" /\ rc[cell[c]] > 0
  <1>1. \A o \in Objects : /\ Count(handle, Handles, o) \in Nat
                           /\ Count(cell, Cells, o) \in Nat
    BY CountNat, HandlesAssumption, CellsFinite
  <1>2. \A h \in Handles : handle[h] # NoObj =>
          handle[h] \in Objects /\ Count(handle, Handles, handle[h]) > 0
    BY CountTaken, HandlesAssumption DEF TypeOK, Refs
  <1>3. \A c \in Cells : cell[c] # NoObj =>
          cell[c] \in Objects /\ Count(cell, Cells, cell[c]) > 0
    BY CountTaken, CellsFinite DEF TypeOK, Refs
  <1> QED
    BY <1>1, <1>2, <1>3, RefCountForm DEF TypeOK

(* Changing one handle or one cell.                                        *)
LEMMA HandleChange ==
  ASSUME NEW h \in Handles, \A r \in Handles \ {h} : handle'[r] = handle[r],
         NEW x \in Objects
  PROVE  Count(handle, Handles, x)' =
           Count(handle, Handles, x) + (IF handle'[h] = x THEN 1 ELSE 0)
                              - (IF handle[h] = x THEN 1 ELSE 0)
  <1>1. IsFiniteSet(Handles)
    BY HandlesAssumption
  <1>2. Count(handle', Handles, x) =
           Count(handle, Handles, x) + (IF handle'[h] = x THEN 1 ELSE 0)
                              - (IF handle[h] = x THEN 1 ELSE 0)
    BY <1>1, CountExcept
  <1>3. Count(handle, Handles, x)' = Count(handle', Handles, x)
    BY DEF Count
  <1> QED
    BY <1>2, <1>3

(* Changing one cell.                                                      *)
LEMMA CellChange ==
  ASSUME NEW c \in Cells, \A r \in Cells \ {c} : cell'[r] = cell[r],
         NEW x \in Objects
  PROVE  Count(cell, Cells, x)' =
           Count(cell, Cells, x) + (IF cell'[c] = x THEN 1 ELSE 0)
                              - (IF cell[c] = x THEN 1 ELSE 0)
  <1>1. IsFiniteSet(Cells)
    BY CellsFinite
  <1>2. Count(cell', Cells, x) =
           Count(cell, Cells, x) + (IF cell'[c] = x THEN 1 ELSE 0)
                              - (IF cell[c] = x THEN 1 ELSE 0)
    BY <1>1, CountExcept
  <1>3. Count(cell, Cells, x)' = Count(cell', Cells, x)
    BY DEF Count
  <1> QED
    BY <1>2, <1>3

(* Both counts of a reference's holders are natural numbers.               *)
LEMMA CountsNat ==
  \A o \in Objects : /\ Count(handle, Handles, o) \in Nat
                     /\ Count(cell, Cells, o) \in Nat
  BY CountNat, HandlesAssumption, CellsFinite

-----------------------------------------------------------------------------
(* What the two primitives do under the invariant.                         *)

(* skp_decref keeps counts exact if the caller gives up one reference.     *)
LEMMA DecrefStep ==
  ASSUME TypeOK, RefCountExact, FreedOnce,
         NEW o \in Objects, status[o] = "live", Decref(o)
  PROVE  /\ rc' \in [Objects -> Int]
         /\ status' \in [Objects -> {"free", "live", "dying"}]
         /\ frees' \in Seq(Objects)
         /\ FreedOnce'
         /\ \A x \in Objects : rc'[x] = rc[x] - (IF x = o THEN 1 ELSE 0)
         /\ \A x \in Objects : status'[x] = "live" <=> rc'[x] > 0
         /\ \A x \in Objects : x # o => status'[x] = status[x]
         /\ status'[o] \in {"live", "dying"}
  <1>1. rc \in [Objects -> Int] /\ rc' = [rc EXCEPT ![o] = @ - 1]
    BY DEF Decref, TypeOK
  <1>2. /\ rc' \in [Objects -> Int]
        /\ \A x \in Objects : rc'[x] = rc[x] - (IF x = o THEN 1 ELSE 0)
    BY <1>1
  <1>3. \A x \in Objects : status[x] = "live" <=> rc[x] > 0
    BY DEF RefCountExact, TypeOK
  <1>4. /\ status \in [Objects -> {"free", "live", "dying"}]
        /\ frees \in Seq(Objects)
    BY DEF TypeOK
  <1>5. CASE rc[o] > 1
    <2>1. UNCHANGED <<status, frees>>
      BY <1>1, <1>5 DEF Decref
    <2> QED
      BY <1>1, <1>2, <1>3, <1>4, <1>5, <2>1 DEF FreedOnce
  <1>6. CASE rc[o] = 1
    <2>1. status' = [status EXCEPT ![o] = "dying"]
      BY <1>1, <1>6 DEF Decref
    <2>2. frees' = Append(frees, o)
      BY <1>1, <1>6 DEF Decref
    <2>3. frees' \in Seq(Objects)
      BY <1>4, <2>2
    <2>4. /\ Len(frees') = Len(frees) + 1
          /\ Len(frees) \in Nat
          /\ frees'[Len(frees) + 1] = o
          /\ \A i \in 1 .. Len(frees) : frees'[i] = frees[i]
      BY <1>4, <2>2
    <2>5. \A i \in 1 .. Len(frees) : frees[i] # o
      BY DEF FreedOnce
    <2>6. FreedOnce'
      BY <1>4, <2>1, <2>4, <2>5 DEF FreedOnce
    <2>7. /\ status' \in [Objects -> {"free", "live", "dying"}]
          /\ status'[o] = "dying"
          /\ \A x \in Objects : x # o => status'[x] = status[x]
      BY <1>4, <2>1
    <2>8. \A x \in Objects : status'[x] = "live" <=> rc'[x] > 0
      BY <1>1, <1>2, <1>3, <1>6, <2>7
    <2> QED
      BY <1>2, <2>3, <2>6, <2>7, <2>8
  <1> QED
    BY <1>1, <1>3, <1>5, <1>6

(* A step that changes one handle, or one cell, keeps the counts exact if  *)
(* it counts what it takes and discounts what it gives back.               *)
LEMMA HandleBalance ==
  ASSUME TypeOK, RefCountExact, NEW h \in Handles,
         \A r \in Handles \ {h} : handle'[r] = handle[r], cell' = cell,
         \A x \in Objects : rc'[x] = rc[x] + (IF handle'[h] = x THEN 1 ELSE 0)
                                          - (IF handle[h] = x THEN 1 ELSE 0),
         \A x \in Objects : status'[x] = "live" <=> rc'[x] > 0
  PROVE  RefCountExact'
  <1>1. ASSUME NEW x \in Objects
        PROVE  rc'[x] = Count(handle, Handles, x)' + Count(cell, Cells, x)'
    <2>1. Count(handle, Handles, x)' =
            Count(handle, Handles, x) + (IF handle'[h] = x THEN 1 ELSE 0)
                                      - (IF handle[h] = x THEN 1 ELSE 0)
      BY HandleChange
    <2>2. Count(cell, Cells, x)' = Count(cell, Cells, x)
      BY DEF Count
    <2>3. Count(handle, Handles, x) \in Nat /\ Count(cell, Cells, x) \in Nat
      BY CountsNat
    <2>4. rc[x] = Count(handle, Handles, x) + Count(cell, Cells, x)
      BY RefCountForm
    <2> QED
      BY <2>1, <2>2, <2>3, <2>4
  <1> QED
    BY <1>1 DEF RefCountExact, Count, HandlesTo, CellsTo

(* The same for a change of one cell.                                      *)
LEMMA CellBalance ==
  ASSUME TypeOK, RefCountExact, NEW c \in Cells,
         \A r \in Cells \ {c} : cell'[r] = cell[r], handle' = handle,
         \A x \in Objects : rc'[x] = rc[x] + (IF cell'[c] = x THEN 1 ELSE 0)
                                          - (IF cell[c] = x THEN 1 ELSE 0),
         \A x \in Objects : status'[x] = "live" <=> rc'[x] > 0
  PROVE  RefCountExact'
  <1>1. ASSUME NEW x \in Objects
        PROVE  rc'[x] = Count(handle, Handles, x)' + Count(cell, Cells, x)'
    <2>1. Count(cell, Cells, x)' =
            Count(cell, Cells, x) + (IF cell'[c] = x THEN 1 ELSE 0)
                                  - (IF cell[c] = x THEN 1 ELSE 0)
      BY CellChange
    <2>2. Count(handle, Handles, x)' = Count(handle, Handles, x)
      BY DEF Count
    <2>3. Count(handle, Handles, x) \in Nat /\ Count(cell, Cells, x) \in Nat
      BY CountsNat
    <2>4. rc[x] = Count(handle, Handles, x) + Count(cell, Cells, x)
      BY RefCountForm
    <2> QED
      BY <2>1, <2>2, <2>3, <2>4
  <1> QED
    BY <1>1 DEF RefCountExact, Count, HandlesTo, CellsTo

-----------------------------------------------------------------------------
(* Each action preserves the invariant.                                    *)

(* The client's skp_decref keeps the invariant.                            *)
LEMMA ReleaseInv ==
  ASSUME IInv, NEW h \in Handles, Release(h)
  PROVE  IInv'
  <1> DEFINE o == handle[h]
  <1>1. o \in Objects /\ status[o] = "live"
    BY NoDangling DEF IInv, Release
  <1>2. /\ Decref(o) /\ handle' = [handle EXCEPT ![h] = NoObj]
        /\ UNCHANGED <<kind, count, cell, keyAt, next, op>>
        /\ frees = <<>> /\ op.name = "none"
    BY DEF Release, Idle
  <1> HIDE DEF o
  <1>3. /\ rc' \in [Objects -> Int]
        /\ status' \in [Objects -> {"free", "live", "dying"}]
        /\ frees' \in Seq(Objects)
        /\ FreedOnce'
        /\ \A x \in Objects : rc'[x] = rc[x] - (IF x = o THEN 1 ELSE 0)
        /\ \A x \in Objects : status'[x] = "live" <=> rc'[x] > 0
        /\ \A x \in Objects : x # o => status'[x] = status[x]
        /\ status'[o] \in {"live", "dying"}
    BY <1>1, <1>2, DecrefStep DEF IInv
  <1>4. TypeOK'
    BY <1>2, <1>3 DEF IInv, TypeOK, Refs
  <1>5. RefCountExact'
    <2>1. /\ handle'[h] = NoObj /\ \A r \in Handles \ {h} : handle'[r] = handle[r]
          /\ cell' = cell
      BY <1>2 DEF IInv, TypeOK
    <2>2. ASSUME NEW x \in Objects
          PROVE  rc'[x] = rc[x] + (IF handle'[h] = x THEN 1 ELSE 0)
                                - (IF handle[h] = x THEN 1 ELSE 0)
      <3>1. handle[h] = o /\ handle'[h] # x
        BY <2>1, ObjectsAssumption DEF o
      <3>2. rc[x] \in Int /\ rc'[x] = rc[x] - (IF x = o THEN 1 ELSE 0)
        BY <1>3 DEF IInv, TypeOK
      <3> QED
        BY <3>1, <3>2
    <2> QED
      BY <1>3, <2>1, <2>2, HandleBalance DEF IInv
  <1>6. Packed'
    BY <1>2 DEF IInv, Packed, Hole
  <1>7. FieldsOK'
    BY <1>1, <1>2, <1>3 DEF IInv, FieldsOK
  <1>8. OpOK'
    BY <1>2 DEF OpOK
  <1> QED
    BY <1>3, <1>4, <1>5, <1>6, <1>7, <1>8 DEF IInv

(* What a handle leads to is a live object.                                *)
LEMMA OwnedLive ==
  ASSUME IInv, NEW o \in Objects, Owned(o)
  PROVE  status[o] = "live" /\ next[o] = 1 /\ rc[o] > 0
  <1>1. PICK g \in Handles : handle[g] = o
    BY DEF Owned
  <1> QED
    BY <1>1, NoDangling, ObjectsAssumption DEF IInv, FieldsOK

(* A handle takes one more reference to a live object (Share and Keep).    *)
LEMMA TakeInv ==
  ASSUME IInv, NEW h \in Handles, NEW o \in Objects, status[o] = "live",
         op.name = "none", handle[h] = NoObj,
         handle' = [handle EXCEPT ![h] = o], Incref(o),
         UNCHANGED <<status, kind, count, cell, keyAt, frees, next, op>>
  PROVE  IInv'
  <1>1. rc' = [rc EXCEPT ![o] = @ + 1] /\ rc[o] > 0
    BY DEF Incref, IInv, TypeOK, RefCountExact
  <1>2. TypeOK'
    BY <1>1 DEF IInv, TypeOK, Refs
  <1>3. RefCountExact'
    <2>1. /\ handle'[h] = o /\ \A r \in Handles \ {h} : handle'[r] = handle[r]
          /\ cell' = cell
      BY DEF IInv, TypeOK
    <2>2. \A x \in Objects : rc'[x] = rc[x] + (IF handle'[h] = x THEN 1 ELSE 0)
                                           - (IF handle[h] = x THEN 1 ELSE 0)
      BY <1>1, <2>1, ObjectsAssumption DEF IInv, TypeOK
    <2>3. \A x \in Objects : status'[x] = "live" <=> rc'[x] > 0
      BY <1>1 DEF IInv, TypeOK, RefCountExact
    <2> QED
      BY <2>1, <2>2, <2>3, HandleBalance DEF IInv
  <1>4. FreedOnce' /\ Packed' /\ FieldsOK' /\ OpOK'
    BY DEF IInv, FreedOnce, Packed, Hole, FieldsOK, OpOK
  <1> QED
    BY <1>2, <1>3, <1>4 DEF IInv

(* skp_incref of an owned object keeps the invariant.                      *)
LEMMA ShareInv ==
  ASSUME IInv, NEW g \in Handles, NEW h \in Handles, Share(g, h)
  PROVE  IInv'
  <1>1. handle[g] \in Objects /\ status[handle[g]] = "live"
    BY NoDangling DEF IInv, Share
  <1> QED
    BY <1>1, TakeInv DEF Share, Idle

(* skp_incref of a lent entry keeps the invariant.                         *)
LEMMA KeepInv ==
  ASSUME IInv, NEW c \in Cells, NEW h \in Handles, Keep(c, h)
  PROVE  IInv'
  <1>1. c[1] \in Objects /\ c[2] \in Positions /\ c[2] <= count[c[1]]
    BY CellShape DEF Keep
  <1>2. next[c[1]] = 1 /\ Hole = {}
    BY <1>1, OwnedLive DEF Hole, Keep, Idle
  <1>3. cell[c] # NoObj
    BY <1>1, <1>2 DEF IInv, Packed, Positions
  <1>4. cell[c] \in Objects /\ status[cell[c]] = "live"
    BY <1>3, NoDangling DEF IInv
  <1> QED
    BY <1>4, TakeInv DEF Keep, Idle

(* Everything but OpOK, for the steps that leave work in op.               *)
HeapInv == TypeOK /\ RefCountExact /\ FreedOnce /\ Packed /\ FieldsOK

(* A new object (New, ListSlice and ListConcat).                           *)
LEMMA AllocateInv ==
  ASSUME IInv, NEW o \in Objects, NEW h \in Handles,
         NEW k \in {"leaf", "list", "dict"}, Idle, Allocate(o, h, k),
         UNCHANGED <<cell, keyAt, frees, next>>,
         op' \in Ops, op'.name \in {"none", "copy"}
  PROVE  HeapInv'
  <1>1. /\ status[o] = "free" /\ status' = [status EXCEPT ![o] = "live"]
        /\ kind' = [kind EXCEPT ![o] = k] /\ rc' = [rc EXCEPT ![o] = 1]
        /\ count' = [count EXCEPT ![o] = 0]
        /\ handle[h] = NoObj /\ handle' = [handle EXCEPT ![h] = o]
    BY DEF Allocate
  <1>2. TypeOK'
    BY <1>1, CountAssumption DEF IInv, TypeOK, Refs
  <1>3. rc[o] = 0 /\ count[o] = 0 /\ next[o] = 1
    BY <1>1, NoDangling DEF IInv, RefCountExact, FieldsOK
  <1>4. RefCountExact'
    <2>1. /\ handle'[h] = o /\ \A r \in Handles \ {h} : handle'[r] = handle[r]
          /\ cell' = cell
      BY <1>1 DEF IInv, TypeOK
    <2>2. \A x \in Objects : rc'[x] = rc[x] + (IF handle'[h] = x THEN 1 ELSE 0)
                                           - (IF handle[h] = x THEN 1 ELSE 0)
      BY <1>1, <1>3, <2>1, ObjectsAssumption DEF IInv, TypeOK
    <2>3. \A x \in Objects : status'[x] = "live" <=> rc'[x] > 0
      BY <1>1 DEF IInv, TypeOK, RefCountExact
    <2> QED
      BY <2>1, <2>2, <2>3, HandleBalance DEF IInv
  <1>5. FreedOnce'
    BY <1>1 DEF IInv, TypeOK, FreedOnce, Idle
  <1>6. Packed'
    <2>1. count' = count /\ Hole = {} /\ Hole' = {}
      BY <1>1, <1>3 DEF IInv, TypeOK, Hole, Idle
    <2> QED
      BY <2>1 DEF IInv, Packed
  <1>7. FieldsOK'
    BY <1>1, <1>3 DEF IInv, TypeOK, FieldsOK
  <1> QED
    BY <1>2, <1>4, <1>5, <1>6, <1>7 DEF HeapInv

(* The constructors keep the invariant.                                    *)
LEMMA NewInv ==
  ASSUME IInv, NEW o \in Objects, NEW h \in Handles,
         NEW k \in {"leaf", "list", "dict"}, New(o, h, k)
  PROVE  IInv'
  <1>1. HeapInv'
    BY AllocateInv DEF New, Idle, IInv, TypeOK
  <1>2. OpOK'
    BY DEF New, Idle, OpOK
  <1> QED
    BY <1>1, <1>2 DEF HeapInv, IInv

(* A handle the client keeps through a step.                               *)
LEMMA OwnedKept ==
  ASSUME NEW o \in Objects, NEW p, NEW h \in Handles, Owned(o), handle[h] = NoObj,
         handle \in [Handles -> Refs], handle' = [handle EXCEPT ![h] = p]
  PROVE  Owned(o)' /\ Owned(p)'
  BY ObjectsAssumption DEF Owned

(* The start of skp_list_slice keeps the invariant.                        *)
LEMMA ListSliceInv ==
  ASSUME IInv, NEW l \in Objects, NEW o \in Objects, NEW h \in Handles,
         NEW start \in Bounds, NEW end \in Bounds, ListSlice(l, o, h, start, end)
  PROVE  IInv'
  <1> DEFINE s == SliceStart(start, count[l])
             e == SliceEnd(end, count[l])
  <1>1. count[l] \in 0 .. MaxCount /\ start \in Int /\ end \in Int /\ MaxCount \in Nat
    BY CountAssumption DEF IInv, TypeOK, Bounds
  <1>2. s \in Nat /\ e \in Int /\ e <= count[l]
    BY <1>1 DEF SliceStart, SliceEnd
  <1>3. op' = IF s >= e THEN op
              ELSE [NoOp EXCEPT !.name = "copy", !.obj = o, !.item = l,
                                !.pos = s + 1, !.last = e]
    BY DEF ListSlice
  <1> HIDE DEF s, e
  <1>4. s < e => op' = [name |-> "copy", obj |-> o, item |-> l, rest |-> NoObj,
                        pos |-> s + 1, last |-> e]
    <2>1. s < e => op' = [NoOp EXCEPT !.name = "copy", !.obj = o, !.item = l,
                                      !.pos = s + 1, !.last = e]
      BY <1>2, <1>3
    <2> QED
      BY <2>1 DEF NoOp
  <1>5. op.name = "none" /\ op \in Ops /\ frees = <<>>
    BY DEF ListSlice, Idle, IInv, TypeOK
  <1>6. op' \in Ops /\ op'.name \in {"none", "copy"}
    <2>1. CASE s >= e
      BY <1>3, <1>5, <2>1
    <2>2. CASE s < e
      BY <1>1, <1>2, <1>4, <2>2 DEF Ops, Refs
    <2> QED
      BY <1>2, <2>1, <2>2
  <1>7. HeapInv'
    BY <1>6, AllocateInv DEF ListSlice
  <1>8. OpOK'
    <2>1. CASE s >= e
      BY <1>3, <1>5, <2>1 DEF OpOK
    <2>2. CASE s < e
      <3>1. Owned(l)' /\ Owned(o)'
        BY OwnedKept DEF ListSlice, Allocate, IInv, TypeOK
      <3>2. l # o
        BY OwnedLive DEF ListSlice, Allocate
      <3>3. count'[l] = count[l] /\ frees' = <<>>
        BY <1>5, <3>2 DEF ListSlice, Allocate, IInv, TypeOK
      <3> QED
        BY <1>2, <1>4, <2>2, <3>1, <3>3 DEF OpOK
    <2> QED
      BY <1>2, <2>1, <2>2
  <1> QED
    BY <1>7, <1>8 DEF HeapInv, IInv

(* The start of skp_add on two lists keeps the invariant.                  *)
LEMMA ListConcatInv ==
  ASSUME IInv, NEW a \in Objects, NEW b \in Objects, NEW o \in Objects,
         NEW h \in Handles, ListConcat(a, b, o, h)
  PROVE  IInv'
  <1>1. count[a] \in 0 .. MaxCount /\ MaxCount \in Nat
    BY CountAssumption DEF IInv, TypeOK
  <1>2. op' = [name |-> "copy", obj |-> o, item |-> a, rest |-> b,
               pos |-> 1, last |-> count[a]]
    BY DEF ListConcat, NoOp
  <1>3. op' \in Ops
    BY <1>1, <1>2 DEF Ops, Refs
  <1>4. HeapInv'
    BY <1>2, <1>3, AllocateInv DEF ListConcat
  <1>5. Owned(a)' /\ Owned(b)' /\ Owned(o)'
    BY OwnedKept DEF ListConcat, Allocate, IInv, TypeOK
  <1>6. a # o
    BY OwnedLive DEF ListConcat, Allocate
  <1>7. count'[a] = count[a] /\ frees' = <<>>
    BY <1>6 DEF ListConcat, Allocate, Idle, IInv, TypeOK
  <1>8. OpOK'
    BY <1>1, <1>2, <1>5, <1>7 DEF OpOK
  <1> QED
    BY <1>4, <1>8 DEF HeapInv, IInv

-----------------------------------------------------------------------------
(* A new last entry (ListAppend, DictSet of a new key, CopyNext).          *)
LEMMA AddEntryInv ==
  ASSUME IInv, NEW o \in Objects, NEW k \in Keys \cup {NoKey},
         NEW item \in Objects, status[o] = "live", status[item] = "live",
         AddEntry(o, k, item), UNCHANGED <<status, kind, handle, frees, next>>,
         op.name \in {"none", "copy"},
         op' \in Ops, op'.name \in {"none", "copy"}
  PROVE  HeapInv' /\ count' = [count EXCEPT ![o] = @ + 1]
  <1> DEFINE c == <<o, count[o] + 1>>
  <1>1. /\ count[o] < MaxCount /\ count' = [count EXCEPT ![o] = @ + 1]
        /\ cell' = [cell EXCEPT ![c] = item] /\ keyAt' = [keyAt EXCEPT ![c] = k]
        /\ rc' = [rc EXCEPT ![item] = @ + 1]
    BY DEF AddEntry, Incref
  <1>2. count[o] \in Nat /\ MaxCount \in Nat
    BY CountAssumption DEF IInv, TypeOK
  <1>3. c \in Cells /\ c[1] = o /\ c[2] = count[o] + 1
    BY <1>1, <1>2 DEF Cells, Positions
  <1>4. cell[c] = NoObj
    BY <1>2, <1>3 DEF IInv, Packed
  <1>5. rc[item] > 0
    BY DEF IInv, RefCountExact
  <1>6. next[o] = 1
    BY DEF IInv, FieldsOK
  <1>7. TypeOK'
    <2>1. count' \in [Objects -> 0 .. MaxCount]
      BY <1>1, <1>2 DEF IInv, TypeOK
    <2> HIDE DEF c
    <2>2. cell' \in [Cells -> Refs]
      BY <1>1, <1>3 DEF IInv, TypeOK, Refs
    <2>3. keyAt' \in [Cells -> Keys \cup {NoKey}]
      BY <1>1, <1>3 DEF IInv, TypeOK
    <2>4. rc' \in [Objects -> Int]
      BY <1>1 DEF IInv, TypeOK
    <2> QED
      BY <2>1, <2>2, <2>3, <2>4 DEF IInv, TypeOK
  <1>8. RefCountExact'
    <2> HIDE DEF c
    <2>1. /\ cell'[c] = item /\ \A r \in Cells \ {c} : cell'[r] = cell[r]
          /\ handle' = handle
      BY <1>1, <1>3 DEF IInv, TypeOK
    <2>2. ASSUME NEW x \in Objects
          PROVE  rc[x] \in Int /\ rc'[x] = IF x = item THEN rc[x] + 1 ELSE rc[x]
      BY <1>1 DEF IInv, TypeOK
    <2>3. ASSUME NEW x \in Objects
          PROVE  rc'[x] = rc[x] + (IF cell'[c] = x THEN 1 ELSE 0)
                                - (IF cell[c] = x THEN 1 ELSE 0)
      <3>1. cell'[c] = item /\ cell[c] # x
        BY <1>4, <2>1, ObjectsAssumption
      <3> QED
        BY <2>2, <3>1
    <2>4. ASSUME NEW x \in Objects
          PROVE  status'[x] = "live" <=> rc'[x] > 0
      <3>1. status[x] = "live" <=> rc[x] > 0
        BY DEF IInv, RefCountExact
      <3>2. CASE x = item
        BY <1>5, <2>2, <3>2
      <3>3. CASE x # item
        BY <2>2, <3>1, <3>3
      <3> QED
        BY <3>2, <3>3
    <2>5. TypeOK /\ RefCountExact
      BY DEF IInv
    <2> QED
      BY <1>3, <2>1, <2>3, <2>4, <2>5, CellBalance
  <1>9. FreedOnce' /\ FieldsOK'
    <2>1. FreedOnce'
      BY DEF IInv, FreedOnce
    <2>2. FieldsOK'
      BY <1>1, <1>2 DEF IInv, TypeOK, FieldsOK
    <2> QED
      BY <2>1, <2>2
  <1>10. Packed'
    <2>1. Hole = {} /\ Hole' = {}
      BY DEF Hole
    <2> SUFFICES ASSUME NEW d \in Cells
                 PROVE  cell'[d] # NoObj <=> next[d[1]] <= d[2] /\ d[2] <= count'[d[1]]
      BY <2>1 DEF Packed
    <2>2. d[1] \in Objects /\ d[2] \in Positions /\ d = <<d[1], d[2]>>
      BY CellShape
    <2>3. cell[d] # NoObj <=> next[d[1]] <= d[2] /\ d[2] <= count[d[1]]
      BY <2>1 DEF IInv, Packed
    <2>4. CASE d[1] # o
      BY <1>1, <1>3, <2>2, <2>3, <2>4 DEF IInv, TypeOK
    <2>5. CASE d[1] = o /\ d[2] # count[o] + 1
      <3>1. d # c
        BY <1>3, <2>5
      <3>2. cell'[d] = cell[d]
        BY <1>1, <3>1 DEF IInv, TypeOK
      <3>3. count'[d[1]] = count[o] + 1 /\ d[2] \in Nat
        BY <1>1, <2>2, <2>5 DEF IInv, TypeOK, Positions
      <3> QED
        BY <1>2, <2>3, <2>5, <3>2, <3>3
    <2>6. CASE d[1] = o /\ d[2] = count[o] + 1
      <3>1. d = c
        BY <2>2, <2>6
      <3>2. cell'[d] = item /\ item # NoObj
        BY <1>1, <3>1, ObjectsAssumption DEF IInv, TypeOK
      <3>3. count'[d[1]] = count[o] + 1
        BY <1>1, <2>6 DEF IInv, TypeOK
      <3> QED
        BY <1>2, <1>6, <2>6, <3>2, <3>3
    <2> QED
      BY <2>4, <2>5, <2>6
  <1> QED
    BY <1>1, <1>7, <1>8, <1>9, <1>10 DEF HeapInv

(* skp_list_append keeps the invariant.                                    *)
LEMMA ListAppendInv ==
  ASSUME IInv, NEW l \in Objects, NEW item \in Objects, ListAppend(l, item)
  PROVE  IInv'
  <1>1. status[l] = "live" /\ status[item] = "live"
    BY OwnedLive DEF ListAppend
  <1>2. HeapInv'
    BY <1>1, AddEntryInv DEF ListAppend, Idle, IInv, TypeOK
  <1>3. OpOK'
    BY DEF ListAppend, Idle, OpOK
  <1> QED
    BY <1>2, <1>3 DEF HeapInv, IInv

(* One iteration of a copying loop keeps the invariant.                    *)
LEMMA CopyNextInv ==
  ASSUME IInv, CopyNext
  PROVE  IInv'
  <1> DEFINE c == <<op.item, op.pos>>
  <1>1. /\ op.name = "copy" /\ op.pos <= op.last
        /\ AddEntry(op.obj, NoKey, cell[c]) /\ op' = [op EXCEPT !.pos = @ + 1]
        /\ UNCHANGED <<status, kind, handle, frees, next>>
    BY DEF CopyNext
  <1>2. /\ op.obj \in Objects /\ Owned(op.obj) /\ op.item \in Objects /\ Owned(op.item)
        /\ op.last <= count[op.item] /\ frees = <<>>
        /\ op.rest # NoObj => Owned(op.rest)
    BY <1>1 DEF IInv, OpOK
  <1>3. /\ op \in Ops /\ op.pos \in 1 .. MaxCount + 1 /\ op.last \in 0 .. MaxCount
        /\ count[op.item] \in 0 .. MaxCount /\ MaxCount \in Nat
    BY <1>2, CountAssumption DEF IInv, TypeOK, Ops
  <1>4. c \in Cells /\ c[1] = op.item /\ c[2] = op.pos
    BY <1>1, <1>2, <1>3 DEF Cells, Positions
  <1>5. status[op.obj] = "live" /\ status[op.item] = "live" /\ next[op.item] = 1
    BY <1>2, OwnedLive
  <1>6. cell[c] # NoObj
    <2>1. Hole = {}
      BY <1>1 DEF Hole
    <2>2. next[c[1]] <= c[2] /\ c[2] <= count[c[1]]
      BY <1>1, <1>2, <1>3, <1>4, <1>5
    <2> QED
      BY <1>4, <2>1, <2>2 DEF IInv, Packed
  <1>7. cell[c] \in Objects /\ status[cell[c]] = "live"
    BY <1>4, <1>6, NoDangling DEF IInv
  <1>8. op'.pos = op.pos + 1 /\ op' \in Ops /\ op'.name = "copy"
        /\ op'.obj = op.obj /\ op'.item = op.item /\ op'.last = op.last /\ op'.rest = op.rest
    BY <1>1, <1>3 DEF Ops
  <1> HIDE DEF c
  <1>9. HeapInv' /\ count' = [count EXCEPT ![op.obj] = @ + 1]
    BY <1>1, <1>2, <1>5, <1>7, <1>8, AddEntryInv
  <1>10. count'[op.item] >= count[op.item]
    BY <1>2, <1>9 DEF IInv, TypeOK
  <1>11. OpOK'
    <2>1. op.last <= count'[op.item]
      BY <1>2, <1>3, <1>9, <1>10 DEF HeapInv, TypeOK
    <2>2. frees' = <<>> /\ handle' = handle
      BY <1>1, <1>2
    <2> QED
      BY <1>2, <1>8, <2>1, <2>2 DEF OpOK, Owned
  <1> QED
    BY <1>9, <1>11 DEF HeapInv, IInv

(* Only the note of what is left to do changes.                            *)
LEMMA OpOnlyInv ==
  ASSUME IInv, UNCHANGED <<status, kind, rc, count, cell, keyAt, handle, frees, next>>,
         op' \in Ops, Hole' = Hole
  PROVE  HeapInv'
  <1>1. TypeOK'
    BY DEF IInv, TypeOK
  <1>2. RefCountExact'
    BY DEF IInv, RefCountExact, HandlesTo, CellsTo
  <1>3. FreedOnce' /\ Packed' /\ FieldsOK'
    BY DEF IInv, FreedOnce, Packed, FieldsOK
  <1> QED
    BY <1>1, <1>2, <1>3 DEF HeapInv

(* The end of a copying loop keeps the invariant.                          *)
LEMMA CopyDoneInv ==
  ASSUME IInv, CopyDone
  PROVE  IInv'
  <1>1. /\ op.name = "copy"
        /\ UNCHANGED <<status, kind, rc, count, cell, keyAt, handle, frees, next>>
    BY DEF CopyDone
  <1>2. /\ op.obj \in Objects /\ Owned(op.obj) /\ frees = <<>> /\ op \in Ops
        /\ op.rest # NoObj => op.rest \in Objects /\ Owned(op.rest)
    BY <1>1 DEF IInv, OpOK, TypeOK, Ops, Refs
  <1>3. CASE op.rest = NoObj
    <2>1. op' = NoOp
      BY <1>3 DEF CopyDone
    <2>2. op' \in Ops /\ op'.name = "none"
      BY <2>1, CountAssumption DEF NoOp, Ops, Refs
    <2>3. HeapInv'
      BY <1>1, <2>2, OpOnlyInv DEF Hole
    <2> QED
      BY <2>2, <2>3 DEF HeapInv, IInv, OpOK
  <1>4. CASE op.rest # NoObj
    <2>1. op' = [op EXCEPT !.item = op.rest, !.rest = NoObj, !.pos = 1,
                           !.last = count[op.rest]]
      BY <1>4 DEF CopyDone
    <2>2. count[op.rest] \in 0 .. MaxCount /\ MaxCount \in Nat
      BY <1>2, <1>4, CountAssumption DEF IInv, TypeOK
    <2>3. /\ op'.name = "copy" /\ op'.obj = op.obj /\ op'.item = op.rest
          /\ op'.rest = NoObj /\ op'.last = count[op.rest]
      BY <1>1, <1>2, <2>1 DEF Ops
    <2>5. op' \in Ops
      <3>1. 1 \in 1 .. MaxCount + 1
        BY <2>2
      <3> QED
        BY <1>2, <1>4, <2>1, <2>2, <3>1 DEF Ops, Refs
    <2>4. OpOK'
      BY <1>1, <1>2, <1>4, <2>2, <2>3 DEF OpOK, Owned
    <2>6. HeapInv'
      BY <1>1, <2>3, <2>5, OpOnlyInv DEF Hole
    <2> QED
      BY <2>4, <2>6 DEF HeapInv, IInv
  <1> QED
    BY <1>3, <1>4

-----------------------------------------------------------------------------
(* An operation gives back one entry and leaves a hole (ListSet, DictSet   *)
(* of a known key, DictRemove).                                            *)
LEMMA EmptyCellInv ==
  ASSUME IInv, Idle, NEW o \in Objects, NEW i \in 1 .. count[o], status[o] = "live",
         cell' = [cell EXCEPT ![<<o, i>>] = NoObj], Decref(cell[<<o, i>>]),
         keyAt' \in [Cells -> Keys \cup {NoKey}],
         UNCHANGED <<kind, count, handle, next>>,
         op' \in Ops, op'.name \in {"store", "remove"}, op'.obj = o, op'.pos = i
  PROVE  HeapInv'
  <1> DEFINE c == <<o, i>>
             v == cell[c]
  <1>1. count[o] \in 0 .. MaxCount /\ MaxCount \in Nat /\ next[o] = 1 /\ op.name = "none"
    BY CountAssumption DEF IInv, TypeOK, FieldsOK, Idle
  <1>2. c \in Cells /\ c[1] = o /\ c[2] = i
    BY <1>1 DEF Cells, Positions
  <1>3. v \in Objects /\ status[v] = "live"
    <2>1. Hole = {}
      BY <1>1 DEF Hole
    <2>2. v # NoObj
      BY <1>1, <1>2, <2>1 DEF IInv, Packed
    <2> QED
      BY <1>2, <2>2, NoDangling DEF IInv
  <1>4. Hole = {} /\ Hole' = {c}
    BY <1>1 DEF Hole
  <1> HIDE DEF c, v
  <1>5. /\ rc' \in [Objects -> Int]
        /\ status' \in [Objects -> {"free", "live", "dying"}]
        /\ frees' \in Seq(Objects)
        /\ FreedOnce'
        /\ \A x \in Objects : rc'[x] = rc[x] - (IF x = v THEN 1 ELSE 0)
        /\ \A x \in Objects : status'[x] = "live" <=> rc'[x] > 0
        /\ \A x \in Objects : x # v => status'[x] = status[x]
        /\ status'[v] \in {"live", "dying"}
    BY <1>3, DecrefStep DEF IInv, c, v
  <1>6. cell' = [cell EXCEPT ![c] = NoObj]
    BY DEF c
  <1>7. TypeOK'
    BY <1>2, <1>5, <1>6 DEF IInv, TypeOK, Refs
  <1>8. RefCountExact'
    <2>1. /\ cell'[c] = NoObj /\ \A r \in Cells \ {c} : cell'[r] = cell[r]
          /\ handle' = handle
      BY <1>2, <1>6 DEF IInv, TypeOK
    <2>2. \A x \in Objects : rc'[x] = rc[x] + (IF cell'[c] = x THEN 1 ELSE 0)
                                           - (IF cell[c] = x THEN 1 ELSE 0)
      <3>1. cell[c] = v
        BY DEF v
      <3>2. \A x \in Objects : rc[x] \in Int
        BY DEF IInv, TypeOK
      <3> QED
        BY <1>5, <2>1, <3>1, <3>2, ObjectsAssumption
    <2> QED
      BY <1>2, <1>5, <2>1, <2>2, CellBalance DEF IInv
  <1>9. Packed'
    <2>1. cell'[c] = NoObj /\ \A r \in Cells \ {c} : cell'[r] = cell[r]
      BY <1>2, <1>6 DEF IInv, TypeOK
    <2> QED
      BY <1>4, <2>1 DEF IInv, Packed
  <1>10. FieldsOK'
    BY <1>3, <1>5 DEF IInv, FieldsOK
  <1> QED
    BY <1>5, <1>7, <1>8, <1>9, <1>10 DEF HeapInv

(* Giving back an entry that is to be replaced keeps the invariant.        *)
LEMMA OverwriteInv ==
  ASSUME IInv, Idle, NEW o \in Objects, NEW item \in Objects, Owned(o), Owned(item),
         NEW i \in 1 .. count[o], Overwrite(o, i, item)
  PROVE  IInv'
  <1>1. op' = [name |-> "store", obj |-> o, item |-> item, rest |-> NoObj,
               pos |-> i, last |-> 0]
    BY DEF Overwrite, NoOp
  <1>2. count[o] \in 0 .. MaxCount /\ MaxCount \in Nat
    BY CountAssumption DEF IInv, TypeOK
  <1>3. op' \in Ops
    BY <1>1, <1>2 DEF Ops, Refs
  <1>4. status[o] = "live"
    BY OwnedLive
  <1>5. HeapInv'
    BY <1>1, <1>3, <1>4, EmptyCellInv DEF Overwrite, IInv, TypeOK
  <1>6. OpOK'
    <2>1. UNCHANGED <<count, handle>> /\ i <= count[o]
      BY <1>2 DEF Overwrite
    <2> QED
      BY <1>1, <2>1 DEF OpOK, Owned
  <1> QED
    BY <1>5, <1>6 DEF HeapInv, IInv

(* skp_list_set up to its store keeps the invariant.                       *)
LEMMA ListSetInv ==
  ASSUME IInv, NEW l \in Objects, NEW item \in Objects, NEW i \in Positions,
         ListSet(l, i, item)
  PROVE  IInv'
  <1>1. i \in 1 .. count[l]
    BY CountAssumption DEF ListSet, Positions, IInv, TypeOK
  <1> QED
    BY <1>1, OverwriteInv DEF ListSet

(* skp_dict_set, up to its store if the key is known, keeps the invariant. *)
LEMMA DictSetInv ==
  ASSUME IInv, NEW d \in Objects, NEW item \in Objects, NEW k \in Keys,
         DictSet(d, k, item)
  PROVE  IInv'
  <1>1. ASSUME NEW i \in Positions, Found(d, k, i), Overwrite(d, i, item)
        PROVE  IInv'
    <2>1. i \in 1 .. count[d]
      BY <1>1, CountAssumption DEF Found, Positions, IInv, TypeOK
    <2>2. Idle /\ Owned(d) /\ Owned(item)
      BY DEF DictSet
    <2> QED
      BY <1>1, <2>1, <2>2, OverwriteInv
  <1>2. CASE ~ \E i \in Positions : Found(d, k, i)
    <2>1. /\ AddEntry(d, k, item)
          /\ UNCHANGED <<status, kind, handle, frees, next, op>>
          /\ Owned(d) /\ Owned(item) /\ op.name = "none" /\ op \in Ops
      BY <1>2 DEF DictSet, Idle, IInv, TypeOK
    <2>2. status[d] = "live" /\ status[item] = "live"
      BY <2>1, OwnedLive
    <2>3. HeapInv'
      BY <2>1, <2>2, AddEntryInv
    <2>4. OpOK'
      BY <2>1 DEF OpOK
    <2> QED
      BY <2>3, <2>4 DEF HeapInv, IInv
  <1> QED
    BY <1>1, <1>2 DEF DictSet

(* skp_dict_remove up to its shift keeps the invariant.                    *)
LEMMA DictRemoveInv ==
  ASSUME IInv, NEW d \in Objects, NEW k \in Keys, DictRemove(d, k)
  PROVE  IInv'
  <1>1. PICK i \in Positions :
          /\ Found(d, k, i)
          /\ keyAt' = [keyAt EXCEPT ![<<d, i>>] = NoKey]
          /\ cell' = [cell EXCEPT ![<<d, i>>] = NoObj]
          /\ op' = [NoOp EXCEPT !.name = "remove", !.obj = d, !.pos = i]
          /\ Decref(cell[<<d, i>>])
    BY DEF DictRemove
  <1>2. Idle /\ Owned(d) /\ UNCHANGED <<kind, count, handle, next>>
    BY DEF DictRemove
  <1>3. op' = [name |-> "remove", obj |-> d, item |-> NoObj, rest |-> NoObj,
               pos |-> i, last |-> 0]
    BY <1>1 DEF NoOp
  <1>4. /\ count[d] \in 0 .. MaxCount /\ MaxCount \in Nat
        /\ i \in 1 .. count[d]
    BY <1>1, CountAssumption DEF Found, Positions, IInv, TypeOK
  <1>5. op' \in Ops
    BY <1>3, <1>4 DEF Ops, Refs
  <1>6. status[d] = "live"
    BY <1>2, OwnedLive
  <1>7. keyAt' \in [Cells -> Keys \cup {NoKey}]
    BY <1>1 DEF IInv, TypeOK
  <1>8. HeapInv'
    BY <1>1, <1>2, <1>3, <1>4, <1>5, <1>6, <1>7, EmptyCellInv
  <1>9. OpOK'
    BY <1>2, <1>3, <1>4 DEF OpOK, Owned
  <1> QED
    BY <1>8, <1>9 DEF HeapInv, IInv

(* The store that ends skp_list_set and skp_dict_set keeps the invariant.  *)
LEMMA FinishStoreInv ==
  ASSUME IInv, FinishStore
  PROVE  IInv'
  <1> DEFINE c == <<op.obj, op.pos>>
             v == op.item
             o == op.obj
  <1>1. /\ frees = <<>> /\ op.name = "store" /\ op' = NoOp
        /\ cell' = [cell EXCEPT ![c] = v] /\ rc' = [rc EXCEPT ![v] = @ + 1]
        /\ UNCHANGED <<status, kind, count, keyAt, handle, frees, next>>
    BY DEF FinishStore, Incref
  <1>2. /\ o \in Objects /\ Owned(o) /\ v \in Objects /\ Owned(v)
        /\ op.pos <= count[o]
    BY <1>1 DEF IInv, OpOK
  <1>3. op.pos \in 1 .. MaxCount + 1 /\ count[o] \in 0 .. MaxCount /\ MaxCount \in Nat
    BY <1>2, CountAssumption DEF IInv, TypeOK, Ops
  <1>4. c \in Cells /\ c[1] = o /\ c[2] = op.pos
    BY <1>2, <1>3 DEF Cells, Positions
  <1>5. Hole = {c} /\ Hole' = {}
    BY <1>1 DEF Hole, NoOp
  <1>6. cell[c] = NoObj
    BY <1>4, <1>5 DEF IInv, Packed
  <1>7. next[o] = 1 /\ rc[v] > 0
    BY <1>2, OwnedLive
  <1>8. op' \in Ops /\ op'.name = "none"
    BY <1>1, CountAssumption DEF NoOp, Ops, Refs
  <1>9. \A x \in Objects : rc[x] \in Int
    BY DEF IInv, TypeOK
  <1> HIDE DEF c, v, o
  <1>10. cell'[c] = v /\ \A r \in Cells \ {c} : cell'[r] = cell[r]
    BY <1>1, <1>4 DEF IInv, TypeOK
  <1>11. TypeOK'
    BY <1>1, <1>2, <1>4, <1>8 DEF IInv, TypeOK, Refs
  <1>12. RefCountExact'
    <2>1. \A x \in Objects : rc'[x] = rc[x] + (IF cell'[c] = x THEN 1 ELSE 0)
                                           - (IF cell[c] = x THEN 1 ELSE 0)
      BY <1>1, <1>2, <1>6, <1>9, <1>10, ObjectsAssumption DEF IInv, TypeOK
    <2>2. \A x \in Objects : status'[x] = "live" <=> rc'[x] > 0
      BY <1>1, <1>2, <1>7 DEF IInv, TypeOK, RefCountExact
    <2> QED
      BY <1>1, <1>4, <1>10, <2>1, <2>2, CellBalance DEF IInv
  <1>13. FreedOnce' /\ FieldsOK'
    BY <1>1 DEF IInv, FreedOnce, FieldsOK
  <1>14. Packed'
    <2>1. v # NoObj /\ next[c[1]] <= c[2] /\ c[2] <= count[c[1]]
      BY <1>2, <1>3, <1>4, <1>7, ObjectsAssumption DEF o
    <2>2. UNCHANGED <<count, next>>
      BY <1>1
    <2> QED
      BY <1>4, <1>5, <1>10, <2>1, <2>2 DEF IInv, Packed
  <1>15. OpOK'
    BY <1>8 DEF OpOK
  <1> QED
    BY <1>11, <1>12, <1>13, <1>14, <1>15 DEF IInv

(* The object the innermost activation of skp_free works on.               *)
LEMMA TopFacts ==
  ASSUME IInv, frees # <<>>
  PROVE  /\ Len(frees) \in Nat \ {0}
         /\ frees[Len(frees)] \in Objects
         /\ status[frees[Len(frees)]] = "dying"
         /\ ~ Owned(frees[Len(frees)])
         /\ op.name # "copy"
         /\ op.name # "none" => op.obj # frees[Len(frees)]
  <1> DEFINE o == frees[Len(frees)]
  <1>1. frees \in Seq(Objects)
    BY DEF IInv, TypeOK
  <1>2. Len(frees) \in Nat \ {0} /\ o \in Objects
    BY <1>1
  <1>3. status[o] = "dying"
    BY <1>2 DEF IInv, FreedOnce
  <1>4. ~ Owned(o)
    BY <1>2, <1>3, OwnedLive
  <1>5. op.name # "copy" /\ (op.name # "none" => op.obj # o)
    BY <1>4 DEF IInv, OpOK
  <1> QED
    BY <1>2, <1>3, <1>4, <1>5

(* One iteration of skp_free's loop keeps the invariant.                   *)
LEMMA ReleaseNextInv ==
  ASSUME IInv, ReleaseNext
  PROVE  IInv'
  <1> DEFINE o == frees[Len(frees)]
             c == <<o, next[o]>>
             v == cell[c]
  <1>1. /\ next[o] <= count[o]
        /\ next' = [next EXCEPT ![o] = @ + 1]
        /\ cell' = [cell EXCEPT ![c] = NoObj]
        /\ keyAt' = [keyAt EXCEPT ![c] = NoKey]
        /\ Decref(v)
        /\ UNCHANGED <<kind, count, handle, op>>
    BY DEF ReleaseNext
  <1>2. /\ o \in Objects /\ status[o] = "dying" /\ op.name # "copy"
        /\ op.name # "none" => op.obj # o
    BY TopFacts DEF ReleaseNext
  <1>3. count[o] \in 0 .. MaxCount /\ next[o] \in 1 .. MaxCount + 1 /\ MaxCount \in Nat
    BY <1>2, CountAssumption DEF IInv, TypeOK
  <1>4. c \in Cells /\ c[1] = o /\ c[2] = next[o]
    BY <1>1, <1>2, <1>3 DEF Cells, Positions
  <1>5. c \notin Hole
    BY <1>2, <1>4 DEF Hole
  <1>6. v \in Objects /\ status[v] = "live"
    <2>1. v # NoObj
      BY <1>1, <1>3, <1>4, <1>5 DEF IInv, Packed
    <2> QED
      BY <1>4, <2>1, NoDangling DEF IInv
  <1> HIDE DEF o, c, v
  <1>7. /\ rc' \in [Objects -> Int]
        /\ status' \in [Objects -> {"free", "live", "dying"}]
        /\ frees' \in Seq(Objects)
        /\ FreedOnce'
        /\ \A x \in Objects : rc'[x] = rc[x] - (IF x = v THEN 1 ELSE 0)
        /\ \A x \in Objects : status'[x] = "live" <=> rc'[x] > 0
        /\ \A x \in Objects : x # v => status'[x] = status[x]
        /\ status'[v] \in {"live", "dying"}
    BY <1>1, <1>6, DecrefStep DEF IInv
  <1>8. cell'[c] = NoObj /\ \A r \in Cells \ {c} : cell'[r] = cell[r]
    BY <1>1, <1>4 DEF IInv, TypeOK
  <1>9. TypeOK'
    <2>1. next' \in [Objects -> 1 .. MaxCount + 1]
      BY <1>1, <1>2, <1>3 DEF IInv, TypeOK
    <2>2. cell' \in [Cells -> Refs] /\ keyAt' \in [Cells -> Keys \cup {NoKey}]
      BY <1>1, <1>4 DEF IInv, TypeOK, Refs
    <2> QED
      BY <1>1, <1>7, <2>1, <2>2 DEF IInv, TypeOK
  <1>10. RefCountExact'
    <2>1. cell[c] = v /\ handle' = handle
      BY <1>1 DEF v
    <2>2. \A x \in Objects : rc[x] \in Int
      BY DEF IInv, TypeOK
    <2>3. \A x \in Objects : rc'[x] = rc[x] + (IF cell'[c] = x THEN 1 ELSE 0)
                                           - (IF cell[c] = x THEN 1 ELSE 0)
      BY <1>7, <1>8, <2>1, <2>2, ObjectsAssumption
    <2> QED
      BY <1>4, <1>7, <1>8, <2>1, <2>3, CellBalance DEF IInv
  <1>11. Packed'
    <2>1. Hole' = Hole /\ count' = count
      BY <1>1 DEF Hole
    <2> SUFFICES ASSUME NEW d \in Cells
                 PROVE  cell'[d] # NoObj <=> /\ next'[d[1]] <= d[2] /\ d[2] <= count[d[1]]
                                            /\ d \notin Hole
      BY <2>1 DEF Packed
    <2>2. /\ d[1] \in Objects /\ d[2] \in Positions /\ d = <<d[1], d[2]>>
          /\ d[2] \in Nat
      BY CellShape DEF Positions
    <2>3. cell[d] # NoObj <=> /\ next[d[1]] <= d[2] /\ d[2] <= count[d[1]]
                              /\ d \notin Hole
      BY DEF IInv, Packed
    <2>4. CASE d[1] # o
      <3>1. next'[d[1]] = next[d[1]]
        BY <1>1, <2>2, <2>4 DEF IInv, TypeOK
      <3>2. cell'[d] = cell[d]
        BY <1>4, <1>8, <2>4
      <3> QED
        BY <2>3, <3>1, <3>2
    <2>5. CASE d[1] = o
      <3>1. next'[o] = next[o] + 1
        BY <1>1, <1>2 DEF IInv, TypeOK
      <3>2. CASE d[2] = next[o]
        <4>1. d = c
          BY <2>2, <2>5, <3>2 DEF c
        <4> QED
          BY <1>3, <1>8, <2>5, <3>1, <3>2, <4>1
      <3>3. CASE d[2] # next[o]
        <4>1. cell'[d] = cell[d]
          BY <1>4, <1>8, <3>3
        <4> QED
          BY <1>3, <2>2, <2>3, <2>5, <3>1, <3>3, <4>1
      <3> QED
        BY <3>2, <3>3
    <2> QED
      BY <2>4, <2>5
  <1>12. FieldsOK'
    <2>1. \A x \in Objects : x # o => next'[x] = next[x]
      BY <1>1 DEF IInv, TypeOK
    <2>2. status'[o] = "dying" /\ count' = count
      BY <1>1, <1>2, <1>6, <1>7
    <2> QED
      BY <1>6, <1>7, <2>1, <2>2 DEF IInv, FieldsOK
  <1>13. OpOK'
    BY <1>1, <1>2 DEF IInv, OpOK, Owned
  <1> QED
    BY <1>7, <1>9, <1>10, <1>11, <1>12, <1>13 DEF IInv

(* The end of skp_free keeps the invariant.                                *)
LEMMA FreeObjectInv ==
  ASSUME IInv, FreeObject
  PROVE  IInv'
  <1> DEFINE o == frees[Len(frees)]
  <1>1. /\ frees # <<>> /\ next[o] > count[o]
        /\ status' = [status EXCEPT ![o] = "free"]
        /\ kind' = [kind EXCEPT ![o] = "leaf"]
        /\ count' = [count EXCEPT ![o] = 0]
        /\ next' = [next EXCEPT ![o] = 1]
        /\ cell' = [c \in Cells |-> IF c[1] = o THEN NoObj ELSE cell[c]]
        /\ keyAt' = [c \in Cells |-> IF c[1] = o THEN NoKey ELSE keyAt[c]]
        /\ frees' = SubSeq(frees, 1, Len(frees) - 1)
        /\ UNCHANGED <<rc, handle, op>>
    BY DEF FreeObject
  <1>2. /\ Len(frees) \in Nat \ {0} /\ o \in Objects /\ status[o] = "dying"
        /\ ~ Owned(o) /\ op.name # "copy" /\ (op.name # "none" => op.obj # o)
    BY <1>1, TopFacts
  <1>3. /\ frees' \in Seq(Objects) /\ Len(frees') = Len(frees) - 1
        /\ \A i \in 1 .. Len(frees) - 1 : frees'[i] = frees[i]
    <2> DEFINE n == Len(frees) - 1
    <2>1. n \in Nat /\ \A i \in 1 .. n : frees[i] \in Objects
      BY <1>2 DEF IInv, TypeOK
    <2>2. frees' = SubSeq(frees, 1, n)
      BY <1>1
    <2> HIDE DEF n
    <2>3. /\ SubSeq(frees, 1, n) \in Seq(Objects)
          /\ Len(SubSeq(frees, 1, n)) = IF 1 <= n THEN n - 1 + 1 ELSE 0
          /\ \A i \in 1 .. n - 1 + 1 : SubSeq(frees, 1, n)[i] = frees[1 + i - 1]
      BY <2>1, SubSeqProperties
    <2>4. /\ frees' \in Seq(Objects) /\ Len(frees') = n
          /\ \A i \in 1 .. n : frees'[i] = frees[i]
      BY <2>1, <2>2, <2>3
    <2> QED
      BY <2>4 DEF n
  <1>4. FreedOnce'
    <2>1. \A i \in 1 .. Len(frees) - 1 : frees[i] # o
      BY <1>2 DEF IInv, FreedOnce
    <2>2. \A x \in Objects : status'[x] = IF x = o THEN "free" ELSE status[x]
      BY <1>1 DEF IInv, TypeOK
    <2>3. \A i, j \in 1 .. Len(frees') : frees'[i] = frees'[j] => i = j
      BY <1>2, <1>3 DEF IInv, FreedOnce
    <2>4. ASSUME NEW x \in Objects
          PROVE  status'[x] = "dying" <=> \E i \in 1 .. Len(frees') : frees'[i] = x
      <3>1. status[x] = "dying" <=> \E i \in 1 .. Len(frees) : frees[i] = x
        BY DEF IInv, FreedOnce
      <3>2. CASE x = o
        BY <1>2, <1>3, <2>1, <2>2, <3>2
      <3>3. CASE x # o
        BY <1>2, <1>3, <2>2, <3>1, <3>3
      <3> QED
        BY <3>2, <3>3
    <2> QED
      BY <2>3, <2>4 DEF FreedOnce
  <1> HIDE DEF o
  <1>5. MaxCount \in Nat
    BY CountAssumption
  <1>6. cell' = cell
    <2>1. ASSUME NEW c \in Cells, c[1] = o
          PROVE  cell[c] = NoObj
      <3>1. c[2] \in Nat /\ count[o] \in Nat /\ next[o] \in Nat
        <4>1. c[2] \in Nat
          BY <1>5, CellShape DEF Positions
        <4>2. count[o] \in 0 .. MaxCount /\ next[o] \in 1 .. MaxCount + 1
          BY <1>2 DEF IInv, TypeOK
        <4> QED
          BY <1>5, <4>1, <4>2
      <3> QED
        BY <1>1, <2>1, <3>1 DEF IInv, Packed
    <2> QED
      BY <1>1, <2>1 DEF IInv, TypeOK
  <1>7. TypeOK'
    <2>1. /\ status' \in [Objects -> {"free", "live", "dying"}]
          /\ kind' \in [Objects -> {"leaf", "list", "dict"}]
      BY <1>1 DEF IInv, TypeOK
    <2>2. count' \in [Objects -> 0 .. MaxCount] /\ next' \in [Objects -> 1 .. MaxCount + 1]
      <3>1. 0 \in 0 .. MaxCount /\ 1 \in 1 .. MaxCount + 1
        BY <1>5
      <3>2. count \in [Objects -> 0 .. MaxCount] /\ next \in [Objects -> 1 .. MaxCount + 1]
        BY DEF IInv, TypeOK
      <3> QED
        BY <1>1, <3>1, <3>2
    <2>3. keyAt' \in [Cells -> Keys \cup {NoKey}]
      BY <1>1 DEF IInv, TypeOK
    <2> QED
      BY <1>1, <1>3, <1>6, <2>1, <2>2, <2>3 DEF IInv, TypeOK
  <1>8. RefCountExact'
    <2>1. \A x \in Objects : status'[x] = "live" <=> status[x] = "live"
      BY <1>1, <1>2 DEF IInv, TypeOK
    <2>2. ASSUME NEW x \in Objects
          PROVE  HandlesTo(x)' = HandlesTo(x) /\ CellsTo(x)' = CellsTo(x)
      BY <1>1, <1>6 DEF HandlesTo, CellsTo
    <2> QED
      BY <1>1, <2>1, <2>2 DEF IInv, RefCountExact
  <1>9. Packed'
    <2>1. Hole' = Hole
      BY <1>1 DEF Hole
    <2> SUFFICES ASSUME NEW d \in Cells
                 PROVE  cell[d] # NoObj <=> /\ next'[d[1]] <= d[2] /\ d[2] <= count'[d[1]]
                                           /\ d \notin Hole
      BY <1>6, <2>1 DEF Packed
    <2>2. d[1] \in Objects /\ d[2] \in Nat \ {0}
      BY CellShape, <1>5 DEF Positions
    <2>3. CASE d[1] # o
      <3>1. next'[d[1]] = next[d[1]] /\ count'[d[1]] = count[d[1]]
        BY <1>1, <2>2, <2>3 DEF IInv, TypeOK
      <3> QED
        BY <3>1 DEF IInv, Packed
    <2>4. CASE d[1] = o
      <3>1. count'[d[1]] = 0
        BY <1>1, <2>2, <2>4 DEF IInv, TypeOK
      <3>2. cell[d] = NoObj
        BY <1>1, <1>6, <2>4
      <3> QED
        BY <2>2, <3>1, <3>2
    <2> QED
      BY <2>3, <2>4
  <1>10. FieldsOK'
    BY <1>1, <1>2 DEF IInv, TypeOK, FieldsOK
  <1>11. OpOK'
    <2>1. op.name = "none" \/ op.obj \in Objects \ {o}
      BY <1>2 DEF IInv, OpOK
    <2>2. op.name = "none" \/ count'[op.obj] = count[op.obj]
      BY <1>1, <2>1 DEF IInv, TypeOK
    <2> QED
      BY <1>1, <1>2, <2>2 DEF IInv, OpOK, Owned
  <1> QED
    BY <1>4, <1>7, <1>8, <1>9, <1>10, <1>11 DEF IInv

(* Closing the hole loses no entry and makes none.                         *)
LEMMA ShiftCount ==
  ASSUME NEW f, NEW o \in Objects, NEW i \in 1 .. count[o],
         count[o] \in 0 .. MaxCount, NEW none, NEW x, x # none,
         f[<<o, i>>] # x,
         \A c \in Cells : c[1] = o /\ c[2] > count[o] => f[c] # x
  PROVE  Count(Shifted(f, o, i, none), Cells, x) = Count(f, Cells, x)
  <1> DEFINE g == Shifted(f, o, i, none)
             A == {c \in Cells : f[c] = x}
             B == {c \in Cells : g[c] = x}
             m == [c \in B |-> IF c[1] = o /\ c[2] >= i THEN <<o, c[2] + 1>> ELSE c]
  <1>1. MaxCount \in Nat /\ i \in Nat \ {0} /\ count[o] \in Nat /\ count[o] <= MaxCount
    BY CountAssumption
  <1>2. ASSUME NEW c \in Cells
        PROVE  /\ c[1] \in Objects /\ c[2] \in Nat /\ 1 <= c[2] /\ c[2] <= MaxCount
               /\ c = <<c[1], c[2]>>
    BY <1>1, CellShape DEF Positions
  <1>3. ASSUME NEW p \in Objects, NEW n \in Nat, 1 <= n, n <= MaxCount
        PROVE  <<p, n>> \in Cells
    BY <1>1, <1>3 DEF Cells, Positions
  <1>4. ASSUME NEW c \in Cells
        PROVE  g[c] = IF c[1] # o \/ c[2] < i THEN f[c]
                      ELSE IF c[2] < count[o] THEN f[<<o, c[2] + 1>>] ELSE none
    BY DEF Shifted
  <1> HIDE DEF g
  <1>5. ASSUME NEW c \in B
        PROVE  m[c] \in A
    <2>1. c \in Cells /\ g[c] = x
      OBVIOUS
    <2>2. CASE c[1] = o /\ c[2] >= i
      <3>1. c[2] < count[o] /\ f[<<o, c[2] + 1>>] = x
        BY <1>1, <1>2, <1>4, <2>1, <2>2
      <3>2. <<o, c[2] + 1>> \in Cells
        BY <1>1, <1>2, <1>3, <2>1, <3>1
      <3> QED
        BY <2>2, <3>1, <3>2
    <2>3. CASE ~(c[1] = o /\ c[2] >= i)
      BY <1>1, <1>2, <1>4, <2>1, <2>3
    <2> QED
      BY <2>2, <2>3
  <1>6. ASSUME NEW c \in B, NEW d \in B, m[c] = m[d]
        PROVE  c = d
    <2>1. c \in Cells /\ d \in Cells
      OBVIOUS
    <2>2. /\ c[2] \in Nat /\ d[2] \in Nat /\ c = <<c[1], c[2]>> /\ d = <<d[1], d[2]>>
      BY <1>2, <2>1
    <2>3. m[c] = <<c[1], IF c[1] = o /\ c[2] >= i THEN c[2] + 1 ELSE c[2]>>
      BY <2>2
    <2>4. m[d] = <<d[1], IF d[1] = o /\ d[2] >= i THEN d[2] + 1 ELSE d[2]>>
      BY <2>2
    <2>5. c[1] = d[1]
      BY <1>6, <2>3, <2>4
    <2>6. c[2] = d[2]
      BY <1>1, <1>6, <2>2, <2>3, <2>4, <2>5
    <2> QED
      BY <2>2, <2>5, <2>6
  <1>7. ASSUME NEW a \in A
        PROVE  \E b \in B : m[b] = a
    <2>1. a \in Cells /\ f[a] = x
      OBVIOUS
    <2>2. CASE a[1] = o /\ a[2] >= i
      <3>1. a[2] # i
        BY <1>2, <2>1, <2>2
      <3>2. a[2] <= count[o] /\ a[2] \in Nat /\ a[2] > i
        BY <1>1, <1>2, <2>1, <2>2, <3>1
      <3> DEFINE b == <<o, a[2] - 1>>
      <3>3. b \in Cells /\ b[1] = o /\ b[2] = a[2] - 1
        BY <1>1, <1>3, <3>2
      <3>4. <<o, b[2] + 1>> = a
        BY <1>2, <2>1, <2>2, <3>2, <3>3
      <3> HIDE DEF b
      <3>5. g[b] = x
        BY <1>1, <1>4, <2>1, <3>2, <3>3, <3>4
      <3>6. m[b] = a
        BY <1>1, <3>2, <3>3, <3>4, <3>5
      <3> QED
        BY <3>3, <3>5, <3>6
    <2>3. CASE ~(a[1] = o /\ a[2] >= i)
      <3>1. g[a] = x
        <4>1. a[1] # o \/ a[2] < i
          BY <1>1, <1>2, <2>1, <2>3
        <4>2. g[a] = f[a]
          BY <1>4, <2>1, <4>1
        <4> QED
          BY <2>1, <4>2
      <3> QED
        BY <2>1, <2>3, <3>1
    <2> QED
      BY <2>2, <2>3
  <1>8. m \in [B -> A]
    BY <1>5
  <1>9. IsFiniteSet(B)
    BY CellsFinite, FS_Subset
  <1> HIDE DEF A, B, m
  <1>10. m \in Bijection(B, A)
    <2>1. m \in Injection(B, A)
      BY <1>6, <1>8 DEF Injection, IsInjective
    <2>2. m \in Surjection(B, A)
      BY <1>7, <1>8 DEF Surjection
    <2> QED
      BY <2>1, <2>2 DEF Bijection
  <1>11. Cardinality(A) = Cardinality(B)
    BY <1>9, <1>10, FS_Bijection DEF ExistsBijection
  <1> QED
    BY <1>11 DEF A, B, Count, g

(* The shift that ends skp_dict_remove keeps the invariant.                *)
LEMMA FinishRemoveInv ==
  ASSUME IInv, FinishRemove
  PROVE  IInv'
  <1> DEFINE o == op.obj
             i == op.pos
  <1>1. /\ frees = <<>> /\ op.name = "remove" /\ op' = NoOp
        /\ cell' = Shifted(cell, o, i, NoObj)
        /\ keyAt' = Shifted(keyAt, o, i, NoKey)
        /\ count' = [count EXCEPT ![o] = @ - 1]
        /\ UNCHANGED <<status, kind, rc, handle, frees, next>>
    BY DEF FinishRemove
  <1>2. o \in Objects /\ Owned(o) /\ i <= count[o]
    BY <1>1 DEF IInv, OpOK
  <1>3. i \in 1 .. count[o] /\ count[o] \in 0 .. MaxCount /\ MaxCount \in Nat /\ i \in Nat
    BY <1>2, CountAssumption DEF IInv, TypeOK, Ops
  <1>4. Hole = {<<o, i>>} /\ Hole' = {}
    BY <1>1 DEF Hole, NoOp
  <1>5. next[o] = 1
    BY <1>2, OwnedLive
  <1>6. <<o, i>> \in Cells /\ cell[<<o, i>>] = NoObj
    <2>1. <<o, i>> \in Cells
      BY <1>2, <1>3 DEF Cells, Positions
    <2> QED
      BY <1>4, <2>1 DEF IInv, Packed
  <1>7. op' \in Ops /\ op'.name = "none"
    BY <1>1, CountAssumption DEF NoOp, Ops, Refs
  <1> HIDE DEF o, i
  <1>8. ASSUME NEW c \in Cells
        PROVE  /\ c[1] \in Objects /\ c[2] \in Nat /\ 1 <= c[2] /\ c[2] <= MaxCount
               /\ c = <<c[1], c[2]>>
    BY <1>3, CellShape DEF Positions
  <1>9. ASSUME NEW c \in Cells, c[1] = o, c[2] < count[o]
        PROVE  <<o, c[2] + 1>> \in Cells
    BY <1>2, <1>3, <1>8, <1>9 DEF Cells, Positions
  <1>10. ASSUME NEW c \in Cells
         PROVE  cell'[c] = IF c[1] # o \/ c[2] < i THEN cell[c]
                           ELSE IF c[2] < count[o] THEN cell[<<o, c[2] + 1>>] ELSE NoObj
    BY <1>1 DEF Shifted
  <1>11. cell[<<o, i>>] = NoObj /\ \A c \in Cells :
           cell[c] # NoObj <=> next[c[1]] <= c[2] /\ c[2] <= count[c[1]] /\ c # <<o, i>>
    BY <1>4, <1>6 DEF IInv, Packed
  <1>12. TypeOK'
    <2>1. cell' \in [Cells -> Refs]
      <3>1. cell' = [c \in Cells |-> cell'[c]]
        BY <1>1 DEF Shifted
      <3>2. ASSUME NEW c \in Cells
            PROVE  cell'[c] \in Refs
        BY <1>8, <1>9, <1>10 DEF IInv, TypeOK, Refs
      <3> QED
        BY <3>1, <3>2
    <2>2. keyAt' \in [Cells -> Keys \cup {NoKey}]
      <3>1. ASSUME NEW c \in Cells
            PROVE  (IF c[1] # o \/ c[2] < i THEN keyAt[c]
                    ELSE IF c[2] < count[o] THEN keyAt[<<o, c[2] + 1>>] ELSE NoKey)
                   \in Keys \cup {NoKey}
        BY <1>8, <1>9 DEF IInv, TypeOK
      <3> QED
        BY <1>1, <3>1 DEF Shifted
    <2>3. count' \in [Objects -> 0 .. MaxCount]
      <3>1. count[o] - 1 \in 0 .. MaxCount
        BY <1>3
      <3>2. count \in [Objects -> 0 .. MaxCount]
        BY DEF IInv, TypeOK
      <3> QED
        BY <1>1, <3>1, <3>2
    <2> QED
      BY <1>1, <1>7, <2>1, <2>2, <2>3 DEF IInv, TypeOK
  <1>13. RefCountExact'
    <2>1. ASSUME NEW x \in Objects
          PROVE  Count(cell, Cells, x)' = Count(cell, Cells, x)
      <3>1. x # NoObj /\ cell[<<o, i>>] # x
        BY <1>6, ObjectsAssumption
      <3>2. \A c \in Cells : c[1] = o /\ c[2] > count[o] => cell[c] # x
        BY <1>3, <1>8, <1>11, <3>1
      <3>3. Count(Shifted(cell, o, i, NoObj), Cells, x) = Count(cell, Cells, x)
        BY <1>2, <1>3, <3>1, <3>2, ShiftCount
      <3>4. Count(cell, Cells, x)' = Count(cell', Cells, x)
        BY DEF Count
      <3> QED
        BY <1>1, <3>3, <3>4
    <2>2. ASSUME NEW x \in Objects
          PROVE  Count(handle, Handles, x)' = Count(handle, Handles, x)
      BY <1>1 DEF Count
    <2>3. \A x \in Objects : rc'[x] = Count(handle, Handles, x)' + Count(cell, Cells, x)'
      BY <1>1, <2>1, <2>2, RefCountForm DEF IInv
    <2>4. \A x \in Objects : status'[x] = "live" <=> rc'[x] > 0
      BY <1>1 DEF IInv, TypeOK, RefCountExact
    <2> QED
      BY <2>3, <2>4 DEF RefCountExact, Count, HandlesTo, CellsTo
  <1>14. FreedOnce' /\ FieldsOK'
    <2>1. \A x \in Objects : x # o => count'[x] = count[x]
      BY <1>1 DEF IInv, TypeOK
    <2>2. status[o] = "live"
      BY <1>2, OwnedLive DEF o
    <2> QED
      BY <1>1, <2>1, <2>2 DEF IInv, FreedOnce, FieldsOK
  <1>15. Packed'
    <2> SUFFICES ASSUME NEW c \in Cells
                 PROVE  cell'[c] # NoObj <=> next[c[1]] <= c[2] /\ c[2] <= count'[c[1]]
      BY <1>1, <1>4 DEF Packed
    <2>1. CASE c[1] # o
      <3>1. count'[c[1]] = count[c[1]] /\ c # <<o, i>>
        BY <1>1, <1>8, <2>1 DEF IInv, TypeOK
      <3> QED
        BY <1>10, <1>11, <2>1, <3>1
    <2>2. CASE c[1] = o /\ c[2] < i
      <3>1. count'[c[1]] = count[o] - 1 /\ c # <<o, i>>
        BY <1>1, <1>2, <1>3, <1>8, <2>2 DEF IInv, TypeOK
      <3>2. cell'[c] = cell[c]
        BY <1>10, <2>2
      <3> QED
        BY <1>3, <1>5, <1>8, <1>11, <2>2, <3>1, <3>2
    <2>3. CASE c[1] = o /\ c[2] >= i
      <3>1. count'[c[1]] = count[o] - 1
        BY <1>1, <1>2, <1>3, <2>3 DEF IInv, TypeOK
      <3>2. CASE c[2] < count[o]
        <4> DEFINE d == <<o, c[2] + 1>>
        <4>1. d \in Cells /\ d[1] = o /\ d[2] = c[2] + 1
          BY <1>9, <2>3, <3>2
        <4>2. d # <<o, i>>
          BY <1>3, <1>8, <2>3
        <4>3. cell'[c] = cell[d]
          BY <1>3, <1>8, <1>10, <2>3, <3>2
        <4> HIDE DEF d
        <4> QED
          BY <1>3, <1>5, <1>8, <1>11, <2>3, <3>1, <3>2, <4>1, <4>2, <4>3
      <3>3. CASE ~(c[2] < count[o])
        <4>1. cell'[c] = NoObj
          <5>1. ~(c[1] # o \/ c[2] < i)
            BY <1>3, <1>8, <2>3
          <5> QED
            BY <1>10, <3>3, <5>1
        <4> QED
          BY <1>3, <1>8, <2>3, <3>1, <3>3, <4>1
      <3> QED
        BY <3>2, <3>3
    <2> QED
      BY <1>3, <1>8, <2>1, <2>2, <2>3
  <1>16. OpOK'
    BY <1>7 DEF OpOK
  <1> QED
    BY <1>12, <1>13, <1>14, <1>15, <1>16 DEF IInv

-----------------------------------------------------------------------------
(* The inductive invariant holds in every reachable state.                 *)
THEOREM Invariance == Spec => []IInv
  <1>1. Init => IInv
    <2> SUFFICES ASSUME Init PROVE IInv
      OBVIOUS
    <2>1. MaxCount \in Nat \ {0}
      BY CountAssumption
    <2>2. NoOp \in Ops /\ op.name = "none"
      BY <2>1 DEF Init, NoOp, Ops, Refs
    <2>3. TypeOK
      BY <2>1, <2>2 DEF Init, TypeOK, Refs
    <2>4. RefCountExact
      <3>1. \A o \in Objects : HandlesTo(o) = {} /\ CellsTo(o) = {}
        BY ObjectsAssumption DEF Init, HandlesTo, CellsTo
      <3>2. \A o \in Objects : rc[o] = 0 /\ status[o] = "free"
        BY DEF Init
      <3>3. Cardinality({}) = 0
        BY FS_EmptySet
      <3>4. \A o \in Objects : /\ Cardinality(HandlesTo(o)) = 0
                               /\ Cardinality(CellsTo(o)) = 0
        BY <3>1, <3>3
      <3> QED
        BY <3>2, <3>4 DEF RefCountExact
    <2>5. FreedOnce /\ FieldsOK /\ OpOK
      BY <2>2 DEF Init, FreedOnce, FieldsOK, OpOK
    <2>6. Packed
      BY <2>1, CellShape DEF Init, Packed, Positions
    <2> QED
      BY <2>3, <2>4, <2>5, <2>6 DEF IInv
  <1>2. IInv /\ [Next]_vars => IInv'
    <2> SUFFICES ASSUME IInv, [Next]_vars PROVE IInv'
      OBVIOUS
    <2>1. CASE Internal
      BY <2>1, ReleaseNextInv, FreeObjectInv, FinishStoreInv, FinishRemoveInv,
         CopyNextInv, CopyDoneInv DEF Internal
    <2>2. CASE Client
      <3>1. ASSUME NEW o \in Objects, NEW h \in Handles,
                   NEW k \in {"leaf", "list", "dict"}, New(o, h, k)
            PROVE  IInv'
        BY <3>1, NewInv
      <3>2. ASSUME NEW g \in Handles, NEW h \in Handles, Share(g, h) PROVE IInv'
        BY <3>2, ShareInv
      <3>3. ASSUME NEW c \in Cells, NEW h \in Handles, Keep(c, h) PROVE IInv'
        BY <3>3, KeepInv
      <3>4. ASSUME NEW h \in Handles, Release(h) PROVE IInv'
        BY <3>4, ReleaseInv
      <3>5. ASSUME NEW l \in Objects, NEW item \in Objects, ListAppend(l, item)
            PROVE  IInv'
        BY <3>5, ListAppendInv
      <3>6. ASSUME NEW l \in Objects, NEW item \in Objects, NEW i \in Positions,
                   ListSet(l, i, item)
            PROVE  IInv'
        BY <3>6, ListSetInv
      <3>7. ASSUME NEW d \in Objects, NEW item \in Objects, NEW k \in Keys,
                   DictSet(d, k, item)
            PROVE  IInv'
        BY <3>7, DictSetInv
      <3>8. ASSUME NEW d \in Objects, NEW k \in Keys, DictRemove(d, k) PROVE IInv'
        BY <3>8, DictRemoveInv
      <3>9. ASSUME NEW l \in Objects, NEW o \in Objects, NEW h \in Handles,
                   NEW s \in Bounds, NEW e \in Bounds, ListSlice(l, o, h, s, e)
            PROVE  IInv'
        BY <3>9, ListSliceInv
      <3>10. ASSUME NEW a \in Objects, NEW b \in Objects, NEW o \in Objects,
                    NEW h \in Handles, ListConcat(a, b, o, h)
             PROVE  IInv'
        BY <3>10, ListConcatInv
      <3> QED
        BY <2>2, <3>1, <3>2, <3>3, <3>4, <3>5, <3>6, <3>7, <3>8, <3>9, <3>10 DEF Client
    <2>3. CASE UNCHANGED vars
      <3>1. UNCHANGED <<status, kind, rc, count, cell, keyAt, handle, frees, next, op>>
        BY <2>3 DEF vars
      <3>2. HeapInv' /\ OpOK'
        BY <3>1, OpOnlyInv DEF IInv, TypeOK, Hole, OpOK, Owned
      <3> QED
        BY <3>2 DEF HeapInv, IInv
    <2> QED
      BY <2>1, <2>2, <2>3 DEF Next
  <1> QED
    BY <1>1, <1>2, PTL DEF Spec

(* Reference counts are exact in every state, those inside a cascade of    *)
(* skp_free included, and no reference leads to an object being freed.     *)
THEOREM CountsExact == Spec => []RefCountExact
  <1>1. IInv => RefCountExact
    BY DEF IInv
  <1> QED
    BY <1>1, Invariance, PTL

(* The state components keep their types.                                  *)
THEOREM TypeCorrect == Spec => []TypeOK
  <1>1. IInv => TypeOK
    BY DEF IInv
  <1> QED
    BY <1>1, Invariance, PTL

(* The objects an operation still works with survive the cascade it starts *)
(* in its middle (skp_list_set, skp_dict_set, skp_dict_remove).            *)
THEOREM OperandsLive == Spec => []OperandsSurvive
  <1>1. IInv => OperandsSurvive
    <2> SUFFICES ASSUME IInv, op.name # "none",
                        NEW o \in {op.obj, op.item, op.rest} \ {NoObj}
                 PROVE  status[o] = "live"
      BY DEF OperandsSurvive
    <2>1. op.name \in {"store", "remove", "copy"} /\ op.rest \in Refs
      BY DEF IInv, TypeOK, Ops
    <2>2. o \in Objects /\ Owned(o)
      BY <2>1 DEF IInv, OpOK, Refs
    <2> QED
      BY <2>2, OwnedLive
  <1> QED
    BY <1>1, Invariance, PTL

=============================================================================
