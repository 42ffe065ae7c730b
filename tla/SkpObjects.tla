----------------------------- MODULE SkpObjects -----------------------------
(***************************************************************************)
(* The reference-counted object runtime of SEEKEP (seekep.c): objects made *)
(* by skp_new_*, shared by skp_incref, given back by skp_decref, and freed *)
(* by the recursion of skp_free through lists and dictionaries.            *)
(*                                                                         *)
(* skp_free is modelled one release at a time: `frees' is the stack of its *)
(* activations, so every state between two releases of a cascade exists in *)
(* the model.  An operation that runs a cascade in its middle              *)
(* (skp_list_set, skp_dict_set, skp_dict_remove) or that copies entry by   *)
(* entry (skp_list_slice, skp_add on lists) leaves its continuation in     *)
(* `op'.  The client is any C code that keeps what it owns in a handle and *)
(* passes only objects it owns.                                            *)
(***************************************************************************)
EXTENDS Integers, FiniteSets, Sequences

CONSTANTS
  Objects,    (* the addresses malloc can hand out                       *)
  Handles,    (* the counted references the client can hold              *)
  Keys,       (* the keys of dictionaries                                *)
  MaxCount,   (* bound: entries of one list or dictionary                *)
  NoObj,      (* the NULL pointer                                        *)
  NoKey       (* an entry position without a key                         *)

ASSUME ObjectsAssumption == IsFiniteSet(Objects) /\ NoObj \notin Objects
ASSUME HandlesAssumption == IsFiniteSet(Handles)
ASSUME KeysAssumption    == NoKey \notin Keys
ASSUME CountAssumption   == MaxCount \in Nat \ {0}

VARIABLES
  status,     (* whether an address is free, a live object or being freed *)
  kind,       (* leaf (number, string, ...), list or dict                 *)
  rc,         (* obj->refcount                                            *)
  count,      (* v_list.count, v_dict.count                               *)
  cell,       (* v_list.items, v_dict.entries[]->value: the counted       *)
              (* references objects hold; NoObj once a reference is given *)
              (* back                                                     *)
  keyAt,      (* v_dict.entries[]->key                                    *)
  handle,     (* the client's references                                  *)
  frees,      (* the activations of skp_free, the innermost last          *)
  next,       (* the loop counter of the activation that frees an object  *)
  op          (* what the operation in progress still has to do           *)

vars == <<status, kind, rc, count, cell, keyAt, handle, frees, next, op>>

Positions == 1 .. MaxCount
Cells     == Objects \X Positions
Refs      == Objects \cup {NoObj}

NoOp == [name |-> "none", obj |-> NoObj, item |-> NoObj, rest |-> NoObj,
         pos |-> 1, last |-> 0]

Ops == [name : {"none", "store", "remove", "copy"}, obj : Refs, item : Refs,
        rest : Refs, pos : 1 .. MaxCount + 1, last : 0 .. MaxCount]

TypeOK ==
  /\ status \in [Objects -> {"free", "live", "dying"}]
  /\ kind   \in [Objects -> {"leaf", "list", "dict"}]
  /\ rc     \in [Objects -> Int]
  /\ count  \in [Objects -> 0 .. MaxCount]
  /\ cell   \in [Cells -> Refs]
  /\ keyAt  \in [Cells -> Keys \cup {NoKey}]
  /\ handle \in [Handles -> Refs]
  /\ frees  \in Seq(Objects)
  /\ next   \in [Objects -> 1 .. MaxCount + 1]
  /\ op     \in Ops

Init ==
  /\ status = [o \in Objects |-> "free"]
  /\ kind   = [o \in Objects |-> "leaf"]
  /\ rc     = [o \in Objects |-> 0]
  /\ count  = [o \in Objects |-> 0]
  /\ cell   = [c \in Cells |-> NoObj]
  /\ keyAt  = [c \in Cells |-> NoKey]
  /\ handle = [h \in Handles |-> NoObj]
  /\ frees  = <<>>
  /\ next   = [o \in Objects |-> 1]
  /\ op     = NoOp

Idle     == frees = <<>> /\ op.name = "none"
Owned(o) == \E h \in Handles : handle[h] = o

-----------------------------------------------------------------------------
(* skp_incref and skp_decref. The release that takes the count to zero     *)
(* enters skp_free.                                                        *)

Incref(o) == rc' = [rc EXCEPT ![o] = @ + 1]

(* Mutant: the release before the last frees the object.                   *)
DecrefTooEarly(o) ==
  /\ rc' = [rc EXCEPT ![o] = @ - 1]
  /\ IF rc[o] - 1 <= 1
       THEN status' = [status EXCEPT ![o] = "dying"] /\ frees' = Append(frees, o)
       ELSE UNCHANGED <<status, frees>>

Decref(o) ==
  /\ rc' = [rc EXCEPT ![o] = @ - 1]
  /\ IF rc[o] - 1 <= 0
       THEN /\ status' = [status EXCEPT ![o] = "dying"]
            /\ frees'  = Append(frees, o)
       ELSE UNCHANGED <<status, frees>>

(* The loop body of skp_free: give back the next reference of the object   *)
(* being freed. A leaf has count 0 and no loop.                            *)
ReleaseNext ==
  /\ frees # <<>>
  /\ LET o == frees[Len(frees)] IN
       /\ next[o] <= count[o]
       /\ next'  = [next EXCEPT ![o] = @ + 1]
       /\ cell'  = [cell EXCEPT ![<<o, next[o]>>] = NoObj]
       /\ keyAt' = [keyAt EXCEPT ![<<o, next[o]>>] = NoKey]
       /\ Decref(cell[<<o, next[o]>>])
  /\ UNCHANGED <<kind, count, handle, op>>

(* Mutant: the loop stops one entry short.                                 *)
FreeObjectEarly ==
  /\ frees # <<>>
  /\ LET o == frees[Len(frees)] IN
       /\ next[o] >= count[o]
       /\ status' = [status EXCEPT ![o] = "free"]
       /\ kind'   = [kind EXCEPT ![o] = "leaf"]
       /\ count'  = [count EXCEPT ![o] = 0]
       /\ next'   = [next EXCEPT ![o] = 1]
       /\ cell'   = [c \in Cells |-> IF c[1] = o THEN NoObj ELSE cell[c]]
       /\ keyAt'  = [c \in Cells |-> IF c[1] = o THEN NoKey ELSE keyAt[c]]
       /\ frees'  = SubSeq(frees, 1, Len(frees) - 1)
  /\ UNCHANGED <<rc, handle, op>>

(* The end of skp_free: free(items) or free(entries), then free(obj).      *)
(* What the memory held is gone: its fields go back to their first values. *)
FreeObject ==
  /\ frees # <<>>
  /\ LET o == frees[Len(frees)] IN
       /\ next[o] > count[o]
       /\ status' = [status EXCEPT ![o] = "free"]
       /\ kind'   = [kind EXCEPT ![o] = "leaf"]
       /\ count'  = [count EXCEPT ![o] = 0]
       /\ next'   = [next EXCEPT ![o] = 1]
       /\ cell'   = [c \in Cells |-> IF c[1] = o THEN NoObj ELSE cell[c]]
       /\ keyAt'  = [c \in Cells |-> IF c[1] = o THEN NoKey ELSE keyAt[c]]
       /\ frees'  = SubSeq(frees, 1, Len(frees) - 1)
  /\ UNCHANGED <<rc, handle, op>>

-----------------------------------------------------------------------------
(* The client's references.                                                *)

(* malloc gives an address and the object starts with one reference.       *)
Allocate(o, h, k) ==
  /\ status[o] = "free"
  /\ status' = [status EXCEPT ![o] = "live"]
  /\ kind'   = [kind EXCEPT ![o] = k]
  /\ rc'     = [rc EXCEPT ![o] = 1]
  /\ count'  = [count EXCEPT ![o] = 0]
  /\ handle[h] = NoObj
  /\ handle' = [handle EXCEPT ![h] = o]

New(o, h, k) ==
  /\ Idle
  /\ Allocate(o, h, k)
  /\ UNCHANGED <<cell, keyAt, frees, next, op>>

(* Mutant: the second reference is not counted.                            *)
ShareUncounted(g, h) ==
  /\ Idle
  /\ handle[g] # NoObj /\ handle[h] = NoObj
  /\ handle' = [handle EXCEPT ![h] = handle[g]]
  /\ UNCHANGED <<status, kind, rc, count, cell, keyAt, frees, next, op>>

(* A second reference to an owned object: skp_incref, and skp_to_string,   *)
(* skp_to_int and skp_to_float when the object already has the type.       *)
Share(g, h) ==
  /\ Idle
  /\ handle[g] # NoObj /\ handle[h] = NoObj
  /\ handle' = [handle EXCEPT ![h] = handle[g]]
  /\ Incref(handle[g])
  /\ UNCHANGED <<status, kind, count, cell, keyAt, frees, next, op>>

(* The client keeps what skp_list_get or skp_dict_get lends it.            *)
Keep(c, h) ==
  /\ Idle
  /\ Owned(c[1]) /\ c[2] <= count[c[1]] /\ handle[h] = NoObj
  /\ handle' = [handle EXCEPT ![h] = cell[c]]
  /\ Incref(cell[c])
  /\ UNCHANGED <<status, kind, count, cell, keyAt, frees, next, op>>

Release(h) ==
  /\ Idle
  /\ handle[h] # NoObj
  /\ handle' = [handle EXCEPT ![h] = NoObj]
  /\ Decref(handle[h])
  /\ UNCHANGED <<kind, count, cell, keyAt, next, op>>

-----------------------------------------------------------------------------
(* Lists and dictionaries. A call that the code's guards turn away changes *)
(* nothing and is a stuttering step.                                       *)

(* Mutant: the entry is not counted.                                       *)
AddEntryUncounted(o, k, item) ==
  LET c == <<o, count[o] + 1>> IN
    /\ count[o] < MaxCount
    /\ count' = [count EXCEPT ![o] = @ + 1]
    /\ cell'  = [cell EXCEPT ![c] = item]
    /\ keyAt' = [keyAt EXCEPT ![c] = k]
    /\ UNCHANGED rc

(* A new last entry, in either kind of container.                          *)
AddEntry(o, k, item) ==
  LET c == <<o, count[o] + 1>> IN
    /\ count[o] < MaxCount
    /\ count' = [count EXCEPT ![o] = @ + 1]
    /\ cell'  = [cell EXCEPT ![c] = item]
    /\ keyAt' = [keyAt EXCEPT ![c] = k]
    /\ Incref(item)

(* The entry's reference is given back before the new one is counted and   *)
(* stored; the store waits for the cascade in `op'.                        *)
Overwrite(o, i, item) ==
  /\ cell' = [cell EXCEPT ![<<o, i>>] = NoObj]
  /\ op'   = [NoOp EXCEPT !.name = "store", !.obj = o, !.item = item, !.pos = i]
  /\ Decref(cell[<<o, i>>])
  /\ UNCHANGED <<kind, count, keyAt, handle, next>>

ListAppend(l, item) ==
  /\ Idle
  /\ Owned(l) /\ kind[l] = "list" /\ Owned(item)
  /\ AddEntry(l, NoKey, item)
  /\ UNCHANGED <<status, kind, handle, frees, next, op>>

(* Mutant: the item may be one that the list alone keeps alive.            *)
ListSetBorrowed(l, i, item) ==
  /\ Idle
  /\ Owned(l) /\ kind[l] = "list" /\ status[item] = "live"
  /\ i <= count[l]
  /\ Overwrite(l, i, item)

ListSet(l, i, item) ==
  /\ Idle
  /\ Owned(l) /\ kind[l] = "list" /\ Owned(item)
  /\ i <= count[l]
  /\ Overwrite(l, i, item)

(* Mutant: the loops stop one entry short.                                 *)
FoundBeforeLast(d, k, i) ==
  /\ i < count[d] /\ keyAt[<<d, i>>] = k
  /\ \A j \in 1 .. i - 1 : keyAt[<<d, j>>] # k

(* The entry at which the strcmp loops stop: the first with the key.       *)
Found(d, k, i) ==
  /\ i <= count[d] /\ keyAt[<<d, i>>] = k
  /\ \A j \in 1 .. i - 1 : keyAt[<<d, j>>] # k

DictSet(d, k, item) ==
  /\ Idle
  /\ Owned(d) /\ kind[d] = "dict" /\ Owned(item)
  /\ \/ \E i \in Positions : Found(d, k, i) /\ Overwrite(d, i, item)
     \/ /\ ~ \E i \in Positions : Found(d, k, i)
        /\ AddEntry(d, k, item)
        /\ UNCHANGED <<status, kind, handle, frees, next, op>>

FinishStore ==
  /\ frees = <<>> /\ op.name = "store"
  /\ cell' = [cell EXCEPT ![<<op.obj, op.pos>>] = op.item]
  /\ Incref(op.item)
  /\ op' = NoOp
  /\ UNCHANGED <<status, kind, count, keyAt, handle, frees, next>>

DictRemove(d, k) ==
  /\ Idle
  /\ Owned(d) /\ kind[d] = "dict"
  /\ \E i \in Positions :
       /\ Found(d, k, i)
       /\ keyAt' = [keyAt EXCEPT ![<<d, i>>] = NoKey]
       /\ cell'  = [cell EXCEPT ![<<d, i>>] = NoObj]
       /\ op'    = [NoOp EXCEPT !.name = "remove", !.obj = d, !.pos = i]
       /\ Decref(cell[<<d, i>>])
  /\ UNCHANGED <<kind, count, handle, next>>

(* entries[j] = entries[j + 1] from the hole on, then count--; the last    *)
(* position is outside the array from then on.                             *)
Shifted(f, o, i, none) ==
  [c \in Cells |->
     IF c[1] # o \/ c[2] < i THEN f[c]
     ELSE IF c[2] < count[o] THEN f[<<o, c[2] + 1>>] ELSE none]

(* Mutant: count-- is forgotten.                                           *)
FinishRemoveKeepingCount ==
  /\ frees = <<>> /\ op.name = "remove"
  /\ cell'  = Shifted(cell, op.obj, op.pos, NoObj)
  /\ keyAt' = Shifted(keyAt, op.obj, op.pos, NoKey)
  /\ op'    = NoOp
  /\ UNCHANGED <<status, kind, rc, count, handle, frees, next>>

FinishRemove ==
  /\ frees = <<>> /\ op.name = "remove"
  /\ cell'  = Shifted(cell, op.obj, op.pos, NoObj)
  /\ keyAt' = Shifted(keyAt, op.obj, op.pos, NoKey)
  /\ count' = [count EXCEPT ![op.obj] = @ - 1]
  /\ op'    = NoOp
  /\ UNCHANGED <<status, kind, rc, handle, frees, next>>

-----------------------------------------------------------------------------
(* Operations that build a list from others.                               *)

(* skp_list_slice: negative bounds count from the end, then both are       *)
(* clamped; the entries start..end-1 (from 0) are copied.                  *)
SliceStart(start, len) ==
  LET s == IF start < 0 THEN len + start ELSE start
  IN  IF s < 0 THEN 0 ELSE s

(* Mutant: an end past the list is not clamped.                            *)
SliceEndUnclamped(end, len) == IF end < 0 THEN len + end ELSE end

SliceEnd(end, len) ==
  LET e == IF end < 0 THEN len + end ELSE end
  IN  IF e > len THEN len ELSE e

ListSlice(l, o, h, start, end) ==
  /\ Idle
  /\ Owned(l) /\ kind[l] = "list"
  /\ Allocate(o, h, "list")
  /\ LET s == SliceStart(start, count[l])
         e == SliceEnd(end, count[l])
     IN  op' = IF s >= e THEN op
               ELSE [NoOp EXCEPT !.name = "copy", !.obj = o, !.item = l,
                                 !.pos = s + 1, !.last = e]
  /\ UNCHANGED <<cell, keyAt, frees, next>>

(* skp_add on two lists: all of a, then all of b. MaxCount bounds the      *)
(* result.                                                                 *)
ListConcat(a, b, o, h) ==
  /\ Idle
  /\ Owned(a) /\ kind[a] = "list" /\ Owned(b) /\ kind[b] = "list"
  /\ count[a] + count[b] <= MaxCount
  /\ Allocate(o, h, "list")
  /\ op' = [NoOp EXCEPT !.name = "copy", !.obj = o, !.item = a, !.rest = b,
                        !.last = count[a]]
  /\ UNCHANGED <<cell, keyAt, frees, next>>

CopyNext ==
  /\ op.name = "copy" /\ op.pos <= op.last
  /\ AddEntry(op.obj, NoKey, cell[<<op.item, op.pos>>])
  /\ op' = [op EXCEPT !.pos = @ + 1]
  /\ UNCHANGED <<status, kind, handle, frees, next>>

(* Mutant: the second loop copies the first list again.                    *)
CopyDoneRestarts ==
  /\ op.name = "copy" /\ op.pos > op.last
  /\ op' = IF op.rest = NoObj THEN NoOp ELSE [op EXCEPT !.pos = 1]
  /\ UNCHANGED <<status, kind, rc, count, cell, keyAt, handle, frees, next>>

CopyDone ==
  /\ op.name = "copy" /\ op.pos > op.last
  /\ op' = IF op.rest = NoObj THEN NoOp
           ELSE [op EXCEPT !.item = op.rest, !.rest = NoObj, !.pos = 1,
                           !.last = count[op.rest]]
  /\ UNCHANGED <<status, kind, rc, count, cell, keyAt, handle, frees, next>>

-----------------------------------------------------------------------------
Internal ==
  \/ ReleaseNext
  \/ FreeObject
  \/ FinishStore
  \/ FinishRemove
  \/ CopyNext
  \/ CopyDone

Bounds == -(MaxCount + 1) .. MaxCount + 1

Client ==
  \/ \E o \in Objects, h \in Handles, k \in {"leaf", "list", "dict"} : New(o, h, k)
  \/ \E g, h \in Handles : Share(g, h)
  \/ \E c \in Cells, h \in Handles : Keep(c, h)
  \/ \E h \in Handles : Release(h)
  \/ \E l, item \in Objects : ListAppend(l, item)
  \/ \E l, item \in Objects, i \in Positions : ListSet(l, i, item)
  \/ \E d, item \in Objects, k \in Keys : DictSet(d, k, item)
  \/ \E d \in Objects, k \in Keys : DictRemove(d, k)
  \/ \E l, o \in Objects, h \in Handles, s, e \in Bounds : ListSlice(l, o, h, s, e)
  \/ \E a, b, o \in Objects, h \in Handles : ListConcat(a, b, o, h)

Next == Internal \/ Client

(* Once called, the runtime runs to its end; the client may stop calling.  *)
Spec == Init /\ [][Next]_vars /\ WF_vars(Internal)

-----------------------------------------------------------------------------
HandlesTo(o) == {h \in Handles : handle[h] = o}
CellsTo(o)   == {c \in Cells : cell[c] = o}

(* The count of every object is the number of references that exist to it, *)
(* in every state of a cascade too, and an object is live exactly as long  *)
(* as that number is positive: so no reference ever leads to an object     *)
(* that skp_free has entered (skp_incref, skp_decref, skp_free).           *)
RefCountExact ==
  \A o \in Objects :
    /\ rc[o] = Cardinality(HandlesTo(o)) + Cardinality(CellsTo(o))
    /\ status[o] = "live" <=> rc[o] > 0

(* The cascade that skp_list_set or skp_dict_set starts in its middle, and *)
(* every copying loop, leave alive the container and the item the          *)
(* operation still has to use.                                             *)
OperandsSurvive ==
  op.name # "none" =>
    \A o \in {op.obj, op.item, op.rest} \ {NoObj} : status[o] = "live"

(* The skp_free recursion enters an object at most once, and only the      *)
(* objects in the recursion are half freed.                                *)
FreedOnce ==
  /\ \A i, j \in 1 .. Len(frees) : frees[i] = frees[j] => i = j
  /\ \A o \in Objects :
       status[o] = "dying" <=> \E i \in 1 .. Len(frees) : frees[i] = o

(* The position an operation has emptied and not yet refilled or closed.   *)
Hole == IF op.name \in {"store", "remove"} THEN {<<op.obj, op.pos>>} ELSE {}

(* The arrays are packed: a position holds an entry exactly if it is below *)
(* count, not given back by skp_free yet and not the hole of the operation *)
(* in progress (skp_dict_remove's shift, skp_list_append, skp_free).       *)
Packed ==
  \A c \in Cells :
    cell[c] # NoObj <=> /\ next[c[1]] <= c[2] /\ c[2] <= count[c[1]]
                        /\ c \notin Hole

(* No dictionary has two entries for a key, so the first match that        *)
(* skp_dict_get and skp_dict_remove stop at is the only one.               *)
DictKeysUnique ==
  \A c, d \in Cells :
    c[1] = d[1] /\ keyAt[c] = keyAt[d] /\ keyAt[c] # NoKey => c = d

(* A list that a copying loop reads is read inside its bounds: negative    *)
(* slice bounds and bounds past the end included (skp_list_slice).         *)
CopyInBounds ==
  op.name = "copy" /\ op.pos <= op.last =>
    cell[<<op.item, op.pos>>] # NoObj /\ op.obj # op.item

(* Nothing leaks but cycles: at rest, a set of live objects that neither a *)
(* handle nor an entry outside the set leads to keeps itself alive: each   *)
(* of its members is an entry of a member (skp_free must give back every   *)
(* entry).                                                                 *)
OnlyCyclesLeak ==
  Idle =>
    \A S \in SUBSET {o \in Objects : status[o] = "live"} :
      (/\ \A h \in Handles : handle[h] \notin S
       /\ \A c \in Cells : cell[c] \in S => c[1] \in S)
      => \A o \in S : \E p \in S : \E i \in Positions : cell[<<p, i>>] = o

(* A client that holds on to an object never loses it nor what it holds:   *)
(* a step gives up an object only when it has taken its last reference.    *)
NeverFreedWhileHeld ==
  [][\A o \in Objects :
       status[o] = "live" /\ status'[o] # "live" =>
         /\ Cardinality(HandlesTo(o)) + Cardinality(CellsTo(o)) = 1
         /\ \A h \in Handles : handle'[h] # o
         /\ \A c \in Cells : cell'[c] # o]_vars

(* Every call ends: a cascade through any object graph, cyclic ones        *)
(* included, comes to rest (skp_free).                                     *)
CallsReturn == ~Idle ~> Idle

-----------------------------------------------------------------------------
(* The inductive invariant behind RefCountExact and OperandsSurvive.       *)

(* Outside skp_free every loop counter is at its start, and free memory    *)
(* holds no entries.                                                       *)
FieldsOK ==
  \A o \in Objects :
    /\ status[o] # "dying" => next[o] = 1
    /\ status[o] = "free" => count[o] = 0

(* What an operation still uses is owned by the client, its hole is inside *)
(* its container, and what it still copies is inside its source.           *)
OpOK ==
  /\ op.name # "none" => op.obj \in Objects /\ Owned(op.obj)
  /\ op.name \in {"store", "copy"} => op.item \in Objects /\ Owned(op.item)
  /\ op.name \in {"store", "remove"} => op.pos <= count[op.obj] /\ op.rest = NoObj
  /\ op.name = "remove" => op.item = NoObj
  /\ op.name = "copy" =>
       /\ frees = <<>>
       /\ op.last <= count[op.item]
       /\ op.rest # NoObj => Owned(op.rest)

IInv ==
  /\ TypeOK
  /\ RefCountExact
  /\ FreedOnce
  /\ Packed
  /\ FieldsOK
  /\ OpOK

(* A copying loop builds a list it does not read.                          *)
CopyApart == op.name = "copy" => op.obj # op.item /\ op.obj # op.rest

(* Keys are only kept at entries.                                          *)
KeysPacked == \A c \in Cells : keyAt[c] # NoKey => c[2] <= count[c[1]]

(* The inductive invariant behind DictKeysUnique and CopyInBounds, on top  *)
(* of IInv.                                                                *)
SafetyInv ==
  /\ IInv
  /\ CopyApart
  /\ KeysPacked
  /\ DictKeysUnique

=============================================================================
