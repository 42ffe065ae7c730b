----------------------------- MODULE SkpClosures -----------------------------
(***************************************************************************)
(* What the virtual machine promises about variables, without a stack,     *)
(* overlapping windows or open upvalues: every activation has entries      *)
(* (variables and operands) of its own, and a captured variable is a cell  *)
(* that the activation and the closures share by name for as long as any   *)
(* of them uses it.                                                        *)
(***************************************************************************)
EXTENDS Integers, Sequences

CONSTANTS Values, Closures, Cells, FramesMax, Nil

VARIABLES
  acts,      (* the activations: their entries and the closure they run    *)
  mem,       (* what each cell holds; Nil if the cell is not in use        *)
  captures   (* the cells of each closure                                  *)

avars == <<acts, mem, captures>>

Objects == Values \cup Closures

Init ==
  /\ acts = <<>>
  /\ mem = [c \in Cells |-> Nil]
  /\ captures = [c \in Closures |-> <<>>]

Running  == acts # <<>>
Act      == acts[Len(acts)]
Height   == Len(Act.entries)
ValOf(e) == IF e \in Cells THEN mem[e] ELSE e

Shared(c) == Act.closure # Nil /\ \E i \in 1 .. Len(captures[Act.closure]) :
                                    captures[Act.closure][i] = c

(* The running activation goes on with these entries.                      *)
Continue(entries) == acts' = [acts EXCEPT ![Len(acts)].entries = entries]

Begin ==
  /\ ~ Running
  /\ acts' = <<[entries |-> <<>>, closure |-> Nil]>>
  /\ UNCHANGED <<mem, captures>>

(* However a script ends, the cells its closures hold survive it.          *)
End ==
  /\ Running
  /\ acts' = <<>>
  /\ UNCHANGED <<mem, captures>>

(* The last entries are given up, and a value pushed or none. The cell of  *)
(* a variable that is given up keeps its value.                            *)
Drop ==
  /\ Running
  /\ \E n \in 0 .. Height :
       \/ Continue(SubSeq(Act.entries, 1, n))
       \/ \E v \in Objects : Continue(Append(SubSeq(Act.entries, 1, n), v))
  /\ UNCHANGED <<mem, captures>>

(* The topmost value is assigned to a variable of the running activation,  *)
(* or to a cell its closure shares: nothing else changes.                  *)
Assign ==
  /\ Running /\ Height > 0
  /\ LET v == ValOf(Act.entries[Height]) IN
       \/ \E i \in 1 .. Height :
            /\ Act.entries[i] \notin Cells
            /\ Continue([Act.entries EXCEPT ![i] = v])
            /\ UNCHANGED mem
       \/ \E c \in Cells :
            /\ Shared(c) \/ \E i \in 1 .. Height : Act.entries[i] = c
            /\ mem' = [mem EXCEPT ![c] = v]
            /\ UNCHANGED acts
  /\ UNCHANGED captures

(* Capturing a variable turns it into a fresh cell; capturing it again, or *)
(* from inside, shares that cell.                                          *)
Capture(c) ==
  /\ Running /\ Height > 0
  /\ captures' = [captures EXCEPT ![ValOf(Act.entries[Height])] = Append(@, c)]
  /\ \/ /\ Shared(c) \/ \E i \in 1 .. Height : Act.entries[i] = c
        /\ UNCHANGED <<acts, mem>>
     \/ \E i \in 1 .. Height :
          /\ Act.entries[i] \notin Cells /\ mem[c] = Nil
          /\ mem' = [mem EXCEPT ![c] = Act.entries[i]]
          /\ Continue([Act.entries EXCEPT ![i] = c])

(* The callee, or what stands for it, and its arguments become the first   *)
(* entries of the new activation.                                          *)
Call(self, f) ==
  /\ Running /\ Len(acts) < FramesMax
  /\ \E k \in 1 .. Height :
       acts' = Append([acts EXCEPT ![Len(acts)].entries = SubSeq(@, 1, k - 1)],
                      [entries |-> <<self>> \o SubSeq(Act.entries, k + 1, Height),
                       closure |-> f])
  /\ UNCHANGED <<mem, captures>>

(* The activation and its entries are gone, the caller goes on with the    *)
(* result in place of the call, and every cell keeps its value.            *)
Return(v) ==
  /\ Len(acts) > 1
  /\ LET n == Len(acts) - 1 IN
       acts' = [SubSeq(acts, 1, n) EXCEPT ![n].entries = Append(@, v)]
  /\ UNCHANGED <<mem, captures>>

Next ==
  \/ Begin \/ End \/ Drop \/ Assign
  \/ \E c \in Cells : Capture(c)
  \/ \E self \in Objects, f \in Closures : Call(self, f)
  \/ \E v \in Objects : Return(v)

Spec == Init /\ [][Next]_avars
=============================================================================
