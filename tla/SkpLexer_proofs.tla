--------------------------- MODULE SkpLexer_proofs ---------------------------
(***************************************************************************)
(* Proofs about SkpLexer for every source, however long, over every        *)
(* alphabet: positions are exact and nothing but blanks and one comment is *)
(* left out between two tokens.                                            *)
(***************************************************************************)
EXTENDS SkpLexer, FiniteSetTheorems, SequenceTheorems, TLAPS

(* What SourceOK says of the bytes.                                        *)
LEMMA SourceFacts ==
  ASSUME SourceOK
  PROVE  /\ Len(src) \in Nat
         /\ \A k \in 1..Len(src) : src[k] # "NUL"
         /\ letters \subseteq HighBytes
         /\ src \in Seq(Range(src))
  <1>1. PICK a \in Alphabets : src \in Seq(a.bytes) /\ letters \subseteq HighBytes
    BY DEF SourceOK
  <1>2. "NUL" \notin a.bytes
    BY LexerAssumption
  <1>3. /\ Len(src) \in Nat /\ DOMAIN src = 1..Len(src)
        /\ \A k \in 1..Len(src) : src[k] \in a.bytes
    BY <1>1
  <1>4. src \in [1..Len(src) -> Range(src)]
    BY <1>1, <1>3 DEF Range
  <1>5. src \in Seq(Range(src))
    BY <1>3, <1>4, SeqDef
  <1> QED
    BY <1>1, <1>2, <1>3, <1>5

(* Every byte of the source but its end is a byte.                         *)
LEMMA CurrentIs ==
  ASSUME SourceOK, pos \in Places
  PROVE  /\ AtEnd <=> pos = Len(src)
         /\ AtEnd <=> Current = "NUL"
         /\ ~AtEnd => pos + 1 \in 1..Len(src) /\ Current = src[pos + 1]
  <1>1. /\ Len(src) \in Nat /\ pos \in Nat /\ pos <= Len(src)
        /\ \A k \in 1..Len(src) : src[k] # "NUL"
    BY SourceFacts DEF Places
  <1>2. pos < Len(src) => pos + 1 \in 1..Len(src)
    BY <1>1
  <1> QED
    BY <1>1, <1>2 DEF AtEnd, Current

(* A text byte by byte.                                                    *)
LEMMA TextIs ==
  ASSUME SourceOK, NEW from \in Nat, NEW to \in Places
  PROVE  /\ Text(from, to) \in Seq(Range(src))
         /\ Len(Text(from, to)) = IF from <= to THEN to - from ELSE 0
         /\ from <= to => \A k \in 1..to - from : Text(from, to)[k] = src[from + k]
  <1>1. Len(src) \in Nat /\ to \in Nat /\ to <= Len(src) /\ src \in Seq(Range(src))
    BY SourceFacts DEF Places
  <1>2. \A i \in from + 1..to : src[i] \in Range(src)
    BY <1>1
  <1>3. /\ SubSeq(src, from + 1, to) \in Seq(Range(src))
        /\ Len(SubSeq(src, from + 1, to)) =
             IF from + 1 <= to THEN to - (from + 1) + 1 ELSE 0
        /\ \A k \in 1..to - (from + 1) + 1 :
             SubSeq(src, from + 1, to)[k] = src[from + 1 + k - 1]
    BY <1>1, <1>2, SubSeqProperties
  <1>4. to - (from + 1) + 1 = to - from /\ \A k \in Nat : from + 1 + k - 1 = from + k
    BY <1>1
  <1>5. (IF from + 1 <= to THEN to - (from + 1) + 1 ELSE 0) = IF from <= to THEN to - from ELSE 0
    BY <1>1
  <1>6. \A k \in 1..to - from : k \in Nat
    OBVIOUS
  <1> QED
    BY <1>3, <1>4, <1>5, <1>6 DEF Text

(* Blanks and comments byte by byte.                                       *)
LEMMA BlankIs ==
  ASSUME SourceOK, NEW from \in Nat, NEW to \in Places
  PROVE  AllBlank(Text(from, to)) <=> \A k \in from + 1..to : src[k] \in Blanks
  <1>1. to \in Nat
    BY SourceFacts DEF Places
  <1> DEFINE T == Text(from, to)
  <1>2. /\ T \in Seq(Range(src))
        /\ Len(T) = IF from <= to THEN to - from ELSE 0
        /\ from <= to => \A k \in 1..to - from : T[k] = src[from + k]
    BY TextIs
  <1>3. AllBlank(T) <=> \A k \in 1..Len(T) : T[k] \in Blanks
    <2>1. DOMAIN T = 1..Len(T)
      BY <1>2
    <2> QED
      BY <2>1 DEF AllBlank, Range
  <1> HIDE DEF T
  <1>4. CASE from <= to
    <2>1. \A k \in from + 1..to : k - from \in 1..to - from /\ from + (k - from) = k
      BY <1>1, <1>4
    <2>2. \A k \in 1..to - from : from + k \in from + 1..to
      BY <1>1, <1>4
    <2>3. Len(T) = to - from /\ \A k \in 1..to - from : T[k] = src[from + k]
      BY <1>2, <1>4
    <2>4. (\A k \in 1..to - from : src[from + k] \in Blanks)
            <=> \A k \in from + 1..to : src[k] \in Blanks
      BY <2>1, <2>2
    <2> QED
      BY <1>3, <2>3, <2>4 DEF T
  <1>5. CASE ~(from <= to)
    <2>1. Len(T) = 0 /\ from + 1..to = {} /\ 1..0 = {}
      BY <1>1, <1>2, <1>5
    <2> QED
      BY <1>3, <2>1 DEF T
  <1> QED
    BY <1>4, <1>5

(* A comment is a '#' and bytes that do not end the line.                  *)
LEMMA CommentIs ==
  ASSUME SourceOK, NEW from \in Nat, NEW to \in Places
  PROVE  IsComment(Text(from, to)) <=>
           /\ from < to /\ src[from + 1] = "#"
           /\ \A k \in from + 1..to : src[k] # "NL"
  <1>1. to \in Nat
    BY SourceFacts DEF Places
  <1> DEFINE T == Text(from, to)
  <1>2. /\ T \in Seq(Range(src))
        /\ Len(T) = IF from <= to THEN to - from ELSE 0
        /\ from <= to => \A k \in 1..to - from : T[k] = src[from + k]
    BY TextIs
  <1>3. IsComment(T) <=> Len(T) > 0 /\ T[1] = "#" /\ \A k \in 1..Len(T) : T[k] # "NL"
    <2>1. DOMAIN T = 1..Len(T) /\ Len(T) \in Nat /\ (T = <<>> <=> Len(T) = 0)
          /\ Head(T) = T[1]
      BY <1>2
    <2> QED
      BY <2>1 DEF IsComment, Range
  <1> HIDE DEF T
  <1>4. CASE from < to
    <2>1. \A k \in from + 1..to : k - from \in 1..to - from /\ from + (k - from) = k
      BY <1>1, <1>4
    <2>2. \A k \in 1..to - from : from + k \in from + 1..to
      BY <1>1, <1>4
    <2>3. /\ Len(T) = to - from /\ Len(T) > 0
          /\ \A k \in 1..to - from : T[k] = src[from + k]
      BY <1>1, <1>2, <1>4
    <2>4. (\A k \in 1..to - from : src[from + k] # "NL")
            <=> \A k \in from + 1..to : src[k] # "NL"
      BY <2>1, <2>2
    <2>5. T[1] = src[from + 1]
      <3>1. 1 \in 1..to - from
        BY <1>1, <1>4
      <3> QED
        BY <2>3, <3>1
    <2> QED
      BY <1>3, <1>4, <2>3, <2>4, <2>5 DEF T
  <1>5. CASE ~(from < to)
    <2>1. Len(T) = 0
      BY <1>1, <1>2, <1>5
    <2> QED
      BY <1>3, <1>5, <2>1 DEF T
  <1> QED
    BY <1>4, <1>5

-----------------------------------------------------------------------------
(* Lines and columns.                                                      *)

(* The new lines before a place are finitely many.                         *)
LEMMA EndsFinite ==
  ASSUME NEW p \in Nat
  PROVE  /\ IsFiniteSet(Ends(p)) /\ Cardinality(Ends(p)) \in Nat
         /\ \A i \in Ends(p) : i \in 1..p
  <1>1. IsFiniteSet(1..p)
    BY FS_Interval
  <1>2. Ends(p) \subseteq 1..p
    BY DEF Ends
  <1>3. IsFiniteSet(Ends(p))
    BY <1>1, <1>2, FS_Subset
  <1> QED
    BY <1>2, <1>3, FS_CardinalityType

(* A step over a byte is a step over at most one new line.                 *)
LEMMA EndsNext ==
  ASSUME NEW p \in Nat
  PROVE  /\ Ends(p + 1) = IF src[p + 1] = "NL" THEN Ends(p) \cup {p + 1} ELSE Ends(p)
         /\ LineAt(p + 1) = IF src[p + 1] = "NL" THEN LineAt(p) + 1 ELSE LineAt(p)
  <1>1. Ends(p + 1) = IF src[p + 1] = "NL" THEN Ends(p) \cup {p + 1} ELSE Ends(p)
    <2>1. 1..p + 1 = (1..p) \cup {p + 1}
      OBVIOUS
    <2> QED
      BY <2>1 DEF Ends
  <1>2. IsFiniteSet(Ends(p)) /\ Cardinality(Ends(p)) \in Nat /\ p + 1 \notin Ends(p)
    BY EndsFinite
  <1>3. Cardinality(Ends(p) \cup {p + 1}) = Cardinality(Ends(p)) + 1
    BY <1>2, FS_AddElement
  <1> QED
    BY <1>1, <1>2, <1>3 DEF LineAt

(* The column of a place counts from its last new line.                    *)
LEMMA ColumnIs ==
  ASSUME NEW p \in Nat, NEW m \in Nat, LastEnd(p, m)
  PROVE  ColumnAt(p) = p + 1 - m
  <1>1. \A i \in Ends(p) : i \in Nat
    BY EndsFinite
  <1> DEFINE n == CHOOSE k \in Ends(p) \cup {0} : \A i \in Ends(p) : i <= k
  <1>2. n \in Ends(p) \cup {0} /\ \A i \in Ends(p) : i <= n
    BY DEF LastEnd
  <1>3. ColumnAt(p) = p + 1 - n
    BY DEF ColumnAt
  <1> HIDE DEF n
  <1>4. n \in Nat /\ n <= m /\ m <= n
    BY <1>1, <1>2 DEF LastEnd
  <1>5. n = m
    BY <1>4
  <1> QED
    BY <1>3, <1>5

(* lexer_advance keeps line and column those of the place.                 *)
LEMMA AdvanceIs ==
  ASSUME SourceOK, PlaceOK, src' = src, Advance
  PROVE  /\ PlaceOK'
         /\ pos' = IF AtEnd THEN pos ELSE pos + 1
  <1>1. Len(src) \in Nat /\ pos \in Nat /\ pos <= Len(src) /\ Places = 0..Len(src)
    BY SourceFacts DEF PlaceOK, Places
  <1>2. \A p \in Nat : LineAt(p)' = LineAt(p) /\ Ends(p)' = Ends(p)
    BY DEF LineAt, Ends
  <1>3. CASE AtEnd
    <2>1. UNCHANGED place
      BY <1>3 DEF Advance
    <2> QED
      BY <1>3, <2>1 DEF place, PlaceOK, Places, LineAt, LastEnd, Ends
  <1>4. CASE ~AtEnd
    <2>1. PICK p \in Nat : p = pos
      BY <1>1
    <2>2. p + 1 \in 1..Len(src) /\ Current = src[p + 1] /\ p + 1 \in Places
      BY <1>1, <1>4, <2>1, CurrentIs DEF PlaceOK
    <2>3. /\ pos' = p + 1
          /\ line' = IF src[p + 1] = "NL" THEN line + 1 ELSE line
          /\ col' = IF src[p + 1] = "NL" THEN 1 ELSE col + 1
      BY <1>4, <2>1, <2>2 DEF Advance
    <2>4. PICK m \in Nat : m <= p /\ LastEnd(p, m) /\ col = p + 1 - m
      BY <1>1, <2>1 DEF PlaceOK
    <2>5. Ends(p + 1) = IF src[p + 1] = "NL" THEN Ends(p) \cup {p + 1} ELSE Ends(p)
      BY EndsNext
    <2>6. LineAt(p + 1) = IF src[p + 1] = "NL" THEN LineAt(p) + 1 ELSE LineAt(p)
      BY EndsNext
    <2>7. line = LineAt(p)
      BY <2>1 DEF PlaceOK
    <2>8. line' = LineAt(p + 1)'
      <3>1. line' = LineAt(p + 1)
        BY <2>3, <2>6, <2>7
      <3> QED
        BY <1>2, <3>1
    <2>9. \E k \in 0..p + 1 : LastEnd(p + 1, k) /\ col' = (p + 1) + 1 - k
      <3>1. CASE src[p + 1] = "NL"
        <4>1. \A i \in Ends(p) : i \in 1..p
          BY EndsFinite
        <4>2. LastEnd(p + 1, p + 1)
          BY <2>5, <3>1, <4>1 DEF LastEnd
        <4>3. col' = (p + 1) + 1 - (p + 1)
          BY <2>3, <3>1
        <4> QED
          BY <4>2, <4>3
      <3>2. CASE src[p + 1] # "NL"
        <4>1. LastEnd(p + 1, m)
          BY <2>4, <2>5, <3>2 DEF LastEnd
        <4>2. col' = (p + 1) + 1 - m
          BY <2>3, <2>4, <3>2
        <4> QED
          BY <2>4, <4>1, <4>2
      <3> QED
        BY <3>1, <3>2
    <2>10. pos' \in Places'
      BY <2>2, <2>3 DEF Places
    <2>11. \A k : LastEnd(p + 1, k)' = LastEnd(p + 1, k)
      BY DEF LastEnd, Ends
    <2> QED
      BY <1>4, <2>1, <2>3, <2>8, <2>9, <2>10, <2>11 DEF PlaceOK, LastEnd, LineAt, Ends
  <1> QED
    BY <1>3, <1>4

(* So they are exact.                                                      *)
LEMMA PlaceExact ==
  ASSUME SourceOK, PlaceOK
  PROVE  /\ pos \in Nat /\ pos <= Len(src) /\ Len(src) \in Nat
         /\ line = LineAt(pos) /\ line \in Nat \ {0}
         /\ col = ColumnAt(pos) /\ col \in Nat \ {0}
  <1>1. Len(src) \in Nat /\ pos \in Nat /\ pos <= Len(src)
    BY SourceFacts DEF PlaceOK, Places
  <1>2. line = LineAt(pos) /\ line \in Nat \ {0}
    <2>1. line = LineAt(pos)
      BY DEF PlaceOK
    <2>2. Cardinality(Ends(pos)) \in Nat
      BY <1>1, EndsFinite
    <2> QED
      BY <2>1, <2>2 DEF LineAt
  <1>3. PICK m \in Nat : m <= pos /\ LastEnd(pos, m) /\ col = pos + 1 - m
    BY <1>1 DEF PlaceOK
  <1>4. ColumnAt(pos) = pos + 1 - m
    BY <1>1, <1>3, ColumnIs
  <1> QED
    BY <1>1, <1>2, <1>3, <1>4

-----------------------------------------------------------------------------
(* What lies between two tokens, one byte longer.                          *)

(* Nothing is blank.                                                       *)
LEMMA BlankNothing ==
  ASSUME SourceOK, NEW p \in Places
  PROVE  AllBlank(Text(p, p))
  <1>1. p \in Nat /\ p + 1..p = {}
    BY SourceFacts DEF Places
  <1> QED
    BY <1>1, BlankIs

(* Blanks and one more are blanks.                                         *)
LEMMA BlankMore ==
  ASSUME SourceOK, NEW from \in Nat, NEW p \in Nat, p + 1 \in Places,
         AllBlank(Text(from, p)), src[p + 1] \in Blanks
  PROVE  AllBlank(Text(from, p + 1))
  <1>1. p \in Places
    BY SourceFacts DEF Places
  <1>2. \A k \in from + 1..p : src[k] \in Blanks
    BY <1>1, BlankIs
  <1>3. \A k \in from + 1..p + 1 : k \in from + 1..p \/ k = p + 1
    OBVIOUS
  <1> QED
    BY <1>2, <1>3, BlankIs

(* Blanks, a comment and one more byte of it are that too.                 *)
LEMMA CommentedMore ==
  ASSUME SourceOK, NEW from \in Nat, NEW p \in Nat, p + 1 \in Places,
         Commented(from, p), src[p + 1] \in Blanks
  PROVE  Commented(from, p + 1)
  <1>1. PICK i \in from..p, j \in from..p :
          /\ AllBlank(Text(from, i)) /\ IsComment(Text(i, j)) /\ AllBlank(Text(j, p))
          /\ j = Len(src) \/ src[j + 1] = "NL"
    BY DEF Commented
  <1>2. j \in Nat /\ i \in from..p + 1 /\ j \in from..p + 1
    OBVIOUS
  <1>3. AllBlank(Text(j, p + 1))
    BY <1>1, <1>2, BlankMore
  <1> QED
    BY <1>1, <1>2, <1>3 DEF Commented

(* A '#' after blanks begins a comment.                                    *)
LEMMA CommentMore ==
  ASSUME SourceOK, NEW i \in Nat, NEW p \in Nat, i <= p, p + 1 \in Places,
         IF i = p THEN src[p + 1] = "#" ELSE IsComment(Text(i, p)),
         src[p + 1] # "NL"
  PROVE  IsComment(Text(i, p + 1))
  <1>1. p \in Places
    BY SourceFacts DEF Places
  <1>2. \A k \in i + 1..p : src[k] # "NL"
    BY <1>1, CommentIs
  <1>3. src[i + 1] = "#"
    BY <1>1, CommentIs
  <1>4. \A k \in i + 1..p + 1 : k \in i + 1..p \/ k = p + 1
    OBVIOUS
  <1>5. \A k \in i + 1..p + 1 : src[k] # "NL"
    BY <1>2, <1>4
  <1>6. i < p + 1
    OBVIOUS
  <1> QED
    BY <1>3, <1>5, <1>6, CommentIs

(* The texts are those of the source, which does not change.               *)
LEMMA SourceKept ==
  ASSUME UNCHANGED <<src, letters>>
  PROVE  /\ SourceOK' = SourceOK /\ Places' = Places
         /\ \A a, b : AllBlank(Text(a, b))' = AllBlank(Text(a, b))
         /\ \A a, b : IsComment(Text(a, b))' = IsComment(Text(a, b))
         /\ \A a, b : Commented(a, b)' = Commented(a, b)
         /\ \A a, b : Gap(a, b)' = Gap(a, b)
         /\ \A p : LineAt(p)' = LineAt(p) /\ ColumnAt(p)' = ColumnAt(p)
  BY DEF SourceOK, Places, AllBlank, Text, IsComment, Commented, Gap, LineAt,
     ColumnAt, Ends

(* A step that adds no token leaves the table in order.                    *)
LEMMA TableKept ==
  ASSUME TableOK, UNCHANGED <<src, letters, table>>
  PROVE  TableOK' /\ Prior' = Prior
  <1>1. tokens' = tokens /\ cap' = cap /\ src' = src
    BY DEF table
  <1>2. Prior' = Prior /\ \A i : Before(i)' = Before(i)
    BY <1>1 DEF Prior, Before
  <1>3. OneCommentPerGap'
    BY <1>1, <1>2, SourceKept DEF TableOK, OneCommentPerGap
  <1>4. \A t \in Range(tokens) :
          (/\ t.from \in Places /\ t.to \in Places
           /\ t.line = LineAt(t.from) /\ t.col = ColumnAt(t.from))'
    BY <1>1, SourceKept DEF TableOK
  <1> QED
    BY <1>1, <1>2, <1>3, <1>4 DEF TableOK

(* Outside a token only the text since the last one counts, inside it only *)
(* the token.                                                              *)
LEMMA OutsideToken ==
  ASSUME mode \notin Reading
  PROVE  TokenOK
  BY DEF TokenOK, Reading

(* The same where a token has begun.                                       *)
LEMMA InsideToken ==
  ASSUME mode \in Reading, Prior \in Places
  PROVE  BetweenOK
  BY DEF BetweenOK, Reading

-----------------------------------------------------------------------------
(* Each action keeps the invariant: first what lies between two tokens.    *)

(* The lexer is asked for another token: nothing else changes.             *)
LEMMA NextRoundInv ==
  ASSUME IInv, NextRound
  PROVE  IInv'
  <1>1. /\ UNCHANGED <<src, letters, place, table>> /\ mode = "loop"
        /\ mode' \in {"eof", "before"} /\ pos' = pos /\ line' = line /\ col' = col
    BY DEF NextRound, Become, place
  <1>2. SourceOK' /\ PlaceOK' /\ TableOK' /\ Prior' = Prior
    BY <1>1, SourceKept, TableKept
       DEF IInv, PlaceOK, LastEnd, Ends, LineAt, Places, place
  <1>3. PICK p \in Places : p = pos /\ p = Prior /\ p \in Nat
    BY <1>1, SourceFacts DEF IInv, BetweenOK, Places
  <1>4. AllBlank(Text(p, p))' /\ Gap(p, p)' /\ p \in Places'
    BY <1>1, <1>3, BlankNothing, SourceKept DEF IInv, Gap
  <1>5. BetweenOK'
    BY <1>1, <1>2, <1>3, <1>4 DEF BetweenOK, Clear
  <1>6. mode' \in Modes /\ TokenOK'
    BY <1>1 DEF Modes, TokenOK, Reading
  <1> QED
    BY <1>2, <1>5, <1>6 DEF IInv

(* A byte that is skipped or read is a step of one place.                  *)
LEMMA StepOver ==
  ASSUME IInv, UNCHANGED <<src, letters>>, Advance, Current # "NUL"
  PROVE  /\ PlaceOK' /\ pos' = pos + 1 /\ pos \in Nat /\ pos + 1 \in Places
         /\ Current = src[pos + 1]
  <1>1. ~AtEnd /\ pos \in Nat /\ Places = 0..Len(src)
    BY CurrentIs, PlaceExact DEF IInv, PlaceOK, Places
  <1>2. pos + 1 \in 1..Len(src) /\ Current = src[pos + 1]
    BY <1>1, CurrentIs DEF IInv, PlaceOK
  <1>3. PlaceOK' /\ pos' = pos + 1
    BY <1>1, AdvanceIs DEF IInv
  <1> QED
    BY <1>1, <1>2, <1>3

(* lexer_skip_whitespace keeps the invariant.                              *)
LEMMA SkipBlanksInv ==
  ASSUME IInv, SkipBlanks
  PROVE  IInv'
  <1>1. UNCHANGED <<src, letters, table>> /\ mode \in {"before", "after"}
    BY DEF SkipBlanks
  <1>2. SourceOK' /\ TableOK' /\ Prior' = Prior /\ Prior \in Places /\ Places' = Places
    BY <1>1, SourceKept, TableKept DEF IInv, BetweenOK
  <1>3. PICK q \in Nat : q = Prior
    BY <1>2, SourceFacts DEF IInv, Places
  <1>4. PICK p \in Nat : p = pos
    BY PlaceExact DEF IInv
  <1>5. CASE Current \in Blanks
    <2>1. Advance /\ mode' = mode /\ Current # "NUL"
      BY <1>5 DEF SkipBlanks, Blanks
    <2>2. PlaceOK' /\ pos' = p + 1 /\ p + 1 \in Places /\ src[p + 1] \in Blanks
      BY <1>1, <1>4, <1>5, <2>1, StepOver
    <2>3. CASE mode = "before"
      <3>1. q <= p /\ AllBlank(Text(q, p))
        BY <1>3, <1>4, <2>3 DEF IInv, BetweenOK, Clear
      <3>2. q <= p + 1 /\ AllBlank(Text(q, p + 1))'
        BY <1>1, <2>2, <3>1, BlankMore, SourceKept DEF IInv
      <3>3. BetweenOK'
        BY <1>2, <1>3, <2>1, <2>2, <2>3, <3>2 DEF BetweenOK, Clear
      <3> QED
        BY <1>2, <2>1, <2>2, <2>3, <3>3, OutsideToken DEF IInv, TokenOK, Reading
    <2>4. CASE mode = "after"
      <3>1. Commented(q, p)
        BY <1>3, <1>4, <1>5, <2>4 DEF IInv, BetweenOK
      <3>2. Commented(q, p + 1)'
        BY <1>1, <2>2, <3>1, CommentedMore, SourceKept DEF IInv
      <3>3. BetweenOK'
        BY <1>2, <1>3, <2>1, <2>2, <2>4, <3>2 DEF BetweenOK
      <3> QED
        BY <1>2, <2>1, <2>2, <2>4, <3>3, OutsideToken DEF IInv, TokenOK, Reading
    <2> QED
      BY <1>1, <2>3, <2>4
  <1>6. CASE Current \notin Blanks
    <2>1. /\ pos' = pos /\ line' = line /\ col' = col
          /\ mode' = CASE mode = "after" -> "start"
                       [] mode = "before" /\ Current = "#" -> "comment"
                       [] OTHER -> "after"
      BY <1>6 DEF SkipBlanks, Become, place
    <2>2. PlaceOK' /\ Current' = Current
      BY <1>1, <2>1 DEF IInv, PlaceOK, LastEnd, Ends, LineAt, Places, Current
    <2>3. CASE mode = "before"
      <3>1. q <= p /\ AllBlank(Text(q, p))'
        BY <1>1, <1>3, <1>4, <2>3, SourceKept DEF IInv, BetweenOK, Clear
      <3>2. CASE Current = "#"
        <4>1. mode' = "comment"
          BY <2>1, <2>3, <3>2
        <4>2. InComment(p)'
          BY <1>2, <1>3, <1>4, <2>1, <2>2, <3>1, <3>2 DEF InComment
        <4>3. BetweenOK'
          BY <1>2, <1>3, <1>4, <2>1, <3>1, <4>1, <4>2 DEF BetweenOK
        <4> QED
          BY <1>2, <2>2, <4>1, <4>3 DEF IInv, TokenOK, Reading, Modes
      <3>3. CASE Current # "#"
        <4>1. mode' = "after"
          BY <2>1, <2>3, <3>3
        <4>2. Clear(pos)'
          BY <1>2, <1>3, <1>4, <2>1, <3>1 DEF Clear
        <4>3. BetweenOK'
          BY <1>2, <1>6, <2>2, <3>3, <4>1, <4>2 DEF BetweenOK
        <4> QED
          BY <1>2, <2>2, <4>1, <4>3 DEF IInv, TokenOK, Reading, Modes
      <3> QED
        BY <3>2, <3>3
    <2>4. CASE mode = "after"
      <3>1. mode' = "start"
        BY <2>1, <2>4
      <3>2. Commented(q, p) \/ (q <= p /\ AllBlank(Text(q, p)) /\ Current # "#")
        BY <1>3, <1>4, <2>4 DEF IInv, BetweenOK, Clear
      <3>3. Commented(q, p)' \/ (q <= p /\ AllBlank(Text(q, p))' /\ Current # "#")
        BY <1>1, <3>2, SourceKept
      <3>4. BetweenOK'
        BY <1>2, <1>3, <1>4, <1>6, <2>1, <2>2, <3>1, <3>3 DEF BetweenOK, Clear
      <3> QED
        BY <1>2, <2>2, <3>1, <3>4 DEF IInv, TokenOK, Reading, Modes
    <2> QED
      BY <1>1, <2>3, <2>4
  <1> QED
    BY <1>5, <1>6

(* lexer_skip_comment keeps the invariant.                                 *)
LEMMA SkipCommentInv ==
  ASSUME IInv, SkipComment
  PROVE  IInv'
  <1>1. UNCHANGED <<src, letters, table>> /\ mode = "comment"
    BY DEF SkipComment
  <1>2. SourceOK' /\ TableOK' /\ Prior' = Prior /\ Prior \in Places /\ Places' = Places
    BY <1>1, SourceKept, TableKept DEF IInv, BetweenOK
  <1>3. PICK q \in Nat : q = Prior
    BY <1>2, SourceFacts DEF IInv, Places
  <1>4. PICK p \in Nat : p = pos /\ p \in Places
    BY PlaceExact DEF IInv, PlaceOK
  <1>5. PICK i \in q..p : InComment(i)
    BY <1>1, <1>3, <1>4 DEF IInv, BetweenOK
  <1>6. AllBlank(Text(q, i)) /\ IF i = p THEN Current = "#" ELSE IsComment(Text(i, p))
    BY <1>3, <1>4, <1>5 DEF InComment
  <1>7. CASE Current \notin {"NL", "NUL"}
    <2>1. Advance /\ mode' = mode
      BY <1>7 DEF SkipComment
    <2>2. PlaceOK' /\ pos' = p + 1 /\ p + 1 \in Places /\ Current = src[p + 1]
      BY <1>1, <1>4, <1>7, <2>1, StepOver
    <2>3. IsComment(Text(i, p + 1))
      BY <1>6, <1>7, <2>2, CommentMore DEF IInv
    <2>4. IsComment(Text(i, p + 1))' /\ AllBlank(Text(q, i))' /\ i # p + 1
      BY <1>1, <1>6, <2>3, SourceKept
    <2>5. InComment(i)'
      BY <1>2, <1>3, <2>2, <2>4 DEF InComment
    <2>6. BetweenOK'
      BY <1>1, <1>2, <1>3, <2>1, <2>2, <2>5 DEF BetweenOK
    <2> QED
      BY <1>1, <1>2, <2>1, <2>2, <2>6 DEF IInv, TokenOK, Reading
  <1>8. CASE Current \in {"NL", "NUL"}
    <2>1. /\ pos' = pos /\ line' = line /\ col' = col /\ mode' = "after"
      BY <1>8 DEF SkipComment, Become, place
    <2>2. PlaceOK' /\ Current' = Current
      BY <1>1, <2>1 DEF IInv, PlaceOK, LastEnd, Ends, LineAt, Places, Current
    <2>3. IsComment(Text(i, p)) /\ i \in q..p /\ p \in q..p
      BY <1>6, <1>8
    <2>4. p = Len(src) \/ src[p + 1] = "NL"
      BY <1>4, <1>8, CurrentIs DEF IInv
    <2>5. AllBlank(Text(p, p))
      BY <1>4, BlankNothing DEF IInv
    <2>6. Commented(q, p)
      BY <1>6, <2>3, <2>4, <2>5 DEF Commented
    <2>7. Commented(q, p)'
      BY <1>1, <2>6, SourceKept
    <2>8. BetweenOK'
      BY <1>2, <1>3, <1>4, <2>1, <2>7 DEF BetweenOK
    <2> QED
      BY <1>2, <2>1, <2>2, <2>8 DEF IInv, TokenOK, Reading, Modes
  <1> QED
    BY <1>7, <1>8

-----------------------------------------------------------------------------
(* Then the tokens.                                                        *)

(* The first byte of a token, or the end of the source, keeps it.          *)
LEMMA StartTokenInv ==
  ASSUME IInv, StartToken
  PROVE  IInv'
  <1>1. UNCHANGED <<src, letters, table>> /\ mode = "start"
    BY DEF StartToken
  <1>2. SourceOK' /\ TableOK' /\ Prior' = Prior /\ Prior \in Places /\ Places' = Places
    BY <1>1, SourceKept, TableKept DEF IInv, BetweenOK
  <1>3. PICK q \in Nat : q = Prior
    BY <1>2, SourceFacts DEF IInv, Places
  <1>4. PICK p \in Nat : p = pos /\ p \in Places
    BY PlaceExact DEF IInv, PlaceOK
  <1>5. Commented(q, p) \/ (AllBlank(Text(q, p)) /\ Current # "#")
    BY <1>1, <1>3, <1>4 DEF IInv, BetweenOK, Clear
  <1>6. Gap(q, p)' /\ Gap(q, p)
    BY <1>1, <1>5, SourceKept DEF Gap
  <1>7. CASE AtEnd
    <2>1. pos' = pos /\ line' = line /\ col' = col /\ mode' = "eof"
      BY <1>7 DEF StartToken, Become, place
    <2>2. PlaceOK'
      BY <1>1, <2>1 DEF IInv, PlaceOK, LastEnd, Ends, LineAt, Places
    <2>3. BetweenOK'
      BY <1>2, <1>3, <1>4, <1>6, <2>1 DEF BetweenOK
    <2> QED
      BY <1>2, <2>1, <2>2, <2>3 DEF IInv, TokenOK, Reading, Modes
  <1>8. CASE ~AtEnd
    <2>1. /\ tok' = [NoToken EXCEPT !.type = Current, !.line = line, !.col = col,
                                    !.from = pos]
          /\ mode' = CASE Current \in Digits -> "number"
                       [] Current \in Quotes -> "string"
                       [] Current \in Letters \cup {"_"} -> "word"
                       [] OTHER -> "operator"
          /\ IF Current \in Quotes THEN Advance ELSE UNCHANGED place
      BY <1>8 DEF StartToken, Become
    <2>2. /\ Current \in Digits => mode' = "number"
          /\ Current \in Quotes => mode' = "string"
          /\ Current \in Letters \cup {"_"} => mode' = "word"
          /\ Current \notin Digits \cup Quotes \cup Letters \cup {"_"} => mode' = "operator"
      <3>1. letters \subseteq HighBytes
        BY SourceFacts DEF IInv
      <3>2. /\ Digits \cap Quotes = {} /\ Digits \cap (Letters \cup {"_"}) = {}
            /\ Quotes \cap (Letters \cup {"_"}) = {}
        BY <3>1 DEF Digits, Quotes, Letters, AsciiLetters, HighBytes
      <3> QED
        BY <2>1, <3>2
    <2>3. mode' \in {"number", "string", "word", "operator"}
      BY <2>2
    <2>4. Current = src[p + 1] /\ p + 1 \in Places /\ p < Len(src) /\ Current # "NUL"
      BY <1>4, <1>8, CurrentIs, PlaceExact DEF IInv, PlaceOK, Places
    <2>5. PlaceOK' /\ pos' \in {p, p + 1} /\ (mode' = "string" => pos' = p + 1)
          /\ (mode' # "string" => Current' = Current /\ pos' = p)
      <3>1. CASE Current \in Quotes
        BY <1>1, <1>4, <2>1, <2>2, <2>4, <3>1, StepOver
      <3>2. CASE Current \notin Quotes
        <4>1. pos' = pos /\ line' = line /\ col' = col
          BY <2>1, <3>2 DEF place
        <4>2. mode' # "string"
          BY <2>2, <3>2
        <4> QED
          BY <1>1, <1>4, <4>1, <4>2
             DEF IInv, PlaceOK, LastEnd, Ends, LineAt, Places, Current
      <3> QED
        BY <3>1, <3>2
    <2>6. /\ DOMAIN tok' = DOMAIN NoToken
          /\ tok'.line = line /\ tok'.col = col /\ tok'.from = p
      BY <1>4, <2>1 DEF NoToken
    <2>7. tok'.line = LineAt(p)' /\ tok'.col = ColumnAt(p)'
      BY <1>1, <1>4, <2>6, PlaceExact, SourceKept DEF IInv
    <2>8. src'[p + 1] \notin Blanks /\ (src'[p + 1] = "#" => Commented(q, p)')
      <3>1. Current \notin Blanks /\ Current = src'[p + 1]
        BY <1>1, <2>4 DEF IInv, BetweenOK
      <3>2. Commented(q, p)' = Commented(q, p)
        BY <1>1, SourceKept
      <3> QED
        BY <1>5, <3>1, <3>2
    <2>9. /\ mode' = "number" => Current' \in NumberBytes
          /\ mode' = "word" => Current' \in WordBytes'
      BY <1>1, <2>2, <2>3, <2>5 DEF NumberBytes, WordBytes, Letters
    <2>10. TokenOK'
      <3>1. p \in 0..Len(src') - 1 /\ p <= pos'
        BY <1>1, <1>4, <2>4, <2>5, PlaceExact DEF IInv
      <3>2. mode' \in {"string", "escape", "second", "add"} => p < pos'
        BY <2>3, <2>5
      <3> QED
        BY <1>2, <1>3, <1>6, <2>3, <2>6, <2>7, <2>8, <2>9, <3>1, <3>2
           DEF TokenOK
    <2>11. mode' \in Modes /\ BetweenOK'
      BY <1>2, <2>3 DEF BetweenOK, Modes
    <2> QED
      BY <1>2, <2>5, <2>10, <2>11 DEF IInv
  <1> QED
    BY <1>7, <1>8

(* A scanner that has taken a byte goes on, or hands its token over.       *)
LEMMA ReadingInv ==
  ASSUME IInv, mode \in Reading, mode' \in Reading \ {"operator"},
         UNCHANGED <<src, letters, table>>, PlaceOK', tok.from < pos',
         DOMAIN tok' = DOMAIN tok, tok'.from = tok.from,
         tok'.line = tok.line, tok'.col = tok.col,
         mode' = "add" => tok'.to = pos'
  PROVE  IInv'
  <1>1. SourceOK' /\ TableOK' /\ Prior' = Prior /\ Prior \in Places /\ Places' = Places
    BY SourceKept, TableKept DEF IInv, BetweenOK
  <1>2. PICK q \in Nat : q = Prior
    BY <1>1, SourceFacts DEF IInv, Places
  <1>3. PICK f \in 0..Len(src) - 1 : f = tok.from
    BY DEF IInv, TokenOK
  <1>4. /\ DOMAIN tok = DOMAIN NoToken
        /\ tok.line = LineAt(f) /\ tok.col = ColumnAt(f)
        /\ Gap(q, f) /\ src[f + 1] \notin Blanks
        /\ src[f + 1] = "#" => Commented(q, f)
    BY <1>2, <1>3 DEF IInv, TokenOK
  <1>5. /\ LineAt(f)' = LineAt(f) /\ ColumnAt(f)' = ColumnAt(f)
        /\ Gap(q, f)' = Gap(q, f) /\ Commented(q, f)' = Commented(q, f)
    BY SourceKept
  <1>6. f < pos' /\ f <= pos' /\ f # pos'
    <2>1. Len(src) \in Nat /\ f \in Nat /\ pos' \in Nat
      <3>1. pos' \in 0..Len(src) /\ Len(src) \in Nat
        BY <1>1, SourceFacts DEF IInv, PlaceOK, Places
      <3> QED
        BY <3>1
    <2> QED
      BY <1>3, <2>1
  <1>7. TokenOK'
    BY <1>1, <1>2, <1>3, <1>4, <1>5, <1>6 DEF TokenOK
  <1>8. BetweenOK' /\ mode' \in Modes
    BY <1>1 DEF BetweenOK, Reading, Modes
  <1> QED
    BY <1>1, <1>7, <1>8 DEF IInv

(* What the scanners do to the token.                                      *)
TokenStep ==
  \/ tok' = tok
  \/ \E b : Keep(b)
  \/ \E t : Typed(t)
  \/ \E t, b : tok' = [tok EXCEPT !.type = t, !.to = pos', !.buf = b]

(* The token that is being read, where the scanner goes on.                *)
LEMMA TokenKept ==
  ASSUME DOMAIN tok = DOMAIN NoToken,
         TokenStep
  PROVE  /\ DOMAIN tok' = DOMAIN tok /\ tok'.from = tok.from
         /\ tok'.line = tok.line /\ tok'.col = tok.col
  <1>1. DOMAIN tok = {"type", "line", "col", "from", "to", "buf"}
    BY DEF NoToken
  <1> QED
    BY <1>1 DEF Keep, Typed, TokenStep

(* The token that has been read is the one that is handed over.            *)
LEMMA TokenEnds ==
  ASSUME DOMAIN tok = DOMAIN NoToken,
         \/ \E t : Typed(t)
         \/ \E t, b : tok' = [tok EXCEPT !.type = t, !.to = pos', !.buf = b]
  PROVE  tok'.to = pos'
  <1>1. DOMAIN tok = {"type", "line", "col", "from", "to", "buf"}
    BY DEF NoToken
  <1> QED
    BY <1>1 DEF Typed

(* Positions are numbers, for the scanners' sake.                          *)
LEMMA ReadingFacts ==
  ASSUME IInv, mode \in Reading
  PROVE  /\ pos \in Nat /\ tok.from \in Nat /\ tok.from <= pos /\ tok.from < Len(src)
         /\ Len(src) \in Nat
         /\ DOMAIN tok = DOMAIN NoToken
  <1>1. pos \in Nat /\ Len(src) \in Nat
    BY PlaceExact DEF IInv
  <1>2. tok.from \in 0..Len(src) - 1 /\ tok.from <= pos /\ DOMAIN tok = DOMAIN NoToken
    BY DEF IInv, TokenOK
  <1> QED
    BY <1>1, <1>2

(* A scanner's step over a byte, and its end where it stands.              *)
LEMMA ReadByte ==
  ASSUME IInv, mode \in Reading, mode' \in Reading \ {"operator"},
         UNCHANGED <<src, letters, table>>, Advance,
         Current # "NUL" \/ tok.from < pos,
         TokenStep,
         mode' = "add" => tok'.to = pos'
  PROVE  IInv'
  <1>1. /\ pos \in Nat /\ tok.from \in Nat /\ tok.from <= pos
        /\ DOMAIN tok = DOMAIN NoToken
    BY ReadingFacts
  <1>2. PlaceOK' /\ pos' = IF AtEnd THEN pos ELSE pos + 1
    BY AdvanceIs DEF IInv
  <1>3. AtEnd => tok.from < pos
    BY CurrentIs DEF IInv, PlaceOK
  <1>4. tok.from < pos'
    <2>1. PICK f \in Nat, p \in Nat : f = tok.from /\ p = pos /\ f <= p
      BY <1>1
    <2>2. CASE AtEnd
      BY <1>2, <1>3, <2>1, <2>2
    <2>3. CASE ~AtEnd
      <3>1. pos' = p + 1
        BY <1>2, <2>1, <2>3
      <3> QED
        BY <2>1, <3>1
    <2> QED
      BY <2>2, <2>3
  <1>5. /\ DOMAIN tok' = DOMAIN tok /\ tok'.from = tok.from
        /\ tok'.line = tok.line /\ tok'.col = tok.col
    BY <1>1, TokenKept
  <1> QED
    BY <1>2, <1>4, <1>5, ReadingInv

(* A scanner that ends where it stands.                                    *)
LEMMA ReadEnd ==
  ASSUME IInv, mode \in Reading, mode' = "add",
         UNCHANGED <<src, letters, table, place>>, tok.from < pos,
         \/ \E t : Typed(t)
         \/ \E t, b : tok' = [tok EXCEPT !.type = t, !.to = pos', !.buf = b]
  PROVE  IInv'
  <1>1. pos' = pos /\ line' = line /\ col' = col
    BY DEF place
  <1>2. PlaceOK'
    BY <1>1 DEF IInv, PlaceOK, LastEnd, Ends, LineAt, Places
  <1>3. /\ DOMAIN tok' = DOMAIN tok /\ tok'.from = tok.from
        /\ tok'.line = tok.line /\ tok'.col = tok.col /\ tok'.to = pos'
    BY ReadingFacts, TokenKept, TokenEnds DEF TokenStep
  <1> QED
    BY <1>1, <1>2, <1>3, ReadingInv DEF Reading

(* lexer_read_number keeps the invariant.                                  *)
LEMMA ReadNumberInv ==
  ASSUME IInv, ReadNumber
  PROVE  IInv'
  <1>1. UNCHANGED <<src, letters, table>> /\ mode = "number"
    BY DEF ReadNumber
  <1>2. CASE Current \in NumberBytes
    <2>1. Keep(Current) /\ Advance /\ mode' = mode /\ Current # "NUL"
      BY <1>2 DEF ReadNumber, NumberBytes, Digits
    <2> QED
      BY <1>1, <2>1, ReadByte DEF Reading, TokenStep
  <1>3. CASE Current \notin NumberBytes
    <2>1. PICK t : UNCHANGED place /\ Typed(t) /\ mode' = "add"
      BY <1>3 DEF ReadNumber, Become
    <2>2. tok.from # pos /\ mode \in Reading
      BY <1>1, <1>3 DEF IInv, TokenOK, Reading
    <2>3. tok.from < pos
      BY <2>2, ReadingFacts
    <2> QED
      BY <1>1, <2>1, <2>2, <2>3, ReadEnd
  <1> QED
    BY <1>2, <1>3

(* lexer_read_identifier keeps the invariant.                              *)
LEMMA ReadIdentifierInv ==
  ASSUME IInv, ReadIdentifier
  PROVE  IInv'
  <1>1. UNCHANGED <<src, letters, table>> /\ mode = "word"
    BY DEF ReadIdentifier
  <1>2. CASE Current \in WordBytes
    <2>1. letters \subseteq HighBytes
      BY SourceFacts DEF IInv
    <2>2. Current # "NUL"
      BY <1>2, <2>1 DEF WordBytes, Letters, AsciiLetters, HighBytes, Digits
    <2>3. Keep(Current) /\ Advance /\ mode' = mode
      BY <1>2 DEF ReadIdentifier
    <2> QED
      BY <1>1, <2>2, <2>3, ReadByte DEF Reading, TokenStep
  <1>3. CASE Current \notin WordBytes
    <2>1. PICK t : UNCHANGED place /\ Typed(t) /\ mode' = "add"
      BY <1>3 DEF ReadIdentifier, Become
    <2>2. tok.from # pos /\ mode \in Reading
      BY <1>1, <1>3 DEF IInv, TokenOK, Reading
    <2>3. tok.from < pos
      BY <2>2, ReadingFacts
    <2> QED
      BY <1>1, <2>1, <2>2, <2>3, ReadEnd
  <1> QED
    BY <1>2, <1>3

(* The bytes of a string keep the invariant.                               *)
LEMMA ReadStringInv ==
  ASSUME IInv, ReadString
  PROVE  IInv'
  <1>1. UNCHANGED <<src, letters, table>> /\ mode = "string" /\ Advance
    BY DEF ReadString
  <1>2. mode \in Reading /\ tok.from < pos
    BY <1>1 DEF IInv, TokenOK, Reading
  <1>3. DOMAIN tok = DOMAIN NoToken
    BY <1>2, ReadingFacts
  <1>4. \/ mode' = "string" /\ Keep(Current)
        \/ mode' = "escape" /\ tok' = tok
        \/ mode' = "add" /\ Valued("STRING", Copied(tok.buf))
    BY <1>1 DEF ReadString, Become
  <1>5. mode' = "add" => tok'.to = pos'
    BY <1>3, <1>4, TokenEnds DEF Valued
  <1>6. mode' \in Reading \ {"operator"}
    BY <1>4 DEF Reading
  <1> QED
    BY <1>1, <1>2, <1>4, <1>5, <1>6, ReadByte DEF TokenStep, Valued

(* So does the byte after a backslash.                                     *)
LEMMA ReadEscapeInv ==
  ASSUME IInv, ReadEscape
  PROVE  IInv'
  <1>1. /\ UNCHANGED <<src, letters, table>> /\ mode = "escape" /\ Advance
        /\ Keep(Unescaped(Current)) /\ mode' = "string"
    BY DEF ReadEscape, Become
  <1>2. mode \in Reading /\ tok.from < pos
    BY <1>1 DEF IInv, TokenOK, Reading
  <1> QED
    BY <1>1, <1>2, ReadByte DEF Reading, TokenStep

(* Where a buffer is full the model ends.                                  *)
LEMMA OverrunInv ==
  ASSUME IInv, Overrun
  PROVE  IInv'
  <1>1. /\ UNCHANGED <<src, letters, table>> /\ mode' = "overrun"
        /\ pos' = pos /\ line' = line /\ col' = col
    BY DEF Overrun, Become, place
  <1>2. SourceOK' /\ PlaceOK' /\ TableOK' /\ Prior' = Prior
    BY <1>1, SourceKept, TableKept
       DEF IInv, PlaceOK, LastEnd, Ends, LineAt, Places
  <1>3. BetweenOK' /\ TokenOK' /\ mode' \in Modes
    BY <1>1, <1>2, SourceKept DEF IInv, BetweenOK, TokenOK, Reading, Modes
  <1> QED
    BY <1>2, <1>3 DEF IInv

(* The operators' first byte keeps the invariant.                          *)
LEMMA ReadOperatorInv ==
  ASSUME IInv, ReadOperator
  PROVE  IInv'
  <1>1. /\ UNCHANGED <<src, letters, table>> /\ mode = "operator" /\ Advance
        /\ tok' = tok /\ mode' = "second"
    BY DEF ReadOperator, Become
  <1>2. mode \in Reading
    BY <1>1 DEF Reading
  <1>3. Current # "NUL" \/ tok.from < pos
    <2>1. tok.from < Len(src) /\ (Current = "NUL" => pos = Len(src))
      BY <1>2, ReadingFacts, CurrentIs DEF IInv, PlaceOK
    <2> QED
      BY <2>1
  <1> QED
    BY <1>1, <1>2, <1>3, ReadByte DEF Reading, TokenStep

(* So does the second byte of a longer operator.                           *)
LEMMA ReadSecondInv ==
  ASSUME IInv, ReadSecond
  PROVE  IInv'
  <1>1. UNCHANGED <<src, letters, table>> /\ mode = "second" /\ mode' = "add"
    BY DEF ReadSecond, Become
  <1>2. mode \in Reading /\ tok.from < pos
    BY <1>1 DEF IInv, TokenOK, Reading
  <1>3. DOMAIN tok = DOMAIN NoToken
    BY <1>2, ReadingFacts
  <1>4. \/ \E t, b : /\ Advance
                     /\ tok' = [tok EXCEPT !.type = t, !.to = pos', !.buf = b]
        \/ \E t, b : /\ UNCHANGED place
                     /\ tok' = [tok EXCEPT !.type = t, !.to = pos', !.buf = b]
    BY DEF ReadSecond, Valued
  <1>5. ASSUME NEW t, NEW b, Advance,
               tok' = [tok EXCEPT !.type = t, !.to = pos', !.buf = b]
        PROVE  IInv'
    <2>1. tok'.to = pos'
      BY <1>3, <1>5, TokenEnds
    <2> QED
      BY <1>1, <1>2, <1>5, <2>1, ReadByte DEF Reading, TokenStep
  <1>6. ASSUME NEW t, NEW b, UNCHANGED place,
               tok' = [tok EXCEPT !.type = t, !.to = pos', !.buf = b]
        PROVE  IInv'
    BY <1>1, <1>2, <1>6, ReadEnd
  <1> QED
    BY <1>4, <1>5, <1>6

-----------------------------------------------------------------------------
(* Last the table.                                                         *)

(* A token that begins where the last gap ends keeps the table in order.   *)
LEMMA AppendInv ==
  ASSUME IInv, UNCHANGED <<src, letters>>, NEW t, tokens' = Append(tokens, t),
         cap' \in Nat \ {0}, Len(tokens) + 1 <= cap',
         t.from \in Places, t.to \in Places,
         t.line = LineAt(t.from), t.col = ColumnAt(t.from), Gap(Prior, t.from),
         t.type # "EOF" =>
           /\ t.from < t.to /\ src[t.from + 1] \notin Blanks
           /\ src[t.from + 1] = "#" => Commented(Prior, t.from)
  PROVE  TableOK' /\ Prior' = t.to
  <1>1. PICK n \in Nat : n = Len(tokens)
    BY DEF IInv, TableOK
  <1>2. /\ DOMAIN tokens = 1..n /\ DOMAIN tokens' = 1..n + 1 /\ Len(tokens') = n + 1
        /\ tokens'[n + 1] = t /\ \A i \in 1..n : tokens'[i] = tokens[i]
    BY <1>1 DEF IInv, TableOK
  <1>3. Range(tokens') = Range(tokens) \cup {t}
    <2>1. 1..n + 1 = (1..n) \cup {n + 1}
      OBVIOUS
    <2> QED
      BY <1>2, <2>1 DEF Range
  <1>4. tokens' \in Seq(Range(tokens'))
    <2>1. tokens \in Seq(Range(tokens'))
      BY <1>3, SeqMonotonic DEF IInv, TableOK
    <2> QED
      BY <1>3, <2>1
  <1>5. \A i \in 1..n + 1 : Before(i)' = Before(i)
    <2>1. \A i \in 1..n + 1 : i = 1 \/ (i - 1 \in 1..n)
      OBVIOUS
    <2> QED
      BY <1>2, <2>1 DEF Before
  <1>6. Prior = Before(n + 1) /\ Prior' = t.to
    <2>1. Prior' = tokens'[n + 2 - 1].to
      BY <1>2 DEF Prior, Before
    <2>2. n + 2 - 1 = n + 1
      OBVIOUS
    <2> QED
      BY <1>1, <1>2, <2>1, <2>2 DEF Prior
  <1>7. OneCommentPerGap'
    <2> SUFFICES ASSUME NEW i \in 1..n + 1
                 PROVE  LET s == tokens'[i] IN
                          /\ Gap(Before(i), s.from)
                          /\ s.type # "EOF" =>
                               /\ s.from < s.to /\ src[s.from + 1] \notin Blanks
                               /\ src[s.from + 1] = "#" => Commented(Before(i), s.from)
      BY <1>2, <1>5, SourceKept DEF OneCommentPerGap, Gap
    <2>1. CASE i = n + 1
      BY <1>2, <1>6, <2>1
    <2>2. CASE i # n + 1
      <3>1. i \in 1..n /\ i \in DOMAIN tokens /\ tokens'[i] = tokens[i]
        BY <1>2, <2>2
      <3> QED
        BY <3>1 DEF IInv, TableOK, OneCommentPerGap, Gap
    <2> QED
      BY <2>1, <2>2
  <1>8. \A s \in Range(tokens') :
          (/\ s.from \in Places /\ s.to \in Places
           /\ s.line = LineAt(s.from) /\ s.col = ColumnAt(s.from))'
    BY <1>3, SourceKept DEF IInv, TableOK
  <1> QED
    BY <1>1, <1>2, <1>4, <1>6, <1>7, <1>8 DEF TableOK

(* A token that is handed over keeps the invariant.                        *)
LEMMA AddTokenInv ==
  ASSUME IInv, AddToken
  PROVE  IInv'
  <1>1. /\ UNCHANGED <<src, letters, place, tok>> /\ mode = "add" /\ mode' = "loop"
        /\ cap' = IF Len(tokens) >= cap THEN 2 * cap ELSE cap
        /\ tokens' = Append(tokens, tok)
    BY DEF AddToken, Become
  <1>2. cap' \in Nat \ {0} /\ Len(tokens) + 1 <= cap'
    <2>1. PICK n \in Nat, c \in Nat \ {0} : n = Len(tokens) /\ c = cap /\ n <= c
      BY DEF IInv, TableOK
    <2>2. cap' = IF n >= c THEN 2 * c ELSE c
      BY <1>1, <2>1
    <2> QED
      BY <2>1, <2>2
  <1>3. PICK f \in Nat, p \in Nat : f = tok.from /\ p = pos /\ f < p /\ p <= Len(src)
    BY <1>1, ReadingFacts, PlaceExact DEF IInv, TokenOK, Reading
  <1>4. tok.from \in Places /\ tok.to \in Places /\ tok.from < tok.to /\ tok.to = p
    <2>1. Len(src) \in Nat /\ tok.to = p
      BY <1>1, <1>3, PlaceExact DEF IInv, TokenOK
    <2>2. f \in 0..Len(src) /\ p \in 0..Len(src)
      BY <1>3, <2>1
    <2> QED
      BY <1>3, <2>1, <2>2 DEF Places
  <1>5. /\ tok.line = LineAt(tok.from) /\ tok.col = ColumnAt(tok.from)
        /\ Gap(Prior, tok.from) /\ src[tok.from + 1] \notin Blanks
        /\ src[tok.from + 1] = "#" => Commented(Prior, tok.from)
    BY <1>1 DEF IInv, TokenOK, Reading
  <1>6. TableOK' /\ Prior' = p
    BY <1>1, <1>2, <1>4, <1>5, AppendInv
  <1>7. SourceOK' /\ PlaceOK' /\ pos' = p /\ p \in Places'
    BY <1>1, <1>3, <1>4, SourceKept
       DEF IInv, PlaceOK, LastEnd, Ends, LineAt, Places, place
  <1> QED
    BY <1>1, <1>6, <1>7 DEF IInv, BetweenOK, TokenOK, Reading, Modes

(* So does the token of the end of the source.                             *)
LEMMA AddEndInv ==
  ASSUME IInv, AddEnd
  PROVE  IInv'
  <1>1. /\ UNCHANGED <<src, letters, place, tok>> /\ mode = "eof" /\ mode' = "done"
        /\ cap' = IF Len(tokens) >= cap THEN cap + 1 ELSE cap
        /\ tokens' = Append(tokens, End)
    BY DEF AddEnd, Become
  <1>2. cap' \in Nat \ {0} /\ Len(tokens) + 1 <= cap'
    <2>1. PICK n \in Nat, c \in Nat \ {0} : n = Len(tokens) /\ c = cap /\ n <= c
      BY DEF IInv, TableOK
    <2>2. cap' = IF n >= c THEN c + 1 ELSE c
      BY <1>1, <2>1
    <2> QED
      BY <2>1, <2>2
  <1>3. PICK p \in Places : p = pos
    BY DEF IInv, PlaceOK
  <1>4. /\ End.type = "EOF" /\ End.line = line /\ End.col = col
        /\ End.from = p /\ End.to = p
    BY <1>3 DEF End, NoToken
  <1>5. line = LineAt(p) /\ col = ColumnAt(p)
    BY <1>3, PlaceExact DEF IInv
  <1>6. Gap(Prior, p)
    BY <1>1, <1>3 DEF IInv, BetweenOK
  <1>7. TableOK' /\ Prior' = End.to
    BY <1>1, <1>2, <1>4, <1>5, <1>6, AppendInv
  <1>8. SourceOK' /\ PlaceOK' /\ p \in Places'
    BY <1>1, <1>3, SourceKept
       DEF IInv, PlaceOK, LastEnd, Ends, LineAt, Places, place
  <1> QED
    BY <1>1, <1>4, <1>7, <1>8 DEF IInv, BetweenOK, TokenOK, Reading, Modes

-----------------------------------------------------------------------------
(* The invariant holds for every source.                                   *)
THEOREM Invariance == Spec => []IInv
  <1>1. Init => IInv
    <2> SUFFICES ASSUME Init PROVE IInv
      OBVIOUS
    <2>1. PICK a \in Alphabets :
            /\ src \in UNION {[1..n -> a.bytes] : n \in 0..a.max}
            /\ letters \in SUBSET (HighBytes \cap a.bytes)
      BY DEF Init
    <2>2. SourceOK
      <3>1. PICK n \in 0..a.max : src \in [1..n -> a.bytes]
        BY <2>1
      <3>2. n \in Nat
        BY LexerAssumption
      <3>3. src \in Seq(a.bytes)
        BY <3>1, <3>2, SeqDef
      <3> QED
        BY <2>1, <3>3 DEF SourceOK
    <2>3. Len(src) \in Nat /\ 0 \in Places
      BY <2>2, SourceFacts DEF Places
    <2>4. Ends(0) = {} /\ LineAt(0) = 1 /\ LastEnd(0, 0)
      <3>1. 1..0 = {} /\ Ends(0) = {}
        BY DEF Ends
      <3> QED
        BY <3>1, FS_EmptySet DEF LineAt, LastEnd
    <2>5. PlaceOK
      BY <2>3, <2>4 DEF Init, PlaceOK
    <2>6. tokens = <<>> /\ cap \in Nat \ {0} /\ Len(tokens) = 0
      BY LexerAssumption DEF Init
    <2>7. DOMAIN tokens = {} /\ Range(tokens) = {} /\ tokens \in Seq(Range(tokens))
      BY <2>6 DEF Range
    <2>8. TableOK
      BY <2>6, <2>7 DEF TableOK, OneCommentPerGap
    <2>9. Prior = 0
      BY <2>6 DEF Prior, Before
    <2> QED
      BY <2>2, <2>3, <2>5, <2>8, <2>9 DEF Init, IInv, BetweenOK, TokenOK, Reading, Modes
  <1>2. IInv /\ [Next]_vars => IInv'
    <2> SUFFICES ASSUME IInv, [Next]_vars PROVE IInv'
      OBVIOUS
    <2>1. CASE Next
      BY <2>1, NextRoundInv, SkipBlanksInv, SkipCommentInv, StartTokenInv,
         ReadNumberInv, ReadIdentifierInv, ReadStringInv, ReadEscapeInv,
         OverrunInv, ReadOperatorInv, ReadSecondInv, AddTokenInv, AddEndInv DEF Next
    <2>2. CASE UNCHANGED vars
      <3>1. /\ UNCHANGED <<src, letters, table>> /\ mode' = mode /\ tok' = tok
            /\ pos' = pos /\ line' = line /\ col' = col
        BY <2>2 DEF vars, place
      <3>2. SourceOK' /\ TableOK' /\ Prior' = Prior
        BY <3>1, SourceKept, TableKept DEF IInv
      <3>3. PlaceOK' /\ mode' \in Modes
        BY <3>1 DEF IInv, PlaceOK, LastEnd, Ends, LineAt, Places
      <3>4. BetweenOK'
        BY <3>1, <3>2, SourceKept
           DEF IInv, BetweenOK, Clear, InComment, Current
      <3>5. TokenOK'
        BY <3>1, <3>2, SourceKept
           DEF IInv, TokenOK, Current, NumberBytes, WordBytes, Letters
      <3> QED
        BY <3>2, <3>3, <3>4, <3>5 DEF IInv
    <2> QED
      BY <2>1, <2>2
  <1> QED
    BY <1>1, <1>2, PTL DEF Spec

(* Places and the table of tokens stay in their bounds: it grows before it *)
(* is full.                                                                *)
THEOREM TypeCorrect == Spec => []TypeOK
  <1>1. IInv => TypeOK
    <2> SUFFICES ASSUME IInv PROVE TypeOK
      OBVIOUS
    <2>1. pos \in Places /\ line \in Nat \ {0} /\ col \in Nat \ {0}
      BY PlaceExact DEF IInv, PlaceOK
    <2>2. letters \subseteq HighBytes
      BY SourceFacts DEF IInv
    <2>3. \A i \in DOMAIN tokens : tokens[i] \in Range(tokens)
      BY DEF Range
    <2>4. \A i \in DOMAIN tokens : tokens[i].from \in Places /\ tokens[i].to \in Places
      BY <2>3 DEF IInv, TableOK
    <2> QED
      BY <2>1, <2>2, <2>4 DEF IInv, TypeOK, TableOK
  <1> QED
    BY <1>1, Invariance, PTL

(* The line and column of the lexer, and those of every token, are exact   *)
(* on every source.                                                        *)
THEOREM PlacesExact == Spec => []PositionsExact
  <1>1. IInv => PositionsExact
    BY PlaceExact DEF IInv, TableOK, PositionsExact
  <1> QED
    BY <1>1, Invariance, PTL

(* On every source the lexer leaves out blanks and at most one comment     *)
(* between two tokens, and nothing else.                                   *)
THEOREM NothingElseSkipped == Spec => []OneCommentPerGap
  <1>1. IInv => OneCommentPerGap
    BY DEF IInv, TableOK
  <1> QED
    BY <1>1, Invariance, PTL
=============================================================================
