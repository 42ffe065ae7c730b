------------------------------ MODULE SkpLexer ------------------------------
(* The lexer, lexer.c: lexer_tokenize and the scanners it calls, one       *)
(* lexer_advance at a time. A source is a sequence of bytes; bytes that    *)
(* the code treats alike are one.                                          *)
EXTENDS Integers, Sequences, FiniteSets, SequencesExt

CONSTANTS
  Alphabets,  \* sets of bytes that sources are written with, each with the
              \* length of the longest source: [bytes, max]
  Capacity,   \* token_capacity of lexer_create
  NumberBuffer, WordBuffer, StringBuffer  \* bytes in each scanner's buffer

ASSUME LexerAssumption ==
  /\ \A a \in Alphabets : a.max \in Nat /\ "NUL" \notin a.bytes
  /\ Capacity \in Nat \ {0}

VARIABLES
  src,             \* lexer->source
  letters,         \* the bytes above 127 that isalpha takes for letters
  pos, line, col,  \* position, line and column
  tokens, cap,     \* tokens[0 .. token_count - 1] and token_capacity
  mode,            \* the loop or scanner that is running
  tok              \* the token being read: buf is its buffer

place == <<pos, line, col>>
table == <<tokens, cap>>
vars == <<src, letters, place, table, mode, tok>>

-----------------------------------------------------------------------------
Digits == {"1"}
Blanks == {" ", "NL"}
Quotes == {"QUOTE", "TICK"}
AsciiLetters == {"a", "n"}
HighBytes == {"D8", "D9", "88", "A3"}

(* isalpha and isalnum are given a char, negative for a byte of an Arabic  *)
(* letter: what they say of it is the library's and the locale's choice.   *)
Letters == AsciiLetters \cup letters
WordBytes == Letters \cup Digits \cup {"_"}
NumberBytes == Digits \cup {"."}

(* The operators: of one byte, and of two. The Arabic comma and semicolon  *)
(* are constants of two bytes, which no char is equal to.                  *)
Singles ==
  {<<"+", "PLUS">>, <<"-", "MINUS">>, <<"*", "STAR">>, <<"/", "SLASH">>,
   <<"%", "PERCENT">>, <<"=", "ASSIGN">>, <<"<", "LT">>, <<">", "GT">>,
   <<"(", "LPAREN">>, <<")", "RPAREN">>, <<"{", "LBRACE">>, <<"}", "RBRACE">>,
   <<"[", "LBRACKET">>, <<"]", "RBRACKET">>, <<",", "COMMA">>,
   <<";", "SEMICOLON">>, <<":", "COLON">>, <<".", "DOT">>}
Pairs ==
  {<<"+", "=", "PLUS_ASSIGN">>, <<"-", "=", "MINUS_ASSIGN">>, <<"-", ">", "ARROW">>,
   <<"*", "*", "POWER">>, <<"*", "=", "STAR_ASSIGN">>, <<"/", "=", "SLASH_ASSIGN">>,
   <<"=", "=", "EQ">>, <<"!", "=", "NE">>, <<"<", "=", "LE">>, <<">", "=", "GE">>}

(* Two of the keywords: the words for "and" and "or", the one ends the     *)
(* other. All keywords are made of bytes above 127.                        *)
Keywords == {<<<<"D9", "88">>, "AND">>, <<<<"D8", "A3", "D9", "88">>, "OR">>}

OperatorType(bytes) ==
  IF \E e \in Singles \cup Pairs : Front(e) = bytes
  THEN Last(CHOOSE e \in Singles \cup Pairs : Front(e) = bytes) ELSE "ERROR"

(* The value of an operator is a literal of its own. It is its text, but   *)
(* the Arabic marks stand for both commas and semicolons, and a question   *)
(* mark for every byte of no operator, except "!" alone.                   *)
OperatorValue(bytes) ==
  IF bytes = <<",">> THEN <<"D8", "8C">>
  ELSE IF bytes = <<";">> THEN <<"D8", "9B">>
  ELSE IF OperatorType(bytes) = "ERROR" /\ bytes # <<"!">> THEN <<"?">>
  ELSE bytes

WordType(word) ==
  IF \E e \in Keywords : e[1] = word
  THEN (CHOOSE e \in Keywords : e[1] = word)[2] ELSE "IDENTIFIER"

(* What stands for an escape sequence in a string's value.                 *)
Unescaped(b) == IF b = "n" THEN "NL" ELSE b

-----------------------------------------------------------------------------
Current == IF pos < Len(src) THEN src[pos + 1] ELSE "NUL"
AtEnd == pos >= Len(src)

(* Mutant: a new line does not start a new column.                         *)
AdvanceSameColumn ==
  IF AtEnd THEN UNCHANGED place
  ELSE /\ pos' = pos + 1
       /\ line' = IF Current = "NL" THEN line + 1 ELSE line
       /\ col' = col + 1

(* lexer_advance.                                                          *)
Advance ==
  IF AtEnd THEN UNCHANGED place
  ELSE /\ pos' = pos + 1
       /\ line' = IF Current = "NL" THEN line + 1 ELSE line
       /\ col' = IF Current = "NL" THEN 1 ELSE col + 1

NoToken == [type |-> "", line |-> 0, col |-> 0, from |-> 0, to |-> 0, buf |-> <<>>]
Become(m) == mode' = m
Keep(b) == tok' = [tok EXCEPT !.buf = Append(@, b)]
Typed(t) == tok' = [tok EXCEPT !.type = t, !.to = pos']
Valued(t, value) == tok' = [tok EXCEPT !.type = t, !.to = pos', !.buf = value]

(* The scanners store bytes, and a NUL at the end, without a check.        *)
Size == [number |-> NumberBuffer, word |-> WordBuffer,
         string |-> StringBuffer, escape |-> StringBuffer]
Fits == Len(tok.buf) < Size[mode]

-----------------------------------------------------------------------------
(* The loop of lexer_tokenize: blanks, one comment, blanks, a token.       *)
NextRound ==
  /\ mode = "loop"
  /\ Become(IF AtEnd THEN "eof" ELSE "before")
  /\ UNCHANGED <<src, letters, place, table, tok>>

SkipBlanks ==
  /\ mode \in {"before", "after"}
  /\ IF Current \in Blanks THEN Advance /\ UNCHANGED mode
     ELSE /\ Become(CASE mode = "after" -> "start"
                      [] mode = "before" /\ Current = "#" -> "comment"
                      [] OTHER -> "after")
          /\ UNCHANGED place
  /\ UNCHANGED <<src, letters, table, tok>>

(* Mutant: the end of the comment is looked for after its line.            *)
SkipCommentAndLine ==
  /\ mode = "comment"
  /\ IF AtEnd THEN Become("after") ELSE UNCHANGED mode
  /\ Advance
  /\ UNCHANGED <<src, letters, table, tok>>

(* Mutant: only a new line ends a comment.                                 *)
SkipCommentToNewline ==
  /\ mode = "comment"
  /\ IF Current # "NL" THEN Advance /\ UNCHANGED mode
     ELSE Become("after") /\ UNCHANGED place
  /\ UNCHANGED <<src, letters, table, tok>>

(* lexer_skip_comment.                                                     *)
SkipComment ==
  /\ mode = "comment"
  /\ IF Current \notin {"NL", "NUL"} THEN Advance /\ UNCHANGED mode
     ELSE Become("after") /\ UNCHANGED place
  /\ UNCHANGED <<src, letters, table, tok>>

(* The byte a token begins with decides how it is read. It is kept as the  *)
(* token's type until its end: a string's quote, an operator's first byte. *)
StartToken ==
  /\ mode = "start"
  /\ IF AtEnd THEN Become("eof") /\ UNCHANGED <<place, tok>>
     ELSE /\ tok' = [NoToken EXCEPT !.type = Current, !.line = line, !.col = col, !.from = pos]
          /\ Become(CASE Current \in Digits -> "number"
                      [] Current \in Quotes -> "string"
                      [] Current \in Letters \cup {"_"} -> "word"
                      [] OTHER -> "operator")
          /\ IF Current \in Quotes THEN Advance ELSE UNCHANGED place
  /\ UNCHANGED <<src, letters, table>>

(* lexer_read_number: digits and any number of dots.                       *)
ReadNumber ==
  /\ mode = "number" /\ Fits
  /\ IF Current \in NumberBytes
     THEN Keep(Current) /\ Advance /\ UNCHANGED mode
     ELSE /\ UNCHANGED place
          /\ Typed(IF Contains(tok.buf, ".") THEN "FLOAT" ELSE "INT")
          /\ Become("add")
  /\ UNCHANGED <<src, letters, table>>

(* lexer_read_identifier.                                                  *)
ReadIdentifier ==
  /\ mode = "word" /\ Fits
  /\ IF Current \in WordBytes
     THEN Keep(Current) /\ Advance /\ UNCHANGED mode
     ELSE UNCHANGED place /\ Typed(WordType(tok.buf)) /\ Become("add")
  /\ UNCHANGED <<src, letters, table>>

(* Mutant: the byte after a backslash may be the string's closing quote.   *)
ReadStringPlain ==
  /\ mode = "string"
  /\ Fits
  /\ \/ /\ Current \notin {tok.type, "NUL"}
        /\ Keep(Current) /\ Advance /\ UNCHANGED mode
     \/ /\ Current \in {tok.type, "NUL"}
        /\ Advance /\ Typed("STRING") /\ Become("add")
  /\ UNCHANGED <<src, letters, table>>

(* lexer_read_string: up to the quote it began with, or to the end of the  *)
(* source, which is no error. A backslash is stepped over first. The value *)
(* is copied up to the first NUL.                                          *)
Copied(buf) == SelectSeq(buf, LAMBDA b : b # "NUL")

ReadString ==
  /\ mode = "string"
  /\ \/ /\ Current \notin {tok.type, "NUL", "ESC"} /\ Fits
        /\ Keep(Current) /\ Advance /\ UNCHANGED mode
     \/ /\ Current = "ESC"
        /\ Advance /\ Become("escape") /\ UNCHANGED tok
     \/ /\ Current \in {tok.type, "NUL"} /\ Fits
        /\ Advance /\ Valued("STRING", Copied(tok.buf)) /\ Become("add")
  /\ UNCHANGED <<src, letters, table>>

(* The byte after the backslash; at the end of the source, a NUL.          *)
ReadEscape ==
  /\ mode = "escape" /\ Fits
  /\ Keep(Unescaped(Current)) /\ Advance /\ Become("string")
  /\ UNCHANGED <<src, letters, table>>

(* A byte, or the NUL at the end, is stored behind the buffer: what the    *)
(* program does from here on is undefined, and the model ends.             *)
Overrun ==
  /\ mode \in DOMAIN Size /\ ~Fits /\ (mode = "string" => Current # "ESC")
  /\ Become("overrun")
  /\ UNCHANGED <<src, letters, place, table, tok>>

(* lexer_read_operator: its first byte, and the second if the two are one. *)
ReadOperator ==
  /\ mode = "operator"
  /\ Advance /\ Become("second")
  /\ UNCHANGED <<src, letters, table, tok>>

ReadSecond ==
  /\ mode = "second"
  /\ LET both == <<tok.type, Current>>
         first == <<tok.type>>
     IN IF OperatorType(both) # "ERROR"
        THEN Advance /\ Valued(OperatorType(both), OperatorValue(both))
        ELSE UNCHANGED place /\ Valued(OperatorType(first), OperatorValue(first))
  /\ Become("add")
  /\ UNCHANGED <<src, letters, table>>

(* The table of tokens grows before it is full.                            *)
AddToken ==
  /\ mode = "add"
  /\ cap' = IF Len(tokens) >= cap THEN 2 * cap ELSE cap
  /\ tokens' = Append(tokens, tok)
  /\ Become("loop")
  /\ UNCHANGED <<src, letters, place, tok>>

End == [NoToken EXCEPT !.type = "EOF", !.line = line, !.col = col, !.from = pos, !.to = pos]

(* Mutant: there is always room for the last token.                        *)
AddEndUnchecked ==
  /\ mode = "eof"
  /\ tokens' = Append(tokens, End)
  /\ Become("done")
  /\ UNCHANGED <<src, letters, place, cap, tok>>

AddEnd ==
  /\ mode = "eof"
  /\ cap' = IF Len(tokens) >= cap THEN cap + 1 ELSE cap
  /\ tokens' = Append(tokens, End)
  /\ Become("done")
  /\ UNCHANGED <<src, letters, place, tok>>

-----------------------------------------------------------------------------
Init ==
  /\ \E a \in Alphabets :
       /\ src \in UNION {[1..n -> a.bytes] : n \in 0..a.max}
       /\ letters \in SUBSET (HighBytes \cap a.bytes)
  /\ pos = 0 /\ line = 1 /\ col = 1
  /\ tokens = <<>> /\ cap = Capacity
  /\ mode = "loop" /\ tok = NoToken

Next ==
  \/ NextRound \/ SkipBlanks \/ SkipComment \/ StartToken
  \/ ReadNumber \/ ReadIdentifier \/ ReadString \/ ReadEscape
  \/ Overrun \/ ReadOperator \/ ReadSecond \/ AddToken \/ AddEnd

(* lexer_tokenize runs on its caller's thread to its end.                  *)
Spec == Init /\ [][Next]_vars /\ WF_vars(Next)

-----------------------------------------------------------------------------
Modes == {"loop", "before", "comment", "after", "start", "number", "word", "string",
          "escape", "operator", "second", "add", "eof", "done", "overrun"}
Places == 0..Len(src)

(* Positions are inside the source, and the table has room for its tokens. *)
TypeOK ==
  /\ pos \in Places /\ line \in Nat \ {0} /\ col \in Nat \ {0}
  /\ letters \subseteq HighBytes /\ mode \in Modes
  /\ \A i \in DOMAIN tokens : tokens[i].from \in Places /\ tokens[i].to \in Places
  /\ Len(tokens) <= cap

(* The line and column of the lexer, and of every token, are those of its  *)
(* place in the source, comments and strings over several lines included.  *)
Ends(p) == {i \in 1..p : src[i] = "NL"}
LineAt(p) == Cardinality(Ends(p)) + 1
ColumnAt(p) == p + 1 - (CHOOSE m \in Ends(p) \cup {0} : \A i \in Ends(p) : i <= m)

PositionsExact ==
  /\ line = LineAt(pos) /\ col = ColumnAt(pos)
  /\ \A t \in Range(tokens) : t.line = LineAt(t.from) /\ t.col = ColumnAt(t.from)

(* What is left out between two tokens is blanks and at most one comment:  *)
(* so a token begins with # exactly behind a comment, the text of the      *)
(* second of two comments becomes tokens, and nothing else is lost.        *)
Text(from, to) == SubSeq(src, from + 1, to)
AllBlank(s) == Range(s) \subseteq Blanks
IsComment(s) == s # <<>> /\ Head(s) = "#" /\ "NL" \notin Range(s)
Commented(from, to) ==
  \E i, j \in from..to :
    /\ AllBlank(Text(from, i)) /\ IsComment(Text(i, j)) /\ AllBlank(Text(j, to))
    /\ j = Len(src) \/ src[j + 1] = "NL"
Before(i) == IF i = 1 THEN 0 ELSE tokens[i - 1].to

OneCommentPerGap ==
  \A i \in DOMAIN tokens :
    LET t == tokens[i] IN
      /\ AllBlank(Text(Before(i), t.from)) \/ Commented(Before(i), t.from)
      /\ t.type # "EOF" =>
           /\ t.from < t.to /\ src[t.from + 1] \notin Blanks
           /\ src[t.from + 1] = "#" => Commented(Before(i), t.from)

(* A comment is one line and leaves no token: in code outside a string, a  *)
(* # begins one, wherever it stands.                                       *)
CommentsSkipped ==
  \A t \in Range(tokens) : t.type # "EOF" => src[t.from + 1] # "#"

(* A token is as long as it can be, and shorter than its scanner's buffer. *)
(* Its value is its text, but for the Arabic comma and semicolon and for   *)
(* the question mark of an unknown byte; a string goes to the first quote  *)
(* of its kind that no backslash precedes, or to the end of the source,    *)
(* and its value is the text between, unescaped.                           *)
Decoded(s) ==
  LET f[i \in 1..Len(s) + 1] ==
        CASE i > Len(s) -> <<>>
          [] s[i] = "ESC" /\ i = Len(s) -> <<"NUL">>
          [] s[i] = "ESC" /\ i < Len(s) -> <<Unescaped(s[i + 1])>> \o f[i + 2]
          [] OTHER -> <<s[i]>> \o f[i + 1]
  IN f[1]

Escaped(s, i) == Cardinality({j \in 1..i - 1 : \A k \in j..i - 1 : s[k] = "ESC"}) % 2 = 1

Body(t) == IF Len(Text(t.from, t.to)) > 1 /\ Last(Text(t.from, t.to)) = src[t.from + 1]
              /\ ~Escaped(Text(t.from, t.to), t.to - t.from)
           THEN Text(t.from + 1, t.to - 1) ELSE Text(t.from + 1, t.to)

Following(t) == IF t.to = Len(src) THEN "NUL" ELSE src[t.to + 1]

OperatorSpelled(t, text) ==
  /\ \A e \in Pairs : Front(e) # Append(text, Following(t))
  /\ CASE t.type = "COMMA" -> text = <<",">> /\ t.buf = <<"D8", "8C">>
       [] t.type = "SEMICOLON" -> text = <<";">> /\ t.buf = <<"D8", "9B">>
       [] t.type = "ERROR" -> t.buf = IF text = <<"!">> THEN text ELSE <<"?">>
       [] OTHER -> t.buf = text

TokensSpelled ==
  \A t \in Range(tokens) :
    LET text == Text(t.from, t.to) IN
    CASE t.type = "EOF" -> t.to = Len(src)
      [] t.type = "STRING" ->
           LET value == Decoded(Body(t)) IN
           /\ Len(value) < StringBuffer /\ t.buf = SelectSeq(value, LAMBDA b : b # "NUL")
           /\ Body(t) = Text(t.from + 1, t.to) => t.to = Len(src)
           /\ \A i \in DOMAIN Body(t) :
                Body(t)[i] = src[t.from + 1] => Escaped(Body(t), i)
      [] t.type \in {"INT", "FLOAT"} ->
           /\ t.buf = text /\ Len(text) < NumberBuffer /\ Following(t) \notin NumberBytes
           /\ t.type = "FLOAT" <=> "." \in Range(text)
      [] t.type \in {"IDENTIFIER", "AND", "OR"} ->
           /\ t.buf = text /\ Len(text) < WordBuffer /\ Following(t) \notin WordBytes
           /\ t.type # "IDENTIFIER" => Range(text) \subseteq letters
      [] OTHER -> OperatorSpelled(t, text)

(* lexer_tokenize ends on every source, unless a token of it has no room   *)
(* in its scanner's buffer.                                                *)
TooLong ==
  CASE tok.type \in Digits -> pos - tok.from >= NumberBuffer
    [] tok.type \in Quotes -> Len(Decoded(Text(tok.from + 1, pos))) >= StringBuffer
    [] OTHER -> pos - tok.from >= WordBuffer

Tokenized == <>(mode = "done" \/ (mode = "overrun" /\ TooLong))

-----------------------------------------------------------------------------
(* The inductive invariant behind TypeOK, PositionsExact and               *)
(* OneCommentPerGap.                                                       *)
SourceOK == \E a \in Alphabets : src \in Seq(a.bytes) /\ letters \subseteq HighBytes

(* The column counts from the last new line, m, or from the start.         *)
LastEnd(p, m) == m \in Ends(p) \cup {0} /\ \A i \in Ends(p) : i <= m
PlaceOK ==
  /\ pos \in Places /\ line = LineAt(pos)
  /\ \E m \in 0..pos : LastEnd(pos, m) /\ col = pos + 1 - m

TableOK ==
  /\ tokens \in Seq(Range(tokens)) /\ cap \in Nat \ {0} /\ Len(tokens) <= cap
  /\ \A t \in Range(tokens) :
       /\ t.from \in Places /\ t.to \in Places
       /\ t.line = LineAt(t.from) /\ t.col = ColumnAt(t.from)
  /\ OneCommentPerGap

(* What is known, in each mode, of the text since the last token.          *)
Prior == Before(Len(tokens) + 1)
Gap(from, to) == AllBlank(Text(from, to)) \/ Commented(from, to)
Clear(p) == Prior <= p /\ AllBlank(Text(Prior, p))
InComment(i) ==
  AllBlank(Text(Prior, i)) /\ IF i = pos THEN Current = "#" ELSE IsComment(Text(i, pos))

BetweenOK ==
  /\ Prior \in Places
  /\ mode = "loop" => pos = Prior
  /\ mode = "before" => Clear(pos)
  /\ mode = "comment" => \E i \in Prior..pos : InComment(i)
  /\ mode \in {"after", "start"} =>
       Commented(Prior, pos) \/ (Clear(pos) /\ Current \notin Blanks \cup {"#"})
  /\ mode = "start" => Current \notin Blanks
  /\ mode = "eof" => Gap(Prior, pos)

Reading == {"number", "word", "string", "escape", "operator", "second", "add"}

TokenOK ==
  /\ mode \in Reading =>
       /\ DOMAIN tok = DOMAIN NoToken
       /\ tok.from \in 0..Len(src) - 1 /\ tok.from <= pos
       /\ tok.line = LineAt(tok.from) /\ tok.col = ColumnAt(tok.from)
       /\ Gap(Prior, tok.from) /\ src[tok.from + 1] \notin Blanks
       /\ src[tok.from + 1] = "#" => Commented(Prior, tok.from)
  /\ mode \in {"string", "escape", "second", "add"} => tok.from < pos
  /\ mode = "number" /\ tok.from = pos => Current \in NumberBytes
  /\ mode = "word" /\ tok.from = pos => Current \in WordBytes
  /\ mode = "add" => tok.to = pos

IInv == SourceOK /\ PlaceOK /\ TableOK /\ mode \in Modes /\ BetweenOK /\ TokenOK
=============================================================================
