---------------------------- MODULE FilterLexer ----------------------------
(***************************************************************************)
(* The lexer of filters (filter/lexer.go).                                 *)
(*                                                                         *)
(* A text is a sequence of pieces.  A piece is a run of letters such as    *)
(* "do", or one other byte.  Names and the values of lexems are sequences  *)
(* of pieces.                                                              *)
(*                                                                         *)
(* The variable input is what the properties about filters look at, one    *)
(* input at a time: here a text.                                           *)
(***************************************************************************)
EXTENDS Integers, Sequences, TLC

CONSTANTS
  Pieces,   \* runs of letters and other bytes, the zero byte among them
  Byte,     \* the number of each piece that is a byte above 127
  Texts     \* texts for the lexer

ASSUME TextsAssumption == Texts \subseteq Seq(Pieces) /\ "NUL" \in Pieces
ASSUME ByteAssumption ==
  /\ DOMAIN Byte \subseteq Pieces
  /\ \A p \in DOMAIN Byte :
       /\ Byte[p] \in 128..255
       /\ \E q, r \in DOMAIN Byte : Byte[q] = 192 + Byte[p] \div 64 /\ Byte[r] = 128 + (Byte[p] % 64)

VARIABLE input   \* a record whose one field says what it is

Digits == "0" :> 0 @@ "1" :> 1 @@ "2" :> 2
Ops ==    \* validOps
  <<"=">> :> "=" @@ <<"!", "=">> :> "!=" @@ <<">", "=">> :> ">=" @@ <<"<", "=">> :> "<=" @@
  <<">">> :> ">" @@ <<"<">> :> "<"
Keywords ==
  [do |-> "block_beg", end |-> "block_end", filter |-> "filter", or |-> "operator_high", let |-> "let"]
Letters == {"a", "b", "c", "from", "body"} \union DOMAIN Keywords
Unique == {":", "(", ")", ",", "\""}    \* the characters that are a lexem each

Kinds ==    \* Kind
  {"identifier", "identifier_compose", "identifier_execute", "identifier_param_beg",
   "identifier_param_end", "identifier_param_sep", "string_del", "number", "operator_low",
   "operator_high", "super_operator", "block_beg", "block_end", "filter", "separator", "let",
   "comment", "generic"}
nil == "nil"
Lexems == [k : Kinds \union {nil}, v : Seq(Pieces)]

\* kindOf, for what is not a comment.  A run of letters is what 'A' to 'z' is.
kindOf(before, current, next) ==
  CASE current \in {"=", "!", ">", "<"} -> "operator_low"
    [] current \in {" ", "\n"} -> "separator"
    [] current = ":" -> "identifier_execute"
    [] current = "(" -> "identifier_param_beg"
    [] current = ")" -> "identifier_param_end"
    [] current = "," -> "identifier_param_sep"
    [] current = "\"" -> "string_del"
    [] current = "-" /\ before = nil /\ next \in DOMAIN Digits -> "number"
    [] current \in DOMAIN Digits /\ before \in {nil, "number"} -> "number"
    [] current = "." /\ next # nil -> IF next \in DOMAIN Digits THEN "number" ELSE "identifier_compose"
    [] before \in {nil, "identifier"} /\ current \in Letters -> "identifier"
    [] before # nil /\ current = "-" -> "identifier"
    [] before \notin {nil, "number"} /\ current \in DOMAIN Digits -> "identifier"
    [] OTHER -> "generic"

\* What Next writes for a piece.  peekNext takes a byte for the character of that
\* number, which WriteRune writes in UTF-8: a byte above 127 becomes two.
PieceOf(number) == CHOOSE p \in DOMAIN Byte : Byte[p] = number
WriteRune(p) ==
  IF p \in DOMAIN Byte THEN <<PieceOf(192 + Byte[p] \div 64), PieceOf(128 + (Byte[p] % 64))>> ELSE <<p>>

\* ReadBytes('\n'): the text after the first line of one that has several
FirstLine(text) ==
  CHOOSE i \in DOMAIN text : text[i] = "\n" /\ \A j \in 1..(i - 1) : text[j] # "\n"
ReadLine(text) ==
  IF \E i \in DOMAIN text : text[i] = "\n" THEN SubSeq(text, FirstLine(text) + 1, Len(text)) ELSE <<>>

\* The text after the comments at its beginning
AfterComments[text \in Seq(Pieces)] ==
  IF text = <<>> \/ text[1] # "#" THEN text ELSE AfterComments[ReadLine(text)]

\* The end of Next: words that are keywords, and operators that are none
Lexem(kind, value) ==
  [k |-> CASE kind = "identifier" /\ Len(value) = 1 /\ value[1] \in DOMAIN Keywords -> Keywords[value[1]]
           [] kind = "operator_low" /\ value \notin DOMAIN Ops -> "generic"
           [] OTHER -> kind,
   v |-> value]

LeavesLess(kind, value, rest) ==    \* mutant: the character that ends a lexem is read
  [lexem |-> Lexem(kind, value), rest |-> SubSeq(rest, 2, Len(rest))]

\* What Next leaves: the lexem and the text that is left
Leaves(kind, value, rest) == [lexem |-> Lexem(kind, value), rest |-> rest]

\* What the loop of Next has: the kind and the value so far, and the text left
Scans == [kind : Kinds \union {nil}, value : Seq(Pieces), text : Seq(Pieces)]

\* The loop of Next from what it has.  A comment that ends the text where a
\* lexem would begin is a lexem of its own, with a zero character.
Scan[s \in Scans] ==
  LET rest == AfterComments[s.text]
      next == IF Len(rest) > 1 THEN rest[2] ELSE nil
      kind == kindOf(s.kind, rest[1], next)
      value == s.value \o WriteRune(rest[1])
  IN CASE rest = <<>> /\ s.kind = nil -> Leaves("comment", <<"NUL">>, <<>>)
       [] rest = <<>> /\ s.kind # nil -> Leaves(s.kind, s.value, <<>>)
       [] rest # <<>> /\ (s.kind \notin {nil, kind} \/ (rest[1] \in Unique /\ s.value # <<>>)) ->
            Leaves(s.kind, s.value, rest)
       [] OTHER -> IF Len(rest) = 1 THEN Leaves(kind, value, <<>>)
                   ELSE Scan[[kind |-> kind, value |-> value, text |-> Tail(rest)]]

NextLexem(text) == Scan[[kind |-> nil, value |-> <<>>, text |-> text]]

\* The lexems that Next gives until it gives nil
Lex[text \in Seq(Pieces)] ==
  IF text = <<>> THEN <<>>
  ELSE LET s == NextLexem(text) IN <<s.lexem>> \o Lex[s.rest]

-----------------------------------------------------------------------------
\* The text without its comments and as Next writes it, piece by piece: whether
\* one is inside of a comment is all there is to know of the pieces before.  A
\* # begins a comment between quotes too, where grammar.abnf has any octet.
Uncommented[text \in Seq(Pieces)] == [inside \in BOOLEAN |->
  IF text = <<>> THEN <<>>
  ELSE IF inside \/ text[1] = "#" THEN Uncommented[Tail(text)][text[1] # "\n"]
  ELSE WriteRune(text[1]) \o Uncommented[Tail(text)][FALSE]]

Values[lexems \in Seq(Lexems)] ==
  IF lexems = <<>> THEN <<>> ELSE lexems[1].v \o Values[Tail(lexems)]

\* Next gives every piece of the text in some lexem, in order, comments apart:
\* nothing is lost where one lexem ends and the next begins, so that the text in
\* quotes is what was written, as far as bytes up to 127 other than # go.  (Each
\* byte above 127 is given as two, and a # between quotes begins a comment.)  A
\* comment that ends the text may become a zero byte.
LexLossless ==
  "text" \in DOMAIN input =>
    LET written == Uncommented[input.text][FALSE]
    IN Values[Lex[input.text]] \in {written, written \o <<"NUL">>}
=============================================================================
