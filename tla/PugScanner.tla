----------------------------- MODULE PugScanner ------------------------------
(***************************************************************************)
(* The external scanner of the Pug grammar                                 *)
(* (treesitter_parsers/pug/scanner.c), through which every template goes.  *)
(*                                                                         *)
(* tree-sitter calls it where the grammar asks for a token it cannot match *)
(* itself: the end of a line with the change of indentation that follows,  *)
(* or an attribute's value that is an expression.  Before each scan it     *)
(* gives the scanner back the bytes that the scanner made of its state     *)
(* after the last token; a scan that fails leaves no trace.  Where a       *)
(* template does not fit the grammar, or fits it in several ways so far,   *)
(* the parser goes on from an earlier token as well.                       *)
(*                                                                         *)
(* Characters are their codes in Unicode.  The scanner looks at most of    *)
(* them as a char, which is a character's low byte (Char).  Of a value,    *)
(* what is read is made up as the scanner goes on; several blanks count as *)
(* one.                                                                    *)
(***************************************************************************)
EXTENDS Integers, Sequences

CONSTANTS
    Chars,          \* the characters that values are made of
    Indentations,   \* the widths of the space that lines begin with
    Beyond,         \* what is in memory behind the bytes of a state
    MaxText,        \* bound on the characters one scan reads
    MaxTokens       \* bound on the tokens of a document

Space     == 32
Quotes    == {34, 39, 96}               \* " ' `
Opens     == {40, 91, 123}              \* ( [ {
Closes    == {41, 93, 125}              \* ) ] }
Question  == 63
Colon     == 58
RootOperators == {33, 36, 38, 42, 43, 45, 46, 47, 59, 60, 61, 62, 94, 124, Question, Colon}
Operators == RootOperators \cup {44}    \* ,
Backslash == 92
Word      == (48 .. 57) \cup (65 .. 90) \cup (97 .. 122) \cup {95}
Eof       == 0

ASSUME PugAssumption ==
    /\ Chars \subseteq Nat \ {0}
    /\ Indentations \subseteq 0 .. 255 /\ 0 \in Indentations
    /\ Beyond \subseteq 0 .. 255
    /\ MaxText \in 0 .. 128 /\ MaxTokens \in 0 .. 254     \* so that a state fits its 1024 bytes

VARIABLES
    scanner,    \* the Scanner
    saved,      \* the states kept with the tokens of the document
    phase,      \* "in value", in the loop of handle_attr, or how a scan ended
    text,       \* what it has read
    next,       \* lexer->lookahead
    symbol,     \* lexer->result_symbol is JS_ATTR
    mark,       \* how much of the text the token has, by mark_end
    clean       \* the scan began with nothing left over from another value

vars == <<scanner, saved, phase, text, next, symbol, mark, clean>>

Back(stack)  == stack[Len(stack)]
Push(stack, x) == Append(stack, x)
Pop(stack)   == SubSeq(stack, 1, Len(stack) - 1)

\* A cast to char, which is a signed byte.
Char(c) == IF c % 256 < 128 THEN c % 256 ELSE (c % 256) - 256

\* What a stack keeps of a character, a uint16_t.
Short(c) == c % 65536

-----------------------------------------------------------------------------
(* Bytes.                                                                  *)

\* serialize_stack: the size, and all but the zero at the bottom.
StackBytes(stack) ==
    <<Len(stack) % 256>> \o [i \in 1 .. Len(stack) - 1 |-> stack[i + 1] % 256]

\* A bug: what the scanner remembers first comes last.
SerializedIndentsLast(s) ==
    StackBytes(s.parens) \o StackBytes(s.tern) \o StackBytes(s.indents)
        \o <<IF s.pending THEN 1 ELSE 0>>

\* is_string_attr is not among it.
Serialized(s) ==
    StackBytes(s.indents) \o StackBytes(s.parens) \o StackBytes(s.tern)
        \o <<IF s.pending THEN 1 ELSE 0>>

\* deserialize_stack from an index of the buffer.  The size is compared with
\* the index, not with the number of bytes taken, so that only the stack at
\* the beginning of the buffer comes back whole.
TakeStack(bytes, index) ==
    LET size == bytes[index + 1]
    IN  [stack |-> <<0>> \o SubSeq(bytes, index + 2, size),
         index |-> IF index + 1 < size THEN size ELSE index + 1]

\* The bytes and what is in memory behind them.
Memory(state, beyond) == state \o [i \in 1 .. 256 |-> beyond]

\* Deserialize.  A bracket left open may be taken for a size and lead past
\* the end of the bytes.
Restored(s, state, beyond) ==
    IF state = <<>>
    THEN [indents |-> <<0>>, parens |-> <<0>>, tern |-> <<0>>,
          pending |-> s.pending, isString |-> s.isString]
    ELSE LET bytes   == Memory(state, beyond)
             indents == TakeStack(bytes, 0)
             parens  == TakeStack(bytes, indents.index)
             tern    == TakeStack(bytes, parens.index)
         IN  [indents |-> indents.stack, parens |-> parens.stack, tern |-> tern.stack,
              pending |-> bytes[tern.index + 1] # 0, isString |-> s.isString]

\* The states that the parser may hand back: that of the last token, with what
\* memory holds behind it.
Handed ==
    LET last == IF saved = <<>> THEN <<>> ELSE Back(saved).bytes
    IN  {Restored(scanner, last, beyond) : beyond \in Beyond}

\* A scan that succeeds leaves its state with the token.
Keep(s) == saved' = Append(saved, [bytes |-> Serialized(s), of |-> s])

\* create
Init ==
    /\ scanner = [indents |-> <<0>>, parens |-> <<0>>, tern |-> <<0>>,
                  pending |-> FALSE, isString |-> FALSE]
    /\ saved = <<>>
    /\ phase = "idle" /\ text = <<>> /\ next = Eof /\ symbol = FALSE /\ mark = 0 /\ clean = TRUE

\* There is no value any more.
Forget == text' = <<>> /\ next' = Eof /\ symbol' = FALSE /\ mark' = 0 /\ clean' = TRUE

MayScan == phase # "in value" /\ Len(saved) < MaxTokens

\* The parser, recovering from an error or following another way to read the
\* template, goes on from an earlier token.
GoBack ==
    /\ phase # "in value"
    /\ \E n \in 0 .. Len(saved) - 1 : saved' = SubSeq(saved, 1, n)
    /\ phase' = "idle"
    /\ UNCHANGED scanner /\ Forget

-----------------------------------------------------------------------------
(* The end of a line (scan).                                               *)

\* What the parser may ask for at the end of a line: the rows of
\* ts_external_scanner_states, the first of which is for error recovery.
Asked == {[newline |-> TRUE,  indent |-> TRUE,  dedent |-> TRUE,  recovery |-> TRUE],
          [newline |-> FALSE, indent |-> FALSE, dedent |-> TRUE,  recovery |-> FALSE],
          [newline |-> TRUE,  indent |-> FALSE, dedent |-> TRUE,  recovery |-> FALSE],
          [newline |-> TRUE,  indent |-> FALSE, dedent |-> FALSE, recovery |-> FALSE],
          [newline |-> FALSE, indent |-> TRUE,  dedent |-> TRUE,  recovery |-> FALSE],
          [newline |-> FALSE, indent |-> TRUE,  dedent |-> FALSE, recovery |-> FALSE]}

EndScan(s, how) ==
    /\ scanner' = s
    /\ phase' = how
    /\ IF how \in {"token", "found"} THEN Keep(s) ELSE UNCHANGED saved

\* The next line that is not blank is indented by width, or there is none and
\* width is 0.
ScanIndent(valid, s, width) ==
    /\ valid.indent /\ width > Back(s.indents)
    /\ EndScan([s EXCEPT !.indents = Push(@, width)], "token")

ScanDedent(valid, s, width) ==
    /\ valid.dedent \/ ~valid.newline
    /\ width < Back(s.indents)
    /\ EndScan([s EXCEPT !.indents = Pop(@)], "token")

\* Neither of those.
ScanNewline(valid, s, width) ==
    /\ ~(valid.indent /\ width > Back(s.indents))
    /\ ~((valid.dedent \/ ~valid.newline) /\ width < Back(s.indents))
    /\ EndScan(s, IF valid.newline /\ ~valid.recovery THEN "token" ELSE "idle")

\* A bug: an indentation that is the present one counts as deeper.
ScanLineDeeper ==
    /\ MayScan
    /\ \E s \in Handed : \E valid \in Asked : \E width \in Indentations :
          /\ valid.indent /\ width >= Back(s.indents)
          /\ EndScan([s EXCEPT !.indents = Push(@, width)], "token")
    /\ Forget

ScanLine ==
    /\ MayScan
    /\ \E s \in Handed : \E valid \in Asked : \E width \in Indentations :
          ScanIndent(valid, s, width) \/ ScanDedent(valid, s, width) \/ ScanNewline(valid, s, width)
    /\ Forget

\* There is something else on the line.
ScanNoLine ==
    /\ MayScan
    /\ \E s \in Handed : EndScan(s, "idle")
    /\ Forget

-----------------------------------------------------------------------------
(* The value of an attribute (handle_attr).                                *)

InQuotes(s) == Char(Back(s.parens)) \in Quotes
InString(c, s) == InQuotes(s) /\ c \notin Quotes
InParens(s) == Char(Back(s.parens)) # 0
ValidAlpha(c, s) == c \in Word \/ InString(c, s)
AttrFound(s, sym) == sym /\ ~s.isString

\* What handle_attr takes the next character for.
Look == Char(next)

\* What may follow, after so many characters.
Following(read) == IF read < MaxText THEN Chars \cup {Eof} ELSE {Eof}

\* Blanks before the value are skipped.
StartValue ==
    /\ MayScan
    /\ \E s \in Handed : \E first \in Following(0) \ {Space} :
          /\ scanner' = [s EXCEPT !.isString = Char(first) \in {34, 39}]
          /\ next' = first
          /\ clean' = (s.parens = <<0>> /\ s.tern = <<0>> /\ ~s.pending)
    /\ phase' = "in value"
    /\ text' = <<>> /\ symbol' = FALSE /\ mark' = 0
    /\ UNCHANGED saved

InValue == phase = "in value"

\* advance, past the lookahead and what is in more.
Advance(more) ==
    /\ text' = text \o <<next>> \o more
    /\ next' \in Following(Len(text'))

\* A turn of the loop that goes on.
GoOn(s) ==
    /\ scanner' = s /\ symbol' = TRUE
    /\ UNCHANGED <<saved, phase, clean>>

\* The loop ends: with the bytes marked, if what was read is a value.
Stop(s, found, marked) ==
    /\ mark' = marked
    /\ EndScan(s, IF found THEN "found" ELSE "not found")
    /\ UNCHANGED <<text, next, symbol, clean>>

\* The end of the template.
AtEof == InValue /\ next = Eof /\ Stop(scanner, AttrFound(scanner, symbol), mark)

Escaped == Look = Backslash /\ InString(Look, scanner)

\* A bug: only the backslash is skipped.
EscapeBackslash ==
    /\ InValue /\ Escaped
    /\ GoOn(scanner)
    /\ Advance(<<>>) /\ UNCHANGED mark

\* The backslash and the next character are skipped.
Escape ==
    /\ InValue /\ Escaped
    /\ \E c \in Following(Len(text) + 1) :
          IF c = Eof THEN text' = Append(text, next) /\ next' = Eof ELSE Advance(<<c>>)
    /\ GoOn(scanner) /\ UNCHANGED mark

\* handle_alphanumeric
Alphanumeric ==
    /\ InValue /\ next # Eof /\ ~Escaped /\ ValidAlpha(Look, scanner)
    /\ GoOn([scanner EXCEPT !.pending = FALSE, !.isString = @ /\ InQuotes(scanner)])
    /\ Advance(<<>>) /\ UNCHANGED mark

\* It is the character itself that closes a string.
AfterQuote(parens, c) == IF Char(Back(parens)) = c THEN Pop(parens) ELSE Push(parens, Short(c))

\* A bug: a template string passes for a string.
QuotedTemplate(s, c) == [s EXCEPT !.parens = AfterQuote(@, c)]

\* handle_quote
Quoted(s, c) == [s EXCEPT !.parens = AfterQuote(@, c), !.isString = @ /\ c # 96]

Quote ==
    /\ InValue /\ Look \in Quotes
    /\ GoOn(Quoted(scanner, next))
    /\ Advance(<<>>) /\ UNCHANGED mark

Outside == InValue /\ next # Eof /\ ~Escaped /\ ~ValidAlpha(Look, scanner)

\* handle_open_bracket
OpenBracket ==
    /\ Outside /\ Look \in Opens
    /\ GoOn([scanner EXCEPT !.pending = FALSE, !.parens = Push(@, Short(next)), !.isString = FALSE])
    /\ Advance(<<>>) /\ UNCHANGED mark

\* switch_bracket of a closing one.
Opening(c) == CASE c = 41 -> 40 [] c = 93 -> 91 [] c = 125 -> 123

\* handle_close_backet: it closes the innermost, or ends the value.
CloseBracket ==
    /\ Outside /\ Look \in Closes
    /\ IF Char(Back(scanner.parens)) = Opening(Look)
       THEN /\ GoOn([scanner EXCEPT !.pending = FALSE, !.parens = Pop(@), !.isString = FALSE])
            /\ Advance(<<>>) /\ UNCHANGED mark
       ELSE Stop([scanner EXCEPT !.pending = FALSE], AttrFound(scanner, symbol), Len(text))

\* handle_operator
OperatorInParens ==
    /\ Outside /\ Look \in Operators /\ InParens(scanner)
    /\ GoOn([scanner EXCEPT !.pending = TRUE, !.isString = FALSE])
    /\ Advance(<<>>) /\ UNCHANGED mark

\* handle_root_operator: a colon that belongs to no question mark ends the
\* value, and then it counts as found, whatever was read.
OperatorAtRoot ==
    /\ Outside /\ Look \in RootOperators /\ ~InParens(scanner)
    /\ LET asked == IF Look = Question
                    THEN [scanner EXCEPT !.tern = Push(@, Len(scanner.parens))]
                    ELSE scanner
           onward == [asked EXCEPT !.pending = TRUE, !.isString = FALSE]
       IN  IF Look # Colon
           THEN GoOn(onward) /\ Advance(<<>>) /\ UNCHANGED mark
           ELSE IF Char(Back(asked.tern)) = Len(asked.parens)
           THEN GoOn([onward EXCEPT !.tern = Pop(@)]) /\ Advance(<<>>) /\ UNCHANGED mark
           ELSE Stop(asked, TRUE, Len(text))

\* handle_whitespace: a blank between two terms ends the value outside brackets.
Whitespace ==
    /\ Outside /\ next = Space
    /\ \E c \in Following(Len(text) + 1) \ {Space} :
          LET read == Append(text, Space)
              between == Char(c) \notin Operators /\ ~scanner.pending
          IN  /\ text' = read /\ next' = c
              /\ mark' = IF between THEN Len(read) ELSE Len(text)
              /\ IF between /\ ~InParens(scanner)
                 THEN EndScan(scanner, IF AttrFound(scanner, symbol) THEN "found" ELSE "not found")
                 ELSE scanner' = scanner /\ UNCHANGED <<saved, phase>>
    /\ UNCHANGED <<symbol, clean>>

\* A character that a value cannot have there.
Unexpected ==
    /\ Outside
    /\ Look \notin Quotes \cup Opens \cup Closes \cup RootOperators /\ next # Space
    /\ ~(Look \in Operators /\ InParens(scanner))
    /\ Stop(scanner, AttrFound(scanner, symbol), Len(text))

ScanValue ==
    \/ AtEof \/ Escape \/ Alphanumeric \/ Quote \/ OpenBracket \/ CloseBracket
    \/ OperatorInParens \/ OperatorAtRoot \/ Whitespace \/ Unexpected

Next == GoBack \/ ScanLine \/ ScanNoLine \/ StartValue \/ ScanValue

Spec == Init /\ [][Next]_vars

-----------------------------------------------------------------------------
(* Properties.                                                             *)

\* The levels of indentation grow from the left margin, in the scanner and in
\* every state it may be given back: no line is left of the level around it
\* and no DEDENT takes away the margin, however the parser asks, fails and
\* goes back, and whatever a value left in the same bytes.
Growing(levels) == levels[1] = 0 /\ \A i \in 1 .. Len(levels) - 1 : levels[i] < levels[i + 1]
IndentsGrow ==
    Growing(scanner.indents) /\ \A i \in 1 .. Len(saved) : Growing(saved[i].of.indents)

\* The bytes kept with a token give the scanner back its indentation, whatever
\* brackets and question marks a value had left open, and all the rest when it
\* left none.  (When it did, an open bracket is taken for a size.)
RestoredAsSaved ==
    \A i \in 1 .. Len(saved) : \A beyond \in Beyond :
        LET was == saved[i].of
            now == Restored(scanner, saved[i].bytes, beyond)
        IN  /\ now.indents = was.indents
            /\ was.parens = <<0>> /\ was.tern = <<0>> =>
                  now.parens = <<0>> /\ now.tern = <<0>> /\ now.pending = was.pending

\* The brackets and quotes that are open after so many characters, as
\* JavaScript has them, and whether the next character is escaped.
OpenAfter ==
    LET after[n \in 0 .. Len(text)] ==
          IF n = 0 THEN [open |-> <<>>, escaped |-> FALSE]
          ELSE LET before == after[n - 1]
                   c      == text[n]
                   inner  == IF before.open = <<>> THEN 0 ELSE Back(before.open)
                   open   == IF inner \in Quotes
                             THEN IF c = inner /\ ~before.escaped THEN Pop(before.open)
                                  ELSE before.open
                             ELSE IF c \in Opens \cup Quotes THEN Push(before.open, c)
                             ELSE IF c \in Closes /\ Opening(c) = inner THEN Pop(before.open)
                             ELSE before.open
               IN  [open    |-> open,
                    escaped |-> inner \in Quotes /\ c = Backslash /\ ~before.escaped]
    IN  after

Within(n) == LET open == OpenAfter[n - 1].open IN IF open = <<>> THEN 0 ELSE Back(open)

\* A quote of another kind stands in a string: the scanner takes it to open a
\* string within the string.
Apostrophe ==
    \E n \in 1 .. Len(text) :
        Within(n) \in Quotes /\ text[n] \in Quotes \ {Within(n)} /\ ~OpenAfter[n - 1].escaped

\* A character beyond ASCII whose low byte is a quote's, a bracket's or the
\* backslash's: the scanner takes it for that.
Disguised ==
    \E n \in 1 .. Len(text) :
        text[n] > 127 /\ Char(text[n]) \in Quotes \cup Opens \cup Closes \cup {Backslash}

\* While it reads a value the scanner knows what is open, unless something in
\* the value is disguised or an apostrophe.
ParensAreOpen ==
    InValue /\ clean /\ ~Apostrophe /\ ~Disguised =>
        Tail(scanner.parens) = OpenAfter[Len(text)].open

\* A value that is but a string in quotes is left to the grammar; any other,
\* an expression, is found, unless a colon or the end of the template ends it.
\* So is ["a" + b] though it begins with a quote, and ["a b"] is not though
\* there is a blank in it.  (The same exceptions, and what passes for a colon.)
StringsLeft ==
    /\ phase \in {"found", "not found"} /\ clean /\ text # <<>>
    /\ next # Eof /\ Look # Colon /\ ~Apostrophe /\ ~Disguised
    => (phase = "found" <=>
            \E n \in 1 .. Len(text) :
                Within(n) \notin {34, 39} /\ text[n] \notin {34, 39, Space})
=============================================================================
