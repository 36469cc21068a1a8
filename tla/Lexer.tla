------------------------------- MODULE Lexer -------------------------------
(***************************************************************************)
(* lexer.c: l_load, which reads the next token of the text, called until   *)
(* the end.  A step is one call; where l_load skips something it calls     *)
(* itself, and that is a step too.                                         *)
(*                                                                         *)
(* A character is a string of one character, Nul or another model value.   *)
(* Positions count from 0, as in C.                                        *)
(***************************************************************************)
EXTENDS Integers, SequencesExt

CONSTANTS
    Nul,            \* the character that ends a C string
    Texts           \* the texts that may be read

ASSUME TextsAssumption == \A t \in Texts : t \in Seq(STRING \cup {Nul})

VARIABLES
    text,                 \* lexer->buffer
    current, linenumber,  \* the position, and the line for messages
    tokens,               \* what l_consume has returned, in order
    status                \* "run", "end" (TK_EOF) or "panic"

vars == <<text, current, linenumber, tokens, status>>

-----------------------------------------------------------------------------
Blank == {" ", "\t", "\r", "(", ")", ":"}
Quotes == {"\"", "'"}
Digits == {"0", "1", "2", "3", "4", "5", "6", "7", "8", "9"}
Lowers == {"a", "b", "c", "d", "e", "f", "g", "h", "i", "j", "k", "l", "m", "n",
           "o", "p", "q", "r", "s", "t", "u", "v", "w", "x", "y", "z"}

\* The function a word stands for: its first letter says which.
WordFunction ==
    [A |-> "ASCII", B |-> "BLOCK", C |-> "CALL", D |-> "DUMP", F |-> "FALSE",
     G |-> "GET", I |-> "IF", L |-> "LENGTH", N |-> "NULL", O |-> "OUTPUT",
     P |-> "PROMPT", Q |-> "QUIT", R |-> "RANDOM", S |-> "SET", T |-> "TRUE",
     W |-> "WHILE"]

Uppers == DOMAIN WordFunction
            \cup {"E", "H", "J", "K", "M", "U", "V", "X", "Y", "Z"}

Symbols == {"+", "-", "*", "/", "%", "^", "<", ">", "=", "&", "|", "!", "?", ";",
            "[", "]", ",", "@", "~"}

SymbolFunction ==
    [c \in Symbols |->
        CASE c = "+" -> "PLUS" [] c = "-" -> "MINUS" [] c = "*" -> "MULTIPLY"
          [] c = "/" -> "DIVIDE" [] c = "%" -> "MODULO" [] c = "^" -> "POWER"
          [] c = "<" -> "LESS" [] c = ">" -> "GREATER" [] c = "=" -> "ASSIGN"
          [] c = "&" -> "AND" [] c = "|" -> "OR" [] c = "!" -> "NOT"
          [] c = "?" -> "EQUAL" [] c = ";" -> "EXPR" [] c = "[" -> "PRIME"
          [] c = "]" -> "ULTIMATE" [] c = "," -> "BOX" [] c = "@" -> "LIST"
          [] c = "~" -> "NEGATE"]

\* No character that is written in C is the one that ends its strings.
ASSUME NulAssumption ==
    Nul \notin {"\n", "#", "_"} \cup Blank \cup Quotes \cup Digits \cup Lowers
                \cup Uppers \cup Symbols

\* (mutant: a name has no digits)
NameCharsNoDigits == Lowers \cup {"_"}

\* (mutant: a word has letters only)
WordCharsNoUnderscore == Uppers

\* What goes on with a name, and with a word.
NameChars == Lowers \cup Digits \cup {"_"}
WordChars == Uppers \cup {"_"}

-----------------------------------------------------------------------------
At(i) == IF i < Len(text) THEN text[i + 1] ELSE Nul
Char == At(current)

\* Where the character is in the text.
PlacesOf(c) == {j \in 0..(Len(text) - 1) : At(j) = c}

\* The first of some places from i on, or the end of the text.
First(i, places) == Min({j \in places : j >= i} \cup {Len(text)})

EndOfRun(chars) == First(current, {j \in 0..(Len(text) - 1) : At(j) \notin chars})

Init ==
    /\ text \in Texts
    /\ current = 0
    /\ linenumber = 1
    /\ tokens = <<>>
    /\ status = "run"

Skip(next) ==
    /\ current' = next
    /\ UNCHANGED <<text, tokens, status>>

\* A token with its text from one position to before another.
Token(kind, from, to) ==
    /\ tokens' = Append(tokens, [kind |-> kind, from |-> from, length |-> to - from])
    /\ UNCHANGED <<text, linenumber, status>>

Newline ==
    /\ status = "run"
    /\ Char = "\n"
    /\ linenumber' = linenumber + 1
    /\ Skip(current + 1)

\* (mutant: the newline is taken for part of the comment)
CommentWithNewline ==
    /\ status = "run"
    /\ Char = "#"
    /\ LET end == First(current, PlacesOf("\n"))
       IN  Skip(IF end < Len(text) THEN end + 1 ELSE end)
    /\ UNCHANGED linenumber

Comment ==
    /\ status = "run"
    /\ Char = "#"
    /\ Skip(First(current, PlacesOf("\n")))
    /\ UNCHANGED linenumber

\* (mutant: a blank is looked at for ever)
SpaceStays ==
    /\ status = "run"
    /\ Char \in Blank
    /\ Skip(current)
    /\ UNCHANGED linenumber

Space ==
    /\ status = "run"
    /\ Char \in Blank
    /\ Skip(current + 1)
    /\ UNCHANGED linenumber

Number ==
    /\ status = "run"
    /\ Char \in Digits
    /\ current' = EndOfRun(Digits)
    /\ Token("NUMBER", current, current')

\* The text between two quotes of a kind, or up to the end of the input.
String ==
    /\ status = "run"
    /\ Char \in Quotes
    /\ LET end == First(current + 1, PlacesOf(Char)) IN
       /\ Token("STRING", current + 1, end)
       /\ current' = IF end < Len(text) THEN end + 1 ELSE end

Identifier ==
    /\ status = "run"
    /\ Char = "_" \/ Char \in Lowers
    /\ current' = EndOfRun(NameChars)
    /\ Token("IDENTIFIER", current, current')

Word ==
    /\ status = "run"
    /\ Char \in DOMAIN WordFunction
    /\ current' = EndOfRun(WordChars)
    /\ Token(WordFunction[Char], current, current')

Symbol ==
    /\ status = "run"
    /\ Char \in DOMAIN SymbolFunction
    /\ current' = current + 1
    /\ Token(SymbolFunction[Char], current, current')

Known == {"\n", "#", "_", Nul} \cup Blank \cup Quotes \cup Digits \cup Lowers
            \cup DOMAIN WordFunction \cup DOMAIN SymbolFunction

Unknown ==
    /\ status = "run"
    /\ Char \notin Known
    /\ status' = "panic"
    /\ UNCHANGED <<text, current, linenumber, tokens>>

\* TK_EOF: the end of the buffer, or a Nul in it.
End ==
    /\ status = "run"
    /\ Char = Nul
    /\ status' = "end"
    /\ UNCHANGED <<text, current, linenumber, tokens>>

Rest == status # "run" /\ UNCHANGED vars

Next ==
    \/ Newline \/ Comment \/ Space \/ Number \/ String \/ Identifier \/ Word
    \/ Symbol \/ Unknown \/ End \/ Rest

Spec == Init /\ [][Next]_vars

\* One thread, which goes on while it can.
FairSpec == Spec /\ WF_vars(Next)

-----------------------------------------------------------------------------
(* The language read character by character: what a character is part of   *)
(* is decided by the character before it.                                   *)

Enter(c) ==
    CASE c = "#" -> "comment"
      [] c \in Quotes -> c
      [] c \in Digits -> "number"
      [] c \in Lowers \cup {"_"} -> "name"
      [] c \in Uppers -> "word"
      [] OTHER -> "free"

GoesOn(mode, c) ==
    CASE mode = "free" -> FALSE
      [] mode = "comment" -> c # "\n"
      [] mode \in Quotes -> c # mode
      [] mode = "number" -> c \in Digits
      [] mode = "name" -> c \in Lowers \cup Digits \cup {"_"}
      [] mode = "word" -> c \in Uppers \cup {"_"}

\* What is open before each character of a text.
Modes(t) ==
    LET mode[i \in 0..Len(t)] ==
            IF i = 0 THEN "free"
            ELSE LET m == mode[i - 1]
                 IN  IF GoesOn(m, t[i]) THEN m
                     ELSE IF m \in Quotes THEN "free" ELSE Enter(t[i])
    IN  mode

\* The positions at which something is read that is not skipped.
Beginnings(t) ==
    {i \in 0..(Len(t) - 1) :
        /\ ~GoesOn(Modes(t)[i], t[i + 1])
        /\ Modes(t)[i] \notin Quotes
        /\ t[i + 1] \notin Blank \cup {"\n", "#"}}

\* What begins at i ends before the first character that does not go on.
EndOf(t, i) ==
    CHOOSE j \in (i + 1)..Len(t) :
        /\ j = Len(t) \/ ~GoesOn(Modes(t)[j], t[j + 1])
        /\ \A k \in (i + 1)..(j - 1) : GoesOn(Modes(t)[k], t[k + 1])

\* The elements of a finite set of numbers, in order.
InOrder(S) ==
    [k \in 1..Cardinality(S) |->
        CHOOSE i \in S : Cardinality({j \in S : j < i}) = k - 1]

\* The tokens as they should be read up to a position: where they begin, and
\* what is written there, without the quotes.
WordsTo(t, n) ==
    LET starts == InOrder({i \in Beginnings(t) : i < n})
        from(i) == IF t[i + 1] \in Quotes THEN i + 1 ELSE i
    IN  [k \in DOMAIN starts |->
            [from |-> from(starts[k]), length |-> EndOf(t, starts[k]) - from(starts[k])]]

\* Where reading stops: a Nul that is not skipped, or the end.
StopOf(t) ==
    CHOOSE n \in 0..Len(t) :
        /\ n = Len(t) \/ (n \in Beginnings(t) /\ t[n + 1] \notin Known \ {Nul})
        /\ \A i \in 0..(n - 1) : i \in Beginnings(t) => t[i + 1] \in Known \ {Nul}

Places(ts) == [k \in DOMAIN ts |-> [from |-> ts[k].from, length |-> ts[k].length]]

\* What was read is, token by token, what the characters before the position
\* spell: no token is cut short, swallows a character of the next one, or is
\* begun inside a string or a comment.  l_load has a loop of its own for every
\* kind of token and a test of the end in each (lexer.c:31-109).
Segmented ==
    /\ Places(tokens) = WordsTo(text, current)
    /\ status = "end" => current = StopOf(text)
    /\ status = "panic" => current = StopOf(text) /\ Char \notin Known

\* The words of a text, each as its characters.
Spelling(t) ==
    LET ws == WordsTo(t, StopOf(t))
    IN  [k \in DOMAIN ws |-> SubSeq(t, ws[k].from + 1, ws[k].from + ws[k].length)]

\* Where white space is needed (tests/syntax/whitespace.lua): after an integer
\* before an integer, after a variable before either, after a word before a
\* word, and before a _, which a word takes for its own
\* (tests/syntax/function.lua:18).
Needed(mode, c) ==
    \/ mode = "number" /\ c \in Digits
    \/ mode = "name" /\ (c \in Digits \/ c \in Lowers \cup {"_"})
    \/ mode = "word" /\ (c \in Uppers \/ c = "_")

\* A blank or a newline may be left out, without a change of what is read,
\* exactly where the tests say that it is not needed.
SpacingLaw ==
    status = "end" =>
        LET read == [k \in DOMAIN tokens |->
                        SubSeq(text, tokens[k].from + 1,
                               tokens[k].from + tokens[k].length)]
        IN  \A i \in 0..(current - 1) :
                /\ At(i) \in Blank \cup {"\n"}
                /\ Modes(text)[i] \notin Quotes \cup {"comment"}
                => (Needed(Modes(text)[i], At(i + 1))
                        <=> Spelling(RemoveAt(text, i + 1)) # read)

\* The line that the messages name is that of the position as far as newlines
\* are seen: those that end a comment count once, those inside a string do
\* not count (lexer.c:25, 31, 58).
LinesCounted ==
    linenumber = 1 + Cardinality({i \in 0..(current - 1) :
        At(i) = "\n" /\ Modes(text)[i] \notin Quotes})

\* Reading ends, whatever the text.
Stops == <>(status # "run")
=============================================================================
