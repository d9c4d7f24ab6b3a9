-------------------------------- MODULE Lexer --------------------------------
(***************************************************************************)
(* The input buffer of io.cpp and the lexer of lexer.cpp, at the level of  *)
(* bytes.  A caller loads a text and then asks for tokens; gettok reads    *)
(* one character at a time and always holds one character more than the    *)
(* token it returns, in a static variable that outlives the call and the   *)
(* text.                                                                   *)
(***************************************************************************)
EXTENDS Integers, SequencesExt

CONSTANTS
    Bytes,    \* the bytes a text may hold
    MaxText,  \* bound on the length of a text
    MaxLoads, \* how often a text is loaded
    Sources   \* how: "string", "file", "stdin"

ASSUME LexerAssumption ==
    /\ Bytes \subseteq 0..255
    /\ MaxText \in Nat
    /\ MaxLoads \in Nat \ {0}
    /\ Sources \subseteq {"string", "file", "stdin"}

VARIABLES
    input_buffer,    \* the characters get_char has not delivered
    last_char,       \* the lexer's look-ahead
    lex_loc,         \* the location of last_char
    cur_loc,         \* the location of cur_tok
    cur_tok,
    identifier_str,  \* also the digits of a number while it is read
    pc,              \* where gettok is: "idle" when it is not running
    seen,            \* history: the characters delivered
    first,           \* history: the place in seen where the token begins
    last,            \* history: the place in seen where the one before ended
    text,            \* history: the text of the latest load
    loads            \* history: how many there have been

lexer == <<last_char, lex_loc, cur_loc, cur_tok, identifier_str, pc>>
vars == <<input_buffer, lexer, seen, first, last, text, loads>>

-----------------------------------------------------------------------------
(* Characters.  A byte becomes an int as get_char delivers it and a signed *)
(* char where gettok stores it.                                            *)

EOF == -1
Newline == 10
Return == 13

AsChar(c) == IF c > 127 THEN c - 256 ELSE c

isspace(c) == c \in 9..13 \cup {32}
isdigit(c) == c \in 48..57
isalpha(c) == c \in 65..90 \cup 97..122
is_number_char(c) == isdigit(c) \/ c = 46
is_identifier_first_char(c) == isalpha(c) \/ c = 95
is_identifier_char(c) == isalpha(c) \/ isdigit(c) \/ c = 95
ends_line(c) == c \in {Newline, Return}

(* enum Token *)
tok_eof == -1
tok_identifier == -10
tok_float_literal == -11
tok_not_initialized == -9999

(* The words gettok compares identifier_str with. *)
Keywords ==
    {[word |-> <<102, 110>>, tok |-> -2],                      \* fn
     [word |-> <<101, 120, 116, 101, 114, 110>>, tok |-> -3],  \* extern
     [word |-> <<114, 101, 116, 117, 114, 110>>, tok |-> -4],  \* return
     [word |-> <<105, 102>>, tok |-> -20],                     \* if
     [word |-> <<101, 108, 115, 101>>, tok |-> -22],           \* else
     [word |-> <<102, 111, 114>>, tok |-> -23],                \* for
     [word |-> <<105, 110>>, tok |-> -24],                     \* in
     [word |-> <<98, 105, 110, 97, 114, 121>>, tok |-> -30],   \* binary
     [word |-> <<117, 110, 97, 114, 121>>, tok |-> -31],       \* unary
     [word |-> <<118, 97, 114>>, tok |-> -40]}                 \* var

WordToken(word) ==
    IF \E k \in Keywords : k.word = word
    THEN (CHOOSE k \in Keywords : k.word = word).tok
    ELSE tok_identifier

-----------------------------------------------------------------------------
(* io.cpp *)

(* `<< value << std::endl << EOF`: the int EOF is written in decimal. *)
StringContent(value) == value \o <<Newline, 45, 49>>

(* Mutant: a last line without a newline is not copied. *)
FileLines(content) ==
    LET whole == {i \in DOMAIN content : content[i] = Newline}
    IN IF whole = {} THEN <<>>
       ELSE SubSeq(content, 1, CHOOSE i \in whole : \A j \in whole : j <= i)

(* getline and `<< line << std::endl` for every line. *)
FileContent(content) ==
    IF content = <<>> \/ Last(content) = Newline THEN content ELSE Append(content, Newline)

(* `std::cin >> file_content` *)
FirstWord(content) ==
    LET begins == {i \in DOMAIN content :
                     ~isspace(content[i]) /\ \A j \in 1..(i - 1) : isspace(content[j])}
        ends(i) == {j \in i..Len(content) : \A k \in i..j : ~isspace(content[k])}
    IN IF begins = {} THEN <<>>
       ELSE LET i == CHOOSE i \in begins : TRUE
            IN SubSeq(content, i, CHOOSE j \in ends(i) : \A k \in ends(i) : k <= j)

(* Mutant: the old content is not discarded. *)
string_added_to_buffer(value) == input_buffer' = input_buffer \o StringContent(value)

string_to_buffer(value) == input_buffer' = StringContent(value)

file_to_buffer(content) == input_buffer' = input_buffer \o FileContent(content)

load_input_to_buffer(source, content) ==
    CASE source = "string" -> string_to_buffer(content)
      [] source = "file" -> file_to_buffer(content)
      [] source = "stdin" -> IF FirstWord(content) = <<>>
                             THEN UNCHANGED input_buffer
                             ELSE string_to_buffer(FirstWord(content))

(* A caller replaces or extends the text between two tokens. *)
Load ==
    /\ pc = "idle"
    /\ loads < MaxLoads
    /\ \E source \in Sources, content \in BoundedSeq(Bytes, MaxText) :
          /\ load_input_to_buffer(source, content)
          /\ text' = [source |-> source, content |-> content, from |-> Len(seen)]
    /\ loads' = loads + 1
    /\ UNCHANGED <<lexer, seen, first, last>>

get_char == IF input_buffer = <<>> THEN EOF ELSE Head(input_buffer)

-----------------------------------------------------------------------------
(* lexer.cpp *)

(* Mutant: the column is not reset at the end of a line. *)
advance_without_reset ==
    /\ input_buffer' = IF input_buffer = <<>> THEN <<>> ELSE Tail(input_buffer)
    /\ last_char' = AsChar(get_char)
    /\ lex_loc' = IF ends_line(get_char)
                  THEN [lex_loc EXCEPT !.line = @ + 1] ELSE [lex_loc EXCEPT !.col = @ + 1]
    /\ seen' = Append(seen, get_char)

(* Mutant: columns are counted as if the line end were column -1. *)
advance_from_minus_one ==
    /\ input_buffer' = IF input_buffer = <<>> THEN <<>> ELSE Tail(input_buffer)
    /\ last_char' = AsChar(get_char)
    /\ lex_loc' = IF ends_line(get_char)
                  THEN [line |-> lex_loc.line + 1, col |-> -1]
                  ELSE [lex_loc EXCEPT !.col = @ + 1]
    /\ seen' = Append(seen, get_char)

advance ==
    /\ input_buffer' = IF input_buffer = <<>> THEN <<>> ELSE Tail(input_buffer)
    /\ last_char' = AsChar(get_char)
    /\ lex_loc' = IF ends_line(get_char)
                  THEN [line |-> lex_loc.line + 1, col |-> 0]
                  ELSE [lex_loc EXCEPT !.col = @ + 1]
    /\ seen' = Append(seen, get_char)

NoAdvance == UNCHANGED <<input_buffer, last_char, lex_loc, seen>>

Goto(place) == pc' = place /\ UNCHANGED cur_tok

ReturnToken(token) == cur_tok' = token /\ pc' = "idle"

get_next_token ==
    /\ pc = "idle"
    /\ loads > 0
    /\ Goto("space")
    /\ last' = IF cur_tok = tok_not_initialized THEN 0 ELSE Len(seen) - 1
    /\ NoAdvance
    /\ UNCHANGED <<cur_loc, identifier_str, first, text, loads>>

SkipSpace ==
    /\ pc = "space"
    /\ isspace(last_char)
    /\ advance
    /\ UNCHANGED <<pc, cur_loc, cur_tok, identifier_str, first, last, text, loads>>

(* Mutant: the end of the file is eaten like any other character. *)
EatEof == last_char = EOF /\ ReturnToken(tok_eof) /\ advance /\ UNCHANGED identifier_str

ReportEof == last_char = EOF /\ ReturnToken(tok_eof) /\ NoAdvance /\ UNCHANGED identifier_str

BeginToken ==
    /\ pc = "space"
    /\ ~isspace(last_char)
    /\ cur_loc' = lex_loc
    /\ first' = Len(seen)
    /\ \/ /\ is_identifier_first_char(last_char)
          /\ identifier_str' = <<last_char>>
          /\ Goto("word")
          /\ NoAdvance
       \/ /\ is_number_char(last_char)
          /\ Goto("number")
          /\ NoAdvance
          /\ UNCHANGED identifier_str
       \/ /\ last_char = 35   \* '#'
          /\ Goto("comment")
          /\ NoAdvance
          /\ UNCHANGED identifier_str
       \/ ReportEof
       \/ /\ ~is_identifier_first_char(last_char)
          /\ ~is_number_char(last_char)
          /\ last_char \notin {35, EOF}
          /\ ReturnToken(last_char)
          /\ advance
          /\ UNCHANGED identifier_str
    /\ UNCHANGED <<last, text, loads>>

ReadWord ==
    /\ pc = "word"
    /\ advance
    /\ IF is_identifier_char(last_char')
       THEN identifier_str' = Append(identifier_str, last_char') /\ UNCHANGED <<pc, cur_tok>>
       ELSE ReturnToken(WordToken(identifier_str)) /\ UNCHANGED identifier_str
    /\ UNCHANGED <<cur_loc, first, last, text, loads>>

(* Mutant: a number ends at its first '.'. *)
ReadNumberToDot ==
    /\ pc = "number"
    /\ advance
    /\ IF isdigit(last_char')
       THEN UNCHANGED <<pc, cur_tok>>
       ELSE ReturnToken(tok_float_literal)
    /\ UNCHANGED <<cur_loc, identifier_str, first, last, text, loads>>

ReadNumber ==
    /\ pc = "number"
    /\ advance
    /\ IF is_number_char(last_char')
       THEN UNCHANGED <<pc, cur_tok>>
       ELSE ReturnToken(tok_float_literal)
    /\ UNCHANGED <<cur_loc, identifier_str, first, last, text, loads>>

(* Mutant: the end of a comment is taken for the end of the input. *)
SkipCommentToEnd ==
    /\ pc = "comment"
    /\ advance
    /\ IF last_char' = EOF \/ ends_line(last_char')
       THEN ReturnToken(tok_eof)
       ELSE UNCHANGED <<pc, cur_tok>>
    /\ UNCHANGED <<cur_loc, identifier_str, first, last, text, loads>>

SkipComment ==
    /\ pc = "comment"
    /\ advance
    /\ CASE last_char' = EOF -> ReturnToken(tok_eof)
         [] ends_line(last_char') -> Goto("space")
         [] OTHER -> UNCHANGED <<pc, cur_tok>>
    /\ UNCHANGED <<cur_loc, identifier_str, first, last, text, loads>>

-----------------------------------------------------------------------------
Init ==
    /\ input_buffer = <<>>
    /\ last_char = 32
    /\ lex_loc = [line |-> 0, col |-> 0]
    /\ cur_loc = lex_loc
    /\ cur_tok = tok_not_initialized
    /\ identifier_str = <<>>
    /\ pc = "idle"
    /\ seen = <<>>
    /\ first = 0
    /\ last = 0
    /\ text = [source |-> "none", content |-> <<>>, from |-> 0]
    /\ loads = 0

gettok == SkipSpace \/ BeginToken \/ ReadWord \/ ReadNumber \/ SkipComment

Next == Load \/ get_next_token \/ gettok

(* One thread, which has the text in a buffer and waits for nothing. *)
Spec == Init /\ [][Next]_vars /\ WF_vars(gettok)

-----------------------------------------------------------------------------
(* Properties. *)

Location == [line : Nat, col : Nat]

(* Every variable has its type; in particular no line or column is negative *)
(* and no look-ahead is beyond a signed char.                               *)
TypeOK ==
    /\ input_buffer \in Seq(0..255)
    /\ last_char \in -128..127
    /\ lex_loc \in Location
    /\ cur_loc \in Location
    /\ cur_tok \in -128..127 \cup {tok_not_initialized}
    /\ identifier_str \in Seq(0..127)
    /\ pc \in {"idle", "space", "word", "number", "comment"}
    /\ seen \in Seq(-1..255)
    /\ first \in Nat
    /\ last \in -1..Len(seen)
    /\ loads \in 0..MaxLoads

(* gettok has returned a token that stands for characters of the input. *)
HasToken == pc = "idle" /\ cur_tok \notin {tok_eof, tok_not_initialized}

LineEnds(i) == {j \in 1..i : seen[j] \in {10, 13}}
LocationOf(i) ==
    [line |-> Cardinality(LineEnds(i)),
     col |-> i - (IF LineEnds(i) = {} THEN 0 ELSE Max(LineEnds(i)))]

(* cur_loc is the line and column of the token's first character, whatever *)
(* white space, comments and line ends gettok passed on its way there.     *)
LocationIsTokenStart == HasToken => cur_loc = LocationOf(first)

LetterOrDigit == 48..57 \cup 65..90 \cup 97..122 \cup {95}
TokenText == [i \in 1..(Len(seen) - first) |-> seen[first + i - 1]]
Look == seen[Len(seen)]

(* The token returned is the meaning of the characters from its first to   *)
(* the one before the look-ahead, and could not have been longer: words    *)
(* and numbers are read to their end, any other character stands alone.    *)
TokenIsItsText ==
    HasToken =>
        LET c == TokenText[1]
        IN IF c \in LetterOrDigit \ 48..57
           THEN /\ Range(TokenText) \subseteq LetterOrDigit
                /\ Look \notin LetterOrDigit
                /\ cur_tok = WordToken(TokenText)
           ELSE IF c \in 48..57 \cup {46}
           THEN /\ Range(TokenText) \subseteq 48..57 \cup {46}
                /\ Look \notin 48..57 \cup {46}
                /\ cur_tok = tok_float_literal
           ELSE TokenText = <<cur_tok>>

(* io.cpp:56 "Load the content file or the standard input to the buffer.": *)
(* every character of the text is, or has been, in the buffer.             *)
LoadsWholeText ==
    LET delivered == [i \in 1..(Len(seen) - text.from) |-> seen[text.from + i]]
    IN IsPrefix(text.content, delivered \o input_buffer)

(* When a string replaces the text between two tokens, however the old     *)
(* text was loaded and however much of it was left, the next tokens are    *)
(* read from the string: at most the first character of the first of them, *)
(* the look-ahead, is still of the old text.                               *)
OneCharacterCarriedOver ==
    HasToken /\ text.source = "string" /\ first >= text.from =>
        LET new == SubSeq(seen, Max({first, text.from + 1}), Len(seen) - 1)
            from == Max({first - text.from, 1})
        IN new = SubSeq(StringContent(text.content), from, from + Len(new) - 1)

(* lexer.cpp:173 "Check for end of file.  Don't eat the EOF.": once the    *)
(* end has been reported it is reported for ever, also when another text   *)
(* has been loaded.  The parser and compile_object, which ask for one more *)
(* token after the last, rely on it.                                       *)
NothingFollowsEof == [][cur_tok = tok_eof => cur_tok' = tok_eof]_vars

(* The end of the input is delivered once, as the last character. *)
Delivered == IF seen # <<>> /\ Last(seen) = EOF THEN Front(seen) ELSE seen

Promised ==
    INSTANCE LexerSpec WITH
        input <- Delivered \o input_buffer,
        consumed <- IF pc # "idle" THEN last
                    ELSE IF cur_tok = tok_not_initialized THEN 0 ELSE Len(seen) - 1,
        busy <- pc # "idle",
        cur_loc <- IF pc = "idle" THEN cur_loc ELSE "unknown"

(* Of a file the lexer keeps the promise of LexerSpec: every call returns, *)
(* with the next token of the text and its place, and takes exactly the    *)
(* characters of it.                                                       *)
KeepsPromise == Promised!Spec
=============================================================================
