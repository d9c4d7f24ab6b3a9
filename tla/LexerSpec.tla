------------------------------ MODULE LexerSpec ------------------------------
(***************************************************************************)
(* What the lexer promises its callers: a call of get_next_token takes the *)
(* next token off the input, the longest there is after white space and    *)
(* comments, and says where it begins.  The input is a sequence of ASCII   *)
(* characters that may grow at its end.  Nothing is said of cur_loc while  *)
(* a call is running, nor of the location of the end of the input.         *)
(***************************************************************************)
EXTENDS Integers, SequencesExt

CONSTANTS
    WordToken(_),  \* the token a word stands for
    tok_eof, tok_float_literal, tok_not_initialized

VARIABLES
    input,     \* all characters, those taken already included
    consumed,  \* how many have been taken
    busy,      \* TRUE while a call is running
    cur_tok,
    cur_loc    \* Unknown while a call is running

vars == <<input, consumed, busy, cur_tok, cur_loc>>

Unknown == "unknown"

-----------------------------------------------------------------------------
Blank == 9..13 \cup {32}
LineEnd == {10, 13}
Digit == 48..57
NumberPart == Digit \cup {46}
Letter == 65..90 \cup 97..122 \cup {95}
WordPart == Letter \cup Digit
Hash == 35

(* The i-th character follows a '#' on its line that no token has taken.   *)
InComment(i) ==
    \E j \in (consumed + 1)..i :
        input[j] = Hash /\ \A k \in j..i : input[k] \notin LineEnd

(* The places a token may begin at: one, unless only blanks are left.      *)
Begins(i) ==
    /\ i \in (consumed + 1)..Len(input)
    /\ input[i] \notin Blank /\ ~InComment(i)
    /\ \A j \in (consumed + 1)..(i - 1) : input[j] \in Blank \/ InComment(j)

(* The characters that can stand in a token with c at its beginning.       *)
Continues(c) ==
    IF c \in Letter THEN WordPart ELSE IF c \in NumberPart THEN NumberPart ELSE {}

Ends(i, j) ==
    /\ j \in i..Len(input)
    /\ \A k \in (i + 1)..j : input[k] \in Continues(input[i])
    /\ j < Len(input) => input[j + 1] \notin Continues(input[i])

Token(i, j) ==
    IF input[i] \in Letter THEN WordToken(SubSeq(input, i, j))
    ELSE IF input[i] \in NumberPart THEN tok_float_literal
    ELSE input[i]

(* A line end is the column 0 of the line it opens. *)
LocationOf(i) ==
    LET lineEnds == {j \in 1..i : input[j] \in LineEnd}
    IN [line |-> Cardinality(lineEnds),
        col |-> i - (IF lineEnds = {} THEN 0 ELSE Max(lineEnds))]

-----------------------------------------------------------------------------
Init ==
    /\ input = <<>>
    /\ consumed = 0
    /\ ~busy
    /\ cur_tok = tok_not_initialized
    /\ cur_loc = [line |-> 0, col |-> 0]

Load ==
    /\ ~busy
    /\ IsPrefix(input, input')
    /\ UNCHANGED <<consumed, busy, cur_tok, cur_loc>>

Call ==
    /\ ~busy
    /\ busy'
    /\ cur_loc' = Unknown
    /\ UNCHANGED <<input, consumed, cur_tok>>

Finish == busy /\ ~busy' /\ UNCHANGED input

ReturnToken ==
    /\ Finish
    /\ \E i \in (consumed + 1)..Len(input) : \E j \in i..Len(input) :
          /\ Begins(i)
          /\ Ends(i, j)
          /\ consumed' = j
          /\ cur_tok' = Token(i, j)
          /\ cur_loc' = LocationOf(i)

ReturnEof ==
    /\ Finish
    /\ \A i \in (consumed + 1)..Len(input) : input[i] \in Blank \/ InComment(i)
    /\ consumed' = Len(input)
    /\ cur_tok' = tok_eof

Next == Load \/ Call \/ ReturnToken \/ ReturnEof

Safety == Init /\ [][Next]_vars

(* Every call returns. *)
Spec == Safety /\ (busy ~> ~busy)
=============================================================================
