---------------------------- MODULE LexerProofs ----------------------------
(***************************************************************************)
(* Proofs about Lexer, for every set of bytes, every length of a text and  *)
(* any number of loads.                                                    *)
(***************************************************************************)
EXTENDS Lexer, StackLemmas, FiniteSetTheorems

TextType == [source : Sources \cup {"none"}, content : Seq(Bytes), from : Nat]

(* The variables have their types, and nothing is read before a load.      *)
Typed ==
    /\ TypeOK
    /\ text \in TextType
    /\ text.from \in 0..Len(seen)
    /\ text.source = "none" => text.content = <<>>
    /\ loads = 0 => input_buffer = <<>> /\ seen = <<>> /\ pc = "idle"

(* The look-ahead is the last character delivered, as a char, and nothing  *)
(* is read after one that looks like the end of the input.                 *)
LooksAhead ==
    /\ seen = <<>> => last_char = 32 /\ cur_tok = tok_not_initialized /\ pc \in {"idle", "space"}
    /\ seen # <<>> => last_char = AsChar(Look)
    /\ \A i \in 1..(Len(seen) - 1) : AsChar(seen[i]) # EOF
    /\ cur_tok = tok_eof => last_char = EOF /\ pc \in {"idle", "space"}
    /\ pc = "word" => is_identifier_char(last_char)
    /\ pc = "number" => is_number_char(last_char)
    /\ pc = "comment" => last_char # EOF

(* Where the look-ahead is, and where the token begins.                    *)
Places ==
    /\ lex_loc = LocationOf(Len(seen))
    /\ first \in 0..Len(seen)
    /\ pc \in {"word", "number", "comment"} \/ HasToken => first >= 1 /\ cur_loc = LocationOf(first)
    /\ HasToken => first < Len(seen)

(* The characters of the token that is being read.                         *)
Reads ==
    /\ pc = "word" =>
          /\ Len(identifier_str) = Len(seen) - first + 1
          /\ \A i \in 1..Len(identifier_str) : identifier_str[i] = seen[first + i - 1]
          /\ \A i \in first..Len(seen) : seen[i] \in LetterOrDigit
          /\ seen[first] \notin 48..57
    /\ pc = "number" => \A i \in first..Len(seen) : seen[i] \in 48..57 \cup {46}

LexerInductive == Typed /\ LooksAhead /\ Places /\ Reads

-----------------------------------------------------------------------------
(* Sequences.                                                              *)

LEMMA Interval ==
    ASSUME NEW S, NEW s \in Seq(S), NEW i \in 1..Len(s), NEW j \in i..Len(s)
    PROVE  SubSeq(s, i, j) \in Seq(S)
<1>1. Len(s) \in Nat
  BY LenProperties
<1>2. i \in Int /\ j \in Int /\ \A k \in i..j : k \in 1..Len(s)
  BY <1>1
<1>3. \A k \in i..j : s[k] \in S
  BY <1>2, ElementOfSeq
<1> QED BY <1>2, <1>3, SubSeqProperties

LEMMA Texts ==
    ASSUME NEW content \in BoundedSeq(Bytes, MaxText)
    PROVE  /\ content \in Seq(Bytes)
           /\ content \in Seq(0..255)
<1>1. content \in UNION {[1..m -> Bytes] : m \in 0..MaxText}
  BY DEF BoundedSeq, SeqOf
<1>2. PICK m \in 0..MaxText : content \in [1..m -> Bytes]
  BY <1>1
<1>3. m \in Nat /\ Bytes \subseteq 0..255
  BY LexerAssumption
<1>4. content \in UNION {[1..n -> Bytes] : n \in Nat}
  BY <1>2, <1>3
<1>5. content \in Seq(Bytes)
  BY <1>4, SeqDef, Zenon
<1> DEFINE S == 0..255
<1>6. Bytes \subseteq S
  BY <1>3
<1> HIDE DEF S
<1>7. content \in Seq(S)
  BY <1>5, <1>6, SeqMonotonic
<1> QED BY <1>5, <1>7 DEF S

(* What the three ways of loading a text put into the buffer.              *)
LEMMA Contents ==
    ASSUME NEW S, Newline \in S, 45 \in S, 49 \in S, NEW content \in Seq(S)
    PROVE  /\ Len(content) \in Nat
           /\ StringContent(content) \in Seq(S)
           /\ Len(StringContent(content)) = Len(content) + 3
           /\ \A i \in 1..Len(content) : StringContent(content)[i] = content[i]
           /\ FileContent(content) \in Seq(S)
           /\ Len(FileContent(content)) >= Len(content)
           /\ \A i \in 1..Len(content) : FileContent(content)[i] = content[i]
           /\ FirstWord(content) \in Seq(S)
<1>1. Len(content) \in Nat
  BY LenProperties
<1>2. /\ StringContent(content) \in Seq(S)
      /\ Len(StringContent(content)) = Len(content) + 3
      /\ \A i \in 1..Len(content) : StringContent(content)[i] = content[i]
  <2> DEFINE e == <<Newline, 45, 49>>
  <2>1. e \in Seq(S) /\ Len(e) = 3
    BY DEF Newline
  <2>2. StringContent(content) = content \o e
    BY DEF StringContent
  <2> HIDE DEF e
  <2>3. \A i \in 1..Len(content) : i \in 1..(Len(content) + 3) /\ i <= Len(content)
    BY <1>1
  <2>4. /\ content \o e \in Seq(S)
        /\ Len(content \o e) = Len(content) + Len(e)
        /\ \A i \in 1..(Len(content) + Len(e)) :
              (content \o e)[i] = IF i <= Len(content) THEN content[i] ELSE e[i - Len(content)]
    BY <2>1, ConcatProperties
  <2> QED BY <2>1, <2>2, <2>3, <2>4
<1>3. /\ FileContent(content) \in Seq(S)
      /\ Len(FileContent(content)) >= Len(content)
      /\ \A i \in 1..Len(content) : FileContent(content)[i] = content[i]
  <2>1. Newline \in S
    BY DEF Newline
  <2>2. /\ Append(content, Newline) \in Seq(S)
        /\ Len(Append(content, Newline)) = Len(content) + 1
        /\ \A i \in 1..Len(content) : Append(content, Newline)[i] = content[i]
    BY <2>1, Pushed
  <2> QED BY <1>1, <2>2 DEF FileContent
<1>4. FirstWord(content) \in Seq(S)
  <2> DEFINE begins == {i \in DOMAIN content :
                           ~isspace(content[i]) /\ \A j \in 1..(i - 1) : isspace(content[j])}
             ends(i) == {j \in i..Len(content) : \A k \in i..j : ~isspace(content[k])}
             i0 == CHOOSE i \in begins : TRUE
             j0 == CHOOSE j \in ends(i0) : \A k \in ends(i0) : k <= j
  <2>1. FirstWord(content) = IF begins = {} THEN <<>> ELSE SubSeq(content, i0, j0)
    BY DEF FirstWord
  <2>2. CASE begins = {}
    BY <2>1, <2>2
  <2>3. CASE begins # {}
    <3>1. i0 \in 1..Len(content) /\ ~isspace(content[i0])
      BY <2>3, LenProperties
    <3>2. ends(i0) \in SUBSET (1..Len(content)) /\ i0 \in ends(i0)
      <4>1. i0 \in i0..Len(content) /\ \A k \in i0..i0 : k = i0
        BY <1>1, <3>1
      <4>2. \A j \in i0..Len(content) : j \in 1..Len(content)
        BY <1>1, <3>1
      <4> HIDE DEF i0
      <4> QED BY <3>1, <4>1, <4>2
    <3> DEFINE T == ends(i0)
    <3>3. T \in SUBSET (1..Len(content)) /\ T # {}
      BY <3>2
    <3> HIDE DEF T
    <3>4. \E j \in T : \A k \in T : k <= j
      BY <1>1, <3>3, Largest
    <3>5. (CHOOSE j \in T : \A k \in T : k <= j) \in T
      BY <3>4
    <3>6. j0 \in i0..Len(content)
      BY <3>5 DEF T
    <3> HIDE DEF i0, j0
    <3>7. SubSeq(content, i0, j0) \in Seq(S)
      BY <3>1, <3>6, Interval
    <3> QED BY <2>1, <2>3, <3>7
  <2> QED BY <2>2, <2>3
<1> QED BY <1>1, <1>2, <1>3, <1>4

(* So the buffer stays one of characters of a kind.                        *)
LEMMA Loaded ==
    ASSUME NEW S, Newline \in S, 45 \in S, 49 \in S, NEW content \in Seq(S)
    PROVE  /\ FileContent(content) \in Seq(S)
           /\ StringContent(content) \in Seq(S)
           /\ FirstWord(content) \in Seq(S)
           /\ StringContent(FirstWord(content)) \in Seq(S)
<1>1. FirstWord(content) \in Seq(S) /\ FileContent(content) \in Seq(S) /\ StringContent(content) \in Seq(S)
  BY Contents
<1> QED BY <1>1, Contents

-----------------------------------------------------------------------------
(* Characters and words.                                                   *)

LEMMA Plain ==
    ASSUME NEW c \in -1..255
    PROVE  /\ AsChar(c) >= 0 => c = AsChar(c) /\ c \in 0..127
           /\ 0 <= c /\ c <= 127 => AsChar(c) = c
BY DEF AsChar

LEMMA IdentifierCharacter ==
    ASSUME NEW c \in -1..255, is_identifier_char(AsChar(c))
    PROVE  /\ c = AsChar(c)
           /\ c \in LetterOrDigit
           /\ c \in 0..127
           /\ is_identifier_first_char(AsChar(c)) => c \notin 48..57
<1> DEFINE d == AsChar(c)
<1>1. /\ d >= 0 /\ d \in LetterOrDigit
      /\ is_identifier_first_char(d) => d \notin 48..57
  <2> HIDE DEF d
  <2>1. is_identifier_char(d)
    BY DEF d
  <2> QED BY <2>1 DEF is_identifier_char, is_identifier_first_char, isalpha, isdigit, LetterOrDigit
<1>2. c = d /\ c \in 0..127
  BY <1>1, Plain
<1> QED BY <1>1, <1>2

LEMMA NumberCharacter ==
    ASSUME NEW c \in -1..255, is_number_char(AsChar(c))
    PROVE  c = AsChar(c) /\ c \in 48..57 \cup {46}
<1> DEFINE d == AsChar(c)
<1>1. d >= 0 /\ d \in 48..57 \cup {46}
  <2> HIDE DEF d
  <2>1. is_number_char(d)
    BY DEF d
  <2> QED BY <2>1 DEF is_number_char, isdigit
<1>2. c = d
  BY <1>1, Plain
<1> QED BY <1>1, <1>2

(* No character that could continue a token is missed.                     *)
LEMMA Continuing ==
    ASSUME NEW c \in -1..255
    PROVE  /\ c \in LetterOrDigit => is_identifier_char(AsChar(c))
           /\ c \in 48..57 \cup {46} => is_number_char(AsChar(c))
<1>1. c \in LetterOrDigit \/ c \in 48..57 \cup {46} => AsChar(c) = c
  <2>1. c \in LetterOrDigit \/ c \in 48..57 \cup {46} => 0 <= c /\ c <= 127
    BY DEF LetterOrDigit
  <2> QED BY <2>1, Plain
<1> QED BY <1>1 DEF is_identifier_char, is_number_char, isalpha, isdigit, LetterOrDigit

LEMMA NotEof ==
    ASSUME NEW c, is_identifier_char(c) \/ is_number_char(c) \/ isspace(c) \/ ends_line(c)
    PROVE  c # EOF
BY DEF is_identifier_char, is_number_char, isspace, ends_line, isalpha, isdigit, EOF, Newline, Return

LEMMA WordTokens ==
    ASSUME NEW word
    PROVE  WordToken(word) \in -128..127 /\ WordToken(word) \notin {tok_eof, tok_not_initialized}
<1>1. \A k \in Keywords : k.tok \in {-2, -3, -4, -20, -22, -23, -24, -30, -31, -40}
  BY DEF Keywords
<1>2. CASE \E k \in Keywords : k.word = word
  <2> DEFINE found == CHOOSE k \in Keywords : k.word = word
  <2>1. found \in Keywords
    BY <1>2
  <2>2. WordToken(word) = found.tok
    BY <1>2 DEF WordToken
  <2> HIDE DEF found
  <2>3. WordToken(word) \in {-2, -3, -4, -20, -22, -23, -24, -30, -31, -40}
    BY <1>1, <2>1, <2>2
  <2> QED BY <2>3 DEF tok_eof, tok_not_initialized
<1>3. CASE ~ \E k \in Keywords : k.word = word
  <2>1. WordToken(word) = -10
    BY <1>3 DEF WordToken, tok_identifier
  <2> QED BY <2>1 DEF tok_eof, tok_not_initialized
<1> QED BY <1>2, <1>3

-----------------------------------------------------------------------------
(* A character read.                                                       *)

(* The largest element of a set of places, and one place more.             *)
LEMMA Greatest ==
    ASSUME NEW n \in Nat, NEW T \in SUBSET (1..n)
    PROVE  /\ T # {} => Max(T) \in 1..n
           /\ Max(T \cup {n + 1}) = n + 1
<1>1. T # {} => Max(T) \in T
  BY Largest
<1>2. T \cup {n + 1} \in SUBSET (1..(n + 1)) /\ n + 1 \in T \cup {n + 1}
  <2>1. \A k \in 1..n : k \in 1..(n + 1)
    OBVIOUS
  <2> QED BY <2>1
<1> DEFINE U == T \cup {n + 1}
           m == n + 1
<1>3. U \in SUBSET (1..m) /\ m \in U /\ m \in Nat
  BY <1>2
<1> HIDE DEF U
<1>4. Max(U) \in U /\ \A j \in U : j <= Max(U)
  <2> HIDE DEF m
  <2>1. U # {}
    BY <1>3
  <2> QED BY <1>3, <2>1, Largest
<1>5. Max(U) \in 1..m /\ m <= Max(U)
  BY <1>3, <1>4
<1>6. Max(U) = m
  BY <1>3, <1>5
<1> QED BY <1>1, <1>6 DEF U

LEMMA SameLocation ==
    ASSUME UNCHANGED seen
    PROVE  \A i : LocationOf(i)' = LocationOf(i)
BY DEF LocationOf, LineEnds

(* What advance does to the places of the characters delivered.            *)
LEMMA LocationsMove ==
    ASSUME seen \in Seq(-1..255), NEW c, seen' = Append(seen, c), c \in -1..255
    PROVE  /\ \A i \in 0..Len(seen) : LocationOf(i)' = LocationOf(i)
           /\ LocationOf(Len(seen)) \in Location
           /\ LocationOf(Len(seen))' =
                 IF ends_line(c) THEN [line |-> LocationOf(Len(seen)).line + 1, col |-> 0]
                 ELSE [LocationOf(Len(seen)) EXCEPT !.col = @ + 1]
<1> DEFINE n == Len(seen)
           E == LineEnds(n)
           F == {j \in 1..(n + 1) : seen'[j] \in {10, 13}}
<1>1. n \in Nat /\ Len(seen') = n + 1 /\ seen'[n + 1] = c /\ \A i \in 1..n : seen'[i] = seen[i]
  BY Pushed
<1>2. ASSUME NEW i \in 0..n PROVE LocationOf(i)' = LocationOf(i)
  <2>1. \A j \in 1..i : j \in 1..n
    BY <1>1
  <2>2. LineEnds(i)' = LineEnds(i)
    BY <1>1, <2>1 DEF LineEnds
  <2> QED BY <2>2 DEF LocationOf
<1>3. E \in SUBSET (1..n) /\ IsFiniteSet(E) /\ Cardinality(E) \in Nat
  <2>1. IsFiniteSet(1..n)
    BY <1>1, FS_Interval
  <2>2. E \in SUBSET (1..n)
    BY DEF LineEnds
  <2> QED BY <2>1, <2>2, FS_Subset, FS_CardinalityType
<1>4. F = IF ends_line(c) THEN E \cup {n + 1} ELSE E
  <2>1. 1..(n + 1) = (1..n) \cup {n + 1} /\ n + 1 \notin 1..n
    BY <1>1
  <2>2. E = {j \in 1..n : seen'[j] \in {10, 13}}
    BY <1>1 DEF LineEnds
  <2>3. ends_line(c) <=> c \in {10, 13}
    BY DEF ends_line, Newline, Return
  <2> QED BY <1>1, <2>1, <2>2, <2>3
<1>5. LocationOf(n) = [line |-> Cardinality(E), col |-> n - (IF E = {} THEN 0 ELSE Max(E))]
  BY DEF LocationOf
<1>6. LocationOf(Len(seen))' =
         [line |-> Cardinality(F), col |-> (n + 1) - (IF F = {} THEN 0 ELSE Max(F))]
  BY <1>1 DEF LocationOf, LineEnds
<1>7. LocationOf(n) \in Location
  <2>1. E # {} => Max(E) \in 1..n
    BY <1>1, <1>3, Greatest
  <2>2. n - (IF E = {} THEN 0 ELSE Max(E)) \in Nat
    BY <1>1, <2>1
  <2> QED BY <1>3, <1>5, <2>2 DEF Location
<1>8. n \notin Nat \/ n + 1 \notin E
  BY <1>1, <1>3
<1> HIDE DEF E, F
<1>9. CASE ends_line(c)
  <2>1. F = E \cup {n + 1} /\ F # {}
    BY <1>4, <1>9
  <2>2. Cardinality(F) = Cardinality(E) + 1
    BY <1>1, <1>3, <1>8, <2>1, FS_AddElement
  <2>3. Max(F) = n + 1
    BY <1>1, <1>3, <2>1, Greatest
  <2>4. (n + 1) - (n + 1) = 0
    BY <1>1
  <2>5. LocationOf(Len(seen))' = [line |-> Cardinality(E) + 1, col |-> 0]
    BY <1>6, <2>1, <2>2, <2>3, <2>4
  <2> QED BY <1>1, <1>2, <1>5, <1>7, <1>9, <2>5
<1>10. CASE ~ends_line(c)
  <2>1. F = E
    BY <1>4, <1>10
  <2>2. E # {} => Max(E) \in 1..n
    BY <1>1, <1>3, Greatest
  <2> DEFINE k == IF E = {} THEN 0 ELSE Max(E)
  <2>3. k \in Int
    BY <1>1, <2>2
  <2> HIDE DEF k
  <2>4. (n + 1) - k = (n - k) + 1
    BY <1>1, <2>3
  <2>5. /\ LocationOf(n) = [line |-> Cardinality(E), col |-> n - k]
        /\ LocationOf(Len(seen))' = [line |-> Cardinality(E), col |-> (n - k) + 1]
    BY <1>5, <1>6, <2>1, <2>4 DEF k
  <2> QED BY <1>1, <1>2, <1>7, <1>10, <2>5
<1> QED BY <1>9, <1>10

Moved ==
    /\ input_buffer' \in Seq(0..255)
    /\ last_char' \in -128..127
    /\ lex_loc' \in Location
    /\ seen' \in Seq(-1..255)
    /\ Len(seen') = Len(seen) + 1
    /\ \A i \in 1..Len(seen) : seen'[i] = seen[i]
    /\ seen'[Len(seen) + 1] \in -1..255
    /\ last_char' = AsChar(seen'[Len(seen) + 1])
    /\ lex_loc' = LocationOf(Len(seen))'
    /\ \A i \in 0..Len(seen) : LocationOf(i)' = LocationOf(i)

LEMMA Advanced ==
    ASSUME Typed, lex_loc = LocationOf(Len(seen)), advance
    PROVE  Moved
<1>1. input_buffer \in Seq(0..255) /\ seen \in Seq(-1..255)
  BY DEF Typed, TypeOK
<1>2. input_buffer' \in Seq(0..255) /\ get_char \in -1..255
  <2>1. CASE input_buffer = <<>>
    BY <2>1 DEF advance, get_char, EOF
  <2>2. CASE input_buffer # <<>>
    <3>1. Head(input_buffer) \in 0..255 /\ Tail(input_buffer) \in Seq(0..255)
      BY <1>1, <2>2, HeadTailProperties
    <3> QED BY <2>2, <3>1 DEF advance, get_char
  <2> QED BY <2>1, <2>2
<1> DEFINE c == get_char
<1>3. /\ seen' = Append(seen, c) /\ last_char' = AsChar(c) /\ c \in -1..255
      /\ lex_loc' = IF ends_line(c) THEN [line |-> lex_loc.line + 1, col |-> 0]
                    ELSE [lex_loc EXCEPT !.col = @ + 1]
  BY <1>2 DEF advance
<1> HIDE DEF c
<1>4. /\ seen' \in Seq(-1..255) /\ Len(seen') = Len(seen) + 1
      /\ seen'[Len(seen) + 1] = c
      /\ \A i \in 1..Len(seen) : seen'[i] = seen[i]
  BY <1>1, <1>3, Pushed
<1>5. AsChar(c) \in -128..127
  <2>1. c \in -1..255
    BY <1>3
  <2> QED BY <2>1 DEF AsChar
<1>6. /\ \A i \in 0..Len(seen) : LocationOf(i)' = LocationOf(i)
      /\ lex_loc' = LocationOf(Len(seen))'
      /\ lex_loc \in Location
  BY <1>1, <1>3, LocationsMove
<1>7. lex_loc' \in Location
  BY <1>3, <1>6 DEF Location
<1> QED BY <1>2, <1>3, <1>4, <1>5, <1>6, <1>7 DEF Moved

-----------------------------------------------------------------------------
(* Each action keeps the invariant.                                        *)

(* What holds whatever gettok does with the character it has read.         *)
LEMMA AfterAdvance ==
    ASSUME LexerInductive, pc # "idle", advance, last_char # EOF,
           UNCHANGED <<last, text, loads>>,
           cur_tok' \in -128..127 \cup {tok_not_initialized},
           identifier_str' \in Seq(0..127),
           pc' \in {"idle", "space", "word", "number", "comment"},
           cur_loc' \in Location,
           first' \in 0..Len(seen)
    PROVE  /\ Moved
           /\ Typed'
           /\ seen' # <<>>
           /\ last_char' = AsChar(Look')
           /\ \A i \in 1..(Len(seen') - 1) : AsChar(seen'[i]) # EOF
           /\ first' \in 0..Len(seen')
           /\ Len(seen) \in Nat
<1>1. Moved
  BY Advanced DEF LexerInductive, Places
<1>2. /\ seen \in Seq(-1..255) /\ Len(seen) \in Nat
      /\ first' \in Nat /\ last' \in -1..Len(seen') /\ text'.from \in 0..Len(seen')
      /\ first' \in 0..Len(seen')
  <2>1. seen \in Seq(-1..255) /\ Len(seen) \in Nat
    BY LenProperties DEF LexerInductive, Typed, TypeOK
  <2>2. last \in -1..Len(seen) /\ text.from \in 0..Len(seen)
    BY DEF LexerInductive, Typed, TypeOK
  <2>3. Len(seen') = Len(seen) + 1
    BY <1>1 DEF Moved
  <2> HIDE DEF LexerInductive
  <2> QED BY <2>1, <2>2, <2>3
<1>3. loads' # 0 /\ loads' \in 0..MaxLoads /\ text' \in TextType
      /\ (text'.source = "none" => text'.content = <<>>)
  BY DEF LexerInductive, Typed, TypeOK
<1>4. Typed'
  BY <1>1, <1>2, <1>3 DEF Moved, Typed, TypeOK, TextType
<1>5. seen' # <<>> /\ last_char' = AsChar(Look')
  <2>1. Len(seen') = Len(seen) + 1 /\ last_char' = AsChar(seen'[Len(seen) + 1])
    BY <1>1 DEF Moved
  <2>2. Len(seen') # 0
    BY <1>2, <2>1
  <2> QED BY <2>1, <2>2 DEF Look
<1>6. ASSUME NEW i \in 1..(Len(seen') - 1)
      PROVE  AsChar(seen'[i]) # EOF
  <2>1. i \in 1..Len(seen) /\ seen'[i] = seen[i]
    BY <1>1, <1>2, <1>6 DEF Moved
  <2>2. CASE i = Len(seen)
    <3>1. seen # <<>>
      BY <1>2, <2>1
    <3> QED BY <2>1, <2>2, <3>1 DEF LexerInductive, LooksAhead, Look
  <2>3. CASE i \in 1..(Len(seen) - 1)
    BY <2>1, <2>3 DEF LexerInductive, LooksAhead
  <2> QED BY <1>2, <2>1, <2>2, <2>3
<1> QED BY <1>1, <1>2, <1>4, <1>5, <1>6

LEMMA SpaceKeeps ==
    ASSUME LexerInductive, SkipSpace
    PROVE  LexerInductive'
<1>1. /\ pc = "space" /\ isspace(last_char) /\ advance
      /\ UNCHANGED <<pc, cur_loc, cur_tok, identifier_str, first, last, text, loads>>
  BY DEF SkipSpace
<1>2. last_char # EOF /\ cur_tok # tok_eof
  <2>1. last_char # EOF
    BY <1>1, NotEof
  <2> QED BY <2>1 DEF LexerInductive, LooksAhead
<1>3. /\ cur_tok' \in -128..127 \cup {tok_not_initialized}
      /\ identifier_str' \in Seq(0..127) /\ cur_loc' \in Location /\ first' \in 0..Len(seen)
  BY <1>1 DEF LexerInductive, Typed, TypeOK, Places
<1>4. /\ Moved /\ Typed' /\ seen' # <<>> /\ last_char' = AsChar(Look')
      /\ \A i \in 1..(Len(seen') - 1) : AsChar(seen'[i]) # EOF
      /\ first' \in 0..Len(seen')
  BY <1>1, <1>2, <1>3, AfterAdvance
<1>5. LooksAhead'
  BY <1>1, <1>2, <1>4 DEF LooksAhead
<1>6. Places'
  BY <1>1, <1>4 DEF Places, Moved, HasToken
<1>7. Reads'
  BY <1>1 DEF Reads
<1> QED BY <1>4, <1>5, <1>6, <1>7 DEF LexerInductive

(* gettok returns a token at the character it has read.                    *)
LEMMA TokenReturned ==
    ASSUME LexerInductive, pc \in {"word", "number"}, advance,
           NEW token \in -128..127 \ {tok_eof, tok_not_initialized}, ReturnToken(token),
           UNCHANGED <<cur_loc, identifier_str, first, last, text, loads>>
    PROVE  LexerInductive' /\ Moved /\ Len(seen) \in Nat
<1>1. last_char # EOF
  BY NotEof DEF LexerInductive, LooksAhead
<1>2. /\ cur_tok' \in -128..127 \cup {tok_not_initialized}
      /\ identifier_str' \in Seq(0..127) /\ cur_loc' \in Location /\ first' \in 0..Len(seen)
      /\ pc' = "idle" /\ cur_tok' = token
  BY DEF LexerInductive, Typed, TypeOK, Places, ReturnToken
<1>3. /\ Moved /\ Typed' /\ seen' # <<>> /\ last_char' = AsChar(Look')
      /\ \A i \in 1..(Len(seen') - 1) : AsChar(seen'[i]) # EOF
      /\ first' \in 0..Len(seen')
      /\ Len(seen) \in Nat
  BY <1>1, <1>2, AfterAdvance
<1>4. LooksAhead'
  BY <1>2, <1>3 DEF LooksAhead
<1>5. Places'
  <2>1. /\ first >= 1 /\ cur_loc = LocationOf(first) /\ first \in 0..Len(seen)
    BY DEF LexerInductive, Places
  <2>2. cur_loc' = LocationOf(first)'
    BY <1>3, <2>1 DEF Moved
  <2>3. first' >= 1 /\ first' < Len(seen')
    BY <1>3, <2>1 DEF Moved
  <2> QED BY <1>3, <2>2, <2>3 DEF Places, Moved
<1>6. Reads'
  BY <1>2 DEF Reads
<1> QED BY <1>3, <1>4, <1>5, <1>6 DEF LexerInductive

(* gettok goes on with the same token.                                     *)
LEMMA GoesOn ==
    ASSUME LexerInductive, pc \in {"word", "number", "comment"}, advance, last_char # EOF,
           UNCHANGED <<pc, cur_tok, cur_loc, first, last, text, loads>>,
           identifier_str' \in Seq(0..127),
           pc = "word" => is_identifier_char(last_char'),
           pc = "number" => is_number_char(last_char'),
           pc = "comment" => last_char' # EOF,
           Reads'
    PROVE  LexerInductive'
<1>1. /\ cur_tok' \in -128..127 \cup {tok_not_initialized}
      /\ cur_loc' \in Location /\ first' \in 0..Len(seen)
  BY DEF LexerInductive, Typed, TypeOK, Places
<1>2. /\ Moved /\ Typed' /\ seen' # <<>> /\ last_char' = AsChar(Look')
      /\ \A i \in 1..(Len(seen') - 1) : AsChar(seen'[i]) # EOF
      /\ first' \in 0..Len(seen')
  BY <1>1, AfterAdvance
<1>3. LooksAhead'
  <2>1. cur_tok # tok_eof
    BY DEF LexerInductive, LooksAhead
  <2> QED BY <1>2, <2>1 DEF LooksAhead
<1>4. Places'
  <2>1. /\ first >= 1 /\ cur_loc = LocationOf(first) /\ first \in 0..Len(seen)
    BY DEF LexerInductive, Places
  <2>2. cur_loc' = LocationOf(first)'
    BY <1>2, <2>1 DEF Moved
  <2> QED BY <1>2, <2>1, <2>2 DEF Places, Moved, HasToken
<1> QED BY <1>2, <1>3, <1>4 DEF LexerInductive

LEMMA WordKeeps ==
    ASSUME LexerInductive, ReadWord
    PROVE  LexerInductive'
<1>1. /\ pc = "word" /\ advance
      /\ UNCHANGED <<cur_loc, first, last, text, loads>>
      /\ IF is_identifier_char(last_char')
         THEN identifier_str' = Append(identifier_str, last_char') /\ UNCHANGED <<pc, cur_tok>>
         ELSE ReturnToken(WordToken(identifier_str)) /\ UNCHANGED identifier_str
  BY DEF ReadWord
<1>2. last_char # EOF
  BY <1>1, NotEof DEF LexerInductive, LooksAhead
<1>3. CASE ~is_identifier_char(last_char')
  <2>1. WordToken(identifier_str) \in -128..127 \ {tok_eof, tok_not_initialized}
    BY WordTokens
  <2> QED BY <1>1, <1>3, <2>1, TokenReturned
<1>4. CASE is_identifier_char(last_char')
  <2>1. Moved
    BY <1>1, Advanced DEF LexerInductive, Places
  <2> DEFINE n == Len(seen)
             c == seen'[n + 1]
             m == Len(identifier_str)
  <2>2. c \in -1..255 /\ last_char' = AsChar(c) /\ Len(seen') = n + 1
        /\ \A i \in 1..n : seen'[i] = seen[i]
    BY <2>1 DEF Moved
  <2> HIDE DEF c
  <2>3. last_char' = c /\ c \in LetterOrDigit /\ c \in 0..127
    <3>1. is_identifier_char(AsChar(c))
      BY <1>4, <2>2
    <3>2. c \in -1..255
      BY <2>2
    <3>3. c = AsChar(c) /\ c \in LetterOrDigit /\ c \in 0..127
      <4> HIDE DEF n
      <4> QED BY <3>1, <3>2, IdentifierCharacter
    <3> QED BY <2>2, <3>3
  <2>4. identifier_str \in Seq(0..127) /\ seen \in Seq(-1..255) /\ first \in 0..n
    BY DEF LexerInductive, Typed, TypeOK, Places
  <2>5. /\ identifier_str' \in Seq(0..127) /\ Len(identifier_str') = m + 1
        /\ identifier_str'[m + 1] = c
        /\ \A i \in 1..m : identifier_str'[i] = identifier_str[i]
        /\ m \in Nat
    <3>1. identifier_str' = Append(identifier_str, c) /\ c \in 0..127
      BY <1>1, <1>4, <2>3
    <3> QED BY <2>4, <3>1, Pushed
  <2>6. /\ m = n - first + 1 /\ n \in Nat /\ first >= 1 /\ first \in 1..n
        /\ \A i \in 1..m : identifier_str[i] = seen[first + i - 1]
        /\ \A i \in first..n : seen[i] \in LetterOrDigit
        /\ seen[first] \notin 48..57
    <3>1. n \in Nat /\ first >= 1
      BY <1>1, <2>4, LenProperties DEF LexerInductive, Places
    <3> QED BY <1>1, <2>4, <3>1 DEF LexerInductive, Reads
  <2> HIDE DEF n, m
  <2>7. Reads'
    <3>1. m + 1 = (n + 1) - first + 1
      BY <2>4, <2>6
    <3>2. ASSUME NEW i \in 1..(m + 1) PROVE identifier_str'[i] = seen'[first + i - 1]
      <4>1. CASE i \in 1..m
        <5>1. first + i - 1 \in 1..n
          BY <2>4, <2>6, <4>1
        <5> QED BY <2>2, <2>5, <2>6, <4>1, <5>1
      <4>2. CASE i = m + 1
        <5>1. first + i - 1 = n + 1
          BY <2>4, <2>6, <4>2
        <5> QED BY <2>5, <4>2, <5>1 DEF c, n
      <4> QED BY <2>5, <4>1, <4>2
    <3>3. ASSUME NEW i \in first..(n + 1) PROVE seen'[i] \in LetterOrDigit
      <4>1. CASE i \in first..n
        <5>1. i \in 1..n
          BY <2>4, <2>6, <4>1
        <5> QED BY <2>2, <2>6, <4>1, <5>1
      <4>2. CASE i = n + 1
        BY <2>3, <4>2 DEF c, n
      <4> QED BY <2>4, <2>6, <4>1, <4>2
    <3>4. seen'[first] \notin 48..57
      BY <2>2, <2>6
    <3> QED BY <1>1, <1>4, <2>2, <2>5, <3>1, <3>2, <3>3, <3>4 DEF Reads
  <2> QED BY <1>1, <1>2, <1>4, <2>5, <2>7, GoesOn
<1> QED BY <1>3, <1>4

LEMMA NumberKeeps ==
    ASSUME LexerInductive, ReadNumber
    PROVE  LexerInductive'
<1>1. /\ pc = "number" /\ advance
      /\ UNCHANGED <<cur_loc, identifier_str, first, last, text, loads>>
      /\ IF is_number_char(last_char')
         THEN UNCHANGED <<pc, cur_tok>> ELSE ReturnToken(tok_float_literal)
  BY DEF ReadNumber
<1>2. last_char # EOF
  BY <1>1, NotEof DEF LexerInductive, LooksAhead
<1>3. CASE ~is_number_char(last_char')
  <2>1. tok_float_literal \in -128..127 \ {tok_eof, tok_not_initialized}
    BY DEF tok_float_literal, tok_eof, tok_not_initialized
  <2> QED BY <1>1, <1>3, <2>1, TokenReturned
<1>4. CASE is_number_char(last_char')
  <2>1. Moved
    BY <1>1, Advanced DEF LexerInductive, Places
  <2> DEFINE n == Len(seen)
             c == seen'[n + 1]
  <2>2. c \in -1..255 /\ last_char' = AsChar(c) /\ Len(seen') = n + 1
        /\ \A i \in 1..n : seen'[i] = seen[i]
    BY <2>1 DEF Moved
  <2> HIDE DEF c
  <2>3. c \in 48..57 \cup {46}
    <3>1. is_number_char(AsChar(c))
      BY <1>4, <2>2
    <3>2. c \in -1..255
      BY <2>2
    <3> QED BY <3>1, <3>2, NumberCharacter
  <2>4. /\ n \in Nat /\ first \in 0..n /\ first >= 1 /\ identifier_str \in Seq(0..127)
        /\ \A i \in first..n : seen[i] \in 48..57 \cup {46}
    BY <1>1, LenProperties DEF LexerInductive, Typed, TypeOK, Places, Reads
  <2>5. ASSUME NEW i \in first..(n + 1) PROVE seen'[i] \in 48..57 \cup {46}
    <3> HIDE DEF n
    <3>1. CASE i \in first..n
      <4>1. i \in 1..n
        BY <2>4, <3>1
      <4> QED BY <2>2, <2>4, <3>1, <4>1
    <3>2. CASE i = n + 1
      BY <2>3, <3>2 DEF c, n
    <3> QED BY <2>4, <3>1, <3>2
  <2>6. Reads'
    BY <1>1, <1>4, <2>2, <2>5 DEF Reads
  <2> QED BY <1>1, <1>2, <1>4, <2>4, <2>6, GoesOn
<1> QED BY <1>3, <1>4

(* A comment ends with the line or with the input.                         *)
LEMMA CommentCases ==
    ASSUME SkipComment
    PROVE  /\ pc = "comment" /\ advance
           /\ UNCHANGED <<cur_loc, identifier_str, first, last, text, loads>>
           /\ \/ last_char' = EOF /\ ReturnToken(tok_eof)
              \/ last_char' # EOF /\ ends_line(last_char') /\ Goto("space")
              \/ last_char' # EOF /\ ~ends_line(last_char') /\ UNCHANGED <<pc, cur_tok>>
BY NotEof DEF SkipComment

LEMMA CommentKeeps ==
    ASSUME LexerInductive, SkipComment
    PROVE  LexerInductive'
<1>1. /\ pc = "comment" /\ advance
      /\ UNCHANGED <<cur_loc, identifier_str, first, last, text, loads>>
      /\ \/ last_char' = EOF /\ ReturnToken(tok_eof)
         \/ last_char' # EOF /\ Goto("space")
         \/ last_char' # EOF /\ UNCHANGED <<pc, cur_tok>>
  BY CommentCases
<1>2. last_char # EOF /\ cur_tok # tok_eof
  BY <1>1 DEF LexerInductive, LooksAhead
<1>3. /\ cur_tok \in -128..127 \cup {tok_not_initialized}
      /\ identifier_str' \in Seq(0..127) /\ cur_loc' \in Location /\ first' \in 0..Len(seen)
  BY <1>1 DEF LexerInductive, Typed, TypeOK, Places
<1>4. CASE last_char' # EOF /\ UNCHANGED <<pc, cur_tok>>
  <2>1. Reads'
    BY <1>1, <1>4 DEF Reads
  <2> QED BY <1>1, <1>2, <1>3, <1>4, <2>1, GoesOn
<1>5. CASE \/ last_char' = EOF /\ ReturnToken(tok_eof)
           \/ last_char' # EOF /\ Goto("space")
  <2>1. /\ pc' \in {"idle", "space"}
        /\ cur_tok' \in {cur_tok, tok_eof}
        /\ cur_tok' = tok_eof <=> last_char' = EOF
        /\ pc' = "idle" => cur_tok' = tok_eof
    BY <1>2, <1>5 DEF ReturnToken, Goto
  <2>2. cur_tok' \in -128..127 \cup {tok_not_initialized}
    BY <1>3, <2>1 DEF tok_eof
  <2>3. /\ Moved /\ Typed' /\ seen' # <<>> /\ last_char' = AsChar(Look')
        /\ \A i \in 1..(Len(seen') - 1) : AsChar(seen'[i]) # EOF
        /\ first' \in 0..Len(seen')
    BY <1>1, <1>2, <1>3, <2>1, <2>2, AfterAdvance
  <2>4. LooksAhead'
    BY <2>1, <2>3 DEF LooksAhead
  <2>5. Places'
    BY <2>1, <2>3 DEF Places, Moved, HasToken
  <2>6. Reads'
    BY <2>1 DEF Reads
  <2> QED BY <2>3, <2>4, <2>5, <2>6 DEF LexerInductive
<1> QED BY <1>1, <1>4, <1>5

(* The look-ahead when a token may begin at it.                            *)
LEMMA BeginsAtLook ==
    ASSUME LexerInductive, ~isspace(last_char)
    PROVE  /\ seen # <<>> /\ Len(seen) \in Nat \ {0}
           /\ Look \in -1..255 /\ last_char = AsChar(Look)
           /\ lex_loc = LocationOf(Len(seen)) /\ lex_loc \in Location
<1>1. seen # <<>>
  BY DEF LexerInductive, LooksAhead, isspace
<1>2. seen \in Seq(-1..255)
  BY DEF LexerInductive, Typed, TypeOK
<1>3. Len(seen) \in Nat \ {0} /\ Len(seen) \in 1..Len(seen)
  BY <1>1, <1>2, EmptySeq
<1> QED BY <1>1, <1>2, <1>3, ElementOfSeq DEF LexerInductive, LooksAhead, Look, Places, Typed, TypeOK

(* What the look-ahead is when a word or a number begins.                  *)
LEMMA LooksAtWord ==
    ASSUME LexerInductive, ~isspace(last_char), is_identifier_first_char(last_char)
    PROVE  Look = last_char /\ Look \in LetterOrDigit /\ Look \in 0..127 /\ Look \notin 48..57
<1>1. Look \in -1..255 /\ last_char = AsChar(Look)
  BY BeginsAtLook
<1> HIDE DEF Look
<1>2. last_char >= 0 /\ last_char \in LetterOrDigit /\ last_char \notin 48..57
  BY DEF is_identifier_first_char, isalpha, LetterOrDigit
<1>3. Look = last_char /\ Look \in 0..127
  BY <1>1, <1>2, Plain
<1> QED BY <1>2, <1>3

LEMMA LooksAtNumber ==
    ASSUME LexerInductive, ~isspace(last_char), is_number_char(last_char)
    PROVE  Look \in 48..57 \cup {46}
<1>1. Look \in -1..255 /\ last_char = AsChar(Look)
  BY BeginsAtLook
<1> HIDE DEF Look
<1>2. last_char >= 0 /\ last_char \in 48..57 \cup {46}
  BY DEF is_number_char, isdigit
<1>3. Look = last_char
  BY <1>1, <1>2, Plain
<1> QED BY <1>2, <1>3

(* A token begins that takes more characters than one.                     *)
LEMMA LongTokenBegins ==
    ASSUME LexerInductive, pc = "space", ~isspace(last_char),
           cur_loc' = lex_loc, first' = Len(seen), NoAdvance,
           NEW place \in {"word", "number", "comment"}, Goto(place),
           UNCHANGED <<last, text, loads>>,
           last_char # EOF,
           place = "word" => is_identifier_char(last_char) /\ identifier_str' = <<last_char>>
                                /\ is_identifier_first_char(last_char),
           place = "number" => is_number_char(last_char),
           place # "word" => UNCHANGED identifier_str
    PROVE  LexerInductive'
<1> DEFINE n == Len(seen)
           c == Look
<1>1. /\ n \in Nat \ {0} /\ c \in -1..255 /\ last_char = AsChar(c) /\ c = seen[n]
      /\ lex_loc = LocationOf(n) /\ lex_loc \in Location
  BY BeginsAtLook DEF Look
<1>2. /\ UNCHANGED <<input_buffer, last_char, lex_loc, seen, cur_tok>> /\ pc' = place
      /\ first' \in 0..n /\ first' >= 1
  BY <1>1 DEF NoAdvance, Goto
<1>3. /\ seen' # <<>> /\ last_char' = AsChar(Look')
      /\ \A i \in 1..(Len(seen') - 1) : AsChar(seen'[i]) # EOF
  BY <1>2, BeginsAtLook DEF LexerInductive, LooksAhead, Look
<1>4. cur_tok # tok_eof
  BY DEF LexerInductive, LooksAhead
<1>5. LooksAhead'
  BY <1>2, <1>3, <1>4 DEF LooksAhead
<1>6. Places'
  <2>1. cur_loc' = LocationOf(first)'
    BY <1>1, <1>2, SameLocation
  <2>2. lex_loc' = LocationOf(Len(seen))'
    BY <1>1, <1>2, SameLocation
  <2>3. ~HasToken'
    BY <1>2 DEF HasToken
  <2> QED BY <1>2, <2>1, <2>2, <2>3 DEF Places
<1>7. place = "word" => c = last_char /\ c \in LetterOrDigit /\ c \in 0..127 /\ c \notin 48..57
  BY LooksAtWord, Zenon
<1>8. place = "number" => c \in 48..57 \cup {46}
  BY LooksAtNumber, Zenon
<1>9. identifier_str' \in Seq(0..127)
  <2>1. CASE place # "word"
    BY <2>1 DEF LexerInductive, Typed, TypeOK
  <2>2. CASE place = "word"
    <3>1. identifier_str' = <<last_char>> /\ last_char \in 0..127
      BY <1>7, <2>2
    <3> QED BY <3>1
  <2> QED BY <2>1, <2>2
<1>10. Typed'
  BY <1>1, <1>2, <1>9 DEF LexerInductive, Typed, TypeOK
<1>11. Reads'
  <2>1. \A i \in n..n : i = n
    BY <1>1
  <2>2. /\ place = "word" => /\ Len(identifier_str') = 1 /\ identifier_str'[1] = last_char
        /\ n + 1 - 1 = n /\ 1 = n - n + 1 /\ \A i \in 1..1 : i = 1
    BY <1>1
  <2>3. first' = n /\ seen' = seen /\ Len(seen') = n
    BY <1>2
  <2> HIDE DEF n
  <2>4. /\ \A i \in first'..Len(seen') : i = n
        /\ Len(seen') - first' + 1 = 1
        /\ first' + 1 - 1 = n
    BY <2>1, <2>2, <2>3
  <2> QED BY <1>1, <1>2, <1>7, <1>8, <2>2, <2>3, <2>4 DEF Reads
<1> QED BY <1>5, <1>6, <1>10, <1>11 DEF LexerInductive

LEMMA BeginKeeps ==
    ASSUME LexerInductive, BeginToken
    PROVE  LexerInductive'
<1>1. /\ pc = "space" /\ ~isspace(last_char) /\ cur_loc' = lex_loc /\ first' = Len(seen)
      /\ UNCHANGED <<last, text, loads>>
  BY DEF BeginToken
<1>2. \/ /\ is_identifier_first_char(last_char) /\ identifier_str' = <<last_char>>
         /\ Goto("word") /\ NoAdvance
      \/ is_number_char(last_char) /\ Goto("number") /\ NoAdvance /\ UNCHANGED identifier_str
      \/ last_char = 35 /\ Goto("comment") /\ NoAdvance /\ UNCHANGED identifier_str
      \/ ReportEof
      \/ /\ last_char \notin {35, EOF} /\ ReturnToken(last_char) /\ advance
         /\ UNCHANGED identifier_str
  BY Zenon DEF BeginToken
<1>3. /\ seen # <<>> /\ Len(seen) \in Nat \ {0} /\ Look \in -1..255 /\ last_char = AsChar(Look)
      /\ lex_loc = LocationOf(Len(seen)) /\ lex_loc \in Location
  BY <1>1, BeginsAtLook
<1>4. CASE is_identifier_first_char(last_char) /\ identifier_str' = <<last_char>>
              /\ Goto("word") /\ NoAdvance
  <2>1. is_identifier_char(last_char)
    BY <1>4 DEF is_identifier_first_char, is_identifier_char
  <2> QED BY <1>1, <1>4, <2>1, NotEof, LongTokenBegins
<1>5. CASE is_number_char(last_char) /\ Goto("number") /\ NoAdvance /\ UNCHANGED identifier_str
  BY <1>1, <1>5, NotEof, LongTokenBegins
<1>6. CASE last_char = 35 /\ Goto("comment") /\ NoAdvance /\ UNCHANGED identifier_str
  <2>1. last_char # EOF
    BY <1>6 DEF EOF
  <2> QED BY <1>1, <1>6, <2>1, LongTokenBegins
<1>7. CASE ReportEof
  <2>1. /\ last_char = EOF /\ cur_tok' = tok_eof /\ pc' = "idle"
        /\ UNCHANGED <<input_buffer, last_char, lex_loc, seen, identifier_str>>
    BY <1>7 DEF ReportEof, ReturnToken, NoAdvance
  <2>2. Typed'
    <3>1. tok_eof \in -128..127
      BY DEF tok_eof
    <3> QED BY <1>1, <1>3, <2>1, <3>1 DEF LexerInductive, Typed, TypeOK
  <2>3. LooksAhead'
    BY <1>3, <2>1 DEF LexerInductive, LooksAhead, Look
  <2>4. Places'
    <3>1. lex_loc' = LocationOf(Len(seen))'
      BY <1>3, <2>1, SameLocation
    <3>2. first' \in 0..Len(seen')
      BY <1>1, <1>3, <2>1
    <3> QED BY <2>1, <3>1, <3>2 DEF Places, HasToken
  <2>5. Reads'
    BY <2>1 DEF Reads
  <2> QED BY <2>2, <2>3, <2>4, <2>5 DEF LexerInductive
<1>8. CASE /\ last_char \notin {35, EOF} /\ ReturnToken(last_char) /\ advance
           /\ UNCHANGED identifier_str
  <2>1. /\ cur_tok' = last_char /\ pc' = "idle" /\ last_char # EOF
    BY <1>8 DEF ReturnToken
  <2>2. /\ cur_tok' \in -128..127 \cup {tok_not_initialized} /\ identifier_str' \in Seq(0..127)
        /\ cur_loc' \in Location /\ first' \in 0..Len(seen)
    BY <1>1, <1>3, <1>8, <2>1 DEF LexerInductive, Typed, TypeOK
  <2>3. /\ Moved /\ Typed' /\ seen' # <<>> /\ last_char' = AsChar(Look')
        /\ \A i \in 1..(Len(seen') - 1) : AsChar(seen'[i]) # EOF
        /\ first' \in 0..Len(seen')
    BY <1>1, <1>8, <2>1, <2>2, AfterAdvance
  <2>4. LooksAhead'
    BY <2>1, <2>3 DEF LooksAhead, EOF, tok_eof
  <2>5. Places'
    <3>1. LocationOf(first)' = LocationOf(Len(seen))
      <4>1. \A i \in 0..Len(seen) : LocationOf(i)' = LocationOf(i)
        BY <2>3 DEF Moved
      <4> QED BY <1>1, <2>2, <4>1
    <3>2. first' >= 1 /\ first' < Len(seen')
      BY <1>1, <1>3, <2>3 DEF Moved
    <3> QED BY <1>1, <1>3, <2>1, <2>3, <3>1, <3>2 DEF Places, Moved
  <2>6. Reads'
    BY <2>1 DEF Reads
  <2> QED BY <2>3, <2>4, <2>5, <2>6 DEF LexerInductive
<1> QED BY <1>2, <1>4, <1>5, <1>6, <1>7, <1>8

LEMMA CallKeeps ==
    ASSUME LexerInductive, get_next_token
    PROVE  LexerInductive'
<1>1. /\ pc = "idle" /\ loads > 0 /\ pc' = "space"
      /\ last' = IF cur_tok = tok_not_initialized THEN 0 ELSE Len(seen) - 1
      /\ UNCHANGED <<input_buffer, last_char, lex_loc, seen, cur_tok, cur_loc, identifier_str,
                     first, text, loads>>
  BY DEF get_next_token, Goto, NoAdvance
<1>2. seen \in Seq(-1..255) /\ Len(seen) \in Nat
  BY LenProperties DEF LexerInductive, Typed, TypeOK
<1>3. last' \in -1..Len(seen)
  BY <1>1, <1>2
<1>4. Typed'
  <2>1. loads # 0
    BY <1>1
  <2> QED BY <1>1, <1>3, <2>1 DEF LexerInductive, Typed, TypeOK
<1>5. LooksAhead'
  BY <1>1 DEF LexerInductive, LooksAhead, Look
<1>6. Places'
  <2>1. lex_loc' = LocationOf(Len(seen))'
    BY <1>1, SameLocation DEF LexerInductive, Places
  <2> QED BY <1>1, <2>1 DEF LexerInductive, Places, HasToken
<1>7. Reads'
  BY <1>1 DEF Reads
<1> QED BY <1>4, <1>5, <1>6, <1>7 DEF LexerInductive

LEMMA LoadKeeps ==
    ASSUME LexerInductive, Load
    PROVE  LexerInductive'
<1>1. /\ pc = "idle" /\ loads < MaxLoads /\ loads' = loads + 1
      /\ UNCHANGED <<last_char, lex_loc, cur_loc, cur_tok, identifier_str, pc, seen, first, last>>
  BY DEF Load, lexer
<1>2. PICK source \in Sources, content \in BoundedSeq(Bytes, MaxText) :
         /\ load_input_to_buffer(source, content)
         /\ text' = [source |-> source, content |-> content, from |-> Len(seen)]
  BY DEF Load
<1>3. content \in Seq(Bytes) /\ content \in Seq(0..255)
  BY Texts
<1>4. /\ input_buffer \in Seq(0..255) /\ seen \in Seq(-1..255) /\ Len(seen) \in Nat
      /\ loads \in 0..MaxLoads /\ MaxLoads \in Nat
  BY LexerAssumption, LenProperties DEF LexerInductive, Typed, TypeOK
<1>5. input_buffer' \in Seq(0..255)
  <2>1. source \in {"string", "file", "stdin"}
    BY LexerAssumption
  <2>2. /\ FirstWord(content) \in Seq(0..255) /\ FileContent(content) \in Seq(0..255)
        /\ StringContent(content) \in Seq(0..255)
        /\ StringContent(FirstWord(content)) \in Seq(0..255)
    <3>1. Newline \in 0..255 /\ 45 \in 0..255 /\ 49 \in 0..255
      BY DEF Newline
    <3> DEFINE S == 0..255
    <3>2. Newline \in S /\ 45 \in S /\ 49 \in S /\ content \in Seq(S)
      BY <1>3, <3>1
    <3> HIDE DEF S
    <3>3. /\ FirstWord(content) \in Seq(S) /\ FileContent(content) \in Seq(S)
          /\ StringContent(content) \in Seq(S)
          /\ StringContent(FirstWord(content)) \in Seq(S)
      BY <3>2, Loaded
    <3> QED BY <3>3 DEF S
  <2>4. CASE source = "string"
    BY <1>2, <2>2, <2>4 DEF load_input_to_buffer, string_to_buffer
  <2>5. CASE source = "file"
    <3>1. input_buffer' = input_buffer \o FileContent(content)
      BY <1>2, <2>5 DEF load_input_to_buffer, file_to_buffer
    <3> QED BY <1>4, <2>2, <3>1, ConcatProperties
  <2>6. CASE source = "stdin"
    BY <1>2, <1>4, <2>2, <2>6 DEF load_input_to_buffer, string_to_buffer
  <2> QED BY <2>1, <2>4, <2>5, <2>6
<1>6. Typed'
  <2>1. text' \in TextType /\ text'.from \in 0..Len(seen') /\ text'.source = source
    BY <1>1, <1>2, <1>3, <1>4 DEF TextType
  <2>2. source # "none"
    BY LexerAssumption
  <2>3. loads' \in 0..MaxLoads /\ loads' # 0
    BY <1>1, <1>4
  <2> QED BY <1>1, <1>5, <2>1, <2>2, <2>3 DEF LexerInductive, Typed, TypeOK
<1>7. LooksAhead'
  BY <1>1 DEF LexerInductive, LooksAhead, Look
<1>8. Places'
  <2>1. lex_loc' = LocationOf(Len(seen))' /\ cur_loc' = cur_loc /\ LocationOf(first)' = LocationOf(first)
    BY <1>1, SameLocation DEF LexerInductive, Places
  <2> QED BY <1>1, <2>1 DEF LexerInductive, Places, HasToken
<1>9. Reads'
  BY <1>1 DEF Reads
<1> QED BY <1>6, <1>7, <1>8, <1>9 DEF LexerInductive

LEMMA LexerStutters ==
    ASSUME LexerInductive, UNCHANGED vars
    PROVE  LexerInductive'
<1>1. UNCHANGED <<input_buffer, last_char, lex_loc, cur_loc, cur_tok, identifier_str, pc, seen,
                  first, last, text, loads>>
  BY DEF vars, lexer
<1>2. Typed' /\ LooksAhead' /\ Reads'
  BY <1>1 DEF LexerInductive, Typed, TypeOK, LooksAhead, Look, Reads
<1>3. Places'
  <2>1. lex_loc' = LocationOf(Len(seen))' /\ cur_loc' = cur_loc /\ LocationOf(first)' = LocationOf(first)
    BY <1>1, SameLocation DEF LexerInductive, Places
  <2> QED BY <1>1, <2>1 DEF LexerInductive, Places, HasToken
<1> QED BY <1>2, <1>3 DEF LexerInductive

LEMMA LexerStarts ==
    ASSUME Init
    PROVE  LexerInductive
<1>1. seen = <<>> /\ Len(seen) = 0 /\ first = 0 /\ pc = "idle" /\ cur_tok = tok_not_initialized
      /\ last_char = 32
  BY DEF Init
<1>2. \A i : i \notin 1..0 /\ i \notin 1..(0 - 1)
  OBVIOUS
<1>3. Typed
  <2>1. 0 \in 0..0 /\ 0 \in -1..0 /\ 0 \in 0..MaxLoads
    BY LexerAssumption
  <2>2. text \in TextType
    BY DEF Init, TextType
  <2> QED BY <1>1, <2>1, <2>2 DEF Init, Typed, TypeOK, Location
<1>4. LooksAhead
  <2>1. cur_tok # tok_eof
    BY <1>1 DEF tok_eof, tok_not_initialized
  <2> QED BY <1>1, <1>2, <2>1 DEF LooksAhead
<1>5. Places
  <2>1. LineEnds(0) = {}
    BY <1>2 DEF LineEnds
  <2>2. LocationOf(0) = [line |-> 0, col |-> 0]
    BY <2>1, FS_EmptySet DEF LocationOf
  <2>3. ~HasToken
    BY <1>1 DEF HasToken
  <2> QED BY <1>1, <2>2, <2>3 DEF Places, Init
<1>6. Reads
  BY <1>1 DEF Reads
<1> QED BY <1>3, <1>4, <1>5, <1>6 DEF LexerInductive

LEMMA LexerKept ==
    ASSUME LexerInductive, [Next]_vars
    PROVE  LexerInductive'
BY SpaceKeeps, BeginKeeps, WordKeeps, NumberKeeps, CommentKeeps, CallKeeps, LoadKeeps, LexerStutters
   DEF Next, gettok

(* However often and however a text is loaded between two tokens, the      *)
(* look-ahead is the last character delivered, nothing is read after the   *)
(* end of the input, and a token is read from the place it begins at.      *)
THEOREM LexerInvariant == Spec => []LexerInductive
BY LexerStarts, LexerKept, PTL DEF Spec

(* Every variable keeps its type.                                          *)
THEOREM TypeCorrect == Spec => []TypeOK
<1>1. LexerInductive => TypeOK
  BY DEF LexerInductive, Typed
<1> QED BY <1>1, LexerInvariant, PTL

(* The location of a token is the line and column of its first character,  *)
(* whatever was skipped on the way to it.                                  *)
THEOREM TokenLocated == Spec => []LocationIsTokenStart
<1>1. LexerInductive => LocationIsTokenStart
  BY DEF LexerInductive, Places, LocationIsTokenStart
<1> QED BY <1>1, LexerInvariant, PTL

LEMMA EofStays ==
    ASSUME LexerInductive, [Next]_vars, cur_tok = tok_eof
    PROVE  cur_tok' = tok_eof
<1>1. last_char = EOF /\ pc \in {"idle", "space"} /\ ~isspace(last_char)
      /\ ~is_identifier_first_char(last_char) /\ ~is_number_char(last_char) /\ last_char # 35
  <2>1. last_char = EOF /\ pc \in {"idle", "space"}
    BY DEF LexerInductive, LooksAhead
  <2> QED BY <2>1 DEF isspace, is_identifier_first_char, is_number_char, isalpha, isdigit, EOF
<1>2. CASE BeginToken
  BY <1>1, <1>2 DEF BeginToken, ReportEof, ReturnToken
<1>3. CASE SkipSpace \/ ReadWord \/ ReadNumber \/ SkipComment
  BY <1>1, <1>3 DEF SkipSpace, ReadWord, ReadNumber, SkipComment
<1>4. CASE get_next_token \/ Load \/ UNCHANGED vars
  BY <1>4 DEF get_next_token, Load, Goto, vars, lexer
<1> QED BY <1>2, <1>3, <1>4 DEF Next, gettok

(* Once the end of the input has been reported it is reported for ever.    *)
THEOREM EofIsFinal == Spec => NothingFollowsEof
<1>1. LexerInductive /\ [Next]_vars => [cur_tok = tok_eof => cur_tok' = tok_eof]_vars
  BY EofStays
<1> QED BY <1>1, LexerInvariant, PTL DEF Spec, NothingFollowsEof

-----------------------------------------------------------------------------
(* What a step does to the characters delivered and to those in the        *)
(* buffer.                                                                 *)

LEMMA StepKinds ==
    ASSUME LexerInductive, [Next]_vars
    PROVE  \/ Load
           \/ advance /\ last_char # EOF /\ UNCHANGED <<text, loads>>
           \/ UNCHANGED <<input_buffer, last_char, seen, text, loads>>
<1>1. pc \in {"word", "number"} => last_char # EOF
  BY NotEof DEF LexerInductive, LooksAhead
<1>2. CASE SkipSpace
  BY <1>2, NotEof DEF SkipSpace
<1>3. CASE BeginToken
  BY <1>3, NotEof DEF BeginToken, NoAdvance, ReportEof
<1>4. CASE ReadWord
  BY <1>1, <1>4 DEF ReadWord
<1>5. CASE ReadNumber
  BY <1>1, <1>5 DEF ReadNumber
<1>6. CASE SkipComment
  BY <1>6 DEF SkipComment, LexerInductive, LooksAhead
<1>7. CASE get_next_token
  BY <1>7 DEF get_next_token, NoAdvance
<1>8. CASE UNCHANGED vars
  BY <1>8 DEF vars, lexer
<1> QED BY <1>2, <1>3, <1>4, <1>5, <1>6, <1>7, <1>8 DEF Next, gettok

(* t is what follows the first n characters of s, and is continued in b.   *)
Follows(t, n, s, b) ==
    \A i \in 1..Len(t) :
        IF i <= Len(s) - n THEN s[n + i] = t[i]
        ELSE i - (Len(s) - n) <= Len(b) /\ b[i - (Len(s) - n)] = t[i]

Rest(b) == IF b = <<>> THEN <<>> ELSE Tail(b)

(* A character read moves from the buffer to those delivered.              *)
LEMMA ReadOn ==
    ASSUME NEW S, NEW B, NEW t, Len(t) \in Nat, NEW s \in Seq(S), NEW b \in Seq(B),
           NEW n \in 0..Len(s), Follows(t, n, s, b),
           NEW c \in S, b # <<>> => c = Head(b)
    PROVE  /\ Follows(t, n, Append(s, c), Rest(b))
           /\ Len(Append(s, c)) = Len(s) + 1
           /\ Len(b) \in Nat
           /\ Len(Rest(b)) = IF b = <<>> THEN 0 ELSE Len(b) - 1
<1> DEFINE d == Len(s) - n
           r == Append(s, c)
           q == Rest(b)
<1>1. /\ r \in Seq(S) /\ Len(s) \in Nat /\ Len(r) = Len(s) + 1 /\ r[Len(s) + 1] = c
      /\ \A i \in 1..Len(s) : r[i] = s[i]
  BY Pushed
<1>2. d \in Nat /\ n \in Nat /\ Len(s) = n + d /\ Len(r) - n = d + 1
  BY <1>1
<1>3. b # <<>> => /\ Tail(b) \in Seq(B) /\ Len(Tail(b)) = Len(b) - 1 /\ Head(b) = b[1]
                  /\ \A i \in 1..(Len(b) - 1) : Tail(b)[i] = b[i + 1]
  BY HeadTailProperties
<1>4. /\ q \in Seq(B) /\ Len(q) = IF b = <<>> THEN 0 ELSE Len(b) - 1
  BY <1>3 DEF Rest
<1>5. Len(b) \in Nat /\ (b = <<>> <=> Len(b) = 0)
  BY EmptySeq
<1>9. b # <<>> => q = Tail(b)
  BY DEF Rest
<1> HIDE DEF r, q
<1>6. ASSUME NEW i \in 1..Len(t)
      PROVE  IF i <= Len(s) - n THEN s[n + i] = t[i]
             ELSE i - (Len(s) - n) <= Len(b) /\ b[i - (Len(s) - n)] = t[i]
  BY DEF Follows
<1>7. ASSUME NEW i \in 1..Len(t)
      PROVE  IF i <= d + 1 THEN r[n + i] = t[i]
             ELSE i - (d + 1) <= Len(q) /\ q[i - (d + 1)] = t[i]
  <2> HIDE DEF d
  <2>1. IF i <= d THEN s[n + i] = t[i] ELSE i - d <= Len(b) /\ b[i - d] = t[i]
    BY <1>6 DEF d
  <2>2. CASE i <= d
    <3>1. n + i \in 1..Len(s) /\ i <= d + 1
      BY <1>2, <2>2
    <3> QED BY <1>1, <2>1, <2>2, <3>1
  <2>3. CASE i = d + 1
    <3>1. i - d = 1 /\ ~(i <= d) /\ n + i = Len(s) + 1
      BY <1>2, <2>3
    <3>2. b # <<>> /\ b[1] = t[i]
      BY <1>5, <2>1, <3>1
    <3> QED BY <1>1, <1>3, <2>3, <3>1, <3>2
  <2>4. CASE i > d + 1
    <3>1. /\ ~(i <= d) /\ ~(i <= d + 1) /\ i - d = (i - (d + 1)) + 1
          /\ i - (d + 1) \in Nat \ {0}
      BY <1>2, <2>4
    <3>2. b # <<>> /\ Len(q) = Len(b) - 1 /\ i - d <= Len(b) /\ b[i - d] = t[i]
      BY <1>4, <1>5, <2>1, <3>1
    <3>3. i - (d + 1) <= Len(q) /\ i - (d + 1) \in 1..(Len(b) - 1)
      BY <1>5, <3>1, <3>2
    <3> QED BY <1>3, <1>9, <3>1, <3>2, <3>3
  <2>5. i <= d \/ i = d + 1 \/ i > d + 1
    BY <1>2
  <2> QED BY <2>2, <2>3, <2>4, <2>5, Zenon
<1>8. Follows(t, n, r, q)
  BY <1>2, <1>7 DEF Follows
<1> QED BY <1>1, <1>4, <1>5, <1>8 DEF r, q

(* A text just loaded into an empty buffer, or at its beginning.           *)
LEMMA JustLoaded ==
    ASSUME NEW s, Len(s) \in Nat, NEW t, Len(t) \in Nat, NEW b, Len(b) >= Len(t), Len(b) \in Nat,
           \A i \in 1..Len(t) : b[i] = t[i]
    PROVE  Follows(t, Len(s), s, b)
<1>1. \A i \in 1..Len(t) : i - 0 = i /\ ~(i <= 0) /\ i <= Len(b)
  OBVIOUS
<1>2. Len(s) - Len(s) = 0
  OBVIOUS
<1> QED BY <1>1, <1>2 DEF Follows

(* What a character read does to a text that is being delivered.           *)
LEMMA Delivering ==
    ASSUME LexerInductive, advance, NEW t, Len(t) \in Nat,
           Follows(t, text.from, seen, input_buffer)
    PROVE  /\ Follows(t, text.from, seen', input_buffer')
           /\ Len(seen) \in Nat /\ Len(seen') = Len(seen) + 1
           /\ Len(input_buffer) \in Nat
           /\ Len(input_buffer') = IF input_buffer = <<>> THEN 0 ELSE Len(input_buffer) - 1
           /\ input_buffer = <<>> => last_char' = EOF
<1> DEFINE S == -1..255
           B == 0..255
           c == get_char
           n == text.from
           r == seen'
           q == input_buffer'
<1>1. /\ seen \in Seq(S) /\ input_buffer \in Seq(B) /\ n \in 0..Len(seen)
      /\ Len(seen) \in Nat
  BY LenProperties DEF LexerInductive, Typed, TypeOK
<1>2. r = Append(seen, c) /\ q = Rest(input_buffer)
  BY DEF advance, Rest
<1>3. c \in S
  <2>1. CASE input_buffer = <<>>
    BY <2>1 DEF get_char, EOF
  <2>2. CASE input_buffer # <<>>
    <3>1. Head(input_buffer) \in 0..255
      BY <1>1, <2>2, HeadTailProperties
    <3> QED BY <2>2, <3>1 DEF get_char
  <2> QED BY <2>1, <2>2
<1>4. input_buffer # <<>> => c = Head(input_buffer)
  BY DEF get_char
<1>5. input_buffer = <<>> => last_char' = EOF
  BY DEF advance, get_char, AsChar, EOF
<1>6. Follows(t, n, seen, input_buffer)
  OBVIOUS
<1> HIDE DEF S, B, c, r, q
<1>7. /\ Follows(t, n, r, q) /\ Len(r) = Len(seen) + 1
      /\ Len(input_buffer) \in Nat
      /\ Len(q) = IF input_buffer = <<>> THEN 0 ELSE Len(input_buffer) - 1
  <2> HIDE DEF n
  <2>1. /\ Follows(t, n, Append(seen, c), Rest(input_buffer))
        /\ Len(Append(seen, c)) = Len(seen) + 1
        /\ Len(input_buffer) \in Nat
        /\ Len(Rest(input_buffer)) = IF input_buffer = <<>> THEN 0 ELSE Len(input_buffer) - 1
    BY <1>1, <1>3, <1>4, <1>6, ReadOn
  <2> QED BY <1>2, <2>1
<1> QED BY <1>1, <1>5, <1>7 DEF r, q

-----------------------------------------------------------------------------
(* The whole text, when it is loaded into an empty buffer.                 *)

(* No text comes from the standard input, of which only a word is read,    *)
(* and a file is not added to what is left of another text.                *)
WholeTexts ==
    /\ "stdin" \notin Sources
    /\ "file" \in Sources => MaxLoads = 1

Whole == Follows(text.content, text.from, seen, input_buffer)

LEMMA ContentLength == LexerInductive => Len(text.content) \in Nat
<1>1. LexerInductive => text.content \in Seq(Bytes)
  BY DEF LexerInductive, Typed, TextType
<1> QED BY <1>1, LenProperties

LEMMA WholeLoaded ==
    ASSUME WholeTexts, LexerInductive, Load
    PROVE  Whole'
<1>1. PICK source \in Sources, content \in BoundedSeq(Bytes, MaxText) :
         /\ load_input_to_buffer(source, content)
         /\ text' = [source |-> source, content |-> content, from |-> Len(seen)]
  BY DEF Load
<1>2. content \in Seq(0..255) /\ Len(seen) \in Nat /\ UNCHANGED seen
  BY Texts, LenProperties DEF Load, LexerInductive, Typed, TypeOK
<1> DEFINE S == 0..255
<1>3. Newline \in S /\ 45 \in S /\ 49 \in S
  BY DEF Newline
<1> HIDE DEF S
<1>4. /\ content \in Seq(S) /\ Len(content) \in Nat
      /\ StringContent(content) \in Seq(S)
      /\ Len(StringContent(content)) = Len(content) + 3
      /\ \A i \in 1..Len(content) : StringContent(content)[i] = content[i]
      /\ FileContent(content) \in Seq(S)
      /\ Len(FileContent(content)) >= Len(content)
      /\ \A i \in 1..Len(content) : FileContent(content)[i] = content[i]
  <2>1. content \in Seq(S)
    BY <1>2 DEF S
  <2> QED BY <1>3, <2>1, Contents
<1>5. /\ Len(input_buffer') \in Nat /\ Len(input_buffer') >= Len(content)
      /\ \A i \in 1..Len(content) : input_buffer'[i] = content[i]
  <2>1. CASE source = "string"
    <3>1. input_buffer' = StringContent(content)
      BY <1>1, <2>1 DEF load_input_to_buffer, string_to_buffer
    <3> QED BY <1>4, <3>1
  <2>2. CASE source = "file"
    <3>1. input_buffer = <<>>
      <4>1. MaxLoads = 1 /\ loads < MaxLoads /\ loads \in Nat
        BY <2>2, LexerAssumption DEF WholeTexts, Load, LexerInductive, Typed, TypeOK
      <4>2. loads = 0
        BY <4>1
      <4> QED BY <4>2 DEF LexerInductive, Typed
    <3>2. input_buffer' = FileContent(content)
      <4>1. input_buffer' = input_buffer \o FileContent(content)
        BY <1>1, <2>2 DEF load_input_to_buffer, file_to_buffer
      <4> QED BY <1>4, <3>1, <4>1, ConcatEmptySeq
    <3> QED BY <1>4, <3>2, LenProperties
  <2> QED BY <2>1, <2>2, LexerAssumption DEF WholeTexts
<1> DEFINE b == input_buffer'
<1>6. Follows(content, Len(seen), seen, b)
  <2> HIDE DEF b
  <2>1. Len(b) \in Nat /\ Len(b) >= Len(content) /\ \A i \in 1..Len(content) : b[i] = content[i]
    BY <1>5 DEF b
  <2> QED BY <1>2, <1>4, <2>1, JustLoaded
<1> QED BY <1>1, <1>2, <1>6 DEF Whole

LEMMA WholeKept ==
    ASSUME WholeTexts, LexerInductive, Whole, [Next]_vars
    PROVE  Whole'
<1>1. CASE Load
  BY <1>1, WholeLoaded
<1>2. CASE advance /\ UNCHANGED text
  <2> DEFINE t == text.content
  <2>1. Len(t) \in Nat /\ Follows(t, text.from, seen, input_buffer)
    BY ContentLength DEF Whole
  <2>2. t' = t /\ text' = text
    BY <1>2
  <2> HIDE DEF t
  <2>3. Follows(t, text.from, seen', input_buffer')
    BY <1>2, <2>1, Delivering
  <2> QED BY <2>2, <2>3 DEF Whole, t
<1>3. CASE UNCHANGED <<input_buffer, seen, text>>
  BY <1>3 DEF Whole
<1> QED BY <1>1, <1>2, <1>3, StepKinds

LEMMA PrefixDelivered ==
    ASSUME NEW S, NEW s \in Seq(S), NEW b \in Seq(S), NEW t \in Seq(S), NEW n \in 0..Len(s),
           Follows(t, n, s, b)
    PROVE  IsPrefix(t, [i \in 1..(Len(s) - n) |-> s[n + i]] \o b)
<1> DEFINE d == Len(s) - n
           g == [i \in 1..d |-> s[n + i]]
           w == g \o b
           m == Len(t)
<1>1. Len(s) \in Nat /\ Len(b) \in Nat /\ m \in Nat /\ d \in Nat /\ n \in Nat /\ Len(s) = n + d
  <2>1. Len(s) \in Nat /\ Len(b) \in Nat /\ m \in Nat
    BY LenProperties
  <2> QED BY <2>1
<1>2. g \in Seq(S) /\ Len(g) = d /\ \A i \in 1..d : g[i] = s[n + i]
  <2>1. \A i \in 1..d : s[n + i] \in S
    <3>1. \A i \in 1..d : n + i \in 1..Len(s)
      BY <1>1
    <3> QED BY <3>1, ElementOfSeq
  <2>2. g \in [1..d -> S]
    BY <2>1
  <2>3. g \in UNION {[1..k -> S] : k \in Nat}
    BY <1>1, <2>2, Zenon
  <2>4. g \in Seq(S)
    BY <2>3, SeqDef, Zenon
  <2>5. DOMAIN g = 1..d
    OBVIOUS
  <2> HIDE DEF d, g
  <2>6. Len(g) = d
    BY <1>1, <2>4, <2>5, LenProperties
  <2> QED BY <2>4, <2>6 DEF g
<1> HIDE DEF g
<1>3. /\ w \in Seq(S) /\ Len(w) = d + Len(b)
      /\ \A i \in 1..(d + Len(b)) : w[i] = IF i <= d THEN g[i] ELSE b[i - d]
  <2> HIDE DEF d
  <2> QED BY <1>2, ConcatProperties
<1>4. ASSUME NEW i \in 1..m PROVE i \in 1..(d + Len(b)) /\ w[i] = t[i]
  <2>1. IF i <= d THEN s[n + i] = t[i] ELSE i - d <= Len(b) /\ b[i - d] = t[i]
    BY DEF Follows
  <2> HIDE DEF d, m, w
  <2>2. CASE i <= d
    <3>1. i \in 1..d /\ i \in 1..(d + Len(b))
      BY <1>1, <2>2
    <3> QED BY <1>2, <1>3, <2>1, <2>2, <3>1
  <2>3. CASE ~(i <= d)
    <3>1. i \in 1..(d + Len(b))
      BY <1>1, <2>1, <2>3
    <3> QED BY <1>3, <2>1, <2>3, <3>1
  <2> QED BY <2>2, <2>3
<1> HIDE DEF d, w, m
<1>5. m <= Len(w)
  <2>1. CASE m = 0
    BY <1>1, <1>3, <2>1
  <2>2. CASE m # 0
    <3>1. m \in 1..m
      BY <1>1, <2>2
    <3>2. m \in 1..(d + Len(b))
      BY <1>4, <3>1
    <3> QED BY <1>1, <1>3, <3>2
  <2> QED BY <2>1, <2>2
<1>6. m \in 0..m /\ m \in 0..Len(w)
  BY <1>1, <1>3, <1>5
<1>7. SubSeq(t, 1, m) = SubSeq(w, 1, m)
  <2>1. \A i \in 1..m : t[i] = w[i]
    BY <1>4
  <2> QED BY <1>3, <1>6, <2>1, SamePrefix DEF m
<1>8. IsPrefix(t, w)
  BY <1>5, <1>7 DEF IsPrefix, m
<1> QED BY <1>8 DEF w, g, d

(* Every character of the text is, or has been, in the buffer.             *)
THEOREM TextIsWhole ==
    ASSUME WholeTexts
    PROVE  Spec => []LoadsWholeText
<1>1. Init => Whole
  <2>1. Init => Len(text.content) = 0
    BY DEF Init
  <2>2. \A i : i \notin 1..0
    OBVIOUS
  <2> QED BY <2>1, <2>2 DEF Whole, Follows
<1>2. LexerInductive /\ Whole /\ [Next]_vars => Whole'
  BY WholeKept
<1>3. LexerInductive /\ Whole => LoadsWholeText
  <2> SUFFICES ASSUME LexerInductive, Whole PROVE LoadsWholeText
    OBVIOUS
  <2> DEFINE S == -1..255
  <2>1. /\ seen \in Seq(S) /\ input_buffer \in Seq(0..255) /\ text.content \in Seq(Bytes)
        /\ text.from \in 0..Len(seen) /\ 0..255 \subseteq S /\ Bytes \subseteq S
    BY LexerAssumption DEF LexerInductive, Typed, TypeOK, TextType
  <2> HIDE DEF S
  <2>2. input_buffer \in Seq(S) /\ text.content \in Seq(S)
    BY <2>1, SeqMonotonic
  <2> DEFINE t == text.content
             n == text.from
  <2>3. Follows(t, n, seen, input_buffer)
    BY DEF Whole
  <2>4. t \in Seq(S) /\ n \in 0..Len(seen)
    BY <2>1, <2>2
  <2>5. LoadsWholeText <=> IsPrefix(t, [i \in 1..(Len(seen) - n) |-> seen[n + i]] \o input_buffer)
    BY DEF LoadsWholeText
  <2> HIDE DEF t, n
  <2> QED BY <2>1, <2>2, <2>3, <2>4, <2>5, PrefixDelivered
<1> QED BY <1>1, <1>2, <1>3, LexerInvariant, PTL DEF Spec

-----------------------------------------------------------------------------
(* A string that replaces a text.                                          *)

(* What is left of the string is in the buffer and nothing else is; when   *)
(* nothing is left, the end of the input is the look-ahead.                *)
Carried ==
    text.source = "string" =>
        LET whole == StringContent(text.content)
            taken == Len(seen) - text.from
        IN /\ Follows(whole, text.from, seen, input_buffer)
           /\ taken <= Len(whole) => Len(input_buffer) = Len(whole) - taken
           /\ taken > Len(whole) => taken = Len(whole) + 1 /\ last_char = EOF

LEMMA StringOf ==
    ASSUME LexerInductive
    PROVE  /\ StringContent(text.content) \in Seq(-1..255)
           /\ Len(StringContent(text.content)) \in Nat
<1>1. text.content \in Seq(Bytes) /\ Bytes \subseteq -1..255
  BY LexerAssumption DEF LexerInductive, Typed, TextType
<1> DEFINE S == -1..255
<1>2. Bytes \subseteq S /\ Newline \in S /\ 45 \in S /\ 49 \in S
  BY <1>1 DEF Newline
<1> HIDE DEF S
<1>3. text.content \in Seq(S)
  BY <1>1, <1>2, SeqMonotonic
<1>4. StringContent(text.content) \in Seq(S)
  BY <1>2, <1>3, Loaded
<1> QED BY <1>4, LenProperties DEF S

LEMMA CarriedLoaded ==
    ASSUME LexerInductive, Load
    PROVE  Carried'
<1> SUFFICES ASSUME text'.source = "string" PROVE Carried'
  BY DEF Carried
<1>1. PICK source \in Sources, content \in BoundedSeq(Bytes, MaxText) :
         /\ load_input_to_buffer(source, content)
         /\ text' = [source |-> source, content |-> content, from |-> Len(seen)]
  BY DEF Load
<1> DEFINE w == StringContent(content)
           b == input_buffer'
           n == Len(seen)
<1>2. b = w /\ source = "string"
  BY <1>1 DEF load_input_to_buffer, string_to_buffer
<1>3. n \in Nat /\ UNCHANGED seen
  BY LenProperties DEF Load, LexerInductive, Typed, TypeOK
<1>4. Len(w) \in Nat
  <2>1. content \in Seq(0..255)
    BY Texts
  <2> DEFINE S == 0..255
  <2>2. Newline \in S /\ 45 \in S /\ 49 \in S /\ content \in Seq(S)
    BY <2>1 DEF Newline
  <2> HIDE DEF S
  <2>3. w \in Seq(S)
    BY <2>2, Loaded
  <2> QED BY <2>3, LenProperties
<1>5. Follows(w, n, seen, b)
  <2> HIDE DEF w, b
  <2>1. Len(b) \in Nat /\ Len(b) >= Len(w) /\ \A i \in 1..Len(w) : b[i] = w[i]
    BY <1>2, <1>4
  <2> QED BY <1>3, <1>4, <2>1, JustLoaded DEF n
<1>6. n - n = 0 /\ 0 <= Len(w) /\ Len(w) - 0 = Len(w) /\ ~(0 > Len(w))
  BY <1>3, <1>4
<1>7. /\ StringContent(text'.content) = w /\ text'.from = n /\ seen' = seen
  BY <1>1, <1>3
<1> HIDE DEF w, n
<1>8. Len(seen) = n
  BY DEF n
<1> QED BY <1>2, <1>5, <1>6, <1>7, <1>8 DEF Carried, b

LEMMA CarriedKept ==
    ASSUME LexerInductive, Carried, [Next]_vars
    PROVE  Carried'
<1>1. CASE Load
  BY <1>1, CarriedLoaded
<1>2. CASE advance /\ last_char # EOF /\ UNCHANGED text
  <2> SUFFICES ASSUME text'.source = "string" PROVE Carried'
    BY DEF Carried
  <2> DEFINE w == StringContent(text.content)
             n == text.from
             d == Len(seen) - n
  <2>1. Len(w) \in Nat
    BY StringOf
  <2>2. /\ Follows(w, n, seen, input_buffer)
        /\ d <= Len(w) => Len(input_buffer) = Len(w) - d
        /\ d > Len(w) => d = Len(w) + 1 /\ last_char = EOF
    BY <1>2 DEF Carried
  <2>3. n \in 0..Len(seen) /\ seen \in Seq(-1..255) /\ input_buffer \in Seq(0..255)
    BY DEF LexerInductive, Typed, TypeOK
  <2>4. StringContent(text'.content) = w /\ text'.from = n /\ text'.source = "string"
    BY <1>2
  <2> HIDE DEF w
  <2>5. /\ Follows(w, n, seen', input_buffer')
        /\ Len(seen) \in Nat /\ Len(seen') = Len(seen) + 1
        /\ Len(input_buffer) \in Nat
        /\ Len(input_buffer') = IF input_buffer = <<>> THEN 0 ELSE Len(input_buffer) - 1
        /\ input_buffer = <<>> => last_char' = EOF
    BY <1>2, <2>1, <2>2, Delivering
  <2>6. d \in Nat /\ d <= Len(w) /\ Len(input_buffer) = Len(w) - d /\ Len(seen') - n = d + 1
    BY <1>2, <2>1, <2>2, <2>3, <2>5
  <2>7. input_buffer = <<>> <=> Len(input_buffer) = 0
    BY <2>3, EmptySeq
  <2> HIDE DEF d, n
  <2> DEFINE e == Len(seen') - n
  <2>8. /\ e <= Len(w) => Len(input_buffer') = Len(w) - e
        /\ e > Len(w) => e = Len(w) + 1 /\ last_char' = EOF
    <3>1. CASE d = Len(w)
      BY <2>1, <2>5, <2>6, <2>7, <3>1
    <3>2. CASE d < Len(w)
      BY <2>1, <2>5, <2>6, <2>7, <3>2
    <3> QED BY <2>1, <2>6, <3>1, <3>2
  <2> QED BY <2>4, <2>5, <2>8 DEF Carried
<1>3. CASE UNCHANGED <<input_buffer, last_char, seen, text>>
  BY <1>3 DEF Carried
<1> QED BY <1>1, <1>2, <1>3, StepKinds

LEMMA LargerOfTwo ==
    ASSUME NEW x \in Int, NEW y \in Int
    PROVE  Max({x, y}) = IF x >= y THEN x ELSE y
<1> DEFINE m == CHOOSE k \in {x, y} : \A j \in {x, y} : k >= j
<1>1. \E k \in {x, y} : \A j \in {x, y} : k >= j
  OBVIOUS
<1>2. m \in {x, y} /\ m >= x /\ m >= y
  BY <1>1
<1>3. Max({x, y}) = m
  BY DEF Max
<1> HIDE DEF m
<1> QED BY <1>2, <1>3

LEMMA Middle ==
    ASSUME NEW S, NEW s \in Seq(S), NEW a \in Nat \ {0}, NEW k \in Nat, a + k - 1 <= Len(s)
    PROVE  /\ SubSeq(s, a, a + k - 1) \in Seq(S)
           /\ Len(SubSeq(s, a, a + k - 1)) = k
           /\ \A i \in 1..k : SubSeq(s, a, a + k - 1)[i] = s[a + i - 1]
<1> DEFINE e == a + k - 1
<1>1. Len(s) \in Nat
  BY LenProperties
<1>2. e \in Int /\ a \in Int /\ (IF a <= e THEN e - a + 1 ELSE 0) = k /\ e - a + 1 = k
  OBVIOUS
<1>3. \A i \in a..e : i \in 1..Len(s)
  BY <1>1
<1> HIDE DEF e
<1>4. \A i \in a..e : s[i] \in S
  BY <1>3, ElementOfSeq
<1>5. /\ SubSeq(s, a, e) \in Seq(S)
      /\ Len(SubSeq(s, a, e)) = IF a <= e THEN e - a + 1 ELSE 0
      /\ \A i \in 1..(e - a + 1) : SubSeq(s, a, e)[i] = s[a + i - 1]
  BY <1>2, <1>4, SubSeqProperties
<1>6. /\ SubSeq(s, a, e) \in Seq(S) /\ Len(SubSeq(s, a, e)) = k
      /\ \A i \in 1..k : SubSeq(s, a, e)[i] = s[a + i - 1]
  BY <1>2, <1>5
<1> QED BY <1>6 DEF e

LEMMA CarriedShown ==
    ASSUME LexerInductive, Carried, HasToken, text.source = "string", first >= text.from
    PROVE  OneCharacterCarriedOver
<1> DEFINE w == StringContent(text.content)
           n == text.from
           m == Len(seen)
           d == m - n
           S == -1..255
<1>1. w \in Seq(S) /\ Len(w) \in Nat
  BY StringOf
<1>2. seen \in Seq(S) /\ m \in Nat /\ n \in 0..m /\ n \in Nat /\ first \in Nat /\ first < m /\ first >= n
      /\ first >= 1
  BY LenProperties DEF LexerInductive, Typed, TypeOK, Places
<1>3. Follows(w, n, seen, input_buffer) /\ (d > Len(w) => d = Len(w) + 1)
  BY DEF Carried
<1> DEFINE a == Max({first, n + 1})
           c == Max({first - n, 1})
           k == m - a
           new == SubSeq(seen, a, m - 1)
<1>4. OneCharacterCarriedOver <=> new = SubSeq(w, c, c + Len(new) - 1)
  BY DEF OneCharacterCarriedOver
<1> HIDE DEF w, S, m, n
<1>5. /\ a \in Nat \ {0} /\ c \in Nat \ {0} /\ a = n + c /\ a <= m
  <2>1. first \in Int /\ n + 1 \in Int /\ first - n \in Int /\ 1 \in Int
    BY <1>2
  <2>2. /\ a = (IF first >= n + 1 THEN first ELSE n + 1)
        /\ c = (IF first - n >= 1 THEN first - n ELSE 1)
    BY <2>1, LargerOfTwo
  <2> HIDE DEF a, c
  <2> QED BY <1>2, <2>2
<1>6. Len(seen) = m
  BY DEF m
<1> HIDE DEF a, c
<1>7. /\ k \in Nat /\ a + k - 1 = m - 1 /\ m - 1 <= m /\ c + k - 1 = d - 1
      /\ d - 1 <= Len(w) /\ d \in Nat
  BY <1>1, <1>2, <1>3, <1>5
<1>8. ASSUME NEW i \in 1..k PROVE seen[a + i - 1] = w[c + i - 1]
  <2> DEFINE j == c + i - 1
  <2>1. j \in 1..Len(w) /\ j <= d /\ n + j = a + i - 1
    BY <1>1, <1>2, <1>5, <1>7
  <2> HIDE DEF j
  <2>2. seen[n + j] = w[j]
    BY <1>3, <1>6, <2>1 DEF Follows
  <2> QED BY <2>1, <2>2 DEF j
<1> HIDE DEF k, d
<1>9. /\ SubSeq(seen, a, a + k - 1) = SubSeq(w, c, c + k - 1)
      /\ Len(SubSeq(seen, a, a + k - 1)) = k
  <2>1. a + k - 1 <= Len(seen) /\ c + k - 1 <= Len(w)
    BY <1>6, <1>7
  <2> DEFINE x == SubSeq(seen, a, a + k - 1)
             y == SubSeq(w, c, c + k - 1)
  <2>2. x \in Seq(S) /\ Len(x) = k /\ \A i \in 1..k : x[i] = seen[a + i - 1]
    BY <1>2, <1>5, <1>7, <2>1, Middle
  <2>3. y \in Seq(S) /\ Len(y) = k /\ \A i \in 1..k : y[i] = w[c + i - 1]
    BY <1>1, <1>5, <1>7, <2>1, Middle
  <2> HIDE DEF x, y
  <2>4. \A i \in 1..k : x[i] = y[i]
    BY <1>8, <2>2, <2>3
  <2>5. x = y
    BY <2>2, <2>3, <2>4, SeqEqual
  <2> QED BY <2>2, <2>5 DEF x, y
<1>10. new = SubSeq(w, c, c + k - 1) /\ Len(new) = k
  BY <1>7, <1>9
<1> HIDE DEF new
<1> QED BY <1>4, <1>10

(* However a string replaces a text, in the middle of a token or after its *)
(* end, only the look-ahead is still of the old text.                      *)
THEOREM CarriedOver == Spec => []OneCharacterCarriedOver
<1>1. Init => Carried
  BY DEF Init, Carried
<1>2. LexerInductive /\ Carried /\ [Next]_vars => Carried'
  BY CarriedKept
<1>3. LexerInductive /\ Carried => OneCharacterCarriedOver
  <2>1. ~(HasToken /\ text.source = "string" /\ first >= text.from) => OneCharacterCarriedOver
    BY DEF OneCharacterCarriedOver
  <2> QED BY <2>1, CarriedShown
<1> QED BY <1>1, <1>2, <1>3, LexerInvariant, PTL DEF Spec

-----------------------------------------------------------------------------
(* The meaning of a token, of a text in 7-bit characters: of any other     *)
(* character the token is the code as a signed char.                       *)

Ascii == Bytes \subseteq 0..127

PlainText == input_buffer \in Seq(0..127) /\ seen \in Seq(-1..127)

LEMMA PlainKept ==
    ASSUME Ascii, LexerInductive, PlainText, [Next]_vars
    PROVE  PlainText'
<1>1. CASE Load
  <2>1. PICK source \in Sources, content \in BoundedSeq(Bytes, MaxText) :
           load_input_to_buffer(source, content)
    BY <1>1 DEF Load
  <2> DEFINE S == 0..127
  <2>2. Bytes \subseteq S /\ Newline \in S /\ 45 \in S /\ 49 \in S
    BY DEF Ascii, Newline
  <2>3. input_buffer \in Seq(S) /\ UNCHANGED seen
    BY <1>1 DEF PlainText, Load
  <2>4. source \in {"string", "file", "stdin"}
    BY LexerAssumption
  <2> HIDE DEF S
  <2>5. content \in Seq(S)
    BY <2>2, Texts, SeqMonotonic
  <2>6. /\ FileContent(content) \in Seq(S) /\ StringContent(content) \in Seq(S)
        /\ StringContent(FirstWord(content)) \in Seq(S)
    BY <2>2, <2>5, Loaded
  <2>7. input_buffer' \in Seq(S)
    <3>1. CASE source = "string"
      BY <2>1, <2>6, <3>1 DEF load_input_to_buffer, string_to_buffer
    <3>2. CASE source = "file"
      <4>1. input_buffer' = input_buffer \o FileContent(content)
        BY <2>1, <3>2 DEF load_input_to_buffer, file_to_buffer
      <4> QED BY <2>3, <2>6, <4>1, ConcatProperties
    <3>3. CASE source = "stdin"
      BY <2>1, <2>3, <2>6, <3>3 DEF load_input_to_buffer, string_to_buffer
    <3> QED BY <2>4, <3>1, <3>2, <3>3
  <2> QED BY <2>3, <2>7 DEF PlainText, S
<1>2. CASE advance
  <2>1. input_buffer \in Seq(0..127) /\ seen \in Seq(-1..127)
    BY DEF PlainText
  <2>2. input_buffer' \in Seq(0..127) /\ get_char \in -1..127
    <3>1. CASE input_buffer = <<>>
      BY <1>2, <3>1 DEF advance, get_char, EOF
    <3>2. CASE input_buffer # <<>>
      <4>1. Head(input_buffer) \in 0..127 /\ Tail(input_buffer) \in Seq(0..127)
        BY <2>1, <3>2, HeadTailProperties
      <4> QED BY <1>2, <3>2, <4>1 DEF advance, get_char
    <3> QED BY <3>1, <3>2
  <2>3. seen' = Append(seen, get_char)
    BY <1>2 DEF advance
  <2>4. seen' \in Seq(-1..127)
    <3> DEFINE c == get_char
    <3> HIDE DEF c
    <3>1. c \in -1..127 /\ seen' = Append(seen, c)
      BY <2>2, <2>3 DEF c
    <3> QED BY <2>1, <3>1, Pushed
  <2> QED BY <2>2, <2>4 DEF PlainText
<1>3. CASE UNCHANGED <<input_buffer, seen>>
  BY <1>3 DEF PlainText
<1> QED BY <1>1, <1>2, <1>3, StepKinds

(* What a token is when gettok has read one character past its end.        *)
TokenOf(word, look, token) ==
    LET c == word[1]
    IN IF c \in LetterOrDigit \ 48..57
       THEN /\ Range(word) \subseteq LetterOrDigit
            /\ look \notin LetterOrDigit
            /\ token = WordToken(word)
       ELSE IF c \in 48..57 \cup {46}
       THEN /\ Range(word) \subseteq 48..57 \cup {46}
            /\ look \notin 48..57 \cup {46}
            /\ token = tok_float_literal
       ELSE word = <<token>>

LEMMA TokenIsIts == TokenIsItsText <=> (HasToken => TokenOf(TokenText, Look, cur_tok))
BY DEF TokenIsItsText, TokenOf

LEMMA WordIsItsText ==
    ASSUME LexerInductive, ReadWord, ~is_identifier_char(last_char')
    PROVE  TokenOf(TokenText', Look', cur_tok')
<1>1. /\ pc = "word" /\ advance
      /\ UNCHANGED <<cur_loc, identifier_str, first, last, text, loads>>
      /\ ReturnToken(WordToken(identifier_str))
  BY DEF ReadWord
<1>2. Moved /\ Len(seen) \in Nat
  <2>1. WordToken(identifier_str) \in -128..127 \ {tok_eof, tok_not_initialized}
    BY WordTokens
  <2> QED BY <1>1, <2>1, TokenReturned
<1> DEFINE n == Len(seen)
           m == Len(identifier_str)
           word == TokenText'
           look == Look'
<1>3. /\ n \in Nat /\ first \in 1..n /\ m = n - first + 1
      /\ \A i \in 1..m : identifier_str[i] = seen[first + i - 1]
      /\ \A i \in first..n : seen[i] \in LetterOrDigit
      /\ seen[first] \notin 48..57
      /\ identifier_str \in Seq(0..127)
  <2>1. first \in 0..n /\ first >= 1
    BY <1>1 DEF LexerInductive, Places
  <2>2. identifier_str \in Seq(0..127)
    BY DEF LexerInductive, Typed, TypeOK
  <2>3. /\ m = n - first + 1
        /\ \A i \in 1..m : identifier_str[i] = seen[first + i - 1]
        /\ \A i \in first..n : seen[i] \in LetterOrDigit
        /\ seen[first] \notin 48..57
    BY <1>1 DEF LexerInductive, Reads
  <2> HIDE DEF n, m
  <2>4. n \in Nat /\ first \in 1..n
    BY <1>2, <2>1 DEF n
  <2> QED BY <2>2, <2>3, <2>4
<1>4. /\ Len(seen') = n + 1 /\ \A i \in 1..n : seen'[i] = seen[i]
      /\ look = seen'[n + 1] /\ look \in -1..255 /\ last_char' = AsChar(look)
  BY <1>2 DEF Moved, Look
<1>5. word = [i \in 1..((n + 1) - first) |-> seen'[first + i - 1]]
  BY <1>1, <1>4 DEF TokenText
<1> HIDE DEF n, word, look
<1>6. word = identifier_str
  <2>1. (n + 1) - first = m /\ m \in Nat \ {0}
    BY <1>3
  <2>2. identifier_str = [i \in 1..m |-> identifier_str[i]]
    BY <1>3, LenProperties
  <2> HIDE DEF m
  <2>3. ASSUME NEW i \in 1..m PROVE identifier_str[i] = seen'[first + i - 1]
    <3>1. first + i - 1 \in 1..n
      BY <1>3, <2>1
    <3> QED BY <1>3, <1>4, <3>1
  <2> QED BY <1>5, <2>1, <2>2, <2>3
<1>7. DOMAIN identifier_str = 1..m /\ m \in Nat \ {0}
  <2>1. m \in Nat \ {0}
    BY <1>3
  <2> QED BY <1>3, <2>1, LenProperties
<1> HIDE DEF m
<1>8. ASSUME NEW i \in 1..m
      PROVE  identifier_str[i] \in LetterOrDigit
  <2>1. first + i - 1 \in first..n
    BY <1>3, <1>7
  <2> QED BY <1>3, <2>1
<1>9. identifier_str[1] \in LetterOrDigit \ 48..57
  <2>1. 1 \in 1..m /\ first + 1 - 1 = first
    BY <1>3, <1>7
  <2> QED BY <1>3, <1>8, <2>1
<1>10. Range(word) \subseteq LetterOrDigit
  BY <1>6, <1>7, <1>8 DEF Range
<1>11. look \notin LetterOrDigit
  <2>1. ~is_identifier_char(AsChar(look)) /\ look \in -1..255
    BY <1>4
  <2> QED BY <2>1, Continuing
<1>12. cur_tok' = WordToken(word)
  BY <1>1, <1>6 DEF ReturnToken
<1>13. TokenOf(word, look, cur_tok')
  BY <1>6, <1>9, <1>10, <1>11, <1>12 DEF TokenOf
<1> QED BY <1>13 DEF word, look

LEMMA NumberIsItsText ==
    ASSUME LexerInductive, ReadNumber, ~is_number_char(last_char')
    PROVE  TokenOf(TokenText', Look', cur_tok')
<1>1. /\ pc = "number" /\ advance
      /\ UNCHANGED <<cur_loc, identifier_str, first, last, text, loads>>
      /\ ReturnToken(tok_float_literal)
  BY DEF ReadNumber
<1>2. Moved /\ Len(seen) \in Nat
  <2>1. tok_float_literal \in -128..127 \ {tok_eof, tok_not_initialized}
    BY DEF tok_float_literal, tok_eof, tok_not_initialized
  <2> QED BY <1>1, <2>1, TokenReturned
<1> DEFINE n == Len(seen)
           m == (n + 1) - first
           word == TokenText'
           look == Look'
           Digits == 48..57 \cup {46}
<1>3. /\ n \in Nat /\ first \in 1..n /\ m \in Nat \ {0}
      /\ \A i \in first..n : seen[i] \in Digits
  <2>1. first \in 0..n /\ first >= 1
    BY <1>1 DEF LexerInductive, Places
  <2>2. \A i \in first..n : seen[i] \in Digits
    BY <1>1 DEF LexerInductive, Reads
  <2> HIDE DEF Digits
  <2> QED BY <1>2, <2>1, <2>2
<1>4. /\ Len(seen') = n + 1 /\ \A i \in 1..n : seen'[i] = seen[i]
      /\ look = seen'[n + 1] /\ look \in -1..255 /\ last_char' = AsChar(look)
  BY <1>2 DEF Moved, Look
<1>5. word = [i \in 1..m |-> seen'[first + i - 1]]
  BY <1>1, <1>4 DEF TokenText
<1> HIDE DEF n, word, look, m
<1>6. ASSUME NEW i \in 1..m PROVE word[i] \in Digits
  <2> HIDE DEF Digits
  <2>1. first + i - 1 \in first..n /\ first + i - 1 \in 1..n
    BY <1>3 DEF m
  <2> QED BY <1>3, <1>4, <1>5, <2>1
<1>7. Range(word) \subseteq Digits /\ 1 \in 1..m
  <2> HIDE DEF Digits
  <2>1. DOMAIN word = 1..m
    BY <1>5
  <2> QED BY <1>3, <1>6, <2>1 DEF Range
<1>8. look \notin Digits
  <2>1. ~is_number_char(AsChar(look)) /\ look \in -1..255
    BY <1>1, <1>4
  <2> QED BY <2>1, Continuing
<1>9. word[1] \in Digits /\ word[1] \notin LetterOrDigit \ 48..57
  <2>1. word[1] \in Digits
    BY <1>6, <1>7
  <2> QED BY <2>1 DEF LetterOrDigit
<1>10. cur_tok' = tok_float_literal
  BY <1>1 DEF ReturnToken
<1>11. TokenOf(word, look, cur_tok')
  BY <1>7, <1>8, <1>9, <1>10 DEF TokenOf
<1> QED BY <1>11 DEF word, look

LEMMA CharacterIsItsText ==
    ASSUME LexerInductive, PlainText, ~isspace(last_char), advance, first' = Len(seen),
           ~is_identifier_first_char(last_char), ~is_number_char(last_char),
           Moved, cur_tok' = last_char
    PROVE  TokenOf(TokenText', Look', cur_tok')
<1> DEFINE n == Len(seen)
           c == seen[n]
           word == TokenText'
           look == Look'
<1>1. n \in Nat \ {0} /\ last_char = AsChar(c) /\ c \in -1..255
  BY BeginsAtLook DEF Look
<1>2. c \in -1..127
  <2>1. n \in 1..n
    BY <1>1
  <2> QED BY <2>1, ElementOfSeq DEF PlainText
<1>3. /\ Len(seen') = n + 1 /\ \A i \in 1..n : seen'[i] = seen[i]
  BY DEF Moved
<1>4. word = [i \in 1..((n + 1) - n) |-> seen'[n + i - 1]]
  BY <1>3 DEF TokenText
<1> HIDE DEF n, c, word, look
<1>5. word = <<c>>
  <2>1. (n + 1) - n = 1 /\ n \in 1..n /\ \A i \in 1..1 : n + i - 1 = n
    BY <1>1
  <2>2. seen'[n] = c
    BY <1>3, <2>1 DEF c
  <2>3. word = [i \in 1..1 |-> c]
    BY <1>4, <2>1, <2>2
  <2> QED BY <2>3
<1>6. c = last_char
  <2>1. AsChar(c) = c
    BY <1>2 DEF AsChar
  <2> QED BY <1>1, <2>1
<1>7. c \notin LetterOrDigit /\ c \notin 48..57 \cup {46}
  <2>1. /\ c \in LetterOrDigit => is_identifier_char(last_char)
        /\ c \in 48..57 \cup {46} => is_number_char(last_char)
    BY <1>1, Continuing
  <2>2. is_identifier_char(last_char) => is_identifier_first_char(last_char) \/ is_number_char(last_char)
    BY DEF is_identifier_char, is_identifier_first_char, is_number_char
  <2> QED BY <2>1, <2>2
<1>8. TokenOf(word, look, cur_tok')
  <2>1. word[1] = c
    BY <1>5
  <2> QED BY <1>5, <1>6, <1>7, <2>1 DEF TokenOf
<1> QED BY <1>8 DEF word, look

LEMMA TokenKept ==
    ASSUME LexerInductive, PlainText, TokenIsItsText, [Next]_vars, HasToken'
    PROVE  TokenOf(TokenText', Look', cur_tok')
<1>1. cur_tok' # tok_eof /\ pc' = "idle"
  BY DEF HasToken
<1>2. CASE SkipSpace \/ get_next_token
  BY <1>1, <1>2 DEF SkipSpace, get_next_token, Goto
<1>3. CASE BeginToken
  <2>1. /\ ~isspace(last_char) /\ first' = Len(seen) /\ pc = "space"
        /\ ~is_identifier_first_char(last_char) /\ ~is_number_char(last_char)
        /\ cur_tok' = last_char /\ advance
    BY <1>1, <1>3 DEF BeginToken, Goto, ReportEof, ReturnToken
  <2>2. Moved
    BY <2>1, Advanced DEF LexerInductive, Places
  <2> QED BY <2>1, <2>2, CharacterIsItsText
<1>4. CASE ReadWord
  <2>1. CASE is_identifier_char(last_char')
    BY <1>1, <1>4, <2>1 DEF ReadWord
  <2> QED BY <1>4, <2>1, WordIsItsText
<1>5. CASE ReadNumber
  <2>1. CASE is_number_char(last_char')
    BY <1>1, <1>5, <2>1 DEF ReadNumber
  <2> QED BY <1>5, <2>1, NumberIsItsText
<1>6. CASE SkipComment
  BY <1>1, <1>6 DEF SkipComment, ReturnToken, Goto
<1>7. CASE Load \/ UNCHANGED vars
  <2>1. UNCHANGED <<pc, cur_tok, seen, first>>
    BY <1>7 DEF Load, vars, lexer
  <2>2. HasToken
    BY <2>1 DEF HasToken
  <2>3. TokenOf(TokenText, Look, cur_tok)
    BY <2>2, TokenIsIts
  <2>4. TokenText' = TokenText /\ Look' = Look
    BY <2>1 DEF TokenText, Look
  <2> QED BY <2>1, <2>3, <2>4
<1> QED BY <1>2, <1>3, <1>4, <1>5, <1>6, <1>7 DEF Next, gettok

(* The token returned is the meaning of the characters it was read from,   *)
(* and could not have been longer.                                         *)
THEOREM TokenIsText ==
    ASSUME Ascii
    PROVE  Spec => []TokenIsItsText
<1>1. Init => PlainText /\ TokenIsItsText
  BY DEF Init, PlainText, TokenIsItsText, HasToken
<1>2. LexerInductive /\ PlainText /\ TokenIsItsText /\ [Next]_vars => (PlainText /\ TokenIsItsText)'
  <2>1. LexerInductive /\ PlainText /\ [Next]_vars => PlainText'
    BY PlainKept
  <2>2. LexerInductive /\ PlainText /\ TokenIsItsText /\ [Next]_vars => TokenIsItsText'
    <3> SUFFICES ASSUME LexerInductive, PlainText, TokenIsItsText, [Next]_vars
                 PROVE  TokenIsItsText'
      OBVIOUS
    <3>1. HasToken' => TokenOf(TokenText', Look', cur_tok')
      BY TokenKept
    <3> QED BY <3>1 DEF TokenIsItsText, TokenOf
  <2> QED BY <2>1, <2>2
<1> QED BY <1>1, <1>2, LexerInvariant, PTL DEF Spec

-----------------------------------------------------------------------------
(* The lexer keeps the promise of LexerSpec, but for that of returning,    *)
(* which is liveness.  It is a promise for one text (MaxLoads = 1).        *)

Input == Delivered \o input_buffer

(* In a text s of which from characters have been taken: i is in a comment, *)
(* only blanks and comments are left up to n, every comment that begins up *)
(* to n has ended at n + 1, and a token begins at i.                       *)
Commented(s, from, i) ==
    \E j \in (from + 1)..i : s[j] = 35 /\ \A k \in j..i : s[k] \notin {10, 13}
Skippable(s, from, n) ==
    \A i \in (from + 1)..n : s[i] \in 9..13 \cup {32} \/ Commented(s, from, i)
Closed(s, from, n) ==
    \A j \in (from + 1)..n : s[j] = 35 => \E k \in j..(n + 1) : s[k] \in {10, 13}
Beginning(s, from, i) ==
    /\ i >= from + 1
    /\ s[i] \notin 9..13 \cup {32} /\ ~Commented(s, from, i)
    /\ Skippable(s, from, i - 1)

(* What gettok has passed since it was called.                             *)
Passed ==
    /\ last_char = EOF => input_buffer = <<>>
    /\ pc = "idle" => (seen = <<>> <=> cur_tok = tok_not_initialized)
    /\ pc # "idle" => last >= 0 /\ IF seen = <<>> THEN last = 0 ELSE last < Len(seen)
    /\ pc = "space" =>
          Skippable(Input, last, Len(seen) - 1) /\ Closed(Input, last, Len(seen) - 1)
    /\ pc = "comment" =>
          /\ first > last
          /\ Input[first] = 35 /\ \A k \in first..Len(seen) : Input[k] \notin {10, 13}
          /\ Skippable(Input, last, Len(seen))
    /\ pc \in {"word", "number"} => Beginning(Input, last, first)

LEMMA SeqOfElements ==
    ASSUME NEW S, NEW T, NEW s \in Seq(T), \A i \in 1..Len(s) : s[i] \in S
    PROVE  s \in Seq(S)
<1>1. Len(s) \in Nat
  BY LenProperties
<1>2. SubSeq(s, 1, Len(s)) \in Seq(S)
  BY <1>1, SubSeqProperties
<1> QED BY <1>2, SubSeqFull

(* What is known of the look-ahead in a text of 7-bit characters.          *)
LEMMA PlainLook ==
    ASSUME LexerInductive, PlainText
    PROVE  /\ seen \in Seq(-1..127) /\ Len(seen) \in Nat
           /\ input_buffer \in Seq(0..127)
           /\ last_char = EOF <=> seen # <<>> /\ Last(seen) = EOF
           /\ seen # <<>> => last_char = Look /\ Look \in -1..127
           /\ \A i \in 1..(Len(seen) - 1) : seen[i] \in 0..127
<1>1. seen \in Seq(-1..127) /\ Len(seen) \in Nat /\ input_buffer \in Seq(0..127)
  BY LenProperties DEF PlainText
<1>2. \A c \in -1..127 : AsChar(c) = c
  BY DEF AsChar
<1>3. \A i \in 1..Len(seen) : seen[i] \in -1..127
  BY <1>1, ElementOfSeq
<1>4. seen # <<>> => last_char = Look /\ Look \in -1..127 /\ Last(seen) = Look
  <2> SUFFICES ASSUME seen # <<>> PROVE last_char = Look /\ Look \in -1..127 /\ Last(seen) = Look
    OBVIOUS
  <2>1. Len(seen) \in 1..Len(seen)
    BY <1>1, EmptySeq
  <2>2. Look \in -1..127
    BY <1>3, <2>1 DEF Look
  <2>3. last_char = AsChar(Look)
    BY DEF LexerInductive, LooksAhead
  <2> QED BY <1>2, <2>2, <2>3 DEF Last, Look
<1>5. \A i \in 1..(Len(seen) - 1) : seen[i] \in 0..127
  <2> SUFFICES ASSUME NEW i \in 1..(Len(seen) - 1) PROVE seen[i] \in 0..127
    OBVIOUS
  <2>1. seen[i] \in -1..127
    BY <1>1, <1>3
  <2>2. AsChar(seen[i]) # -1
    BY DEF LexerInductive, LooksAhead, EOF
  <2> DEFINE c == seen[i]
  <2> HIDE DEF c
  <2>3. c \in -1..127 /\ c # -1
    BY <1>2, <2>1, <2>2 DEF c
  <2>4. c \in 0..127
    BY <2>3
  <2> QED BY <2>4 DEF c
<1>6. last_char = EOF <=> seen # <<>> /\ Last(seen) = EOF
  <2>1. seen = <<>> => last_char = 32
    BY DEF LexerInductive, LooksAhead
  <2> QED BY <1>4, <2>1 DEF EOF
<1> QED BY <1>1, <1>4, <1>5, <1>6

(* The input, as LexerSpec knows it, and the characters delivered.         *)
LEMMA InputIs ==
    ASSUME LexerInductive, PlainText, last_char = EOF => input_buffer = <<>>
    PROVE  /\ Input \in Seq(0..127) /\ Len(Input) \in Nat
           /\ \A i \in 1..(Len(seen) - 1) : i \in 1..Len(Input) /\ Input[i] = seen[i]
           /\ last_char = EOF => Len(Input) = Len(seen) - 1
           /\ last_char # EOF /\ seen # <<>> =>
                 Len(seen) <= Len(Input) /\ Input[Len(seen)] = last_char
           /\ last_char # EOF => Delivered = seen /\ seen \in Seq(0..127)
<1>1. /\ seen \in Seq(-1..127) /\ Len(seen) \in Nat
      /\ input_buffer \in Seq(0..127)
      /\ last_char = EOF <=> seen # <<>> /\ Last(seen) = EOF
      /\ seen # <<>> => last_char = Look /\ Look \in -1..127
      /\ \A i \in 1..(Len(seen) - 1) : seen[i] \in 0..127
  BY PlainLook
<1> DEFINE d == Delivered
<1>2. /\ d \in Seq(0..127) /\ Len(d) \in Nat
      /\ Len(d) = IF last_char = EOF THEN Len(seen) - 1 ELSE Len(seen)
      /\ \A i \in 1..Len(d) : d[i] = seen[i]
      /\ last_char # EOF => d = seen /\ seen \in Seq(0..127)
  <2>1. CASE last_char = EOF
    <3>1. d = Front(seen) /\ seen # <<>>
      BY <1>1, <2>1 DEF Delivered
    <3>2. /\ Len(seen) \in Nat \ {0} /\ Front(seen) \in Seq(-1..127)
          /\ Len(Front(seen)) = Len(seen) - 1
          /\ \A i \in 1..(Len(seen) - 1) : Front(seen)[i] = seen[i]
      BY <1>1, <3>1, Dropped
    <3> HIDE DEF d
    <3>3. Len(d) = Len(seen) - 1 /\ Len(d) \in Nat
      BY <3>1, <3>2
    <3>4. \A i \in 1..Len(d) : d[i] = seen[i] /\ d[i] \in 0..127
      BY <1>1, <3>1, <3>2, <3>3
    <3>5. d \in Seq(0..127)
      <4>1. d \in Seq(-1..127) /\ \A i \in 1..Len(d) : d[i] \in 0..127
        BY <3>1, <3>2, <3>4
      <4> QED BY <4>1, SeqOfElements
    <3> QED BY <2>1, <3>3, <3>4, <3>5
  <2>2. CASE last_char # EOF
    <3>1. d = seen
      BY <1>1, <2>2 DEF Delivered
    <3> HIDE DEF d
    <3>2. \A i \in 1..Len(seen) : seen[i] \in 0..127
      <4> SUFFICES ASSUME NEW i \in 1..Len(seen) PROVE seen[i] \in 0..127
        OBVIOUS
      <4>1. CASE i = Len(seen)
        <5>1. seen # <<>>
          BY <1>1, EmptySeq
        <5> QED BY <1>1, <2>2, <4>1, <5>1 DEF Look, EOF
      <4>2. CASE i # Len(seen)
        BY <1>1, <4>2
      <4> QED BY <4>1, <4>2
    <3>3. seen \in Seq(0..127)
      BY <1>1, <3>2, SeqOfElements
    <3> QED BY <1>1, <2>2, <3>1, <3>3
  <2> QED BY <2>1, <2>2
<1> HIDE DEF d
<1> DEFINE S == 0..127
<1>3. /\ Input \in Seq(0..127) /\ Len(Input) = Len(d) + Len(input_buffer)
      /\ \A i \in 1..(Len(d) + Len(input_buffer)) :
            Input[i] = IF i <= Len(d) THEN d[i] ELSE input_buffer[i - Len(d)]
  <2>1. Input = d \o input_buffer
    BY DEF Input, d
  <2>2. d \in Seq(S) /\ input_buffer \in Seq(S)
    BY <1>1, <1>2
  <2> HIDE DEF S
  <2>3. /\ d \o input_buffer \in Seq(S)
        /\ Len(d \o input_buffer) = Len(d) + Len(input_buffer)
        /\ \A i \in 1..(Len(d) + Len(input_buffer)) :
              (d \o input_buffer)[i] = IF i <= Len(d) THEN d[i] ELSE input_buffer[i - Len(d)]
    BY <2>2, ConcatProperties
  <2> QED BY <2>1, <2>3 DEF S
<1>4. Len(input_buffer) \in Nat
  BY <1>1, LenProperties
<1>5. \A i \in 1..Len(d) : i \in 1..Len(Input) /\ Input[i] = seen[i]
  BY <1>2, <1>3, <1>4
<1>6. last_char = EOF => Len(Input) = Len(seen) - 1
  <2>1. input_buffer = <<>> => Len(input_buffer) = 0
    OBVIOUS
  <2> QED BY <1>2, <1>3, <2>1
<1>7. \A i \in 1..(Len(seen) - 1) : i \in 1..Len(d)
  BY <1>1, <1>2
<1>8. last_char # EOF /\ seen # <<>> => Len(seen) <= Len(Input) /\ Input[Len(seen)] = last_char
  <2> SUFFICES ASSUME last_char # EOF, seen # <<>>
               PROVE  Len(seen) <= Len(Input) /\ Input[Len(seen)] = last_char
    OBVIOUS
  <2>1. Len(seen) \in 1..Len(d)
    BY <1>1, <1>2, EmptySeq
  <2> QED BY <1>1, <1>2, <1>5, <2>1, <1>3, <1>4 DEF Look
<1>9. Len(Input) \in Nat
  BY <1>3, LenProperties
<1> QED BY <1>2, <1>3, <1>5, <1>6, <1>7, <1>8, <1>9 DEF d

(* Reading a character moves it within the input.                          *)
LEMMA InputKept ==
    ASSUME LexerInductive, PlainText, advance, last_char # EOF
    PROVE  /\ Input' = Input
           /\ last_char' = EOF => input_buffer' = <<>> /\ Len(Input) = Len(seen)
           /\ last_char' # EOF =>
                 Len(seen) + 1 <= Len(Input) /\ Input[Len(seen) + 1] = last_char'
<1> DEFINE s == seen
           b == input_buffer
<1>1. s \in Seq(0..127) /\ b \in Seq(0..127) /\ Input = s \o b
  BY InputIs, PlainLook DEF Input
<1>2. seen' = Append(s, get_char) /\ last_char' = AsChar(get_char)
      /\ b' = IF b = <<>> THEN <<>> ELSE Tail(b)
  BY DEF advance
<1>3. CASE b = <<>>
  <2> DEFINE t == Append(s, EOF)
  <2>1. seen' = t /\ b' = <<>>
    BY <1>2, <1>3 DEF get_char
  <2>2. /\ t \in Seq(-1..127) /\ Len(t) = Len(s) + 1 /\ t[Len(s) + 1] = EOF
        /\ \A i \in 1..Len(s) : t[i] = s[i]
    <3>1. s \in Seq(-1..127) /\ EOF \in -1..127
      BY <1>1, SeqMonotonic DEF EOF
    <3> QED BY <3>1, Pushed
  <2> HIDE DEF t
  <2>3. t # <<>> /\ Last(t) = EOF /\ Front(t) = s
    <3>1. Len(s) \in Nat
      BY <1>1, LenProperties
    <3>2. Len(t) # 0
      BY <2>2, <3>1
    <3>3. t # <<>> /\ Last(t) = EOF
      BY <2>2, <3>2 DEF Last
    <3>4. /\ Front(t) \in Seq(-1..127) /\ Len(Front(t)) = Len(s)
          /\ \A i \in 1..Len(s) : Front(t)[i] = s[i]
      BY <2>2, <3>1, <3>3, Dropped
    <3>5. s \in Seq(-1..127)
      BY <1>1, SeqMonotonic
    <3> QED BY <3>3, <3>4, <3>5, SeqEqual
  <2>4. Delivered' = s
    BY <2>1, <2>3 DEF Delivered
  <2>5. last_char' = EOF
    BY <1>2, <1>3 DEF get_char, AsChar, EOF
  <2>6. Input = s /\ Input' = s
    <3>1. s \o <<>> = s
      BY <1>1, ConcatEmptySeq
    <3> QED BY <1>1, <1>3, <2>1, <2>4, <3>1 DEF Input
  <2> QED BY <2>1, <2>5, <2>6
<1>4. CASE b # <<>>
  <2> DEFINE c == Head(b)
             t == Append(s, c)
             r == Tail(b)
  <2>1. seen' = t /\ b' = r /\ last_char' = AsChar(c)
    BY <1>2, <1>4 DEF get_char
  <2>2. /\ c \in 0..127 /\ r \in Seq(0..127) /\ Len(r) = Len(b) - 1
        /\ \A i \in 1..Len(r) : r[i] = b[i + 1]
    BY <1>1, <1>4, HeadTailProperties
  <2>3. b[1] = c
    OBVIOUS
  <2> HIDE DEF c, r
  <2>4. /\ t \in Seq(0..127) /\ Len(t) = Len(s) + 1 /\ t[Len(s) + 1] = c
        /\ \A i \in 1..Len(s) : t[i] = s[i]
    BY <1>1, <2>2, Pushed
  <2> HIDE DEF t
  <2>5. Len(s) \in Nat /\ Len(b) \in Nat \ {0}
    BY <1>1, <1>4, LenProperties, EmptySeq
  <2>6. t \o r = s \o b
    <3> DEFINE x == t \o r
               y == s \o b
    <3>1. /\ x \in Seq(0..127) /\ Len(x) = Len(t) + Len(r)
          /\ \A i \in 1..(Len(t) + Len(r)) : x[i] = IF i <= Len(t) THEN t[i] ELSE r[i - Len(t)]
      BY <2>2, <2>4, ConcatProperties
    <3>2. /\ y \in Seq(0..127) /\ Len(y) = Len(s) + Len(b)
          /\ \A i \in 1..(Len(s) + Len(b)) : y[i] = IF i <= Len(s) THEN s[i] ELSE b[i - Len(s)]
      BY <1>1, ConcatProperties
    <3> HIDE DEF x, y
    <3>3. ASSUME NEW i \in 1..Len(x) PROVE x[i] = y[i]
      <4>1. CASE i <= Len(s)
        <5>1. /\ i \in 1..Len(s) /\ i <= Len(t)
              /\ i \in 1..(Len(t) + Len(r)) /\ i \in 1..(Len(s) + Len(b))
          BY <2>2, <2>4, <2>5, <3>1, <4>1
        <5>2. x[i] = t[i] /\ y[i] = s[i]
          BY <3>1, <3>2, <4>1, <5>1
        <5> QED BY <2>4, <5>1, <5>2
      <4>2. CASE i = Len(s) + 1
        BY <2>2, <2>3, <2>4, <2>5, <3>1, <3>2, <4>2
      <4>3. CASE i > Len(s) + 1
        <5>1. /\ i - Len(t) \in 1..Len(r) /\ (i - Len(t)) + 1 = i - Len(s)
              /\ i \in 1..(Len(t) + Len(r)) /\ i \in 1..(Len(s) + Len(b))
              /\ ~(i <= Len(t)) /\ ~(i <= Len(s))
          BY <2>2, <2>4, <2>5, <3>1, <4>3
        <5>2. x[i] = r[i - Len(t)] /\ y[i] = b[i - Len(s)]
          BY <3>1, <3>2, <5>1
        <5> QED BY <2>2, <5>1, <5>2
      <4> QED BY <2>5, <4>1, <4>2, <4>3
    <3>4. Len(x) = Len(y)
      BY <2>2, <2>4, <2>5, <3>1, <3>2
    <3>5. x = y
      BY <3>1, <3>2, <3>3, <3>4, SeqEqual
    <3> QED BY <3>5 DEF x, y
  <2>7. AsChar(c) = c /\ c # EOF
    BY <2>2 DEF AsChar, EOF
  <2>8. Last(t) = c
    BY <2>4 DEF Last
  <2>9. Delivered' = t
    BY <2>1, <2>7, <2>8 DEF Delivered
  <2>10. Len(s) + 1 <= Len(s \o b) /\ (s \o b)[Len(s) + 1] = c
    <3>1. /\ Len(s \o b) = Len(s) + Len(b)
          /\ \A i \in 1..(Len(s) + Len(b)) :
                (s \o b)[i] = IF i <= Len(s) THEN s[i] ELSE b[i - Len(s)]
      BY <1>1, ConcatProperties
    <3>2. /\ Len(s) + 1 \in 1..(Len(s) + Len(b)) /\ ~(Len(s) + 1 <= Len(s))
          /\ (Len(s) + 1) - Len(s) = 1
      BY <2>5
    <3> QED BY <2>3, <3>1, <3>2
  <2>11. Input' = t \o r
    BY <2>1, <2>9 DEF Input
  <2> QED BY <1>1, <2>1, <2>6, <2>7, <2>10, <2>11
<1> QED BY <1>3, <1>4

(* A blank at the look-ahead, a token, and a comment that begins, goes on  *)
(* and ends there.                                                         *)
LEMMA BlankPassed ==
    ASSUME NEW s, NEW from \in Nat, NEW n \in Int, n >= -1,
           Skippable(s, from, n), Closed(s, from, n), n >= 0 => s[n + 1] \in 9..13 \cup {32}
    PROVE  Skippable(s, from, n + 1) /\ Closed(s, from, n + 1)
<1>1. ASSUME NEW i \in (from + 1)..(n + 1)
      PROVE  i \in (from + 1)..n \/ (i = n + 1 /\ n >= 0)
  OBVIOUS
<1>2. Skippable(s, from, n + 1)
  BY <1>1 DEF Skippable
<1>3. ASSUME NEW j \in (from + 1)..(n + 1), s[j] = 35
      PROVE  \E k \in j..((n + 1) + 1) : s[k] \in {10, 13}
  <2>1. j \in (from + 1)..n
    BY <1>1, <1>3
  <2>2. PICK k \in j..(n + 1) : s[k] \in {10, 13}
    BY <1>3, <2>1 DEF Closed
  <2>3. k \in j..((n + 1) + 1)
    BY <2>1
  <2> QED BY <2>2, <2>3
<1>4. Closed(s, from, n + 1)
  BY <1>3 DEF Closed
<1> QED BY <1>2, <1>4

LEMMA TokenBegins ==
    ASSUME NEW s, NEW from \in Nat, NEW n \in Nat, from <= n,
           Skippable(s, from, n), Closed(s, from, n),
           s[n + 1] \notin 9..13 \cup {32, 35}
    PROVE  Beginning(s, from, n + 1)
<1>1. ~Commented(s, from, n + 1)
  <2> SUFFICES ASSUME NEW j \in (from + 1)..(n + 1), s[j] = 35,
                      \A k \in j..(n + 1) : s[k] \notin {10, 13}
               PROVE  FALSE
    BY DEF Commented
  <2>1. j # n + 1
    OBVIOUS
  <2>2. j \in (from + 1)..n
    BY <2>1
  <2> QED BY <2>2 DEF Closed
<1>2. (n + 1) - 1 = n /\ n + 1 >= from + 1
  OBVIOUS
<1> QED BY <1>1, <1>2 DEF Beginning

LEMMA CommentGoesOn ==
    ASSUME NEW s, NEW from \in Nat, NEW n \in Nat, NEW begin \in (from + 1)..(n + 1),
           s[begin] = 35, \A k \in begin..(n + 1) : s[k] \notin {10, 13},
           Skippable(s, from, n)
    PROVE  Skippable(s, from, n + 1)
<1>1. Commented(s, from, n + 1)
  BY DEF Commented
<1>2. \A i \in (from + 1)..(n + 1) : i \in (from + 1)..n \/ i = n + 1
  OBVIOUS
<1> QED BY <1>1, <1>2 DEF Skippable

LEMMA CommentEnds ==
    ASSUME NEW s, NEW from \in Nat, NEW n \in Nat, s[n + 1] \in {10, 13}
    PROVE  Closed(s, from, n)
<1>1. \A j \in (from + 1)..n : n + 1 \in j..(n + 1)
  OBVIOUS
<1> QED BY <1>1 DEF Closed

LEMMA NothingPassed ==
    ASSUME NEW s, NEW from \in Nat, NEW n \in Int, n <= from
    PROVE  Skippable(s, from, n) /\ Closed(s, from, n)
<1>1. (from + 1)..n = {}
  OBVIOUS
<1> QED BY <1>1 DEF Skippable, Closed

(* What is known in the middle of a call.                                  *)
LEMMA InCall ==
    ASSUME LexerInductive, PlainText, Passed, pc # "idle"
    PROVE  /\ last \in Nat /\ Len(seen) \in Nat /\ first \in 0..Len(seen)
           /\ last <= Len(seen) /\ (seen = <<>> <=> Len(seen) = 0)
           /\ seen # <<>> => last < Len(seen)
           /\ pc \in {"word", "number", "comment"} => seen # <<>> /\ last_char # EOF /\ first >= 1
           /\ seen # <<>> /\ last_char # EOF => Input[Len(seen)] = last_char
<1>1. last \in Nat /\ Len(seen) \in Nat /\ first \in 0..Len(seen)
  BY PlainLook DEF LexerInductive, Typed, TypeOK, Passed, Places
<1>2. seen = <<>> <=> Len(seen) = 0
  BY PlainLook, EmptySeq
<1>3. pc \in {"word", "number", "comment"} => seen # <<>> /\ last_char # EOF /\ first >= 1
  BY NotEof DEF LexerInductive, LooksAhead, Places
<1>4. seen # <<>> /\ last_char # EOF => Input[Len(seen)] = last_char
  BY InputIs DEF Passed
<1>5. last <= Len(seen) /\ (seen # <<>> => last < Len(seen))
  BY <1>1, <1>2 DEF Passed
<1> QED BY <1>1, <1>2, <1>3, <1>4, <1>5

(* What reading a character does to that.                                  *)
LEMMA ReadsOn ==
    ASSUME LexerInductive, PlainText, Passed, advance, last_char # EOF
    PROVE  /\ Input' = Input /\ Len(seen') = Len(seen) + 1 /\ seen' # <<>>
           /\ last_char' = EOF => input_buffer' = <<>> /\ Len(Input) = Len(seen)
           /\ last_char' # EOF =>
                 Len(seen) + 1 <= Len(Input) /\ Input[Len(seen) + 1] = last_char'
<1>1. /\ Input' = Input
      /\ last_char' = EOF => input_buffer' = <<>> /\ Len(Input) = Len(seen)
      /\ last_char' # EOF =>
            Len(seen) + 1 <= Len(Input) /\ Input[Len(seen) + 1] = last_char'
  BY InputKept
<1>2. Moved /\ Len(seen) \in Nat /\ Len(seen') = Len(seen) + 1
  BY Advanced, PlainLook DEF LexerInductive, Places, Moved
<1>3. seen' # <<>>
  <2>1. Len(seen') # 0
    BY <1>2
  <2> QED BY <2>1
<1> QED BY <1>1, <1>2, <1>3

(* Every action keeps Passed.                                              *)
LEMMA SpacePasses ==
    ASSUME LexerInductive, PlainText, Passed, SkipSpace
    PROVE  Passed'
<1>1. pc = "space" /\ pc' = "space" /\ isspace(last_char) /\ advance /\ last' = last
  BY DEF SkipSpace
<1>2. last_char # EOF
  BY <1>1, NotEof
<1>3. /\ Input' = Input /\ Len(seen') = Len(seen) + 1 /\ seen' # <<>>
      /\ last_char' = EOF => input_buffer' = <<>>
  BY <1>1, <1>2, ReadsOn
<1>4. /\ last \in Nat /\ Len(seen) \in Nat /\ last <= Len(seen)
      /\ (seen = <<>> <=> Len(seen) = 0)
      /\ seen # <<>> => Input[Len(seen)] = last_char
  BY <1>1, <1>2, InCall
<1> DEFINE n == Len(seen) - 1
<1>5. n \in Int /\ n >= -1 /\ n + 1 = Len(seen) /\ Len(seen') - 1 = n + 1
  BY <1>3, <1>4
<1>6. Skippable(Input, last, n) /\ Closed(Input, last, n)
  BY <1>1 DEF Passed
<1>7. n >= 0 => Input[n + 1] \in 9..13 \cup {32}
  BY <1>1, <1>4, <1>5 DEF isspace
<1> HIDE DEF n
<1>8. Skippable(Input, last, n + 1) /\ Closed(Input, last, n + 1)
  BY <1>4, <1>5, <1>6, <1>7, BlankPassed
<1>9. last >= 0 /\ last < Len(seen')
  BY <1>3, <1>4
<1> QED BY <1>1, <1>3, <1>5, <1>8, <1>9 DEF Passed

LEMMA BeginPasses ==
    ASSUME LexerInductive, PlainText, Passed, BeginToken
    PROVE  Passed'
<1>1. /\ pc = "space" /\ ~isspace(last_char) /\ first' = Len(seen) /\ last' = last
  BY DEF BeginToken
<1>2. \/ /\ is_identifier_first_char(last_char) \/ is_number_char(last_char)
         /\ pc' \in {"word", "number"} /\ NoAdvance
      \/ last_char = 35 /\ pc' = "comment" /\ NoAdvance
      \/ /\ last_char = EOF /\ cur_tok' = tok_eof /\ pc' = "idle"
         /\ NoAdvance
      \/ /\ last_char # EOF /\ cur_tok' = last_char /\ pc' = "idle" /\ advance
  BY Zenon DEF BeginToken, Goto, ReturnToken, ReportEof
<1>3. /\ last \in Nat /\ Len(seen) \in Nat /\ last <= Len(seen)
      /\ (seen = <<>> <=> Len(seen) = 0)
      /\ seen # <<>> => last < Len(seen)
      /\ seen # <<>> /\ last_char # EOF => Input[Len(seen)] = last_char
  BY <1>1, InCall
<1>4. seen # <<>>
  BY <1>1 DEF LexerInductive, LooksAhead, isspace
<1> DEFINE n == Len(seen) - 1
<1>5. n \in Nat /\ n + 1 = Len(seen) /\ last <= n
  BY <1>3, <1>4
<1>6. Skippable(Input, last, n) /\ Closed(Input, last, n)
  BY <1>1 DEF Passed
<1> HIDE DEF n
<1>7. NoAdvance => /\ Input' = Input /\ seen' = seen /\ last_char' = last_char
                   /\ input_buffer' = input_buffer
  BY DEF NoAdvance, Input, Delivered
<1>8. last_char = EOF => input_buffer = <<>>
  BY DEF Passed
<1>9. CASE /\ is_identifier_first_char(last_char) \/ is_number_char(last_char)
           /\ pc' \in {"word", "number"} /\ NoAdvance
  <2>1. last_char # EOF /\ last_char # 35
    BY <1>9 DEF is_identifier_first_char, is_number_char, isalpha, isdigit, EOF
  <2>2. Input[n + 1] \notin 9..13 \cup {32, 35}
    BY <1>1, <1>3, <1>4, <1>5, <2>1 DEF isspace
  <2>3. Beginning(Input, last, n + 1)
    BY <1>3, <1>5, <1>6, <2>2, TokenBegins
  <2>4. last' >= 0 /\ last' < Len(seen')
    BY <1>1, <1>3, <1>4, <1>7, <1>9
  <2> QED BY <1>1, <1>4, <1>5, <1>7, <1>8, <1>9, <2>3, <2>4 DEF Passed
<1>10. CASE last_char = 35 /\ pc' = "comment" /\ NoAdvance
  <2>1. last_char # EOF
    BY <1>10 DEF EOF
  <2>2. Input[n + 1] = 35 /\ n + 1 \in (last + 1)..(n + 1)
    BY <1>3, <1>4, <1>5, <1>10, <2>1
  <2>3. \A k \in (n + 1)..(n + 1) : Input[k] \notin {10, 13}
    <3>1. \A k \in (n + 1)..(n + 1) : k = n + 1
      BY <1>5
    <3> QED BY <2>2, <3>1
  <2>4. Skippable(Input, last, n + 1)
    BY <1>3, <1>5, <1>6, <2>2, <2>3, CommentGoesOn
  <2>5. last' >= 0 /\ last' < Len(seen') /\ first' > last'
    BY <1>1, <1>3, <1>4, <1>7, <1>10
  <2> QED BY <1>1, <1>4, <1>5, <1>7, <1>8, <1>10, <2>2, <2>3, <2>4, <2>5 DEF Passed
<1>11. CASE last_char = EOF /\ cur_tok' = tok_eof /\ pc' = "idle" /\ NoAdvance
  <2>1. cur_tok' # tok_not_initialized
    BY <1>11 DEF tok_eof, tok_not_initialized
  <2> QED BY <1>4, <1>7, <1>8, <1>11, <2>1 DEF Passed
<1>12. CASE last_char # EOF /\ cur_tok' = last_char /\ pc' = "idle" /\ advance
  <2>1. seen' # <<>> /\ (last_char' = EOF => input_buffer' = <<>>)
    BY <1>12, ReadsOn
  <2>2. cur_tok' # tok_not_initialized
    BY <1>12 DEF LexerInductive, Typed, TypeOK, tok_not_initialized
  <2> QED BY <1>12, <2>1, <2>2 DEF Passed
<1> QED BY <1>2, <1>9, <1>10, <1>11, <1>12

LEMMA TokenPasses ==
    ASSUME LexerInductive, PlainText, Passed, ReadWord \/ ReadNumber
    PROVE  Passed'
<1>1. /\ pc \in {"word", "number"} /\ advance /\ last' = last /\ first' = first
      /\ \/ pc' = pc
         \/ pc' = "idle" /\ cur_tok' # tok_not_initialized
  <2>1. tok_float_literal # tok_not_initialized
    BY DEF tok_float_literal, tok_not_initialized
  <2> QED BY <2>1, WordTokens DEF ReadWord, ReadNumber, ReturnToken
<1>2. last \in Nat /\ Len(seen) \in Nat /\ last <= Len(seen) /\ last_char # EOF
  BY <1>1, InCall
<1>3. /\ Input' = Input /\ Len(seen') = Len(seen) + 1 /\ seen' # <<>>
      /\ last_char' = EOF => input_buffer' = <<>>
  BY <1>1, <1>2, ReadsOn
<1>4. last' >= 0 /\ last' < Len(seen')
  BY <1>1, <1>2, <1>3
<1>5. Beginning(Input, last, first)
  BY <1>1 DEF Passed
<1> QED BY <1>1, <1>3, <1>4, <1>5 DEF Passed

LEMMA CommentPasses ==
    ASSUME LexerInductive, PlainText, Passed, SkipComment
    PROVE  Passed'
<1>1. /\ pc = "comment" /\ advance /\ last' = last /\ first' = first
      /\ \/ last_char' = EOF /\ ReturnToken(tok_eof)
         \/ last_char' # EOF /\ ends_line(last_char') /\ Goto("space")
         \/ last_char' # EOF /\ ~ends_line(last_char') /\ UNCHANGED <<pc, cur_tok>>
  BY CommentCases
<1>2. /\ last \in Nat /\ Len(seen) \in Nat /\ last <= Len(seen) /\ last_char # EOF
      /\ first \in 0..Len(seen)
  BY <1>1, InCall
<1>3. /\ Input' = Input /\ Len(seen') = Len(seen) + 1 /\ seen' # <<>>
      /\ last_char' = EOF => input_buffer' = <<>>
      /\ last_char' # EOF => Input[Len(seen) + 1] = last_char'
  BY <1>1, <1>2, ReadsOn
<1> DEFINE n == Len(seen)
<1>4. /\ first > last /\ Input[first] = 35
      /\ \A k \in first..n : Input[k] \notin {10, 13}
      /\ Skippable(Input, last, n)
  BY <1>1 DEF Passed
<1>5. last' >= 0 /\ last' < Len(seen')
  BY <1>1, <1>2, <1>3
<1> HIDE DEF n
<1>6. CASE last_char' = EOF
  <2>1. ReturnToken(tok_eof)
    BY <1>1, <1>6
  <2>2. pc' = "idle" /\ cur_tok' # tok_not_initialized
    BY <2>1 DEF ReturnToken, tok_eof, tok_not_initialized
  <2> QED BY <1>3, <2>2 DEF Passed
<1>7. CASE last_char' # EOF /\ ends_line(last_char')
  <2>1. pc' = "space"
    BY <1>1, <1>7 DEF Goto
  <2>2. Input[n + 1] \in {10, 13} /\ n \in Nat /\ Len(seen') - 1 = n
    BY <1>2, <1>3, <1>7 DEF ends_line, Newline, Return, n
  <2>3. Closed(Input, last, n)
    BY <1>2, <2>2, CommentEnds
  <2> QED BY <1>1, <1>3, <1>4, <1>5, <1>7, <2>1, <2>2, <2>3 DEF Passed
<1>8. CASE last_char' # EOF /\ ~ends_line(last_char')
  <2>1. pc' = "comment"
    BY <1>1, <1>8
  <2>2. Input[n + 1] \notin {10, 13} /\ n \in Nat /\ Len(seen') = n + 1
    BY <1>2, <1>3, <1>8 DEF ends_line, Newline, Return, n
  <2>3. \A k \in first..(n + 1) : Input[k] \notin {10, 13}
    <3>1. \A k \in first..(n + 1) : k \in first..n \/ k = n + 1
      BY <1>2, <2>2 DEF n
    <3> QED BY <1>4, <2>2, <3>1
  <2>4. first \in (last + 1)..(n + 1)
    BY <1>2, <1>4 DEF n
  <2>5. Skippable(Input, last, n + 1)
    BY <1>2, <1>4, <2>2, <2>3, <2>4, CommentGoesOn
  <2> QED BY <1>1, <1>3, <1>4, <1>5, <1>8, <2>1, <2>2, <2>3, <2>5 DEF Passed
<1> QED BY <1>6, <1>7, <1>8

LEMMA CallPasses ==
    ASSUME LexerInductive, PlainText, Passed, get_next_token
    PROVE  Passed'
<1>1. /\ pc = "idle" /\ pc' = "space"
      /\ last' = IF cur_tok = tok_not_initialized THEN 0 ELSE Len(seen) - 1
      /\ UNCHANGED <<input_buffer, last_char, seen>>
  BY DEF get_next_token, Goto, NoAdvance
<1>2. Input' = Input
  BY <1>1 DEF Input, Delivered
<1>3. Len(seen) \in Nat /\ (seen = <<>> <=> Len(seen) = 0)
  BY PlainLook, EmptySeq
<1>4. seen = <<>> <=> cur_tok = tok_not_initialized
  BY <1>1 DEF Passed
<1>5. /\ last' \in Nat /\ Len(seen) - 1 \in Int /\ Len(seen) - 1 <= last'
      /\ IF seen = <<>> THEN last' = 0 ELSE last' < Len(seen)
  BY <1>1, <1>3, <1>4
<1>6. Skippable(Input, last', Len(seen) - 1) /\ Closed(Input, last', Len(seen) - 1)
  BY <1>5, NothingPassed
<1> QED BY <1>1, <1>2, <1>5, <1>6 DEF Passed

LEMMA LoadPasses ==
    ASSUME MaxLoads = 1, LexerInductive, Passed, Load
    PROVE  Passed' /\ input_buffer = <<>> /\ seen = <<>> /\ cur_tok = tok_not_initialized
<1>1. /\ pc = "idle" /\ loads < MaxLoads
      /\ UNCHANGED <<pc, last_char, seen, cur_tok>>
  BY DEF Load, lexer
<1>2. loads = 0
  BY <1>1 DEF LexerInductive, Typed, TypeOK
<1>3. input_buffer = <<>> /\ seen = <<>>
  BY <1>2 DEF LexerInductive, Typed
<1>4. last_char = 32 /\ cur_tok = tok_not_initialized
  BY <1>3 DEF LexerInductive, LooksAhead
<1> QED BY <1>1, <1>3, <1>4 DEF Passed, EOF

(* The same in the words of LexerSpec.                                     *)
LEMMA Translated ==
    ASSUME pc # "idle", last \in Nat
    PROVE  /\ \A i : Promised!InComment(i) <=> Commented(Input, last, i)
           /\ \A i : i \in 1..Len(Input) /\ Beginning(Input, last, i) => Promised!Begins(i)
           /\ Skippable(Input, last, Len(Input)) =>
                 \A i \in (last + 1)..Len(Input) :
                    Input[i] \in Promised!Blank \/ Promised!InComment(i)
<1>1. \A i : Promised!InComment(i) <=> Commented(Input, last, i)
  BY DEF Promised!InComment, Promised!Hash, Promised!LineEnd, Commented, Input
<1>2. ASSUME NEW i \in 1..Len(Input), Beginning(Input, last, i)
      PROVE  Promised!Begins(i)
  <2>1. i \in (last + 1)..Len(Input)
    BY <1>2 DEF Beginning
  <2>2. Input[i] \notin Promised!Blank /\ ~Promised!InComment(i)
    BY <1>1, <1>2 DEF Beginning, Promised!Blank
  <2>3. \A j \in (last + 1)..(i - 1) : Input[j] \in Promised!Blank \/ Promised!InComment(j)
    BY <1>1, <1>2 DEF Beginning, Skippable, Promised!Blank
  <2> QED BY <2>1, <2>2, <2>3 DEF Promised!Begins, Input
<1>3. Skippable(Input, last, Len(Input)) =>
         \A i \in (last + 1)..Len(Input) : Input[i] \in Promised!Blank \/ Promised!InComment(i)
  BY <1>1 DEF Skippable, Promised!Blank
<1> QED BY <1>1, <1>2, <1>3

LEMMA LocationAgrees ==
    ASSUME NEW i \in 1..Len(Input), \A k \in 1..i : Input[k] = seen[k]
    PROVE  Promised!LocationOf(i) = LocationOf(i)
<1>1. {j \in 1..i : Input[j] \in Promised!LineEnd} = LineEnds(i)
  BY DEF LineEnds, Promised!LineEnd
<1>2. \A S : Promised!Cardinality(S) = Cardinality(S)
  BY DEF Promised!Cardinality, Cardinality
<1>3. \A S : Promised!Max(S) = Max(S)
  BY DEF Promised!Max, Max
<1> QED BY <1>1, <1>2, <1>3 DEF LocationOf, Promised!LocationOf, Input

LEMMA PromisesEof ==
    ASSUME pc # "idle", last \in Nat, pc' = "idle", cur_tok' = tok_eof,
           Input' = Input, Len(seen') - 1 = Len(Input), Skippable(Input, last, Len(Input))
    PROVE  Promised!ReturnEof
<1>1. Promised!Finish
  BY DEF Promised!Finish, Input
<1>2. \A i \in (last + 1)..Len(Input) : Input[i] \in Promised!Blank \/ Promised!InComment(i)
  BY Translated
<1>3. tok_eof # tok_not_initialized
  BY DEF tok_eof, tok_not_initialized
<1> QED BY <1>1, <1>2, <1>3 DEF Promised!ReturnEof, Input

LEMMA PromisesToken ==
    ASSUME pc # "idle", last \in Nat, pc' = "idle", cur_tok' # tok_not_initialized,
           NEW i \in 1..Len(Input), NEW j \in i..Len(Input), Beginning(Input, last, i),
           Promised!Ends(i, j), Input' = Input, Len(seen') - 1 = j,
           cur_tok' = Promised!Token(i, j), cur_loc' = Promised!LocationOf(i)
    PROVE  Promised!ReturnToken
<1>1. Promised!Finish
  BY DEF Promised!Finish, Input
<1>2. Promised!Begins(i)
  BY Translated
<1>3. i \in (last + 1)..Len(Input)
  BY DEF Beginning
<1> QED BY <1>1, <1>2, <1>3 DEF Promised!ReturnToken, Input

LEMMA PromisesNothing ==
    ASSUME pc # "idle", pc' # "idle", last' = last, cur_tok' = cur_tok, Input' = Input
    PROVE  UNCHANGED Promised!vars
BY DEF Promised!vars, Input

(* Up to the look-ahead the input is what has been delivered.              *)
LEMMA SeenInput ==
    ASSUME LexerInductive, PlainText, Passed, pc # "idle", seen # <<>>, last_char # EOF
    PROVE  /\ Len(seen) \in 1..Len(Input) /\ Len(Input) \in Nat
           /\ Input \in Seq(0..127)
           /\ \A k \in 1..Len(seen) : Input[k] = seen[k]
<1>1. /\ Input \in Seq(0..127) /\ Len(Input) \in Nat
      /\ \A k \in 1..(Len(seen) - 1) : Input[k] = seen[k]
      /\ Len(seen) <= Len(Input) /\ Input[Len(seen)] = last_char
  BY InputIs DEF Passed
<1>2. last_char = seen[Len(seen)] /\ Len(seen) \in Nat \ {0}
  BY PlainLook, EmptySeq DEF Look
<1>3. \A k \in 1..Len(seen) : k = Len(seen) \/ k \in 1..(Len(seen) - 1)
  BY <1>2
<1> QED BY <1>1, <1>2, <1>3

(* A token of several characters, with a character read past its end.      *)
LEMMA LongTokenPromised ==
    ASSUME LexerInductive, PlainText, Passed, pc \in {"word", "number"}, advance,
           UNCHANGED <<cur_loc, first, last>>, pc' = "idle", cur_tok' # tok_not_initialized,
           NEW Part, Promised!Continues(Input[first]) = Part,
           \A k \in first..Len(seen) : seen[k] \in Part,
           last_char' # EOF => last_char' \notin Part,
           cur_tok' = Promised!Token(first, Len(seen))
    PROVE  Promised!ReturnToken
<1>1. /\ last \in Nat /\ Len(seen) \in Nat /\ first \in 0..Len(seen) /\ first >= 1
      /\ seen # <<>> /\ last_char # EOF
  BY InCall
<1>2. /\ Len(seen) \in 1..Len(Input) /\ Len(Input) \in Nat
      /\ \A k \in 1..Len(seen) : Input[k] = seen[k]
  BY <1>1, SeenInput
<1>3. /\ Input' = Input /\ Len(seen') = Len(seen) + 1
      /\ last_char' = EOF => Len(Input) = Len(seen)
      /\ last_char' # EOF => Input[Len(seen) + 1] = last_char'
  BY <1>1, ReadsOn
<1> DEFINE i == first
           j == Len(seen)
<1>4. /\ i \in 1..Len(Input) /\ j \in i..Len(Input) /\ Len(seen') - 1 = j
      /\ \A k \in 1..i : k \in 1..j
      /\ \A k \in (i + 1)..j : k \in 1..j /\ k \in i..j
  BY <1>1, <1>2, <1>3
<1>5. Promised!Ends(i, j)
  <2>1. \A k \in (i + 1)..j : Input[k] \in Part
    BY <1>2, <1>4
  <2>2. j < Len(Input) => Input[j + 1] \notin Part
    BY <1>2, <1>3
  <2>3. j \in i..Len(Input)
    BY <1>4
  <2> QED BY <2>1, <2>2, <2>3 DEF Promised!Ends, Input
<1>6. cur_loc' = Promised!LocationOf(i)
  <2>1. cur_loc = LocationOf(i)
    BY DEF LexerInductive, Places
  <2>2. \A k \in 1..i : Input[k] = seen[k]
    BY <1>2, <1>4
  <2>3. i \in 1..Len(Input)
    BY <1>4
  <2> HIDE DEF i
  <2>4. Promised!LocationOf(i) = LocationOf(i)
    BY <2>2, <2>3, LocationAgrees
  <2> QED BY <2>1, <2>4
<1>7. Beginning(Input, last, i)
  BY DEF Passed
<1> HIDE DEF i, j
<1>8. cur_tok' = Promised!Token(i, j)
  BY DEF i, j
<1> QED BY <1>1, <1>3, <1>4, <1>5, <1>6, <1>7, <1>8, PromisesToken

LEMMA WordPromised ==
    ASSUME LexerInductive, PlainText, Passed, ReadWord
    PROVE  Promised!ReturnToken \/ UNCHANGED Promised!vars
<1>1. /\ pc = "word" /\ advance /\ UNCHANGED <<cur_loc, first, last>>
      /\ IF is_identifier_char(last_char')
         THEN UNCHANGED <<pc, cur_tok>>
         ELSE ReturnToken(WordToken(identifier_str))
  BY DEF ReadWord
<1>2. /\ Len(seen) \in Nat /\ first \in 0..Len(seen) /\ first >= 1
      /\ seen # <<>> /\ last_char # EOF
  BY <1>1, InCall
<1>3. CASE is_identifier_char(last_char')
  <2>1. Input' = Input
    BY <1>1, <1>2, ReadsOn
  <2> QED BY <1>1, <1>3, <2>1, PromisesNothing
<1>4. CASE ~is_identifier_char(last_char')
  <2>1. pc' = "idle" /\ cur_tok' = WordToken(identifier_str) /\ cur_tok' # tok_not_initialized
    BY <1>1, <1>4, WordTokens DEF ReturnToken
  <2>2. /\ Len(seen) \in 1..Len(Input) /\ Len(Input) \in Nat /\ Input \in Seq(0..127)
        /\ \A k \in 1..Len(seen) : Input[k] = seen[k]
    BY <1>1, <1>2, SeenInput
  <2>3. /\ Len(identifier_str) = Len(seen) - first + 1
        /\ \A k \in 1..Len(identifier_str) : identifier_str[k] = seen[first + k - 1]
        /\ \A k \in first..Len(seen) : seen[k] \in LetterOrDigit
        /\ seen[first] \notin 48..57
    BY <1>1 DEF LexerInductive, Reads
  <2>4. identifier_str \in Seq(0..127)
    BY DEF LexerInductive, Typed, TypeOK
  <2>5. Input[first] = seen[first] /\ seen[first] \in LetterOrDigit
    BY <1>2, <2>2, <2>3
  <2>6. Input[first] \in Promised!Letter
    BY <2>3, <2>5 DEF Promised!Letter, LetterOrDigit
  <2>7. Promised!Continues(Input[first]) = LetterOrDigit
    <3>1. Promised!WordPart = LetterOrDigit
      BY DEF Promised!WordPart, Promised!Letter, Promised!Digit, LetterOrDigit
    <3> QED BY <2>6, <3>1 DEF Promised!Continues
  <2>8. last_char' \notin LetterOrDigit
    BY <1>4 DEF is_identifier_char, isalpha, isdigit, LetterOrDigit
  <2>9. SubSeq(Input, first, Len(seen)) = identifier_str
    <3> DEFINE x == SubSeq(Input, first, Len(seen))
               n == Len(seen)
    <3>1. /\ first \in Int /\ n \in Int /\ first <= n
          /\ \A k \in first..n : k \in 1..Len(Input)
      BY <1>2, <2>2
    <3>2. \A k \in first..n : Input[k] \in 0..127
      BY <2>2, <3>1, ElementOfSeq
    <3>3. /\ x \in Seq(0..127) /\ Len(x) = n - first + 1
          /\ \A k \in 1..(n - first + 1) : x[k] = Input[first + k - 1]
      BY <3>1, <3>2, SubSeqProperties
    <3>4. \A k \in 1..(n - first + 1) : first + k - 1 \in 1..n
      BY <1>2, <3>1
    <3> HIDE DEF x
    <3>5. \A k \in 1..Len(x) : x[k] = identifier_str[k]
      BY <2>2, <2>3, <3>3, <3>4
    <3>6. x = identifier_str
      BY <2>3, <2>4, <3>3, <3>5, SeqEqual
    <3> QED BY <3>6 DEF x
  <2>10. cur_tok' = Promised!Token(first, Len(seen))
    BY <2>1, <2>6, <2>9 DEF Promised!Token, Input
  <2> QED BY <1>1, <2>1, <2>3, <2>7, <2>8, <2>10, LongTokenPromised
<1> QED BY <1>3, <1>4

LEMMA NumberPromised ==
    ASSUME LexerInductive, PlainText, Passed, ReadNumber
    PROVE  Promised!ReturnToken \/ UNCHANGED Promised!vars
<1>1. /\ pc = "number" /\ advance /\ UNCHANGED <<cur_loc, first, last>>
      /\ IF is_number_char(last_char')
         THEN UNCHANGED <<pc, cur_tok>>
         ELSE ReturnToken(tok_float_literal)
  BY DEF ReadNumber
<1>2. /\ Len(seen) \in Nat /\ first \in 0..Len(seen) /\ first >= 1
      /\ seen # <<>> /\ last_char # EOF
  BY <1>1, InCall
<1>3. CASE is_number_char(last_char')
  <2>1. Input' = Input
    BY <1>1, <1>2, ReadsOn
  <2> QED BY <1>1, <1>3, <2>1, PromisesNothing
<1>4. CASE ~is_number_char(last_char')
  <2> DEFINE Digits == 48..57 \cup {46}
  <2>1. pc' = "idle" /\ cur_tok' = tok_float_literal /\ cur_tok' # tok_not_initialized
    BY <1>1, <1>4 DEF ReturnToken, tok_float_literal, tok_not_initialized
  <2>2. Len(seen) \in 1..Len(Input) /\ \A k \in 1..Len(seen) : Input[k] = seen[k]
    BY <1>1, <1>2, SeenInput
  <2>3. \A k \in first..Len(seen) : seen[k] \in Digits
    BY <1>1 DEF LexerInductive, Reads
  <2>4. Input[first] \in Digits
    <3> HIDE DEF Digits
    <3> QED BY <1>2, <2>2, <2>3
  <2>5. Promised!NumberPart = Digits
    BY DEF Promised!NumberPart, Promised!Digit
  <2>6. Input[first] \notin Promised!Letter
    BY <2>4 DEF Promised!Letter
  <2>7. last_char' \notin Digits
    BY <1>4 DEF is_number_char, isdigit
  <2> HIDE DEF Digits
  <2>8. Promised!Continues(Input[first]) = Digits
    BY <2>4, <2>5, <2>6 DEF Promised!Continues
  <2>9. cur_tok' = Promised!Token(first, Len(seen))
    BY <2>1, <2>4, <2>5, <2>6 DEF Promised!Token, Input
  <2> QED BY <1>1, <2>1, <2>3, <2>7, <2>8, <2>9, LongTokenPromised
<1> QED BY <1>3, <1>4

LEMMA SpacePromised ==
    ASSUME LexerInductive, PlainText, Passed, SkipSpace
    PROVE  UNCHANGED Promised!vars
<1>1. /\ pc = "space" /\ pc' = "space" /\ isspace(last_char) /\ advance
      /\ last' = last /\ cur_tok' = cur_tok
  BY DEF SkipSpace
<1>2. Input' = Input
  <2>1. last_char # EOF
    BY <1>1, NotEof
  <2> QED BY <1>1, <2>1, ReadsOn
<1> QED BY <1>1, <1>2, PromisesNothing

LEMMA BeginPromised ==
    ASSUME LexerInductive, PlainText, Passed, BeginToken
    PROVE  Promised!ReturnToken \/ Promised!ReturnEof \/ UNCHANGED Promised!vars
<1>1. /\ pc = "space" /\ ~isspace(last_char) /\ cur_loc' = lex_loc /\ last' = last
  BY DEF BeginToken
<1>2. \/ pc' # "idle" /\ cur_tok' = cur_tok /\ NoAdvance
      \/ last_char = EOF /\ cur_tok' = tok_eof /\ pc' = "idle" /\ NoAdvance
      \/ /\ ~is_identifier_first_char(last_char) /\ ~is_number_char(last_char)
         /\ last_char \notin {35, EOF} /\ cur_tok' = last_char /\ pc' = "idle" /\ advance
  BY Zenon DEF BeginToken, Goto, ReturnToken, ReportEof
<1>3. /\ last \in Nat /\ Len(seen) \in Nat /\ (seen = <<>> <=> Len(seen) = 0)
      /\ seen # <<>> => last < Len(seen)
  BY <1>1, InCall
<1>4. seen # <<>>
  BY <1>1 DEF LexerInductive, LooksAhead, isspace
<1>5. NoAdvance => Input' = Input /\ seen' = seen
  BY DEF NoAdvance, Input, Delivered
<1>6. Skippable(Input, last, Len(seen) - 1) /\ Closed(Input, last, Len(seen) - 1)
  BY <1>1 DEF Passed
<1>7. CASE pc' # "idle" /\ cur_tok' = cur_tok /\ NoAdvance
  BY <1>1, <1>5, <1>7, PromisesNothing
<1>8. CASE last_char = EOF /\ cur_tok' = tok_eof /\ pc' = "idle" /\ NoAdvance
  <2>1. Len(Input) = Len(seen) - 1
    BY <1>8, InputIs DEF Passed
  <2> QED BY <1>1, <1>3, <1>5, <1>6, <1>8, <2>1, PromisesEof
<1>9. CASE /\ ~is_identifier_first_char(last_char) /\ ~is_number_char(last_char)
           /\ last_char \notin {35, EOF} /\ cur_tok' = last_char /\ pc' = "idle" /\ advance
  <2> DEFINE i == Len(seen)
             c == last_char
  <2>1. /\ i \in 1..Len(Input) /\ Len(Input) \in Nat
        /\ \A k \in 1..i : Input[k] = seen[k]
    BY <1>1, <1>4, <1>9, SeenInput
  <2>2. Input' = Input /\ Len(seen') - 1 = i
    BY <1>3, <1>9, ReadsOn
  <2>3. Input[i] = c
    BY <1>1, <1>4, <1>9, InCall
  <2>4. c \notin 9..13 \cup {32, 35}
    BY <1>1, <1>9 DEF isspace
  <2>5. c \notin Promised!Letter /\ c \notin Promised!NumberPart
    BY <1>9 DEF is_identifier_first_char, is_number_char, isalpha, isdigit,
                Promised!Letter, Promised!NumberPart, Promised!Digit
  <2>6. cur_tok' # tok_not_initialized
    BY <1>9 DEF LexerInductive, Typed, TypeOK, tok_not_initialized
  <2>7. cur_loc' = Promised!LocationOf(i)
    <3>1. lex_loc = LocationOf(i)
      BY DEF LexerInductive, Places
    <3> HIDE DEF i
    <3>2. Promised!LocationOf(i) = LocationOf(i)
      BY <2>1, LocationAgrees
    <3> QED BY <1>1, <3>1, <3>2
  <2>8. Beginning(Input, last, i)
    <3> DEFINE n == i - 1
    <3>1. n \in Nat /\ last <= n /\ n + 1 = i
      BY <1>3, <1>4
    <3>2. Skippable(Input, last, n) /\ Closed(Input, last, n)
      BY <1>6
    <3>3. Input[n + 1] \notin 9..13 \cup {32, 35}
      BY <2>3, <2>4, <3>1
    <3> HIDE DEF n
    <3>4. Beginning(Input, last, n + 1)
      BY <1>3, <3>1, <3>2, <3>3, TokenBegins
    <3> QED BY <3>1, <3>4
  <2> HIDE DEF i, c
  <2>9. Promised!Continues(Input[i]) = {}
    BY <2>3, <2>5 DEF Promised!Continues
  <2>10. Promised!Ends(i, i)
    <3>1. i \in i..Len(Input) /\ (i + 1)..i = {}
      BY <2>1
    <3> QED BY <2>9, <3>1 DEF Promised!Ends, Input
  <2>11. cur_tok' = Promised!Token(i, i)
    BY <1>9, <2>3, <2>5 DEF Promised!Token, Input, c
  <2>12. i \in i..Len(Input)
    BY <2>1
  <2> QED BY <1>1, <1>3, <1>9, <2>1, <2>2, <2>6, <2>7, <2>8, <2>10, <2>11, <2>12, PromisesToken
<1> QED BY <1>2, <1>7, <1>8, <1>9

LEMMA CommentPromised ==
    ASSUME LexerInductive, PlainText, Passed, SkipComment
    PROVE  Promised!ReturnEof \/ UNCHANGED Promised!vars
<1>1. /\ pc = "comment" /\ advance /\ last' = last
      /\ \/ last_char' = EOF /\ ReturnToken(tok_eof)
         \/ last_char' # EOF /\ ends_line(last_char') /\ Goto("space")
         \/ last_char' # EOF /\ ~ends_line(last_char') /\ UNCHANGED <<pc, cur_tok>>
  BY CommentCases
<1>2. last \in Nat /\ Len(seen) \in Nat /\ last_char # EOF
  BY <1>1, InCall
<1>3. /\ Input' = Input /\ Len(seen') = Len(seen) + 1
      /\ last_char' = EOF => Len(Input) = Len(seen)
  BY <1>1, <1>2, ReadsOn
<1>4. CASE last_char' = EOF
  <2>1. ReturnToken(tok_eof)
    BY <1>1, <1>4
  <2>2. pc' = "idle" /\ cur_tok' = tok_eof
    BY <2>1 DEF ReturnToken
  <2>3. Skippable(Input, last, Len(Input)) /\ Len(seen') - 1 = Len(Input)
    BY <1>1, <1>2, <1>3, <1>4 DEF Passed
  <2> QED BY <1>1, <1>2, <1>3, <2>2, <2>3, PromisesEof
<1>5. CASE last_char' # EOF
  <2>1. Goto("space") \/ UNCHANGED <<pc, cur_tok>>
    BY <1>1, <1>5
  <2>2. pc' # "idle" /\ cur_tok' = cur_tok
    BY <1>1, <2>1 DEF Goto
  <2> QED BY <1>1, <1>3, <2>2, PromisesNothing
<1> QED BY <1>4, <1>5

LEMMA CallPromised ==
    ASSUME get_next_token
    PROVE  Promised!Call
<1>1. /\ pc = "idle" /\ pc' = "space"
      /\ last' = IF cur_tok = tok_not_initialized THEN 0 ELSE Len(seen) - 1
      /\ UNCHANGED <<input_buffer, seen, cur_tok>>
  BY DEF get_next_token, Goto, NoAdvance
<1> QED BY <1>1 DEF Promised!Call, Promised!Unknown, Delivered

LEMMA LoadPromised ==
    ASSUME MaxLoads = 1, LexerInductive, PlainText, Passed, PlainText', Load
    PROVE  Promised!Load
<1>1. /\ pc = "idle" /\ UNCHANGED <<pc, seen, cur_tok, cur_loc>>
  BY DEF Load, lexer
<1>2. input_buffer = <<>> /\ seen = <<>>
  BY LoadPasses
<1>3. Delivered = <<>> /\ Delivered' = <<>>
  BY <1>1, <1>2 DEF Delivered
<1>4. input_buffer' \in Seq(0..127)
  BY DEF PlainText
<1>5. Delivered \o input_buffer = <<>> /\ (Delivered \o input_buffer)' = input_buffer'
  <2>1. <<>> \o <<>> = <<>>
    OBVIOUS
  <2>2. <<>> \o input_buffer' = input_buffer'
    BY <1>4, ConcatEmptySeq
  <2> QED BY <1>2, <1>3, <2>1, <2>2
<1>6. IsPrefix(<<>>, input_buffer')
  <2>1. Len(<<>>) = 0 /\ Len(input_buffer') \in Nat
    BY <1>4, LenProperties
  <2>2. SubSeq(<<>>, 1, 0) = <<>> /\ SubSeq(input_buffer', 1, 0) = <<>>
    BY SubSeqEmpty
  <2> QED BY <2>1, <2>2 DEF IsPrefix
<1>7. \A s, t : Promised!IsPrefix(s, t) <=> IsPrefix(s, t)
  BY DEF Promised!IsPrefix, IsPrefix
<1> QED BY <1>1, <1>5, <1>6, <1>7 DEF Promised!Load

LEMMA StepPromised ==
    ASSUME MaxLoads = 1, LexerInductive, PlainText, Passed, PlainText', [Next]_vars
    PROVE  [Promised!Next]_Promised!vars /\ Passed'
<1>1. CASE Load
  BY <1>1, LoadPasses, LoadPromised DEF Promised!Next
<1>2. CASE get_next_token
  BY <1>2, CallPasses, CallPromised DEF Promised!Next
<1>3. CASE SkipSpace
  BY <1>3, SpacePasses, SpacePromised
<1>4. CASE BeginToken
  BY <1>4, BeginPasses, BeginPromised DEF Promised!Next
<1>5. CASE ReadWord
  BY <1>5, TokenPasses, WordPromised DEF Promised!Next
<1>6. CASE ReadNumber
  BY <1>6, TokenPasses, NumberPromised DEF Promised!Next
<1>7. CASE SkipComment
  BY <1>7, CommentPasses, CommentPromised DEF Promised!Next
<1>8. CASE UNCHANGED vars
  BY <1>8 DEF vars, lexer, Passed, Input, Delivered, Promised!vars
<1> QED BY <1>1, <1>2, <1>3, <1>4, <1>5, <1>6, <1>7, <1>8 DEF Next, gettok

LEMMA PromiseStarts ==
    ASSUME Init
    PROVE  Promised!Init /\ Passed
<1>1. <<>> \o <<>> = <<>>
  OBVIOUS
<1>2. Delivered = <<>>
  BY DEF Init, Delivered
<1>3. Promised!Init
  BY <1>1, <1>2 DEF Init, Promised!Init
<1>4. Passed
  BY DEF Init, Passed, EOF
<1> QED BY <1>3, <1>4

(* Of one text in 7-bit characters, however loaded, every call that        *)
(* returns has taken the next token there is, with its place, or reports   *)
(* the end when nothing is left.                                           *)
THEOREM Implements ==
    ASSUME Ascii, MaxLoads = 1
    PROVE  Spec => Promised!Safety
<1>1. Init => PlainText /\ Passed /\ Promised!Init
  BY PromiseStarts DEF Init, PlainText
<1>2. /\ LexerInductive /\ PlainText /\ [Next]_vars => PlainText'
      /\ LexerInductive /\ PlainText /\ Passed /\ [Next]_vars => Passed' /\ [Promised!Next]_Promised!vars
  BY PlainKept, StepPromised
<1> QED BY <1>1, <1>2, LexerInvariant, PTL DEF Spec, Promised!Safety
=============================================================================
