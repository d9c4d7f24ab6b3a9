---------------------------- MODULE StackLemmas ----------------------------
(***************************************************************************)
(* What the proofs about the recursive parts of the program (the parser,   *)
(* the visitors) need to know of a call stack kept as a sequence, and of   *)
(* other sequences that grow and shrink at their end.                      *)
(***************************************************************************)
EXTENDS Integers, SequencesExt, SequenceTheorems, WellFoundedInduction, TLAPS

(* The first m elements of a sequence. *)
LEMMA Prefix ==
    ASSUME NEW S, NEW s \in Seq(S), NEW m \in 0..Len(s)
    PROVE  /\ SubSeq(s, 1, m) \in Seq(S)
           /\ Len(SubSeq(s, 1, m)) = m
           /\ \A i \in 1..m : SubSeq(s, 1, m)[i] = s[i]
<1>1. Len(s) \in Nat
  BY LenProperties
<1>2. m \in Nat /\ m <= Len(s)
  BY <1>1
<1>3. \A i \in 1..m : s[i] \in S
  <2>1. \A i \in 1..m : i \in 1..Len(s)
    BY <1>1, <1>2
  <2> QED BY <2>1, ElementOfSeq
<1>4. /\ SubSeq(s, 1, m) \in Seq(S)
      /\ Len(SubSeq(s, 1, m)) = IF 1 <= m THEN m - 1 + 1 ELSE 0
      /\ \A i \in 1..(m - 1 + 1) : SubSeq(s, 1, m)[i] = s[1 + i - 1]
  BY <1>2, <1>3, SubSeqProperties
<1>5. (IF 1 <= m THEN m - 1 + 1 ELSE 0) = m
  BY <1>2
<1>6. ASSUME NEW i \in 1..m PROVE SubSeq(s, 1, m)[i] = s[i]
  <2>1. i \in 1..(m - 1 + 1) /\ 1 + i - 1 = i
    BY <1>2
  <2> QED BY <1>4, <2>1
<1> QED BY <1>4, <1>5, <1>6

LEMMA SamePrefix ==
    ASSUME NEW S, NEW s \in Seq(S), NEW t \in Seq(S), NEW m \in 0..Len(s), m \in 0..Len(t),
           \A i \in 1..m : s[i] = t[i]
    PROVE  SubSeq(s, 1, m) = SubSeq(t, 1, m)
<1> DEFINE x == SubSeq(s, 1, m)
           y == SubSeq(t, 1, m)
<1>1. /\ x \in Seq(S) /\ Len(x) = m /\ \A i \in 1..m : x[i] = s[i]
      /\ y \in Seq(S) /\ Len(y) = m /\ \A i \in 1..m : y[i] = t[i]
  BY Prefix
<1> HIDE DEF x, y
<1> QED BY <1>1, SeqEqual

(* The call stack when its innermost frame is dropped, replaced, or joined *)
(* by another.                                                             *)

LEMMA Dropped ==
    ASSUME NEW S, NEW s \in Seq(S), s # <<>>
    PROVE  /\ Len(s) \in Nat \ {0}
           /\ Last(s) \in S
           /\ Last(s) = s[Len(s)]
           /\ Front(s) \in Seq(S)
           /\ Len(Front(s)) = Len(s) - 1
           /\ \A i \in 1..(Len(s) - 1) : Front(s)[i] = s[i]
           /\ Front(s) # <<>> => Len(s) > 1 /\ Last(Front(s)) = s[Len(s) - 1]
           /\ Front(s) = <<>> => Len(s) = 1
<1>1. Len(s) \in Nat \ {0}
  BY EmptySeq
<1>2. \A i \in 1..Len(s) : s[i] \in S
  BY ElementOfSeq
<1>3. /\ Front(s) \in Seq(S)
      /\ Len(Front(s)) = Len(s) - 1
      /\ \A i \in 1..(Len(s) - 1) : Front(s)[i] = s[i]
  <2> DEFINE m == Len(s) - 1
  <2>1. m \in 0..Len(s)
    BY <1>1
  <2>2. Front(s) = SubSeq(s, 1, m)
    BY DEF Front
  <2> HIDE DEF m
  <2>3. /\ Front(s) \in Seq(S)
        /\ Len(Front(s)) = m
        /\ \A i \in 1..m : Front(s)[i] = s[i]
    BY <2>1, <2>2, Prefix
  <2> QED BY <2>3 DEF m
<1>4. Last(s) = s[Len(s)] /\ Last(s) \in S
  BY <1>1, <1>2 DEF Last
<1>5. ASSUME Front(s) # <<>> PROVE Len(s) > 1 /\ Last(Front(s)) = s[Len(s) - 1]
  <2>1. Len(Front(s)) \in Nat \ {0}
    BY <1>3, <1>5, EmptySeq
  <2> QED BY <1>1, <1>3, <2>1 DEF Last
<1>6. ASSUME Front(s) = <<>> PROVE Len(s) = 1
  BY <1>1, <1>3, <1>6, EmptySeq
<1> QED BY <1>1, <1>3, <1>4, <1>5, <1>6

LEMMA Pushed ==
    ASSUME NEW S, NEW s \in Seq(S), NEW f \in S
    PROVE  /\ Append(s, f) \in Seq(S)
           /\ Append(s, f) # <<>>
           /\ Len(s) \in Nat
           /\ Len(Append(s, f)) = Len(s) + 1
           /\ Append(s, f)[Len(s) + 1] = f
           /\ \A i \in 1..Len(s) : Append(s, f)[i] = s[i]
           /\ Last(Append(s, f)) = f
BY AppendProperties, LenProperties DEF Last

LEMMA Replaced ==
    ASSUME NEW S, NEW s \in Seq(S), s # <<>>, NEW f \in S
    PROVE  /\ Append(Front(s), f) \in Seq(S)
           /\ Append(Front(s), f) # <<>>
           /\ Len(Append(Front(s), f)) = Len(s)
           /\ Append(Front(s), f)[Len(s)] = f
           /\ \A i \in 1..(Len(s) - 1) : Append(Front(s), f)[i] = s[i]
           /\ Last(Append(Front(s), f)) = f
<1>1. /\ Front(s) \in Seq(S)
      /\ Len(s) \in Nat \ {0}
      /\ Len(Front(s)) = Len(s) - 1
      /\ \A i \in 1..(Len(s) - 1) : Front(s)[i] = s[i]
  BY Dropped
<1> QED BY <1>1, Pushed

LEMMA BelowTop == \A n \in Nat \ {0} : n # 1 => 1 \in 1..(n - 1)
OBVIOUS

(* A set of places in a sequence has a last one.                           *)
LEMMA Largest ==
    ASSUME NEW n \in Nat, NEW T \in SUBSET (1..n), T # {}
    PROVE  Max(T) \in T /\ \A j \in T : j <= Max(T)
<1> DEFINE R == OpToRel(<, Nat)
           U == {n - k : k \in T}
<1>1. IsWellFoundedOn(R, Nat)
  BY NatLessThanWellFounded
<1>0. T \subseteq 1..n /\ \A k \in T : k \in Int /\ n - k \in Nat
  <2>1. \A k \in 1..n : n - k \in Nat
    OBVIOUS
  <2> QED BY <2>1
<1>2. U \subseteq Nat /\ U # {}
  BY <1>0
<1>3. \A x, y \in Nat : <<y, x>> \in R <=> y < x
  BY DEF OpToRel
<1> HIDE DEF R, U
<1>4. \E x \in U : \A y \in U : ~ (<<y, x>> \in R)
  BY <1>1, <1>2, WFMin
<1>5. PICK x \in U : \A y \in U : ~ (y < x)
  BY <1>2, <1>3, <1>4
<1>6. PICK m \in T : x = n - m
  BY DEF U
<1>7. ASSUME NEW j \in T PROVE m >= j
  <2>1. n - j \in U
    BY DEF U
  <2>2. ~(n - j < n - m)
    BY <1>5, <1>6, <2>1
  <2> QED BY <1>0, <2>2
<1>8. Max(T) \in T /\ \A j \in T : Max(T) >= j
  BY <1>7 DEF Max
<1> HIDE DEF Max
<1> QED BY <1>0, <1>8

(* ... and a first one.                                                    *)
LEMMA Smallest ==
    ASSUME NEW n \in Nat, NEW T \in SUBSET (1..n), T # {}
    PROVE  Min(T) \in T /\ \A j \in T : Min(T) <= j
<1> DEFINE R == OpToRel(<, Nat)
<1>1. IsWellFoundedOn(R, Nat)
  BY NatLessThanWellFounded
<1>2. T \subseteq Nat /\ T # {}
  OBVIOUS
<1>3. \A x, y \in Nat : <<y, x>> \in R <=> y < x
  BY DEF OpToRel
<1> HIDE DEF R
<1>4. \E x \in T : \A y \in T : ~ (<<y, x>> \in R)
  BY <1>1, <1>2, WFMin
<1>5. \E x \in T : \A y \in T : x <= y
  <2>1. PICK x \in T : \A y \in T : ~ (<<y, x>> \in R)
    BY <1>4
  <2>2. \A y \in T : ~ (y < x)
    BY <1>2, <1>3, <2>1
  <2>3. \A y \in T : x <= y
    BY <1>2, <2>2
  <2> QED BY <2>3
<1> QED BY <1>5 DEF Min
=============================================================================
