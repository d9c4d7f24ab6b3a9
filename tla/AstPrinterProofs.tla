-------------------------- MODULE AstPrinterProofs --------------------------
(***************************************************************************)
(* Proofs about the walk that prints the tree, for trees of any size: the  *)
(* columns of the brackets, who prints an annotation that is not its own,  *)
(* and which null pointers are dereferenced.                               *)
(***************************************************************************)
EXTENDS AstPrinter, StackLemmas

(* The brackets that the method of a frame has opened and not yet closed. *)
Opened(f) ==
    IF f.at = 0 THEN 0
    ELSE CASE f.kind \in {"binary", "call", "if", "for"} -> 2
           [] f.kind = "var" -> 1
           [] f.kind = "function" -> IF f.at = f.n + 2 THEN 1 ELSE 2
           [] OTHER -> 0

(* The column of the k-th open bracket, when it is one of f. *)
ColumnOf(f, k) == IF f.kind = "var" THEN 0 ELSE INDENT_SIZE * (k - 1)

(* from[i] brackets were open when the i-th method on the stack s was      *)
(* called; the open ones stand in the columns o.                           *)
Brackets(from, s, o) ==
    /\ from \in [1..Len(s) -> Nat]
    /\ s # <<>> => from[1] = 1
    /\ \A i \in 1..(Len(s) - 1) : from[i + 1] = from[i] + Opened(s[i])
    /\ \A i, k \in 1..Len(s) : i < k => from[i] + Opened(s[i]) <= from[k]
    /\ Len(o) = IF s = <<>> THEN 1 ELSE from[Len(s)] + Opened(s[Len(s)])
    /\ o[1] = 0
    /\ \A i \in 1..Len(s) : \A k \in 1..Len(o) :
          from[i] < k /\ k <= from[i] + Opened(s[i]) => o[k] = ColumnOf(s[i], k)

(* While the walk goes on, the brackets on the stack are the open ones,    *)
(* and the indentation is that of the next.                                *)
Aligned(s, o, ind) ==
    /\ o \in Seq(Nat)
    /\ ind = INDENT_SIZE * Len(o)
    /\ \E from \in [1..Len(s) -> Nat] : Brackets(from, s, o)

(* A pointer that may be null is called through by the method of a `for`   *)
(* or a `var`, and only the last call has not looked at its node.          *)
MissingOnlyOfForAndVar ==
    \A i \in 1..Len(stack) : stack[i].kind = "unvisited" =>
        /\ i = Len(stack)
        /\ stack[i].optional => i > 1 /\ stack[i - 1].kind \in {"for", "var"}

(* Whose annotation may be pending: that of the next node to be visited,   *)
(* of a node that is about to print it or, if it is an `if`, to replace    *)
(* it, or of one that does not print it.                                   *)
PendingAnnotation ==
    /\ annotation.of \in Leaves \cup Branches \cup {"none", "next"}
    /\ \/ annotation.text = ""
       \/ annotation.of \in {"unary", "var"}
       \/ /\ stack # <<>>
          /\ \/ annotation.of = "next" /\ Top.kind = "unvisited"
             \/ Top.mine /\ Top.kind = annotation.of /\ Top.at = 0
             \/ annotation.of = "if" /\ Top.kind = "if" /\ Top.at = 1

(* The inductive invariant. *)
PrinterInductive ==
    /\ TypeOK
    /\ status = "running" => Aligned(stack, open, indent)
    /\ MissingOnlyOfForAndVar
    /\ PendingAnnotation
    /\ StrayOnlyFromUnprinted
    /\ CrashesOnMissing

-----------------------------------------------------------------------------
(* Brackets. *)

LEMMA OpenedFacts ==
    ASSUME NEW f \in FrameType
    PROVE  Opened(f) \in 0..2 /\ (f.at = 0 => Opened(f) = 0)
BY DEF Opened, FrameType

LEMMA UpTo == \A n \in Nat : \A k \in 1..(n + 1) : k # n + 1 => k \in 1..n
OBVIOUS

(* A method that has been called has opened nothing. *)
LEMMA CallAligned ==
    ASSUME NEW s \in Seq(FrameType), NEW o, NEW ind, Aligned(s, o, ind),
           NEW f \in FrameType, Opened(f) = 0
    PROVE  Aligned(Append(s, f), o, ind)
<1> DEFINE t == Append(s, f)
<1>1. PICK from \in [1..Len(s) -> Nat] : Brackets(from, s, o)
  BY DEF Aligned
<1>2. o \in Seq(Nat) /\ Len(o) \in Nat /\ Len(s) \in Nat
  BY LenProperties DEF Aligned
<1>3. /\ Len(t) = Len(s) + 1
      /\ t[Len(s) + 1] = f
      /\ \A i \in 1..Len(s) : t[i] = s[i]
      /\ t # <<>>
  BY Pushed
<1> HIDE DEF t
<1> DEFINE above == [i \in 1..Len(t) |-> IF i = Len(t) THEN Len(o) ELSE from[i]]
<1>4. above \in [1..Len(t) -> Nat]
  BY <1>2, <1>3
<1>5. /\ above[Len(s) + 1] = Len(o)
      /\ \A i \in 1..Len(s) : above[i] = from[i]
  BY <1>2, <1>3
<1> HIDE DEF above
<1>6. \A i \in 1..Len(s) : from[i] \in Nat /\ Opened(s[i]) \in 0..2
  BY OpenedFacts, ElementOfSeq
<1>7. CASE s = <<>>
  <2>1. Len(s) = 0 /\ Len(o) = 1
    BY <1>1, <1>7 DEF Brackets
  <2> QED BY <1>1, <1>2, <1>3, <1>4, <1>5, <2>1 DEF Brackets, Aligned
<1>8. CASE s # <<>>
  <2>1. Len(s) > 0 /\ Len(o) = from[Len(s)] + Opened(s[Len(s)]) /\ from[1] = 1
    BY <1>1, <1>2, <1>8, EmptySeq DEF Brackets
  <2>2. \A i \in 1..(Len(t) - 1) : above[i + 1] = above[i] + Opened(t[i])
    <3> TAKE i \in 1..(Len(t) - 1)
    <3>1. CASE i = Len(s)
      BY <1>2, <1>3, <1>5, <2>1, <3>1
    <3>2. CASE i # Len(s)
      BY <1>1, <1>2, <1>3, <1>5, <3>2 DEF Brackets
    <3> QED BY <3>1, <3>2
  <2>3. \A i, k \in 1..Len(t) : i < k => above[i] + Opened(t[i]) <= above[k]
    <3> SUFFICES ASSUME NEW i \in 1..Len(t), NEW k \in 1..Len(t), i < k
                 PROVE  above[i] + Opened(t[i]) <= above[k]
      OBVIOUS
    <3>1. i \in 1..Len(s) /\ above[i] = from[i] /\ t[i] = s[i]
      BY <1>2, <1>3, <1>5
    <3>2. CASE k = Len(t) /\ i = Len(s)
      BY <1>2, <1>3, <1>5, <2>1, <3>1, <3>2
    <3>3. CASE k = Len(t) /\ i # Len(s)
      <4>1. from[i] + Opened(s[i]) <= from[Len(s)]
        BY <1>1, <1>2, <2>1, <3>1, <3>3 DEF Brackets
      <4>2. Len(s) \in 1..Len(s)
        BY <1>2, <2>1
      <4>3. from[Len(s)] <= Len(o)
        <5>1. from[Len(s)] \in Nat /\ Opened(s[Len(s)]) \in 0..2
          BY <1>6, <4>2
        <5> QED BY <2>1, <5>1
      <4>4. above[k] = Len(o)
        <5>1. k = Len(s) + 1
          BY <1>3, <3>3
        <5> QED BY <1>5, <5>1
      <4>5. from[i] + Opened(s[i]) \in Int /\ from[Len(s)] \in Int
        <5>1. from[i] \in Nat /\ Opened(s[i]) \in 0..2 /\ from[Len(s)] \in Nat
          BY <1>6, <3>1, <4>2
        <5> QED BY <5>1
      <4>6. from[i] + Opened(s[i]) <= Len(o)
        BY <1>2, <4>1, <4>3, <4>5
      <4> QED BY <3>1, <4>4, <4>6
    <3>4. CASE k # Len(t)
      <4>1. k \in 1..Len(s)
        <5>1. Len(t) = Len(s) + 1 /\ Len(s) \in Nat
          BY <1>2, <1>3
        <5> QED BY <3>4, <5>1, UpTo
      <4>2. from[i] + Opened(s[i]) <= from[k]
        BY <1>1, <3>1, <4>1 DEF Brackets
      <4> QED BY <1>5, <3>1, <4>1, <4>2
    <3> QED BY <3>2, <3>3, <3>4
  <2>4. \A i \in 1..Len(t) : \A k \in 1..Len(o) :
           above[i] < k /\ k <= above[i] + Opened(t[i]) => o[k] = ColumnOf(t[i], k)
    <3> SUFFICES ASSUME NEW i \in 1..Len(t), NEW k \in 1..Len(o),
                        above[i] < k, k <= above[i] + Opened(t[i])
                 PROVE  o[k] = ColumnOf(t[i], k)
      OBVIOUS
    <3>1. i # Len(t)
      <4>1. i = Len(t) => above[i] = Len(o)
        BY <1>3, <1>5
      <4> QED BY <1>2, <4>1
    <3>2. i \in 1..Len(s) /\ above[i] = from[i] /\ t[i] = s[i]
      BY <1>2, <1>3, <1>5, <3>1
    <3> QED BY <1>1, <3>2 DEF Brackets
  <2>5. above[1] = 1 /\ Len(o) = above[Len(t)] + Opened(t[Len(t)]) /\ o[1] = 0
    <3>1. 1 \in 1..Len(s)
      BY <1>2, <2>1
    <3>2. above[1] = 1
      BY <1>5, <2>1, <3>1
    <3>3. Len(o) = above[Len(t)] + Opened(t[Len(t)])
      <4>1. above[Len(t)] = Len(o) /\ Opened(t[Len(t)]) = 0
        BY <1>3, <1>5
      <4> QED BY <1>2, <4>1
    <3>4. o[1] = 0
      BY <1>1 DEF Brackets
    <3> QED BY <3>2, <3>3, <3>4
  <2>6. Brackets(above, t, o)
    <3>1. Len(o) = IF t = <<>> THEN 1 ELSE above[Len(t)] + Opened(t[Len(t)])
      BY <1>3, <2>5
    <3> QED BY <1>4, <2>2, <2>3, <2>4, <2>5, <3>1 DEF Brackets
  <2> QED BY <1>4, <2>6 DEF Aligned, t
<1> QED BY <1>7, <1>8 DEF t

(* A method that has closed its brackets may return. *)
LEMMA ReturnAligned ==
    ASSUME NEW s \in Seq(FrameType), s # <<>>, NEW o, NEW ind, Aligned(s, o, ind),
           Opened(Last(s)) = 0
    PROVE  Aligned(Front(s), o, ind)
<1> DEFINE t == Front(s)
<1>1. PICK from \in [1..Len(s) -> Nat] : Brackets(from, s, o)
  BY DEF Aligned
<1>2. o \in Seq(Nat) /\ Len(o) \in Nat /\ Len(s) \in Nat \ {0}
  BY LenProperties, Dropped DEF Aligned
<1>3. /\ t \in Seq(FrameType)
      /\ Len(t) = Len(s) - 1
      /\ \A i \in 1..Len(t) : t[i] = s[i]
      /\ Last(s) = s[Len(s)]
      /\ t = <<>> => Len(s) = 1
      /\ t # <<>> => Len(s) > 1
  BY Dropped
<1> HIDE DEF t
<1> DEFINE below == [i \in 1..Len(t) |-> from[i]]
<1>4. below \in [1..Len(t) -> Nat] /\ \A i \in 1..Len(t) : below[i] = from[i]
  BY <1>2, <1>3
<1> HIDE DEF below
<1>5. from[Len(s)] = Len(o) /\ from[1] = 1
  BY SMTT(30), <1>1, <1>2, <1>3, EmptySeq DEF Brackets
<1>6. Len(o) = IF t = <<>> THEN 1 ELSE below[Len(t)] + Opened(t[Len(t)])
  <2>1. CASE t = <<>>
    BY <1>3, <1>5, <2>1
  <2>2. CASE t # <<>>
    <3>1. Len(t) \in 1..(Len(s) - 1) /\ Len(t) + 1 = Len(s)
      BY <1>2, <1>3, <2>2
    <3>2. from[Len(t) + 1] = from[Len(t)] + Opened(s[Len(t)])
      BY <1>1, <3>1 DEF Brackets
    <3> QED BY <1>2, <1>3, <1>4, <1>5, <2>2, <3>1, <3>2
  <2> QED BY <2>1, <2>2
<1>7. \A i \in 1..(Len(t) - 1) : below[i + 1] = below[i] + Opened(t[i])
  BY <1>1, <1>2, <1>3, <1>4 DEF Brackets
<1>8. \A i, k \in 1..Len(t) : i < k => below[i] + Opened(t[i]) <= below[k]
  BY <1>1, <1>2, <1>3, <1>4 DEF Brackets
<1>9. \A i \in 1..Len(t) : \A k \in 1..Len(o) :
         below[i] < k /\ k <= below[i] + Opened(t[i]) => o[k] = ColumnOf(t[i], k)
  BY <1>1, <1>2, <1>3, <1>4 DEF Brackets
<1>10. t # <<>> => below[1] = 1
  BY <1>2, <1>3, <1>4, <1>5
<1> QED BY <1>1, <1>2, <1>4, <1>6, <1>7, <1>8, <1>9, <1>10 DEF Brackets, Aligned, t

(* The innermost method opens or closes brackets of its own. *)
LEMMA TopAligned ==
    ASSUME NEW s \in Seq(FrameType), s # <<>>, NEW o, NEW ind, Aligned(s, o, ind),
           NEW f \in FrameType, NEW p \in Seq(Nat),
           Len(p) = Len(o) - Opened(Last(s)) + Opened(f),
           \A k \in 1..(Len(o) - Opened(Last(s))) : p[k] = o[k],
           \A k \in (Len(o) - Opened(Last(s)) + 1)..Len(p) : p[k] = ColumnOf(f, k)
    PROVE  Aligned(Append(Front(s), f), p, INDENT_SIZE * Len(p))
<1> DEFINE t == Append(Front(s), f)
<1>1. PICK from \in [1..Len(s) -> Nat] : Brackets(from, s, o)
  BY DEF Aligned
<1>2. o \in Seq(Nat) /\ Len(o) \in Nat /\ Len(s) \in Nat \ {0} /\ Last(s) = s[Len(s)]
  BY LenProperties, Dropped DEF Aligned
<1>3. /\ t # <<>>
      /\ Len(t) = Len(s)
      /\ t[Len(s)] = f
      /\ \A i \in 1..(Len(s) - 1) : t[i] = s[i]
  BY Replaced
<1> HIDE DEF t
<1> DEFINE m == from[Len(s)]
<1>4. /\ m \in Nat
      /\ Len(o) = m + Opened(s[Len(s)])
      /\ Opened(s[Len(s)]) \in 0..2
      /\ Opened(f) \in 0..2
  <2>1. Len(s) \in 1..Len(s)
    BY <1>2
  <2>2. s[Len(s)] \in FrameType
    BY <2>1, ElementOfSeq
  <2> QED BY <1>1, <1>2, <2>1, <2>2, OpenedFacts, EmptySeq DEF Brackets
<1>5. Len(p) = m + Opened(f)
  BY <1>2, <1>4
<1>6. \A i \in 1..(Len(s) - 1) : from[i] \in Nat /\ Opened(s[i]) \in 0..2 /\ from[i] + Opened(s[i]) <= m
  <2> TAKE i \in 1..(Len(s) - 1)
  <2>1. i \in 1..Len(s) /\ Len(s) \in 1..Len(s) /\ i < Len(s)
    BY <1>2
  <2>2. s[i] \in FrameType
    BY <2>1, ElementOfSeq
  <2> QED BY <1>1, <2>1, <2>2, OpenedFacts DEF Brackets
<1>7. m >= 1 /\ from[1] = 1
  <2>1. from[1] = 1
    BY <1>1 DEF Brackets
  <2>2. CASE Len(s) = 1
    BY <2>1, <2>2
  <2>3. CASE Len(s) # 1
    <3>1. 1 \in 1..(Len(s) - 1)
      BY <1>2, <2>3, BelowTop
    <3> QED BY <1>4, <1>6, <2>1, <3>1
  <2> QED BY <2>1, <2>2, <2>3
<1>8. \A k \in 1..m : p[k] = o[k]
  BY <1>2, <1>4
<1>9. \A k \in (m + 1)..Len(p) : p[k] = ColumnOf(f, k)
  BY <1>2, <1>4
<1>10. \A i \in 1..(Len(t) - 1) : from[i + 1] = from[i] + Opened(t[i])
  BY <1>1, <1>2, <1>3 DEF Brackets
<1>11. \A i, k \in 1..Len(t) : i < k => from[i] + Opened(t[i]) <= from[k]
  <2> SUFFICES ASSUME NEW i \in 1..Len(t), NEW k \in 1..Len(t), i < k
               PROVE  from[i] + Opened(t[i]) <= from[k]
    OBVIOUS
  <2>1. i \in 1..Len(s) /\ k \in 1..Len(s) /\ t[i] = s[i]
    BY <1>2, <1>3
  <2> QED BY <1>1, <2>1 DEF Brackets
<1>12. ASSUME NEW i \in 1..Len(t), NEW k \in 1..Len(p),
              from[i] < k, k <= from[i] + Opened(t[i])
       PROVE  p[k] = ColumnOf(t[i], k)
  <2>1. CASE i = Len(s)
    <3>1. k \in (m + 1)..Len(p)
      BY <1>4, <1>5, <1>12, <2>1
    <3> QED BY <1>3, <1>9, <2>1, <3>1
  <2>2. CASE i # Len(s)
    <3>1. i \in 1..(Len(s) - 1)
      BY <1>2, <1>3, <2>2
    <3>2. k \in 1..m /\ k \in 1..Len(o)
      <4>1. t[i] = s[i] /\ from[i] \in Nat /\ Opened(s[i]) \in 0..2 /\ from[i] + Opened(s[i]) <= m
        BY <1>3, <1>6, <3>1
      <4>2. k \in Nat \ {0} /\ k <= m
        BY SMTT(30), <1>4, <1>5, <1>12, <4>1
      <4> QED BY <1>4, <4>2
    <3>3. i \in 1..Len(s) /\ t[i] = s[i]
      BY <1>2, <1>3, <3>1
    <3>4. o[k] = ColumnOf(s[i], k)
      BY <1>1, <1>12, <3>2, <3>3 DEF Brackets
    <3> QED BY <1>8, <3>2, <3>3, <3>4
  <2> QED BY <2>1, <2>2
<1>13. p[1] = 0
  BY <1>1, <1>4, <1>7, <1>8 DEF Brackets
<1>14. Len(p) = from[Len(t)] + Opened(t[Len(t)])
  BY <1>3, <1>5
<1>15. Brackets(from, t, p)
  BY <1>1, <1>2, <1>3, <1>7, <1>10, <1>11, <1>12, <1>13, <1>14 DEF Brackets
<1> QED BY <1>3, <1>15 DEF Aligned, t

-----------------------------------------------------------------------------
(* What a step prints, when it leaves the innermost method in the state f. *)
Effect(f) ==
    /\ Aligned(Append(Front(stack), f), open', indent')
    /\ column' \in Nat
    /\ Len(open') < Len(open) => column' = open[Len(open') + 1]

(* The method of the frame on top, when it has closed its brackets. *)
Closed(f) == [f EXCEPT !.at = 0]

LEMMA FrameFacts ==
    ASSUME NEW f \in FrameType
    PROVE  /\ Advanced(f) \in FrameType
           /\ Advanced(f).at = f.at + 1
           /\ Advanced(f).kind = f.kind
           /\ Advanced(f).n = f.n
           /\ Advanced(f).mine = f.mine
           /\ Closed(f) \in FrameType
           /\ Closed(f).at = 0
           /\ Closed(f).kind = f.kind
           /\ Opened(Closed(f)) = 0
BY DEF Advanced, Closed, FrameType, Opened

LEMMA OwnBrackets ==
    ASSUME TypeOK, stack # <<>>, Aligned(stack, open, indent)
    PROVE  /\ Top \in FrameType
           /\ Opened(Top) \in 0..2
           /\ Len(open) \in Nat
           /\ Len(open) - Opened(Top) \in Nat \ {0}
           /\ \A k \in (Len(open) - Opened(Top) + 1)..Len(open) : open[k] = ColumnOf(Top, k)
<1>1. stack \in Seq(FrameType) /\ Len(open) \in Nat
  BY LenProperties DEF TypeOK
<1>2. Top \in FrameType /\ Opened(Top) \in 0..2
  BY <1>1, Dropped, OpenedFacts DEF Top
<1>3. PICK from \in [1..Len(stack) -> Nat] : Brackets(from, stack, open)
  BY DEF Aligned
<1> DEFINE n == Len(stack)
<1>4. n \in Nat \ {0} /\ n \in 1..n /\ Top = stack[n]
  <2>1. n \in Nat \ {0} /\ Top = stack[n]
    BY <1>1, Dropped DEF Top
  <2> HIDE DEF n
  <2> QED BY <2>1
<1>5. Len(open) = from[n] + Opened(Top) /\ from[n] \in Nat
  BY <1>3, <1>4 DEF Brackets
<1>6. from[n] >= 1
  <2>1. from[1] = 1
    BY <1>3 DEF Brackets
  <2>2. CASE n # 1
    <3>1. 1 \in 1..(n - 1)
      <4> HIDE DEF n
      <4> QED BY <1>4, <2>2, BelowTop
    <3>2. 1 \in 1..n /\ 1 < n
      <4> HIDE DEF n
      <4> QED BY <1>4, <2>2
    <3>3. stack[1] \in FrameType
      BY <1>1, <3>2, ElementOfSeq
    <3>4. from[1] + Opened(stack[1]) <= from[n]
      BY <1>3, <1>4, <3>2 DEF Brackets
    <3>5. Opened(stack[1]) \in 0..2
      BY <3>3, OpenedFacts
    <3> QED BY <1>5, <2>1, <3>4, <3>5
  <2>3. CASE n = 1
    <3> HIDE DEF n
    <3> QED BY <2>1, <2>3
  <2> QED BY <2>2, <2>3
<1>7. ASSUME NEW k \in (Len(open) - Opened(Top) + 1)..Len(open)
      PROVE  open[k] = ColumnOf(Top, k)
  <2>1. k \in 1..Len(open) /\ from[n] < k /\ k <= from[n] + Opened(Top)
    <3> HIDE DEF n
    <3> QED BY <1>1, <1>2, <1>5
  <2> QED BY <1>3, <1>4, <2>1 DEF Brackets
<1>8. Len(open) - Opened(Top) \in Nat \ {0}
  <2> HIDE DEF n
  <2> QED BY <1>2, <1>5, <1>6
<1> QED BY <1>1, <1>2, <1>7, <1>8

LEMMA NothingPrinted ==
    ASSUME TypeOK, stack # <<>>, Aligned(stack, open, indent), NEW f \in FrameType,
           Opened(f) = Opened(Top), f.kind = Top.kind \/ Opened(f) = 0, PrintNothing
    PROVE  Effect(f)
<1>1. /\ stack \in Seq(FrameType) /\ open \in Seq(Nat) /\ column \in Nat
      /\ Len(open) \in Nat
      /\ indent = INDENT_SIZE * Len(open)
  BY LenProperties DEF TypeOK, Aligned
<1>2. Opened(Top) \in 0..2
  BY OwnBrackets
<1>3. ASSUME NEW k \in (Len(open) - Opened(Last(stack)) + 1)..Len(open)
      PROVE  open[k] = ColumnOf(f, k)
  <2>1. open[k] = ColumnOf(Top, k)
    BY OwnBrackets DEF Top
  <2>2. Opened(f) # 0
    BY <1>1, <1>2 DEF Top
  <2> QED BY <2>1, <2>2 DEF ColumnOf
<1>4. Len(open) = Len(open) - Opened(Last(stack)) + Opened(f)
  BY <1>1, <1>2 DEF Top
<1>5. Aligned(Append(Front(stack), f), open, INDENT_SIZE * Len(open))
  BY <1>1, <1>3, <1>4, TopAligned
<1>6. open' = open /\ indent' = indent /\ column' = column
  BY DEF PrintNothing
<1> QED BY <1>1, <1>5, <1>6 DEF Effect

LEMMA BracketsOpened ==
    ASSUME TypeOK, stack # <<>>, Aligned(stack, open, indent), NEW f \in FrameType,
           NEW n \in 1..2, Opened(f) = Opened(Top) + n,
           f.kind = Top.kind, f.kind # "var", Open(n)
    PROVE  Effect(f)
<1>1. /\ stack \in Seq(FrameType) /\ open \in Seq(Nat) /\ column \in Nat
      /\ Len(open) \in Nat
      /\ indent = INDENT_SIZE * Len(open)
  BY LenProperties DEF TypeOK, Aligned
<1> DEFINE more == [i \in 1..n |-> indent + (i - 1) * INDENT_SIZE]
<1>2. more \in Seq(Nat) /\ Len(more) = n /\ \A i \in 1..n : more[i] = indent + (i - 1) * INDENT_SIZE
  BY <1>1 DEF INDENT_SIZE
<1>3. open' = open \o more /\ indent' = indent + n * INDENT_SIZE /\ column' = Last(open')
  BY DEF Open
<1> HIDE DEF more
<1>4. /\ open' \in Seq(Nat)
      /\ Len(open') = Len(open) + n
      /\ \A k \in 1..Len(open) : open'[k] = open[k]
      /\ \A k \in (Len(open) + 1)..(Len(open) + n) : open'[k] = more[k - Len(open)]
  BY <1>1, <1>2, <1>3, ConcatProperties
<1>5. \A k \in (Len(open) + 1)..Len(open') : open'[k] = INDENT_SIZE * (k - 1)
  <2> TAKE k \in (Len(open) + 1)..Len(open')
  <2>1. k - Len(open) \in 1..n
    BY <1>1, <1>4
  <2>2. open'[k] = indent + (k - Len(open) - 1) * INDENT_SIZE
    BY <1>2, <1>4, <2>1
  <2> QED BY <1>1, <2>1, <2>2 DEF INDENT_SIZE
<1>6. indent' = INDENT_SIZE * Len(open')
  BY <1>1, <1>3, <1>4 DEF INDENT_SIZE
<1>7. open' # <<>> /\ column' \in Nat /\ ~(Len(open') < Len(open))
  <2>1. Len(open') > 0
    BY <1>1, <1>4
  <2>2. open' # <<>>
    BY <2>1, EmptySeq
  <2>3. \A q \in Seq(Nat) : q # <<>> => Last(q) \in Nat
    BY Dropped
  <2>4. column' \in Nat
    BY <1>3, <1>4, <2>2, <2>3
  <2> QED BY <1>1, <1>4, <2>2, <2>4
<1>8. Opened(Top) \in 0..2
  BY OwnBrackets
<1>9. /\ Len(open') = Len(open) - Opened(Last(stack)) + Opened(f)
      /\ \A k \in 1..(Len(open) - Opened(Last(stack))) : open'[k] = open[k]
  <2>1. 1..(Len(open) - Opened(Last(stack))) \subseteq 1..Len(open)
    BY <1>1, <1>8 DEF Top
  <2>2. Len(open') = Len(open) - Opened(Last(stack)) + Opened(f)
    BY <1>1, <1>4, <1>8 DEF Top
  <2> QED BY <1>4, <2>1, <2>2
<1>10. \A k \in (Len(open) - Opened(Last(stack)) + 1)..Len(open') : open'[k] = ColumnOf(f, k)
  <2> TAKE k \in (Len(open) - Opened(Last(stack)) + 1)..Len(open')
  <2>1. CASE k > Len(open)
    <3>1. k \in (Len(open) + 1)..Len(open')
      BY <1>1, <1>4, <1>8, <2>1 DEF Top
    <3> QED BY <1>5, <3>1 DEF ColumnOf
  <2>2. CASE ~(k > Len(open))
    <3>1. k \in (Len(open) - Opened(Top) + 1)..Len(open) /\ k \in 1..Len(open)
      BY <1>1, <1>4, <1>8, <2>2, OwnBrackets DEF Top
    <3>2. open[k] = ColumnOf(Top, k)
      BY <3>1, OwnBrackets
    <3> QED BY <1>4, <3>1, <3>2 DEF ColumnOf
  <2> QED BY <2>1, <2>2
<1>11. Aligned(Append(Front(stack), f), open', INDENT_SIZE * Len(open'))
  BY <1>1, <1>4, <1>9, <1>10, TopAligned
<1> QED BY <1>6, <1>7, <1>11 DEF Effect

LEMMA BracketsClosed ==
    ASSUME TypeOK, stack # <<>>, Aligned(stack, open, indent), NEW f \in FrameType,
           NEW n \in 1..2, Opened(Top) = Opened(f) + n,
           f.kind = Top.kind, f.kind # "var", Close(n)
    PROVE  Effect(f)
<1>1. /\ stack \in Seq(FrameType) /\ open \in Seq(Nat)
      /\ Len(open) \in Nat
      /\ indent = INDENT_SIZE * Len(open)
  BY LenProperties DEF TypeOK, Aligned
<1>2. Opened(f) \in 0..2
  BY OpenedFacts
<1> DEFINE m == Len(open) - n
<1>3. m \in 0..Len(open) /\ m \in Nat /\ m + 1 \in (Len(open) - Opened(Top) + 1)..Len(open)
      /\ m = Len(open) - Opened(Top) + Opened(f)
  BY SMTT(30), <1>1, <1>2, OwnBrackets
<1>4. open' = SubSeq(open, 1, m) /\ indent' = INDENT_SIZE * m /\ column' = INDENT_SIZE * m
  BY <1>1 DEF Close, INDENT_SIZE
<1> HIDE DEF m
<1>5. open' \in Seq(Nat) /\ Len(open') = m /\ \A k \in 1..m : open'[k] = open[k]
  BY <1>1, <1>3, <1>4, Prefix
<1>6. ASSUME NEW k \in (Len(open) - Opened(Last(stack)) + 1)..Len(open')
      PROVE  open'[k] = ColumnOf(f, k)
  <2>1. k \in (Len(open) - Opened(Top) + 1)..Len(open) /\ k \in 1..m
    BY <1>1, <1>3, <1>5, OwnBrackets DEF Top
  <2>2. open[k] = ColumnOf(Top, k)
    BY <2>1, OwnBrackets
  <2> QED BY <1>5, <2>1, <2>2 DEF ColumnOf
<1>7. ASSUME NEW k \in 1..(Len(open) - Opened(Last(stack)))
      PROVE  open'[k] = open[k]
  <2>1. k \in 1..m
    BY <1>1, <1>2, <1>3, OwnBrackets DEF Top
  <2> QED BY <1>5, <2>1
<1>8. Len(open') = Len(open) - Opened(Last(stack)) + Opened(f)
  BY <1>3, <1>5 DEF Top
<1>9. Aligned(Append(Front(stack), f), open', indent')
  BY <1>1, <1>4, <1>5, <1>6, <1>7, <1>8, TopAligned
<1>10. column' = open[Len(open') + 1]
  <2>1. open[m + 1] = ColumnOf(Top, m + 1)
    BY <1>3, OwnBrackets
  <2>2. m + 1 - 1 = m
    BY <1>3
  <2> QED BY <1>4, <1>5, <2>1, <2>2 DEF ColumnOf
<1>11. column' \in Nat
  BY <1>3, <1>4 DEF INDENT_SIZE
<1> QED BY <1>9, <1>10, <1>11 DEF Effect

LEMMA VarOpened ==
    ASSUME TypeOK, stack # <<>>, Aligned(stack, open, indent), NEW f \in FrameType,
           Opened(Top) = 0, Opened(f) = 1, f.kind = "var",
           indent' = indent + INDENT_SIZE, open' = Append(open, 0), column' = 0
    PROVE  Effect(f)
<1>1. /\ stack \in Seq(FrameType) /\ open \in Seq(Nat)
      /\ Len(open) \in Nat
      /\ indent = INDENT_SIZE * Len(open)
  BY LenProperties DEF TypeOK, Aligned
<1>2. /\ open' \in Seq(Nat)
      /\ Len(open') = Len(open) + 1
      /\ open'[Len(open) + 1] = 0
      /\ \A k \in 1..Len(open) : open'[k] = open[k]
  <2>1. 0 \in Nat
    OBVIOUS
  <2> QED BY <1>1, <2>1, Pushed
<1>3. indent' = INDENT_SIZE * Len(open')
  BY <1>1, <1>2 DEF INDENT_SIZE
<1>4. /\ Len(open') = Len(open) - Opened(Last(stack)) + Opened(f)
      /\ \A k \in 1..(Len(open) - Opened(Last(stack))) : open'[k] = open[k]
      /\ \A k \in (Len(open) - Opened(Last(stack)) + 1)..Len(open') : open'[k] = ColumnOf(f, k)
  BY <1>1, <1>2 DEF Top, ColumnOf
<1>5. Aligned(Append(Front(stack), f), open', indent')
  <2>1. Aligned(Append(Front(stack), f), open', INDENT_SIZE * Len(open'))
    BY <1>1, <1>2, <1>4, TopAligned, Zenon
  <2> QED BY <1>3, <2>1
<1>6. ~(Len(open') < Len(open))
  BY <1>1, <1>2
<1> QED BY <1>5, <1>6 DEF Effect

LEMMA VarClosed ==
    ASSUME TypeOK, stack # <<>>, Aligned(stack, open, indent), NEW f \in FrameType,
           Opened(Top) = 1, Opened(f) = 0, Top.kind = "var",
           indent' = indent - INDENT_SIZE, open' = Front(open), column' = 0
    PROVE  Effect(f)
<1>1. /\ stack \in Seq(FrameType) /\ open \in Seq(Nat)
      /\ Len(open) \in Nat \ {0}
      /\ indent = INDENT_SIZE * Len(open)
  BY LenProperties, OwnBrackets DEF TypeOK, Aligned
<1>2. /\ open' \in Seq(Nat)
      /\ Len(open') = Len(open) - 1
      /\ \A k \in 1..(Len(open) - 1) : open'[k] = open[k]
  <2>1. open # <<>>
    BY <1>1, EmptySeq
  <2> QED BY <1>1, <2>1, Dropped
<1>3. indent' = INDENT_SIZE * Len(open')
  BY <1>1, <1>2 DEF INDENT_SIZE
<1>4. /\ Len(open') = Len(open) - Opened(Last(stack)) + Opened(f)
      /\ \A k \in 1..(Len(open) - Opened(Last(stack))) : open'[k] = open[k]
      /\ \A k \in (Len(open) - Opened(Last(stack)) + 1)..Len(open') : open'[k] = ColumnOf(f, k)
  BY <1>1, <1>2 DEF Top
<1>5. Aligned(Append(Front(stack), f), open', indent')
  BY ZenonT(40), <1>1, <1>2, <1>3, <1>4, TopAligned
<1>6. open[Len(open') + 1] = 0
  <2>1. Len(open) \in (Len(open) - Opened(Top) + 1)..Len(open) /\ Len(open') + 1 = Len(open)
    BY <1>1, <1>2
  <2> QED BY <2>1, OwnBrackets DEF ColumnOf
<1> QED BY <1>5, <1>6 DEF Effect

-----------------------------------------------------------------------------
(* How a step leaves the stack. *)

(* What every step of a visit method has in common: f is what becomes of   *)
(* its frame.                                                              *)
Steps(f) ==
    /\ PrinterInductive
    /\ status = "running" /\ status' = "running"
    /\ stack # <<>>
    /\ f \in FrameType
    /\ f.kind # "unvisited"
    /\ Effect(f)
    /\ annotation' \in AnnotationType
    /\ PendingAnnotation'
    /\ StrayOnlyFromUnprinted'
    /\ branches' \in 0..MaxBranches
    /\ UNCHANGED items

Aligning == Len(open') < Len(open) => column' = open[Len(open') + 1]

LEMMA Common ==
    ASSUME NEW f, Steps(f), stack' \in Seq(FrameType), Aligned(stack', open', indent'),
           MissingOnlyOfForAndVar'
    PROVE  PrinterInductive' /\ Aligning
<1> USE DEF Steps
<1>1. stray' \in Kinds \cup {"none"}
  BY DEF StrayOnlyFromUnprinted, Kinds, Branches
<1>2. open' \in Seq(Nat) /\ indent' \in Nat /\ column' \in Nat
  <2>1. open' \in Seq(Nat) /\ indent' = INDENT_SIZE * Len(open')
    BY DEF Aligned
  <2> QED BY <2>1, LenProperties DEF Effect, INDENT_SIZE
<1>3. TypeOK'
  BY <1>1, <1>2 DEF TypeOK, PrinterInductive
<1>4. CrashesOnMissing'
  BY DEF CrashesOnMissing
<1> QED BY <1>3, <1>4 DEF PrinterInductive, Effect, Aligning

LEMMA StayStep ==
    ASSUME NEW f, Steps(f), stack' = Append(Front(stack), f)
    PROVE  PrinterInductive' /\ Aligning
<1>1. stack \in Seq(FrameType) /\ stack # <<>> /\ f \in FrameType /\ f.kind # "unvisited"
      /\ MissingOnlyOfForAndVar
  BY DEF Steps, PrinterInductive, TypeOK
<1>2. /\ stack' \in Seq(FrameType)
      /\ Len(stack') = Len(stack)
      /\ Len(stack) \in Nat \ {0}
      /\ stack'[Len(stack)] = f
      /\ \A i \in 1..(Len(stack) - 1) : stack'[i] = stack[i]
  BY <1>1, Replaced, Dropped
<1>3. MissingOnlyOfForAndVar'
  <2> SUFFICES ASSUME NEW i \in 1..Len(stack'), stack'[i].kind = "unvisited"
               PROVE  FALSE
    BY DEF MissingOnlyOfForAndVar
  <2>1. i \in 1..(Len(stack) - 1) /\ i \in 1..Len(stack) /\ i # Len(stack)
    BY <1>1, <1>2
  <2> QED BY <1>1, <1>2, <2>1 DEF MissingOnlyOfForAndVar
<1> QED BY <1>2, <1>3, Common DEF Steps, Effect

LEMMA VisitStep ==
    ASSUME NEW f, Steps(f), NEW g \in FrameType, Opened(g) = 0,
           g.kind = "unvisited" /\ g.optional => f.kind \in {"for", "var"},
           stack' = Append(Append(Front(stack), f), g)
    PROVE  PrinterInductive' /\ Aligning
<1> DEFINE s == Append(Front(stack), f)
<1>1. stack \in Seq(FrameType) /\ stack # <<>> /\ f \in FrameType /\ f.kind # "unvisited"
      /\ MissingOnlyOfForAndVar
  BY DEF Steps, PrinterInductive, TypeOK
<1>2. /\ s \in Seq(FrameType)
      /\ Len(s) = Len(stack)
      /\ Len(stack) \in Nat \ {0}
      /\ s[Len(stack)] = f
      /\ \A i \in 1..(Len(stack) - 1) : s[i] = stack[i]
  <2>1. Len(stack) \in Nat \ {0}
    BY <1>1, Dropped
  <2>2. s = Append(Front(stack), f)
    OBVIOUS
  <2> HIDE DEF s
  <2> QED BY <1>1, <2>1, <2>2, Replaced
<1>3. Aligned(s, open', indent')
  BY DEF Steps, Effect
<1> HIDE DEF s
<1>4. stack' = Append(s, g)
  BY DEF s
<1>5. /\ stack' \in Seq(FrameType)
      /\ Len(stack') = Len(stack) + 1
      /\ stack'[Len(stack) + 1] = g
      /\ stack'[Len(stack)] = f
      /\ \A i \in 1..(Len(stack) - 1) : stack'[i] = stack[i]
  <2>1. /\ stack' \in Seq(FrameType)
        /\ Len(stack') = Len(s) + 1
        /\ stack'[Len(s) + 1] = g
        /\ \A i \in 1..Len(s) : stack'[i] = s[i]
    BY <1>2, <1>4, Pushed
  <2>2. Len(stack) \in 1..Len(s) /\ \A i \in 1..(Len(stack) - 1) : i \in 1..Len(s)
    BY <1>2
  <2> QED BY <1>2, <2>1, <2>2
<1>6. MissingOnlyOfForAndVar'
  <2> SUFFICES ASSUME NEW i \in 1..Len(stack'), stack'[i].kind = "unvisited"
               PROVE  /\ i = Len(stack')
                      /\ stack'[i].optional => i > 1 /\ stack'[i - 1].kind \in {"for", "var"}
    BY DEF MissingOnlyOfForAndVar
  <2>1. CASE i = Len(stack) + 1
    <3>1. i - 1 = Len(stack) /\ i > 1 /\ i = Len(stack')
      BY <1>2, <1>5, <2>1
    <3> QED BY <1>5, <2>1, <3>1
  <2>2. CASE i = Len(stack)
    BY <1>1, <1>5, <2>2
  <2>3. CASE i \notin {Len(stack), Len(stack) + 1}
    <3>1. i \in 1..(Len(stack) - 1) /\ i \in 1..Len(stack) /\ i # Len(stack)
      BY <1>2, <1>5, <2>3
    <3> QED BY <1>1, <1>5, <3>1 DEF MissingOnlyOfForAndVar
  <2> QED BY <2>1, <2>2, <2>3
<1>7. Aligned(stack', open', indent')
  BY <1>2, <1>3, <1>4, CallAligned
<1> QED BY <1>5, <1>6, <1>7, Common

LEMMA ReturnStep ==
    ASSUME NEW f, Steps(f), Opened(f) = 0, Top.kind # "unvisited", stack' = Front(stack)
    PROVE  PrinterInductive' /\ Aligning
<1> DEFINE s == Append(Front(stack), f)
<1>1. stack \in Seq(FrameType) /\ stack # <<>> /\ f \in FrameType /\ MissingOnlyOfForAndVar
  BY DEF Steps, PrinterInductive, TypeOK
<1>2. /\ stack' \in Seq(FrameType)
      /\ Len(stack') = Len(stack) - 1
      /\ Len(stack) \in Nat \ {0}
      /\ \A i \in 1..(Len(stack) - 1) : stack'[i] = stack[i]
  BY <1>1, Dropped
<1>3. s \in Seq(FrameType) /\ s # <<>> /\ Last(s) = f
  BY <1>1, Replaced
<1>4. Front(s) = stack'
  <2>1. /\ Front(s) \in Seq(FrameType)
        /\ Len(Front(s)) = Len(stack) - 1
        /\ \A i \in 1..(Len(stack) - 1) : Front(s)[i] = s[i] /\ s[i] = stack[i]
    <3>1. Len(s) = Len(stack) /\ \A i \in 1..(Len(stack) - 1) : s[i] = stack[i]
      <4>1. s = Append(Front(stack), f)
        OBVIOUS
      <4> HIDE DEF s
      <4> QED BY <1>1, <4>1, Replaced
    <3> HIDE DEF s
    <3> QED BY SMTT(30), <1>3, <3>1, Dropped
  <2> HIDE DEF s
  <2> QED BY <1>2, <2>1, SeqEqual
<1>5. Aligned(s, open', indent')
  BY DEF Steps, Effect
<1> HIDE DEF s
<1>6. Aligned(stack', open', indent')
  BY <1>3, <1>4, <1>5, ReturnAligned
<1>7. MissingOnlyOfForAndVar'
  <2> SUFFICES ASSUME NEW i \in 1..Len(stack'), stack'[i].kind = "unvisited"
               PROVE  FALSE
    BY DEF MissingOnlyOfForAndVar
  <2>1. i \in 1..(Len(stack) - 1) /\ i \in 1..Len(stack) /\ i # Len(stack)
    BY <1>2
  <2> QED BY <1>1, <1>2, <2>1 DEF MissingOnlyOfForAndVar
<1> QED BY <1>2, <1>6, <1>7, Common

-----------------------------------------------------------------------------
(* Whose annotation a step may leave pending or print. *)

AnnotationsTold ==
    /\ annotation' \in AnnotationType
    /\ PendingAnnotation'
    /\ StrayOnlyFromUnprinted'

(* Past its beginning no method has an annotation of its own to print. *)
Settled == annotation.text = "" \/ annotation.of \in {"unary", "var"}

LEMMA SettledFacts ==
    ASSUME PrinterInductive, stack # <<>>, Top.kind # "unvisited",
           \/ Top.kind \in {"unary", "var", "prototype", "function"}
           \/ Top.at # 0 /\ (Top.kind = "if" => Top.at # 1)
    PROVE  Settled
BY DEF PrinterInductive, PendingAnnotation, Settled, Leaves, Branches

LEMMA Kept ==
    ASSUME PrinterInductive, Settled, KeepAnnotation
    PROVE  AnnotationsTold
BY DEF PrinterInductive, TypeOK, PendingAnnotation, Settled, KeepAnnotation, AnnotationsTold,
       StrayOnlyFromUnprinted

LEMMA Printed ==
    ASSUME PrinterInductive, stack # <<>>, Top.kind \notin {"unvisited", "if"}, get_annotation
    PROVE  AnnotationsTold
<1>1. annotation' = [text |-> "", of |-> "none"]
  BY DEF get_annotation, NoAnnotation
<1>2. annotation' \in AnnotationType /\ PendingAnnotation'
  <2>1. annotation'.text = "" /\ annotation'.of = "none"
    BY <1>1
  <2>2. annotation' \in AnnotationType
    BY <1>1 DEF AnnotationType
  <2> QED BY <2>1, <2>2, Zenon DEF PendingAnnotation
<1>3. annotation.text # "" /\ ~Top.mine => annotation.of \in {"unary", "var"}
  BY DEF PrinterInductive, PendingAnnotation
<1>4. StrayOnlyFromUnprinted'
  BY <1>3 DEF get_annotation, StrayOnlyFromUnprinted
<1> QED BY <1>2, <1>4 DEF AnnotationsTold

(* The frame of a call through a pointer to a child. *)
LEMMA UnvisitedFacts ==
    ASSUME NEW optional \in BOOLEAN
    PROVE  /\ Frame("unvisited", optional, 0) \in FrameType
           /\ Frame("unvisited", optional, 0).kind = "unvisited"
           /\ Frame("unvisited", optional, 0).at = 0
           /\ Frame("unvisited", optional, 0).optional = optional
           /\ Opened(Frame("unvisited", optional, 0)) = 0
<1>1. 0 \in Nat /\ 0 \in 0..MaxChildren
  BY PrinterAssumption
<1> QED BY <1>1 DEF Frame, FrameType, Opened

LEMMA SetNext ==
    ASSUME PrinterInductive, stack # <<>>, NEW text,
           text \in {"<COND>", "<THEN>", "<ELSE>", "<START>", "<END>", "<STEP>", "<BODY>"},
           set_annotation(text), stray' = "none", NEW optional \in BOOLEAN, Visit(optional)
    PROVE  AnnotationsTold
<1> DEFINE g == Frame("unvisited", optional, 0)
           s == Append(Front(stack), Advanced(Top))
<1>1. stack \in Seq(FrameType)
  BY DEF PrinterInductive, TypeOK
<1>2. Top \in FrameType
  BY <1>1, Dropped DEF Top
<1>3. s \in Seq(FrameType)
  BY <1>1, <1>2, FrameFacts, Replaced
<1>4. stack' = Append(s, g)
  BY DEF Visit
<1>5. g \in FrameType /\ g.kind = "unvisited"
  BY UnvisitedFacts
<1> HIDE DEF s, g
<1>6. stack' # <<>> /\ Last(stack') = g
  BY <1>3, <1>4, <1>5, Pushed
<1>7. annotation' = [text |-> text, of |-> "next"]
  BY DEF set_annotation
<1>8. PendingAnnotation'
  BY <1>5, <1>6, <1>7 DEF PendingAnnotation, Top
<1>9. annotation' \in AnnotationType
  BY <1>7 DEF AnnotationType
<1> QED BY <1>8, <1>9 DEF AnnotationsTold, StrayOnlyFromUnprinted

-----------------------------------------------------------------------------
(* The visit methods. *)

LEMMA TopFacts ==
    ASSUME PrinterInductive, stack # <<>>
    PROVE  /\ Top \in FrameType
           /\ Top.at \in Nat
           /\ Top.kind \in Kinds \cup {"unvisited"}
           /\ Top.n \in 0..MaxChildren
           /\ TypeOK
           /\ status = "running" => Aligned(stack, open, indent)
<1>1. stack \in Seq(FrameType) /\ TypeOK /\ (status = "running" => Aligned(stack, open, indent))
  BY DEF PrinterInductive, TypeOK
<1>2. Top \in FrameType
  BY <1>1, Dropped DEF Top
<1> QED BY <1>1, <1>2 DEF FrameType

(* Everything of Steps but the brackets. *)
LEMMA StepsFacts ==
    ASSUME PrinterInductive, status = "running", UNCHANGED <<status, items>>, stack # <<>>,
           branches' \in 0..MaxBranches, AnnotationsTold,
           NEW f \in FrameType, f.kind # "unvisited", Effect(f)
    PROVE  Steps(f)
BY DEF Steps, AnnotationsTold

LEMMA BracketedStep ==
    ASSUME PrinterInductive, NEW kind \in {"binary", "call", "for"}, NEW n \in Nat,
           kind = "for" => n = 4, Bracketed(kind, n)
    PROVE  PrinterInductive' /\ Aligning
<1>1. /\ status = "running" /\ UNCHANGED <<status, items, branches>>
      /\ stack # <<>> /\ Top.kind = kind
  BY DEF Bracketed, At, In
<1>2. /\ Top \in FrameType /\ TypeOK /\ Aligned(stack, open, indent)
      /\ branches' \in 0..MaxBranches
      /\ Top.at \in Nat
  BY <1>1, TopFacts DEF TypeOK
<1>3. Opened(Top) = IF Top.at = 0 THEN 0 ELSE 2
  BY <1>1 DEF Opened
<1> DEFINE f == Advanced(Top)
<1>4. f \in FrameType /\ f.kind = kind /\ Opened(f) = 2
  <2>1. f \in FrameType /\ f.kind = kind /\ f.at = Top.at + 1
    BY <1>1, <1>2, FrameFacts
  <2> HIDE DEF f
  <2> QED BY <1>2, <2>1 DEF Opened
<1>5. CASE At(kind, 0) /\ get_annotation /\ Open(2) /\ Advance
  <2>1. AnnotationsTold
    BY <1>1, <1>5, Printed
  <2>2. Effect(f)
    <3> HIDE DEF f
    <3> QED BY <1>1, <1>2, <1>3, <1>4, <1>5, BracketsOpened DEF At
  <2>3. stack' = Append(Front(stack), f)
    BY <1>5 DEF Advance
  <2> HIDE DEF f
  <2> QED BY <1>1, <1>2, <1>4, <2>1, <2>2, <2>3, StepsFacts, StayStep
<1>6. ASSUME NEW i \in 1..n, At(kind, i), VisitNext(kind, i)
      PROVE  PrinterInductive' /\ Aligning
  <2> DEFINE optional == kind = "for" /\ i = 3
             g == Frame("unvisited", optional, 0)
  <2>1. Visit(optional) /\ PrintNothing /\ stray' = "none" /\ optional \in BOOLEAN
    BY <1>6 DEF VisitNext
  <2>2. Top.at = i /\ i # 0
    BY <1>6 DEF At
  <2>3. AnnotationsTold
    <3>1. CASE kind = "for"
      <4>1. i \in {1, 2, 3, 4}
        BY <1>6, <3>1
      <4>2. Annotation("for", i) \in {"<START>", "<END>", "<STEP>", "<BODY>"}
        <5>1. CASE i = 1
          BY <5>1 DEF Annotation
        <5>2. CASE i = 2
          BY <5>2 DEF Annotation
        <5>3. CASE i = 3
          BY <5>3 DEF Annotation
        <5>4. CASE i = 4
          BY <5>4 DEF Annotation
        <5> QED BY <4>1, <5>1, <5>2, <5>3, <5>4
      <4>3. set_annotation(Annotation("for", i))
        BY <1>6, <3>1, <4>2 DEF VisitNext
      <4> QED BY <1>1, <2>1, <4>2, <4>3, SetNext
    <3>2. CASE kind # "for"
      <4>1. UNCHANGED annotation
        BY <1>6, <3>2 DEF VisitNext, Annotation
      <4>2. Settled
        BY <1>1, <2>2, SettledFacts
      <4> QED BY <2>1, <4>1, <4>2, Kept DEF KeepAnnotation
    <3> QED BY <3>1, <3>2
  <2>4. g \in FrameType /\ Opened(g) = 0 /\ g.optional = optional
    BY <2>1, UnvisitedFacts
  <2>5. stack' = Append(Append(Front(stack), f), g)
    BY <2>1 DEF Visit
  <2>6. Effect(f)
    <3> HIDE DEF f
    <3> QED BY <1>1, <1>2, <1>3, <1>4, <2>1, <2>2, NothingPrinted
  <2>7. g.optional => f.kind \in {"for", "var"}
    BY <1>4, <2>4
  <2> HIDE DEF f, g
  <2> QED BY <1>1, <1>2, <1>4, <2>3, <2>4, <2>5, <2>6, <2>7, StepsFacts, VisitStep
<1>7. CASE At(kind, n + 1) /\ KeepAnnotation /\ Close(2) /\ Return
  <2> DEFINE h == Closed(Top)
  <2>1. Top.at = n + 1 /\ Top.at # 0
    BY <1>7 DEF At
  <2>2. AnnotationsTold
    BY <1>1, <1>7, <2>1, SettledFacts, Kept
  <2>3. h \in FrameType /\ h.kind = kind /\ Opened(h) = 0
    BY <1>1, <1>2, FrameFacts
  <2>4. stack' = Front(stack)
    BY <1>7 DEF Return
  <2> HIDE DEF h
  <2>5. Effect(h)
    BY <1>1, <1>2, <1>3, <1>7, <2>1, <2>3, BracketsClosed
  <2> QED BY <1>1, <1>2, <2>2, <2>3, <2>4, <2>5, StepsFacts, ReturnStep
<1> QED BY <1>5, <1>6, <1>7 DEF Bracketed

LEMMA AcceptStep ==
    ASSUME PrinterInductive, accept
    PROVE  PrinterInductive' /\ Aligning
<1>1. /\ status = "running" /\ UNCHANGED items
      /\ stack # <<>> /\ Top.kind = "unvisited"
      /\ PrintNothing /\ stray' = "none"
  BY DEF accept, In
<1>2. /\ Top \in FrameType /\ TypeOK /\ Aligned(stack, open, indent)
      /\ Opened(Top) = 0
  BY <1>1, TopFacts DEF Opened
<1>3. CASE Top.optional /\ status' = "crashed" /\ UNCHANGED <<stack, annotation, branches>>
  <2>1. UNCHANGED <<indent, open, column>>
    BY <1>1 DEF PrintNothing
  <2>2. TypeOK'
    BY <1>1, <1>2, <1>3, <2>1 DEF TypeOK
  <2>3. MissingOnlyOfForAndVar'
    BY <1>3 DEF PrinterInductive, MissingOnlyOfForAndVar
  <2>4. PendingAnnotation'
    BY <1>3 DEF PrinterInductive, PendingAnnotation, Top
  <2>5. CrashesOnMissing'
    <3>1. stack \in Seq(FrameType)
      BY <1>2 DEF TypeOK
    <3>2. Len(stack) \in 1..Len(stack) /\ Top = stack[Len(stack)]
      <4>1. Len(stack) \in Nat \ {0} /\ Top = stack[Len(stack)]
        BY <1>1, <3>1, Dropped DEF Top
      <4> QED BY <4>1
    <3>3. Len(stack) > 1 /\ stack[Len(stack) - 1].kind \in {"for", "var"}
      BY <1>1, <1>3, <3>2 DEF PrinterInductive, MissingOnlyOfForAndVar
    <3> QED BY <1>3, <3>3 DEF CrashesOnMissing
  <2>6. StrayOnlyFromUnprinted' /\ ~(Len(open') < Len(open))
    BY <1>1, <2>1, LenProperties DEF StrayOnlyFromUnprinted, TypeOK
  <2> QED BY <1>3, <2>2, <2>3, <2>4, <2>5, <2>6 DEF PrinterInductive, Aligning
<1>4. ASSUME NEW node \in Nodes, UNCHANGED status,
             stack' = Append(Front(stack),
                   [Frame(node[1], FALSE, node[2]) EXCEPT !.mine = annotation.of = "next"]),
             annotation' = IF annotation.of = "next"
                           THEN [annotation EXCEPT !.of = node[1]] ELSE annotation,
             branches' = IF node[1] \in Leaves THEN branches ELSE branches + 1
      PROVE  PrinterInductive' /\ Aligning
  <2> DEFINE f == [Frame(node[1], FALSE, node[2]) EXCEPT !.mine = annotation.of = "next"]
  <2>1. /\ node[1] \in Leaves \cup Branches
        /\ node[2] \in 0..MaxChildren
        /\ node[1] \notin Leaves => branches < MaxBranches
    BY PrinterAssumption DEF Nodes, Leaves, Branches
  <2>2. /\ f \in FrameType
        /\ f.kind = node[1]
        /\ f.kind # "unvisited"
        /\ f.at = 0
        /\ f.mine = (annotation.of = "next")
    BY <2>1 DEF Frame, FrameType, Kinds, Leaves, Branches
  <2>3. branches' \in 0..MaxBranches
    BY <1>2, <1>4, <2>1, PrinterAssumption DEF TypeOK
  <2>4. stack' = Append(Front(stack), f)
    BY <1>4
  <2> HIDE DEF f
  <2>5. Opened(f) = 0
    BY <2>2, OpenedFacts
  <2>6. Effect(f)
    BY <1>1, <1>2, <2>2, <2>5, NothingPrinted
  <2>7. stack' # <<>> /\ Last(stack') = f
    BY <1>1, <1>2, <2>2, <2>4, Replaced DEF TypeOK
  <2>8. AnnotationsTold
    <3>1. StrayOnlyFromUnprinted'
      BY <1>1 DEF StrayOnlyFromUnprinted
    <3>2. CASE annotation.of = "next"
      <4>1. annotation' = [annotation EXCEPT !.of = node[1]]
        BY <1>4, <3>2
      <4>2. annotation' \in AnnotationType /\ annotation'.of = node[1]
        BY <1>2, <2>1, <4>1 DEF TypeOK, AnnotationType, Kinds
      <4>3. PendingAnnotation'
        BY <2>1, <2>2, <2>7, <3>2, <4>2 DEF PendingAnnotation, Top
      <4> QED BY <3>1, <4>2, <4>3 DEF AnnotationsTold
    <3>3. CASE annotation.of # "next"
      <4>1. annotation' = annotation
        BY <1>4, <3>3
      <4>2. Settled
        BY <1>1, <3>3 DEF PrinterInductive, PendingAnnotation, Settled, Leaves, Branches
      <4> QED BY <1>1, <4>1, <4>2, Kept DEF KeepAnnotation
    <3> QED BY <3>2, <3>3
  <2> QED BY <1>1, <1>4, <2>2, <2>3, <2>4, <2>6, <2>8, StepsFacts, StayStep
<1> QED BY <1>3, <1>4 DEF accept

(* A method that prints no brackets, and returns at once. *)
LEMMA LeafStep ==
    ASSUME PrinterInductive, NEW kind \in Kinds, At(kind, 0), AnnotationsTold, PrintNothing, Return
    PROVE  PrinterInductive' /\ Aligning
<1>1. /\ status = "running" /\ UNCHANGED <<status, items, branches>>
      /\ stack # <<>> /\ Top.kind = kind /\ Top.at = 0
  BY DEF At, In
<1>2. /\ Top \in FrameType /\ TypeOK /\ Aligned(stack, open, indent)
      /\ branches' \in 0..MaxBranches
      /\ Opened(Top) = 0
      /\ kind # "unvisited"
  BY <1>1, TopFacts, OpenedFacts DEF TypeOK, Kinds, Leaves, Branches
<1> DEFINE f == Closed(Top)
<1>3. f \in FrameType /\ Opened(f) = 0 /\ f.kind = kind
  BY <1>1, <1>2, FrameFacts
<1> HIDE DEF f
<1>4. Effect(f)
  BY <1>1, <1>2, <1>3, NothingPrinted
<1> QED BY <1>1, <1>2, <1>3, <1>4, StepsFacts, ReturnStep DEF Return

LEMMA LeavesStep ==
    ASSUME PrinterInductive, visitFloat \/ visitVariable \/ visitUnary \/ visitPrototype
    PROVE  PrinterInductive' /\ Aligning
<1>1. ASSUME NEW kind \in {"float", "variable"}, At(kind, 0), get_annotation
      PROVE  AnnotationsTold
  BY <1>1, Printed DEF At, In
<1>2. ASSUME NEW kind \in {"unary", "prototype"}, At(kind, 0), KeepAnnotation
      PROVE  AnnotationsTold
  <2>1. stack # <<>> /\ Top.kind = kind
    BY <1>2 DEF At, In
  <2>2. Settled
    BY <2>1, SettledFacts
  <2> QED BY <1>2, <2>2, Kept
<1> QED BY <1>1, <1>2, LeafStep
        DEF visitFloat, visitVariable, visitUnary, visitPrototype, Kinds, Leaves, Branches

LEMMA IfStep ==
    ASSUME PrinterInductive, visitIf
    PROVE  PrinterInductive' /\ Aligning
<1>1. /\ status = "running" /\ UNCHANGED <<status, items, branches>>
      /\ stack # <<>> /\ Top.kind = "if"
  BY DEF visitIf, At, In
<1>2. /\ Top \in FrameType /\ TypeOK /\ Aligned(stack, open, indent)
      /\ branches' \in 0..MaxBranches
      /\ Top.at \in Nat
  BY <1>1, TopFacts DEF TypeOK
<1>3. Opened(Top) = IF Top.at = 0 THEN 0 ELSE 2
  BY <1>1 DEF Opened
<1> DEFINE f == Advanced(Top)
<1>4. f \in FrameType /\ f.kind = "if" /\ Opened(f) = 2 /\ f.at = Top.at + 1
  <2>1. f \in FrameType /\ f.kind = "if" /\ f.at = Top.at + 1
    BY <1>1, <1>2, FrameFacts
  <2> HIDE DEF f
  <2> QED BY <1>2, <2>1 DEF Opened
<1>5. stack \in Seq(FrameType)
  BY <1>2 DEF TypeOK
<1>6. CASE At("if", 0) /\ KeepAnnotation /\ Open(2) /\ Advance
  <2>1. stack' = Append(Front(stack), f)
    BY <1>6 DEF Advance
  <2>2. Top.at = 0 /\ UNCHANGED annotation /\ stray' = "none"
    BY <1>6 DEF At, KeepAnnotation
  <2> HIDE DEF f
  <2>3. stack' # <<>> /\ Last(stack') = f
    BY <1>1, <1>4, <1>5, <2>1, Replaced
  <2>4. PendingAnnotation'
    <3>1. annotation.of \in Leaves \cup Branches \cup {"none", "next"}
      BY DEF PrinterInductive, PendingAnnotation
    <3>2. \/ annotation.text = ""
          \/ annotation.of \in {"unary", "var"}
          \/ annotation.of = "if"
      BY <1>1, <2>2 DEF PrinterInductive, PendingAnnotation
    <3>3. Top'.kind = "if" /\ Top'.at = 1
      BY <1>4, <2>2, <2>3 DEF Top
    <3> QED BY <2>2, <2>3, <3>1, <3>2, <3>3 DEF PendingAnnotation
  <2>5. AnnotationsTold
    BY <1>2, <2>2, <2>4 DEF AnnotationsTold, StrayOnlyFromUnprinted, TypeOK
  <2>6. Effect(f)
    BY <1>1, <1>2, <1>3, <1>4, <1>6, <2>2, BracketsOpened
  <2> QED BY <1>1, <1>2, <1>4, <2>1, <2>5, <2>6, StepsFacts, StayStep
<1>7. ASSUME NEW i \in 1..3, At("if", i), VisitNext("if", i)
      PROVE  PrinterInductive' /\ Aligning
  <2> DEFINE g == Frame("unvisited", FALSE, 0)
  <2>1. Visit(FALSE) /\ PrintNothing /\ stray' = "none"
    BY <1>7 DEF VisitNext
  <2>2. Annotation("if", i) \in {"<COND>", "<THEN>", "<ELSE>"}
    <3>1. i \in {1, 2, 3}
      BY <1>7
    <3>2. CASE i = 1
      BY <3>2 DEF Annotation
    <3>3. CASE i = 2
      BY <3>3 DEF Annotation
    <3>4. CASE i = 3
      BY <3>4 DEF Annotation
    <3> QED BY <3>1, <3>2, <3>3, <3>4
  <2>3. set_annotation(Annotation("if", i))
    BY <1>7, <2>2 DEF VisitNext
  <2>4. AnnotationsTold
    BY <1>1, <2>1, <2>2, <2>3, SetNext
  <2>5. g \in FrameType /\ Opened(g) = 0 /\ g.optional = FALSE
    BY UnvisitedFacts
  <2>6. stack' = Append(Append(Front(stack), f), g)
    BY <2>1 DEF Visit
  <2>7. Top.at # 0
    BY <1>7 DEF At
  <2> HIDE DEF f, g
  <2>8. Effect(f)
    BY <1>1, <1>2, <1>3, <1>4, <2>1, <2>7, NothingPrinted
  <2> QED BY <1>1, <1>2, <1>4, <2>4, <2>5, <2>6, <2>8, StepsFacts, VisitStep
<1>8. CASE At("if", 3) /\ KeepAnnotation /\ PrintNothing /\ Advance
  <2>1. stack' = Append(Front(stack), f) /\ Top.at = 3
    BY <1>8 DEF Advance, At
  <2>2. AnnotationsTold
    BY <1>1, <1>8, <2>1, SettledFacts, Kept
  <2> HIDE DEF f
  <2>3. Effect(f)
    BY <1>1, <1>2, <1>3, <1>4, <1>8, <2>1, NothingPrinted
  <2> QED BY <1>1, <1>2, <1>4, <2>1, <2>2, <2>3, StepsFacts, StayStep
<1>9. CASE At("if", 4) /\ KeepAnnotation /\ Close(2) /\ Return
  <2> DEFINE h == Closed(Top)
  <2>1. Top.at = 4
    BY <1>9 DEF At
  <2>2. AnnotationsTold
    BY <1>1, <1>9, <2>1, SettledFacts, Kept
  <2>3. h \in FrameType /\ h.kind = "if" /\ Opened(h) = 0
    BY <1>1, <1>2, FrameFacts
  <2>4. stack' = Front(stack)
    BY <1>9 DEF Return
  <2> HIDE DEF h
  <2>5. Effect(h)
    BY <1>1, <1>2, <1>3, <1>9, <2>1, <2>3, BracketsClosed
  <2> QED BY <1>1, <1>2, <2>2, <2>3, <2>4, <2>5, StepsFacts, ReturnStep
<1> QED BY <1>6, <1>7, <1>8, <1>9 DEF visitIf

LEMMA VarStep ==
    ASSUME PrinterInductive, visitVar
    PROVE  PrinterInductive' /\ Aligning
<1>1. /\ status = "running" /\ UNCHANGED <<status, items, branches>>
      /\ stack # <<>> /\ Top.kind = "var" /\ KeepAnnotation
  BY DEF visitVar, At, In
<1>2. /\ Top \in FrameType /\ TypeOK /\ Aligned(stack, open, indent)
      /\ branches' \in 0..MaxBranches
      /\ Top.at \in Nat
      /\ Top.n \in Nat
  BY <1>1, TopFacts, PrinterAssumption DEF TypeOK
<1>3. Opened(Top) = IF Top.at = 0 THEN 0 ELSE 1
  BY <1>1 DEF Opened
<1> DEFINE f == Advanced(Top)
<1>4. f \in FrameType /\ f.kind = "var" /\ Opened(f) = 1
  <2>1. f \in FrameType /\ f.kind = "var" /\ f.at = Top.at + 1
    BY <1>1, <1>2, FrameFacts
  <2> HIDE DEF f
  <2> QED BY <1>2, <2>1 DEF Opened
<1>5. AnnotationsTold
  BY <1>1, SettledFacts, Kept
<1>6. CASE /\ At("var", 0)
           /\ indent' = indent + INDENT_SIZE
           /\ open' = Append(open, 0)
           /\ column' = 0
           /\ Advance
  <2>1. stack' = Append(Front(stack), f) /\ Top.at = 0
    BY <1>6 DEF Advance, At
  <2> HIDE DEF f
  <2>2. Effect(f)
    BY <1>1, <1>2, <1>3, <1>4, <1>6, <2>1, VarOpened
  <2> QED BY <1>1, <1>2, <1>4, <1>5, <2>1, <2>2, StepsFacts, StayStep
<1>7. ASSUME NEW i \in 1..Top.n, At("var", i), PrintNothing, Visit(TRUE)
      PROVE  PrinterInductive' /\ Aligning
  <2> DEFINE g == Frame("unvisited", TRUE, 0)
  <2>1. g \in FrameType /\ Opened(g) = 0
    BY UnvisitedFacts
  <2>2. stack' = Append(Append(Front(stack), f), g)
    BY <1>7 DEF Visit
  <2>3. Top.at # 0
    BY <1>7 DEF At
  <2> HIDE DEF f, g
  <2>4. Effect(f)
    BY <1>1, <1>2, <1>3, <1>4, <1>7, <2>3, NothingPrinted
  <2> QED BY <1>1, <1>2, <1>4, <1>5, <2>1, <2>2, <2>4, StepsFacts, VisitStep
<1>8. CASE /\ At("var", Top.n + 1)
           /\ indent' = indent - INDENT_SIZE
           /\ open' = Front(open)
           /\ column' = 0
           /\ Return
  <2> DEFINE h == Closed(Top)
  <2>1. Top.at # 0
    BY <1>2, <1>8 DEF At
  <2>2. h \in FrameType /\ h.kind = "var" /\ Opened(h) = 0
    BY <1>1, <1>2, FrameFacts
  <2>3. stack' = Front(stack)
    BY <1>8 DEF Return
  <2> HIDE DEF h
  <2>4. Effect(h)
    BY <1>1, <1>2, <1>3, <1>8, <2>1, <2>2, VarClosed
  <2> QED BY <1>1, <1>2, <1>5, <2>2, <2>3, <2>4, StepsFacts, ReturnStep
<1> QED BY <1>6, <1>7, <1>8 DEF visitVar

LEMMA FunctionStep ==
    ASSUME PrinterInductive, visitFunction
    PROVE  PrinterInductive' /\ Aligning
<1>1. /\ status = "running" /\ UNCHANGED <<status, items, branches>>
      /\ stack # <<>> /\ Top.kind = "function" /\ KeepAnnotation
  BY DEF visitFunction, At, In
<1>2. /\ Top \in FrameType /\ TypeOK /\ Aligned(stack, open, indent)
      /\ branches' \in 0..MaxBranches
      /\ Top.at \in Nat
      /\ Top.n \in Nat
  BY <1>1, TopFacts, PrinterAssumption DEF TypeOK
<1>3. Opened(Top) = IF Top.at = 0 THEN 0 ELSE IF Top.at = Top.n + 2 THEN 1 ELSE 2
  BY <1>1 DEF Opened
<1> DEFINE f == Advanced(Top)
<1>4. f \in FrameType /\ f.kind = "function" /\ Opened(f) = IF Top.at = Top.n + 1 THEN 1 ELSE 2
  <2>1. f \in FrameType /\ f.kind = "function" /\ f.at = Top.at + 1 /\ f.n = Top.n
    BY <1>1, <1>2, FrameFacts
  <2> HIDE DEF f
  <2> QED BY <1>2, <2>1 DEF Opened
<1>5. AnnotationsTold
  BY <1>1, SettledFacts, Kept
<1>6. CASE At("function", 0) /\ Open(2) /\ Advance
  <2>1. stack' = Append(Front(stack), f) /\ Top.at = 0 /\ Top.at # Top.n + 1
    BY <1>2, <1>6 DEF Advance, At
  <2> HIDE DEF f
  <2>2. Effect(f)
    BY <1>1, <1>2, <1>3, <1>4, <1>6, <2>1, BracketsOpened
  <2> QED BY <1>1, <1>2, <1>4, <1>5, <2>1, <2>2, StepsFacts, StayStep
<1>7. ASSUME NEW i \in 1..Top.n, At("function", i), PrintNothing,
             stack' = Append(Append(Front(stack), f), Frame("variable", FALSE, 0))
      PROVE  PrinterInductive' /\ Aligning
  <2> DEFINE g == Frame("variable", FALSE, 0)
  <2>1. g \in FrameType /\ g.kind = "variable" /\ Opened(g) = 0
    <3>1. 0 \in Nat /\ 0 \in 0..MaxChildren
      BY PrinterAssumption
    <3> QED BY <3>1 DEF Frame, FrameType, Kinds, Leaves, Opened
  <2>2. Top.at \notin {0, Top.n + 1, Top.n + 2}
    BY <1>2, <1>7 DEF At
  <2>3. stack' = Append(Append(Front(stack), f), g)
    BY <1>7
  <2> HIDE DEF f, g
  <2>4. Effect(f)
    BY <1>1, <1>2, <1>3, <1>4, <1>7, <2>2, NothingPrinted
  <2> QED BY <1>1, <1>2, <1>4, <1>5, <2>1, <2>3, <2>4, StepsFacts, VisitStep
<1>8. CASE At("function", Top.n + 1) /\ Close(1) /\ Advance
  <2>1. stack' = Append(Front(stack), f) /\ Top.at = Top.n + 1 /\ Top.at \notin {0, Top.n + 2}
    BY <1>2, <1>8 DEF Advance, At
  <2> HIDE DEF f
  <2>2. Effect(f)
    BY <1>1, <1>2, <1>3, <1>4, <1>8, <2>1, BracketsClosed
  <2> QED BY <1>1, <1>2, <1>4, <1>5, <2>1, <2>2, StepsFacts, StayStep
<1>9. CASE At("function", Top.n + 2) /\ Open(1) /\ Visit(FALSE)
  <2> DEFINE g == Frame("unvisited", FALSE, 0)
  <2>1. g \in FrameType /\ Opened(g) = 0 /\ g.optional = FALSE
    BY UnvisitedFacts
  <2>2. stack' = Append(Append(Front(stack), f), g)
    BY <1>9 DEF Visit
  <2>3. Top.at = Top.n + 2 /\ Top.at \notin {0, Top.n + 1}
    BY <1>2, <1>9 DEF At
  <2> HIDE DEF f, g
  <2>4. Effect(f)
    BY <1>1, <1>2, <1>3, <1>4, <1>9, <2>3, BracketsOpened
  <2> QED BY <1>1, <1>2, <1>4, <1>5, <2>1, <2>2, <2>4, StepsFacts, VisitStep
<1>10. CASE At("function", Top.n + 3) /\ Close(2) /\ Return
  <2> DEFINE h == Closed(Top)
  <2>1. Top.at \notin {0, Top.n + 2}
    BY <1>2, <1>10 DEF At
  <2>2. h \in FrameType /\ h.kind = "function" /\ Opened(h) = 0
    BY <1>1, <1>2, FrameFacts
  <2>3. stack' = Front(stack)
    BY <1>10 DEF Return
  <2> HIDE DEF h
  <2>4. Effect(h)
    BY <1>1, <1>2, <1>3, <1>10, <2>1, <2>2, BracketsClosed
  <2> QED BY <1>1, <1>2, <1>5, <2>2, <2>3, <2>4, StepsFacts, ReturnStep
<1> QED BY <1>6, <1>7, <1>8, <1>9, <1>10 DEF visitFunction

-----------------------------------------------------------------------------
(* print_ast. *)

LEMMA NoMethodActive ==
    ASSUME PrinterInductive, status = "running", stack = <<>>
    PROVE  /\ TypeOK
           /\ Aligned(<<>>, open, indent)
           /\ open \in Seq(Nat) /\ Len(open) = 1 /\ open[1] = 0
           /\ Settled
           /\ MissingOnlyOfForAndVar
<1>1. TypeOK /\ Aligned(<<>>, open, indent) /\ Settled /\ MissingOnlyOfForAndVar
  BY DEF PrinterInductive, PendingAnnotation, Settled
<1>2. open \in Seq(Nat) /\ Len(open) = 1 /\ open[1] = 0
  BY <1>1 DEF Aligned, Brackets
<1> QED BY <1>1, <1>2

(* The first frame of an item. *)
LEMMA ItemStep ==
    ASSUME PrinterInductive, status = "running", stack = <<>>, NEW f \in FrameType,
           f.kind # "unvisited", Opened(f) = 0,
           stack' = <<f>>, items' \in 0..MaxItems, KeepAnnotation, PrintNothing,
           UNCHANGED <<branches, status>>
    PROVE  PrinterInductive' /\ Aligning
<1>1. /\ TypeOK /\ Aligned(<<>>, open, indent)
      /\ open \in Seq(Nat) /\ Len(open) = 1
      /\ Settled
  BY NoMethodActive
<1>2. AnnotationsTold
  BY <1>1, Kept
<1>3. UNCHANGED <<indent, open, column>> /\ ~(Len(open') < Len(open))
  BY <1>1 DEF PrintNothing
<1>4. stray' = "none"
  BY DEF KeepAnnotation
<1>5. TypeOK'
  BY <1>1, <1>2, <1>3, <1>4 DEF TypeOK, AnnotationsTold
<1>6. Aligned(stack', open', indent')
  <2>1. <<>> \in Seq(FrameType) /\ stack' = Append(<<>>, f)
    OBVIOUS
  <2> QED BY <1>1, <1>3, <2>1, CallAligned
<1>7. MissingOnlyOfForAndVar'
  BY DEF MissingOnlyOfForAndVar
<1> QED BY <1>2, <1>3, <1>5, <1>6, <1>7
        DEF PrinterInductive, AnnotationsTold, CrashesOnMissing, Aligning

LEMMA PrintAstStep ==
    ASSUME PrinterInductive, print_ast
    PROVE  PrinterInductive' /\ Aligning
<1>1. /\ status = "running" /\ stack = <<>> /\ KeepAnnotation
      /\ UNCHANGED branches
  BY DEF print_ast, NextItem, EndOfTree
<1>2. /\ TypeOK /\ Aligned(<<>>, open, indent)
      /\ open \in Seq(Nat) /\ Len(open) = 1 /\ open[1] = 0
      /\ Settled
      /\ MissingOnlyOfForAndVar
  BY <1>1, NoMethodActive
<1>3. AnnotationsTold
  BY <1>1, <1>2, Kept
<1>4. ASSUME NextItem, status' = "crashed", UNCHANGED stack
      PROVE  PrinterInductive' /\ Aligning
  <2>1. UNCHANGED <<indent, open, column>> /\ ~(Len(open') < Len(open))
    <3>1. UNCHANGED <<indent, open, column>>
      BY <1>4 DEF NextItem, PrintNothing
    <3> QED BY <1>2, <3>1
  <2>2. items' \in 0..MaxItems
    BY <1>2, <1>4, PrinterAssumption DEF NextItem, TypeOK
  <2>3. stray' = "none"
    BY <1>1 DEF KeepAnnotation
  <2>4. TypeOK'
    BY <1>1, <1>2, <1>3, <1>4, <2>1, <2>2, <2>3 DEF TypeOK, AnnotationsTold
  <2>5. MissingOnlyOfForAndVar'
    BY <1>2, <1>4 DEF MissingOnlyOfForAndVar
  <2>6. CrashesOnMissing'
    BY <1>1, <1>4 DEF CrashesOnMissing
  <2> QED BY <1>3, <1>4, <2>1, <2>4, <2>5, <2>6 DEF PrinterInductive, AnnotationsTold, Aligning
<1>5. ASSUME NextItem, status' = status, NEW kind \in {"function", "prototype"},
             NEW n \in 0..MaxChildren, stack' = <<Frame(kind, FALSE, n)>>
      PROVE  PrinterInductive' /\ Aligning
  <2> DEFINE f == Frame(kind, FALSE, n)
  <2>1. f \in FrameType /\ f.kind # "unvisited" /\ Opened(f) = 0
    BY DEF Frame, FrameType, Kinds, Opened
  <2>2. items' \in 0..MaxItems
    BY <1>2, <1>5, PrinterAssumption DEF NextItem, TypeOK
  <2>3. PrintNothing /\ stack' = <<f>>
    BY <1>5 DEF NextItem
  <2> HIDE DEF f
  <2> QED BY <1>1, <1>5, <2>1, <2>2, <2>3, ItemStep
<1>6. ASSUME EndOfTree
      PROVE  PrinterInductive' /\ Aligning
  <2>1. open' = Front(open) /\ column' = 0 /\ UNCHANGED <<indent, stack, items>> /\ status' = "finished"
    BY <1>6 DEF EndOfTree
  <2>2. open' \in Seq(Nat) /\ Len(open') = 0
    <3>1. open # <<>>
      BY <1>2, EmptySeq
    <3> QED BY <1>2, <2>1, <3>1, Dropped
  <2>3. Aligning
    BY <1>2, <2>1, <2>2 DEF Aligning
  <2>4. stray' = "none"
    BY <1>1 DEF KeepAnnotation
  <2>5. TypeOK'
    BY <1>1, <1>2, <1>3, <2>1, <2>2, <2>4 DEF TypeOK, AnnotationsTold
  <2>6. MissingOnlyOfForAndVar'
    BY <1>2, <2>1 DEF MissingOnlyOfForAndVar
  <2> QED BY <1>3, <2>1, <2>3, <2>5, <2>6
          DEF PrinterInductive, AnnotationsTold, CrashesOnMissing
<1>7. 0 \in 0..MaxChildren
  BY PrinterAssumption
<1> QED BY <1>4, <1>5, <1>6, <1>7 DEF print_ast, NextItem

-----------------------------------------------------------------------------
LEMMA PrinterStutter ==
    ASSUME PrinterInductive, UNCHANGED vars
    PROVE  PrinterInductive'
<1>1. TypeOK'
  BY DEF vars, PrinterInductive, TypeOK
<1>2. MissingOnlyOfForAndVar' /\ CrashesOnMissing' /\ StrayOnlyFromUnprinted'
  BY DEF vars, PrinterInductive, MissingOnlyOfForAndVar, CrashesOnMissing, StrayOnlyFromUnprinted
<1>3. PendingAnnotation'
  BY DEF vars, PrinterInductive, PendingAnnotation, Top
<1>4. status' = "running" => Aligned(stack', open', indent')
  BY DEF vars, PrinterInductive
<1> QED BY <1>1, <1>2, <1>3, <1>4 DEF PrinterInductive

LEMMA PrinterStep ==
    ASSUME PrinterInductive, Next
    PROVE  PrinterInductive' /\ (Aligning \/ UNCHANGED vars)
<1>1. CASE visitBinary
  BY <1>1, BracketedStep DEF visitBinary
<1>2. CASE visitCall
  <2>1. Top.n \in Nat
    BY <1>2, TopFacts, PrinterAssumption DEF visitCall, In
  <2> QED BY <1>2, <2>1, BracketedStep DEF visitCall
<1>3. CASE visitFor
  BY <1>3, BracketedStep DEF visitFor
<1>4. CASE Done
  BY <1>4, PrinterStutter DEF Done
<1> QED
  BY <1>1, <1>2, <1>3, <1>4, AcceptStep, LeavesStep, IfStep, VarStep, FunctionStep, PrintAstStep
  DEF Next

LEMMA PrinterInit == Init => PrinterInductive
<1> SUFFICES ASSUME Init
             PROVE  PrinterInductive
  OBVIOUS
<1>1. /\ indent = 2 /\ annotation = NoAnnotation /\ stack = <<>> /\ open = <<0>> /\ column = 0
      /\ stray = "none" /\ branches = 0 /\ items = 0 /\ status = "running"
  BY DEF Init, INDENT_SIZE
<1>2. annotation \in AnnotationType /\ annotation.of = "none" /\ annotation.text = ""
  BY <1>1 DEF NoAnnotation, AnnotationType
<1>3. open \in Seq(Nat) /\ Len(open) = 1 /\ open[1] = 0
  BY <1>1
<1>4. TypeOK
  <2>1. stack \in Seq(FrameType)
    BY <1>1
  <2>2. indent \in Nat /\ column \in Nat /\ branches \in 0..MaxBranches /\ items \in 0..MaxItems
    BY <1>1, PrinterAssumption
  <2> QED BY <1>1, <1>2, <1>3, <2>1, <2>2 DEF TypeOK
<1>5. Aligned(stack, open, indent)
  <2>1. Len(stack) = 0
    BY <1>1
  <2> DEFINE from == [i \in 1..0 |-> 0]
  <2>2. from \in [1..Len(stack) -> Nat]
    BY <2>1
  <2>3. Brackets(from, stack, open)
    <3> HIDE DEF from
    <3>1. 1..Len(stack) = {} /\ 1..(Len(stack) - 1) = {}
      BY <2>1
    <3> QED BY <1>1, <1>3, <2>2, <3>1 DEF Brackets
  <2> HIDE DEF from
  <2>4. indent = INDENT_SIZE * Len(open)
    BY <1>1, <1>3 DEF INDENT_SIZE
  <2> QED BY <1>3, <2>2, <2>3, <2>4 DEF Aligned
<1>6. MissingOnlyOfForAndVar /\ CrashesOnMissing /\ StrayOnlyFromUnprinted
  BY <1>1 DEF MissingOnlyOfForAndVar, CrashesOnMissing, StrayOnlyFromUnprinted
<1>7. PendingAnnotation
  BY <1>2 DEF PendingAnnotation
<1> QED BY <1>4, <1>5, <1>6, <1>7 DEF PrinterInductive

(* What the walk relies on holds throughout, for a tree of any size. *)
THEOREM PrinterInvariant == Spec => []PrinterInductive
<1>1. PrinterInductive /\ [Next]_vars => PrinterInductive'
  BY PrinterStep, PrinterStutter
<1> QED BY <1>1, PrinterInit, PTL DEF Spec

(* TypeOK: the members of ASTToOutputVisitor keep their types, and the     *)
(* indentation is never negative.                                          *)
THEOREM TypeCorrect == Spec => []TypeOK
<1>1. PrinterInductive => TypeOK
  BY DEF PrinterInductive
<1> QED BY <1>1, PrinterInvariant, PTL

(* StrayOnlyFromUnprinted: what get_annotation prints in front of a child  *)
(* it was not set for was left by a unary node or by a `var`.              *)
THEOREM Stray == Spec => []StrayOnlyFromUnprinted
<1>1. PrinterInductive => StrayOnlyFromUnprinted
  BY DEF PrinterInductive
<1> QED BY <1>1, PrinterInvariant, PTL

(* CrashesOnMissing: the visit methods call through a null pointer only    *)
(* for an item, the step of a `for` or an initializer that is not there.   *)
THEOREM Crashes == Spec => []CrashesOnMissing
<1>1. PrinterInductive => CrashesOnMissing
  BY DEF PrinterInductive
<1> QED BY <1>1, PrinterInvariant, PTL

(* BracketsAlign: a bracket is closed in the column in which it was opened *)
(* however deep the tree is between the two.                               *)
THEOREM Alignment == Spec => BracketsAlign
<1>1. PrinterInductive /\ [Next]_vars =>
         [Len(open') < Len(open) => column' = open[Len(open') + 1]]_vars
  BY PrinterStep DEF Aligning
<1> QED BY <1>1, PrinterInvariant, PTL DEF Spec, BracketsAlign
=============================================================================
