---------------------------- MODULE ParserProofs ----------------------------
(***************************************************************************)
(* Proofs about the parser, for inputs of any length over any set of       *)
(* tokens: the type invariant, one diagnostic per failure, and the         *)
(* precedence of operators.  All three follow from Inductive in Parser.    *)
(***************************************************************************)
EXTENDS Parser, StackLemmas

-----------------------------------------------------------------------------
(* An operator binds more loosely than Tight, anything else not at all. *)
LEMMA Precedences == \A t : get_tok_precedence(t) \in {-1, 2, 10, 20, 40}
BY DEF get_tok_precedence, bin_op_precedence

LEMMA Families ==
    /\ \A l \in ItemLabels : l \notin OperandLabels \cup RhsLabels \cup ExprLabels
    /\ \A l \in OperandLabels : l \notin RhsLabels \cup ExprLabels
    /\ \A l \in ExprLabels : l \notin RhsLabels
    /\ RhsLabels = {"rhs", "rhs.operand", "rhs.nested"}
    /\ ExprLabels = {"expr", "expr.lhs"}
    /\ "unary" \in OperandLabels
BY DEF ItemLabels, OperandLabels, RhsLabels, ExprLabels

-----------------------------------------------------------------------------
(* The ways a step leaves the stack.  Each lemma shows that Inductive is    *)
(* preserved, from what the step does to the innermost frame.               *)

(* What every step of a parse function has in common. *)
Running ==
    /\ Inductive
    /\ status = "running"
    /\ stack # <<>>
    /\ tok' \in AnyToken
    /\ pos' \in Nat
    /\ UNCHANGED <<nodes, mark, status>>

(* g is at a point of the function that f is in. *)
StandsFor(g, f) ==
    /\ f.at \in ItemLabels => g.at \in ItemLabels
    /\ f.at \in OperandLabels => g.at \in OperandLabels
    /\ f.at \in RhsLabels => g.at \in RhsLabels /\ g.min = f.min

(* g has the token t and no result to look at. *)
Begins(g, t) ==
    /\ OperatorsInOrder(g)
    /\ Suits(g, Pending, t)
    /\ g.at = "rhs" => g.lhs.prec >= get_tok_precedence(t)

LEMMA PendingFacts ==
    /\ Pending \in Result
    /\ ~IsNull(Pending)
    /\ Pending.prec = Tight
    /\ Bound(Pending)
    /\ Pending.kind = "pending"
BY DEF Pending, Node, Result, IsNull, Bound, Tight

LEMMA NullFacts ==
    /\ Null \in Result
    /\ IsNull(Null)
    /\ Null.prec = Tight
    /\ Bound(Null)
    /\ Null.kind \in ItemKinds
BY DEF Null, Node, Result, IsNull, Bound, Tight, ItemKinds

LEMMA GotoStep ==
    ASSUME Running, ~IsNull(ret), NEW f \in FrameType, Goto(f),
           StandsFor(f, Top), Begins(f, tok')
    PROVE  Inductive'
<1>1. /\ stack \in Seq(FrameType)
      /\ stack # <<>>
      /\ nodes \in Seq(ItemKinds)
      /\ mark \in Nat
      /\ errors \in Nat
      /\ errors = 0
  BY DEF Running, Inductive, TypeOK, OneDiagnosticPerFailure
<1>2. /\ stack' \in Seq(FrameType)
      /\ stack' # <<>>
      /\ Len(stack') = Len(stack)
      /\ stack'[Len(stack)] = f
      /\ \A i \in 1..(Len(stack) - 1) : stack'[i] = stack[i]
      /\ Top' = f
  BY <1>1, Replaced DEF Goto, Top
<1>3. Len(stack) \in Nat \ {0} /\ Top = stack[Len(stack)]
  BY <1>1, Dropped DEF Top
<1>4. TypeOK'
  BY <1>1, <1>2, PendingFacts DEF Running, Inductive, TypeOK, Goto
<1>5. OneDiagnosticPerFailure' /\ Bound(ret)'
  BY <1>1, PendingFacts DEF OneDiagnosticPerFailure, Goto
<1>6. \A i \in 1..Len(stack') : OperatorsInOrder(stack[i])'
  <2>1. ASSUME NEW i \in 1..Len(stack) PROVE OperatorsInOrder(stack'[i])
    <3>1. CASE i = Len(stack)
      BY <1>2, <3>1 DEF Begins
    <3>2. CASE i # Len(stack)
      <4>1. i \in 1..(Len(stack) - 1)
        BY <1>3, <3>2
      <4> QED BY <1>2, <4>1 DEF Running, Inductive
    <3> QED BY <3>1, <3>2
  <2> QED BY <1>2, <2>1
<1>7. \A i \in 1..(Len(stack') - 1) : Waits(stack[i], stack[i + 1])'
  <2>1. ASSUME NEW i \in 1..(Len(stack) - 1) PROVE Waits(stack'[i], stack'[i + 1])
    <3>0. Waits(stack[i], stack[i + 1]) /\ stack'[i] = stack[i]
      BY <1>2 DEF Running, Inductive
    <3>1. CASE i + 1 = Len(stack)
      BY <1>2, <1>3, <3>0, <3>1, Families DEF Waits, StandsFor
    <3>2. CASE i + 1 # Len(stack)
      <4>1. i + 1 \in 1..(Len(stack) - 1)
        BY <1>3, <3>2
      <4> QED BY <1>2, <3>0, <4>1
    <3> QED BY <3>1, <3>2
  <2> QED BY <1>2, <2>1
<1>8. stack'[1].at \in ItemLabels
  <2>0. stack[1].at \in ItemLabels
    BY DEF Running, Inductive
  <2>1. CASE Len(stack) = 1
    BY <1>2, <1>3, <2>0, <2>1 DEF StandsFor
  <2>2. CASE Len(stack) # 1
    <3>1. 1 \in 1..(Len(stack) - 1)
      BY <1>3, <2>2, BelowTop
    <3> QED BY <1>2, <2>0, <3>1
  <2> QED BY <2>1, <2>2
<1>9. Suits(Top, ret, tok)' /\ (Top.at = "rhs" => Top.lhs.prec >= get_tok_precedence(tok))'
  BY <1>2 DEF Goto, Begins
<1> QED BY <1>2, <1>4, <1>5, <1>6, <1>7, <1>8, <1>9 DEF Inductive

LEMMA EnterStep ==
    ASSUME Running, ~IsNull(ret), NEW f \in FrameType, NEW g \in FrameType, Enter(f, g),
           StandsFor(f, Top), OperatorsInOrder(f), Waits(f, g), Begins(g, tok')
    PROVE  Inductive'
<1> DEFINE s == Append(Front(stack), f)
<1>1. /\ stack \in Seq(FrameType)
      /\ stack # <<>>
      /\ nodes \in Seq(ItemKinds)
      /\ mark \in Nat
      /\ errors \in Nat
      /\ errors = 0
  BY DEF Running, Inductive, TypeOK, OneDiagnosticPerFailure
<1>2. /\ s \in Seq(FrameType)
      /\ Len(s) = Len(stack)
      /\ s[Len(stack)] = f
      /\ \A i \in 1..(Len(stack) - 1) : s[i] = stack[i]
  BY <1>1, Replaced
<1>3. Len(stack) \in Nat \ {0} /\ Top = stack[Len(stack)]
  BY <1>1, Dropped DEF Top
<1>4. stack' = Append(s, g) /\ ret' = Pending /\ errors' = errors
  BY DEF Enter
<1> HIDE DEF s
<1>5. /\ stack' \in Seq(FrameType)
      /\ stack' # <<>>
      /\ Len(stack') = Len(stack) + 1
      /\ stack'[Len(stack) + 1] = g
      /\ \A i \in 1..Len(stack) : stack'[i] = s[i]
      /\ Top' = g
  BY <1>2, <1>4, Pushed DEF Top
<1>6. stack'[Len(stack)] = f /\ \A i \in 1..(Len(stack) - 1) : stack'[i] = stack[i]
  BY <1>2, <1>3, <1>5
<1>7. TypeOK'
  BY <1>1, <1>4, <1>5, PendingFacts DEF Running, Inductive, TypeOK
<1>8. OneDiagnosticPerFailure' /\ Bound(ret)'
  BY <1>1, <1>4, PendingFacts DEF OneDiagnosticPerFailure
<1>9. \A i \in 1..Len(stack') : OperatorsInOrder(stack[i])'
  <2>1. ASSUME NEW i \in 1..(Len(stack) + 1) PROVE OperatorsInOrder(stack'[i])
    <3>1. CASE i = Len(stack) + 1
      BY <1>5, <3>1 DEF Begins
    <3>2. CASE i = Len(stack)
      BY <1>6, <3>2
    <3>3. CASE i # Len(stack) + 1 /\ i # Len(stack)
      <4>1. i \in 1..(Len(stack) - 1) /\ i \in 1..Len(stack)
        BY <1>3, <3>3
      <4> QED BY <1>6, <4>1 DEF Running, Inductive
    <3> QED BY <3>1, <3>2, <3>3
  <2> QED BY <1>5, <2>1
<1>10. \A i \in 1..(Len(stack') - 1) : Waits(stack[i], stack[i + 1])'
  <2>0. Len(stack') - 1 = Len(stack)
    BY <1>3, <1>5
  <2>1. ASSUME NEW i \in 1..Len(stack) PROVE Waits(stack'[i], stack'[i + 1])
    <3>1. CASE i = Len(stack)
      BY <1>5, <1>6, <3>1
    <3>2. CASE i # Len(stack)
      <4>1. i \in 1..(Len(stack) - 1)
        BY <1>3, <3>2
      <4>2. Waits(stack[i], stack[i + 1]) /\ stack'[i] = stack[i]
        BY <1>6, <4>1 DEF Running, Inductive
      <4>3. CASE i + 1 = Len(stack)
        BY <1>6, <1>3, <4>2, <4>3, Families DEF Waits, StandsFor
      <4>4. CASE i + 1 # Len(stack)
        <5>1. i + 1 \in 1..(Len(stack) - 1)
          BY <1>3, <4>1, <4>4
        <5> QED BY <1>6, <4>2, <5>1
      <4> QED BY <4>3, <4>4
    <3> QED BY <3>1, <3>2
  <2> QED BY <2>0, <2>1
<1>11. stack'[1].at \in ItemLabels
  <2>0. stack[1].at \in ItemLabels
    BY DEF Running, Inductive
  <2>1. CASE Len(stack) = 1
    BY <1>3, <1>6, <2>0, <2>1 DEF StandsFor
  <2>2. CASE Len(stack) # 1
    <3>1. 1 \in 1..(Len(stack) - 1)
      BY <1>3, <2>2, BelowTop
    <3> QED BY <1>6, <2>0, <3>1
  <2> QED BY <2>1, <2>2
<1>12. Suits(Top, ret, tok)' /\ (Top.at = "rhs" => Top.lhs.prec >= get_tok_precedence(tok))'
  BY <1>4, <1>5 DEF Begins
<1> QED BY <1>5, <1>7, <1>8, <1>9, <1>10, <1>11, <1>12 DEF Inductive

LEMMA ReturnStep ==
    ASSUME Running, NEW r \in Result, Return(r), Bound(r),
           errors' = IF IsNull(r) THEN 1 ELSE 0,
           Top.at \in ItemLabels => r.kind \in ItemKinds,
           \A c \in FrameType : Waits(c, Top) => Suits(c, r, tok')
    PROVE  Inductive'
<1>1. /\ stack \in Seq(FrameType)
      /\ stack # <<>>
      /\ nodes \in Seq(ItemKinds)
      /\ mark \in Nat
      /\ stack[1].at \in ItemLabels
  BY DEF Running, Inductive, TypeOK
<1>2. /\ stack' \in Seq(FrameType)
      /\ Len(stack') = Len(stack) - 1
      /\ \A i \in 1..(Len(stack) - 1) : stack'[i] = stack[i]
      /\ stack' # <<>> => Len(stack) > 1 /\ Top' = stack[Len(stack) - 1]
      /\ stack' = <<>> => Len(stack) = 1
      /\ Len(stack) \in Nat \ {0}
      /\ Top = stack[Len(stack)]
      /\ ret' = r
  BY <1>1, Dropped DEF Return, Top
<1>3. \A i \in 1..(Len(stack) - 1) : stack[i] \in FrameType
  BY <1>1, <1>2, ElementOfSeq
<1>4. TypeOK'
  BY <1>1, <1>2 DEF Running, Inductive, TypeOK
<1>5. OneDiagnosticPerFailure' /\ Bound(ret)'
  BY <1>2 DEF OneDiagnosticPerFailure
<1>6. \A i \in 1..Len(stack') : OperatorsInOrder(stack[i])'
  <2>1. ASSUME NEW i \in 1..(Len(stack) - 1) PROVE OperatorsInOrder(stack'[i])
    BY <1>2 DEF Running, Inductive
  <2> QED BY <1>2, <2>1
<1>7. \A i \in 1..(Len(stack') - 1) : Waits(stack[i], stack[i + 1])'
  <2>1. ASSUME NEW i \in 1..(Len(stack) - 1 - 1) PROVE Waits(stack'[i], stack'[i + 1])
    <3>1. i \in 1..(Len(stack) - 1) /\ i + 1 \in 1..(Len(stack) - 1)
      BY <1>2
    <3> QED BY <1>2, <3>1 DEF Running, Inductive
  <2> QED BY <1>2, <2>1
<1>8. stack' = <<>> => ret'.kind \in ItemKinds \cup {"pending"}
  BY <1>1, <1>2
<1>9. ASSUME stack' # <<>>
      PROVE  /\ stack'[1].at \in ItemLabels
             /\ Suits(Top, ret, tok)'
             /\ (Top.at = "rhs" => Top.lhs.prec >= get_tok_precedence(tok))'
  <2>1. 1 \in 1..(Len(stack) - 1) /\ Len(stack) - 1 \in 1..(Len(stack) - 1)
    BY <1>2, <1>9
  <2>2. Waits(stack[Len(stack) - 1], stack[Len(stack) - 1 + 1])
    BY <2>1 DEF Running, Inductive
  <2>3. Len(stack) - 1 + 1 = Len(stack)
    BY <1>2
  <2>4. Waits(Top', Top) /\ Top' \in FrameType
    BY <1>2, <1>3, <1>9, <2>1, <2>2, <2>3
  <2> QED BY <1>1, <1>2, <2>1, <2>4 DEF Waits
<1> QED BY <1>2, <1>4, <1>5, <1>6, <1>7, <1>8, <1>9 DEF Inductive

-----------------------------------------------------------------------------
(* The steps the parse functions share. *)

TokenStep == get_next_token \/ KeepToken

(* The points at and to are in the same item or the same operand. *)
SameFunction(at, to) ==
    \/ at \in ItemLabels /\ to \in ItemLabels
    \/ at \in OperandLabels /\ to \in OperandLabels

LEMMA TokenType ==
    ASSUME TypeOK, TokenStep
    PROVE  tok' \in AnyToken /\ pos' \in Nat
<1>1. CASE get_next_token
  <2>1. Tokens \cup {Eof} \subseteq AnyToken
    BY ParserAssumption DEF AnyToken
  <2> QED BY <1>1, <2>1 DEF TypeOK, get_next_token
<1>2. CASE KeepToken
  BY <1>2 DEF TypeOK, KeepToken
<1> QED BY <1>1, <1>2 DEF TokenStep

LEMMA AtRuns ==
    ASSUME Inductive, NEW at, At(at), TokenStep
    PROVE  /\ Running
           /\ ~IsNull(ret)
           /\ Top.at = at
           /\ Top \in FrameType
           /\ OperatorsInOrder(Top)
           /\ Suits(Top, ret, tok)
           /\ Top.at = "rhs" => Top.lhs.prec >= get_tok_precedence(tok)
           /\ ret \in Result
           /\ Bound(ret)
           /\ errors = 0
<1>1. Running
  BY TokenType DEF Running, At, Inductive
<1>2. stack \in Seq(FrameType) /\ stack # <<>>
  BY DEF Inductive, TypeOK, At
<1>3. Len(stack) \in 1..Len(stack) /\ Top = stack[Len(stack)] /\ Top \in FrameType
  BY <1>2, Dropped DEF Top
<1>4. OperatorsInOrder(Top)
  BY <1>3 DEF Inductive
<1> QED BY <1>1, <1>2, <1>3, <1>4 DEF Inductive, TypeOK, OneDiagnosticPerFailure, At

LEMMA ContinueStep ==
    ASSUME Inductive, NEW at, NEW to, SameFunction(at, to),
           At(at), TokenStep, Continue(to)
    PROVE  Inductive'
<1> DEFINE f == [Top EXCEPT !.at = to]
<1>1. Running /\ ~IsNull(ret) /\ Top.at = at /\ Top \in FrameType /\ OperatorsInOrder(Top)
  BY AtRuns
<1>2. to \in Labels
  BY DEF SameFunction, Labels
<1>3. /\ f \in FrameType
      /\ f.at = to
      /\ f.lhs = Top.lhs
  BY <1>1, <1>2 DEF FrameType
<1>4. to \notin RhsLabels /\ to \notin ExprLabels
  BY Families DEF SameFunction
<1>5. StandsFor(f, Top)
  BY <1>1, <1>3, Families DEF SameFunction, StandsFor
<1>6. Begins(f, tok')
  BY <1>1, <1>3, <1>4, Families DEF Begins, OperatorsInOrder, Suits
<1> QED BY <1>1, <1>3, <1>5, <1>6, GotoStep DEF Continue

(* The frame of a function that is being entered. *)
LEMMA FrameFacts ==
    ASSUME NEW at \in Labels, tok' \in AnyToken, pos' \in Nat
    PROVE  /\ Frame(at) \in FrameType
           /\ Frame(at).at = at
           /\ Frame(at).lhs = Pending
BY PendingFacts DEF Frame, FrameType

LEMMA CallStep ==
    ASSUME Inductive, NEW at, NEW to, NEW callee, At(at), TokenStep, Call(callee, to),
           \/ SameFunction(at, to) /\ callee \in {"expr", "unary"}
           \/ at = "expr" /\ to = "expr.lhs" /\ callee = "unary"
    PROVE  Inductive'
<1> DEFINE f == [Top EXCEPT !.at = to]
           g == Frame(callee)
<1>1. /\ Running /\ ~IsNull(ret) /\ Top.at = at /\ Top \in FrameType
      /\ OperatorsInOrder(Top)
  BY AtRuns
<1>2. to \in Labels /\ callee \in Labels /\ callee \notin RhsLabels /\ callee # "expr.lhs"
  BY Families DEF SameFunction, Labels
<1>3. /\ f \in FrameType
      /\ f.at = to
      /\ f.lhs = Top.lhs
  BY <1>1, <1>2 DEF FrameType
<1>4. to \notin RhsLabels /\ (to \in ExprLabels => callee = "unary")
  BY Families DEF SameFunction
<1>5. g \in FrameType /\ g.at = callee /\ g.lhs = Pending
  BY <1>1, <1>2, FrameFacts DEF Running
<1>6. StandsFor(f, Top)
  BY <1>1, <1>3, Families DEF SameFunction, StandsFor
<1>7. OperatorsInOrder(f)
  BY <1>1, <1>3, <1>4, Families DEF OperatorsInOrder
<1>8. Begins(g, tok')
  BY <1>2, <1>5, Families, PendingFacts DEF Begins, OperatorsInOrder, Suits
<1>9. Waits(f, g)
  BY <1>3, <1>4, <1>5, Families DEF Waits
<1>10. Enter(f, g)
  BY DEF Call
<1> HIDE DEF f, g
<1> QED BY <1>1, <1>3, <1>5, <1>6, <1>7, <1>8, <1>9, <1>10, EnterStep

LEMMA AnswerStep ==
    ASSUME Inductive, NEW at, At(at), TokenStep, NEW r \in Result, Succeed(r),
           ~IsNull(r), r.prec = Tight,
           at \in ItemLabels \cup OperandLabels,
           at \in ItemLabels => r.kind \in ItemKinds
    PROVE  Inductive'
<1>1. Running /\ Top.at = at /\ errors = 0
  BY AtRuns
<1>2. Bound(r) /\ Return(r) /\ errors' = 0
  BY <1>1 DEF Bound, Succeed, Tight
<1>3. ASSUME NEW c \in FrameType, Waits(c, Top) PROVE Suits(c, r, tok')
  BY <1>1, <1>3, Families DEF Waits, Suits
<1> QED BY <1>1, <1>2, <1>3, ReturnStep

LEMMA NullStep ==
    ASSUME Running, Return(Null), errors' = 1
    PROVE  Inductive'
<1>1. \A c \in FrameType : Waits(c, Top) => Suits(c, Null, tok')
  BY NullFacts DEF Suits
<1> QED BY <1>1, NullFacts, ReturnStep

LEMMA ErrorStep ==
    ASSUME Inductive, NEW at, At(at), LogError
    PROVE  Inductive'
<1>1. TokenStep
  BY DEF LogError, TokenStep
<1>2. Running /\ errors = 0
  BY <1>1, AtRuns
<1> QED BY <1>2, NullStep DEF LogError

LEMMA PropagateStep ==
    ASSUME Inductive, NEW points, PropagateNull(points)
    PROVE  Inductive'
<1>1. Running
  BY TokenType DEF Running, PropagateNull, Inductive, TokenStep
<1>2. errors' = 1 /\ Return(Null)
  BY DEF PropagateNull, Succeed, Inductive, OneDiagnosticPerFailure
<1> QED BY <1>1, <1>2, NullStep

LEMMA ExpectStep ==
    ASSUME Inductive, NEW t, NEW at, NEW to, SameFunction(at, to), At(at), Expect(t, to)
    PROVE  Inductive'
<1>1. CASE tok = t
  BY <1>1, ContinueStep DEF Expect, TokenStep
<1>2. CASE tok # t
  BY <1>2, ErrorStep DEF Expect
<1> QED BY <1>1, <1>2

LEMMA ExpectThenExpressionStep ==
    ASSUME Inductive, NEW t, NEW at, NEW to, SameFunction(at, to),
           At(at), ExpectThenExpression(t, to)
    PROVE  Inductive'
<1>1. CASE tok = t
  BY <1>1, CallStep DEF ExpectThenExpression, parse_expression_then, TokenStep
<1>2. CASE tok # t
  BY <1>2, ErrorStep DEF ExpectThenExpression
<1> QED BY <1>1, <1>2

(* A node is never nullptr, and binds as tightly as anything. *)
LEMMA BuildStep ==
    ASSUME Inductive, NEW at, At(at), TokenStep, NEW kind, NEW loc, Build(kind, loc),
           \/ at \in OperandLabels /\ kind \in ExprKinds
           \/ at \in ItemLabels /\ kind \in ItemKinds \ {"null"}
    PROVE  Inductive'
<1> DEFINE r == Node(kind, Top.first <= loc /\ loc < pos')
<1>1. /\ r \in Result
      /\ ~IsNull(r)
      /\ r.prec = Tight
      /\ r.kind = kind
  BY DEF Node, Result, IsNull, Tight, ExprKinds, ItemKinds
<1>2. at \in ItemLabels => kind \in ItemKinds
  BY Families
<1>3. Succeed(r)
  BY DEF Build
<1> HIDE DEF r
<1> QED BY <1>1, <1>2, <1>3, AnswerStep

-----------------------------------------------------------------------------
(* One lemma for each parse function. *)

LEMMA ExternPreserves ==
    ASSUME Inductive, parse_extern
    PROVE  Inductive'
BY ContinueStep DEF parse_extern, TokenStep, SameFunction, ItemLabels

LEMMA FloatExprPreserves ==
    ASSUME Inductive, parse_float_expr
    PROVE  Inductive'
BY BuildStep DEF parse_float_expr, TokenStep, OperandLabels, ExprKinds

LEMMA PrimaryPreserves ==
    ASSUME Inductive, parse_primary
    PROVE  Inductive'
<1>1. CASE tok \in PrimaryTokens
  BY <1>1, ContinueStep
     DEF parse_primary, PrimaryTokens, TokenStep, SameFunction, OperandLabels
<1>2. CASE tok \notin PrimaryTokens
  BY <1>2, ExpectStep DEF parse_primary, SameFunction, OperandLabels
<1> QED BY <1>1, <1>2

LEMMA PrototypePreserves ==
    ASSUME Inductive, parse_prototype
    PROVE  Inductive'
<1>1. CASE At("proto.name") /\ Expect("ident", "proto.open")
  BY <1>1, ExpectStep DEF SameFunction, ItemLabels
<1>2. CASE At("proto.open") /\ Expect("(", "proto.arg")
  BY <1>2, ExpectStep DEF SameFunction, ItemLabels
<1>3. CASE At("proto.arg") /\ tok = "ident" /\ get_next_token /\ Continue("proto.sep")
  BY <1>3, ContinueStep DEF TokenStep, SameFunction, ItemLabels
<1>4. CASE At("proto.arg") /\ tok # "ident" /\ KeepToken /\ Continue("proto.close")
  BY <1>4, ContinueStep DEF TokenStep, SameFunction, ItemLabels
<1>5. CASE At("proto.sep") /\ tok = "," /\ get_next_token /\ Continue("proto.arg")
  BY <1>5, ContinueStep DEF TokenStep, SameFunction, ItemLabels
<1>6. CASE At("proto.sep") /\ tok # "," /\ KeepToken /\ Continue("proto.close")
  BY <1>6, ContinueStep DEF TokenStep, SameFunction, ItemLabels
<1>7. CASE At("proto.close") /\ Expect(")", "proto.end")
  BY <1>7, ExpectStep DEF SameFunction, ItemLabels
<1>8. CASE At("proto.end") /\ Top.op = "fn" /\ ExpectThenExpression(":", "definition.body")
  BY <1>8, ExpectThenExpressionStep DEF SameFunction, ItemLabels
<1>9. CASE At("proto.end") /\ Top.op = "extern" /\ KeepToken /\ Build("prototype", pos)
  BY <1>9, BuildStep DEF TokenStep, ItemLabels, ItemKinds
<1> QED BY <1>1, <1>2, <1>3, <1>4, <1>5, <1>6, <1>7, <1>8, <1>9 DEF parse_prototype

LEMMA DefinitionPreserves ==
    ASSUME Inductive, parse_definition
    PROVE  Inductive'
<1>1. CASE At("definition") /\ get_next_token /\ Continue("proto.name")
  BY <1>1, ContinueStep DEF TokenStep, SameFunction, ItemLabels
<1>2. CASE At("definition.body") /\ KeepToken /\ Build("function", pos)
  BY <1>2, BuildStep DEF TokenStep, ItemLabels, ItemKinds
<1>3. CASE PropagateNull({"definition.body"})
  BY <1>3, PropagateStep
<1> QED BY <1>1, <1>2, <1>3 DEF parse_definition

LEMMA TopLevelExprPreserves ==
    ASSUME Inductive, parse_top_level_expr
    PROVE  Inductive'
<1>1. CASE At("top") /\ KeepToken /\ parse_expression_then("top.body")
  BY <1>1, CallStep DEF parse_expression_then, TokenStep, SameFunction, ItemLabels
<1>2. CASE At("top.body") /\ KeepToken /\ Build("function", pos)
  BY <1>2, BuildStep DEF TokenStep, ItemLabels, ItemKinds
<1>3. CASE PropagateNull({"top.body"})
  BY <1>3, PropagateStep
<1> QED BY <1>1, <1>2, <1>3 DEF parse_top_level_expr

LEMMA ParenExprPreserves ==
    ASSUME Inductive, parse_paren_expr
    PROVE  Inductive'
<1>1. CASE At("(") /\ get_next_token /\ parse_expression_then("paren.close")
  BY <1>1, CallStep DEF parse_expression_then, TokenStep, SameFunction, OperandLabels
<1>2. CASE At("paren.close") /\ tok = ")" /\ get_next_token /\ Succeed([ret EXCEPT !.prec = Tight])
  <2> DEFINE r == [ret EXCEPT !.prec = Tight]
  <2>1. /\ ret \in Result
        /\ ~IsNull(ret)
    BY <1>2, AtRuns DEF TokenStep
  <2>2. r \in Result /\ ~IsNull(r) /\ r.prec = Tight
    BY <2>1 DEF Result, IsNull, Tight
  <2> HIDE DEF r
  <2>3. Succeed(r)
    BY <1>2 DEF r
  <2>4. "paren.close" \in OperandLabels /\ "paren.close" \notin ItemLabels
    BY DEF OperandLabels, ItemLabels
  <2> QED BY <1>2, <2>2, <2>3, <2>4, AnswerStep DEF TokenStep
<1>3. CASE At("paren.close") /\ tok # ")" /\ LogError
  BY <1>3, ErrorStep
<1>4. CASE PropagateNull({"paren.close"})
  BY <1>4, PropagateStep
<1> QED BY <1>1, <1>2, <1>3, <1>4 DEF parse_paren_expr

LEMMA IdentifierExprPreserves ==
    ASSUME Inductive, parse_identifier_expr
    PROVE  Inductive'
<1>1. CASE At("ident") /\ get_next_token /\ Continue("ident.call")
  BY <1>1, ContinueStep DEF TokenStep, SameFunction, OperandLabels
<1>2. CASE At("ident.call") /\ tok # "(" /\ KeepToken /\ Build("variable", Top.loc)
  BY <1>2, BuildStep DEF TokenStep, OperandLabels, ExprKinds
<1>3. CASE At("ident.call") /\ tok = "(" /\ get_next_token /\ Continue("args")
  BY <1>3, ContinueStep DEF TokenStep, SameFunction, OperandLabels
<1>4. CASE At("args") /\ tok = ")" /\ get_next_token /\ Build("call", Top.loc)
  BY <1>4, BuildStep DEF TokenStep, OperandLabels, ExprKinds
<1>5. CASE At("args") /\ tok # ")" /\ KeepToken /\ parse_expression_then("args.sep")
  BY <1>5, CallStep DEF parse_expression_then, TokenStep, SameFunction, OperandLabels
<1>6. CASE At("args.sep") /\ tok = ")" /\ get_next_token /\ Build("call", Top.loc)
  BY <1>6, BuildStep DEF TokenStep, OperandLabels, ExprKinds
<1>7. CASE At("args.sep") /\ tok = "," /\ KeepToken /\ parse_expression_then("args.sep")
  BY <1>7, CallStep DEF parse_expression_then, TokenStep, SameFunction, OperandLabels
<1>8. CASE At("args.sep") /\ tok \notin {")", ","} /\ LogError
  BY <1>8, ErrorStep
<1>9. CASE PropagateNull({"args.sep"})
  BY <1>9, PropagateStep
<1> QED BY <1>1, <1>2, <1>3, <1>4, <1>5, <1>6, <1>7, <1>8, <1>9 DEF parse_identifier_expr

LEMMA IfExprPreserves ==
    ASSUME Inductive, parse_if_expr
    PROVE  Inductive'
<1>1. CASE At("if") /\ get_next_token /\ parse_expression_then("if.cond")
  BY <1>1, CallStep DEF parse_expression_then, TokenStep, SameFunction, OperandLabels
<1>2. CASE At("if.cond") /\ ExpectThenExpression(":", "if.then")
  BY <1>2, ExpectThenExpressionStep DEF SameFunction, OperandLabels
<1>3. CASE At("if.then") /\ Expect("else", "if.else")
  BY <1>3, ExpectStep DEF SameFunction, OperandLabels
<1>4. CASE At("if.else") /\ ExpectThenExpression(":", "if.end")
  BY <1>4, ExpectThenExpressionStep DEF SameFunction, OperandLabels
<1>5. CASE At("if.end") /\ KeepToken /\ Build("if", Top.loc)
  BY <1>5, BuildStep DEF TokenStep, OperandLabels, ExprKinds
<1>6. CASE PropagateNull({"if.cond", "if.then", "if.end"})
  BY <1>6, PropagateStep
<1> QED BY <1>1, <1>2, <1>3, <1>4, <1>5, <1>6 DEF parse_if_expr

LEMMA ForExprPreserves ==
    ASSUME Inductive, parse_for_expr
    PROVE  Inductive'
<1>1. CASE At("for") /\ get_next_token /\ Continue("for.name")
  BY <1>1, ContinueStep DEF TokenStep, SameFunction, OperandLabels
<1>2. CASE At("for.name") /\ Expect("ident", "for.assign")
  BY <1>2, ExpectStep DEF SameFunction, OperandLabels
<1>3. CASE At("for.assign") /\ ExpectThenExpression("=", "for.start")
  BY <1>3, ExpectThenExpressionStep DEF SameFunction, OperandLabels
<1>4. CASE At("for.start") /\ ExpectThenExpression(",", "for.end")
  BY <1>4, ExpectThenExpressionStep DEF SameFunction, OperandLabels
<1>5. CASE At("for.end") /\ tok = "," /\ get_next_token /\ parse_expression_then("for.step")
  BY <1>5, CallStep DEF parse_expression_then, TokenStep, SameFunction, OperandLabels
<1>6. CASE At("for.end") /\ tok # "," /\ KeepToken /\ Continue("for.step")
  BY <1>6, ContinueStep DEF TokenStep, SameFunction, OperandLabels
<1>7. CASE At("for.step") /\ ExpectThenExpression("in", "for.body")
  BY <1>7, ExpectThenExpressionStep DEF SameFunction, OperandLabels
<1>8. CASE At("for.body") /\ KeepToken /\ Build("for", pos)
  BY <1>8, BuildStep DEF TokenStep, OperandLabels, ExprKinds
<1>9. CASE PropagateNull({"for.start", "for.end", "for.step", "for.body"})
  BY <1>9, PropagateStep
<1> QED BY <1>1, <1>2, <1>3, <1>4, <1>5, <1>6, <1>7, <1>8, <1>9 DEF parse_for_expr

LEMMA VarExprPreserves ==
    ASSUME Inductive, parse_var_expr
    PROVE  Inductive'
<1>1. CASE At("var") /\ get_next_token /\ Continue("var.name")
  BY <1>1, ContinueStep DEF TokenStep, SameFunction, OperandLabels
<1>2. CASE At("var.name") /\ Expect("ident", "var.init")
  BY <1>2, ExpectStep DEF SameFunction, OperandLabels
<1>3. CASE At("var.init") /\ tok = "=" /\ get_next_token /\ parse_expression_then("var.sep")
  BY <1>3, CallStep DEF parse_expression_then, TokenStep, SameFunction, OperandLabels
<1>4. CASE At("var.init") /\ tok # "=" /\ KeepToken /\ Continue("var.sep")
  BY <1>4, ContinueStep DEF TokenStep, SameFunction, OperandLabels
<1>5. CASE At("var.sep") /\ tok = "," /\ get_next_token /\ Continue("var.name")
  BY <1>5, ContinueStep DEF TokenStep, SameFunction, OperandLabels
<1>6. CASE At("var.sep") /\ tok # "," /\ ExpectThenExpression("in", "var.body")
  BY <1>6, ExpectThenExpressionStep DEF SameFunction, OperandLabels
<1>7. CASE At("var.body") /\ KeepToken /\ Build("var", pos)
  BY <1>7, BuildStep DEF TokenStep, OperandLabels, ExprKinds
<1>8. CASE PropagateNull({"var.sep", "var.body"})
  BY <1>8, PropagateStep
<1> QED BY <1>1, <1>2, <1>3, <1>4, <1>5, <1>6, <1>7, <1>8 DEF parse_var_expr

LEMMA UnaryPreserves ==
    ASSUME Inductive, parse_unary
    PROVE  Inductive'
<1>1. CASE At("unary") /\ KeepToken /\ Continue("primary")
  BY <1>1, ContinueStep DEF TokenStep, SameFunction, OperandLabels
<1>2. CASE At("unary") /\ get_next_token /\ Call("unary", "unary.operand")
  BY <1>2, CallStep DEF TokenStep, SameFunction, OperandLabels
<1>3. CASE At("unary.operand") /\ KeepToken /\ Build("unary", pos)
  BY <1>3, BuildStep DEF TokenStep, OperandLabels, ExprKinds
<1>4. CASE PropagateNull({"unary.operand"})
  BY <1>4, PropagateStep
<1> QED BY <1>1, <1>2, <1>3, <1>4 DEF parse_unary

LEMMA ExpressionPreserves ==
    ASSUME Inductive, parse_expression
    PROVE  Inductive'
<1>1. CASE At("expr") /\ KeepToken /\ Call("unary", "expr.lhs")
  BY <1>1, CallStep DEF TokenStep
<1>2. CASE /\ At("expr.lhs")
           /\ KeepToken
           /\ Goto([Top EXCEPT !.at = "rhs", !.min = 0, !.lhs = ret])
  <2> DEFINE f == [Top EXCEPT !.at = "rhs", !.min = 0, !.lhs = ret]
  <2>1. /\ Running /\ ~IsNull(ret) /\ Top.at = "expr.lhs" /\ Top \in FrameType
        /\ ret \in Result /\ Bound(ret) /\ Suits(Top, ret, tok)
    BY <1>2, AtRuns DEF TokenStep
  <2>2. f \in FrameType /\ f.at = "rhs" /\ f.min = 0 /\ f.lhs = ret
    <3>1. "rhs" \in Labels
      BY Families DEF Labels
    <3> QED BY <2>1, <3>1 DEF FrameType
  <2>3. StandsFor(f, Top)
    BY <2>1, Families DEF StandsFor
  <2>4. ret.prec = Tight
    BY <2>1 DEF Suits
  <2>5. Begins(f, tok')
    BY <2>1, <2>2, <2>4, Precedences DEF Begins, OperatorsInOrder, Suits, Tight
  <2>6. Goto(f)
    BY <1>2
  <2> HIDE DEF f
  <2> QED BY <2>1, <2>2, <2>3, <2>5, <2>6, GotoStep
<1>3. CASE PropagateNull({"expr.lhs"})
  BY <1>3, PropagateStep
<1> QED BY <1>1, <1>2, <1>3 DEF parse_expression

(* Both operands of the pending operator are complete. *)
LEMMA MergeStep ==
    ASSUME Inductive, NEW at \in {"rhs.operand", "rhs.nested"}, At(at), KeepToken,
           MergeOperands,
           ret.prec > get_tok_precedence(Top.op),
           get_tok_precedence(tok) <= get_tok_precedence(Top.op)
    PROVE  Inductive'
<1> DEFINE b == Binary(Top.op, Top.lhs, ret, Top.first <= Top.loc /\ Top.loc < pos)
           f == [Top EXCEPT !.at = "rhs", !.lhs = b]
           p == get_tok_precedence(Top.op)
<1>1. /\ Running /\ ~IsNull(ret) /\ Top.at = at /\ Top \in FrameType
      /\ OperatorsInOrder(Top) /\ ret \in Result
  BY AtRuns DEF TokenStep
<1>2. p \in -1..Tight
  BY Precedences DEF Tight
<1>3. /\ Top.lhs \in Result
      /\ Top.min \in Nat
      /\ Top.lhs.prec >= p
      /\ p >= Top.min
  BY <1>1 DEF OperatorsInOrder, FrameType
<1>4. /\ b \in Result
      /\ b.prec = p
      /\ ~IsNull(b)
      /\ Bound(b)
  <2>1. /\ Top.lhs.prec \in -1..Tight
        /\ ret.prec \in -1..Tight
    BY <1>1, <1>3 DEF Result
  <2> QED BY <1>2, <1>3, <2>1 DEF Binary, Result, IsNull, Bound, ExprKinds
<1>5. /\ f \in FrameType
      /\ f.at = "rhs"
      /\ f.min = Top.min
      /\ f.lhs = b
  <2>1. "rhs" \in Labels
    BY Families DEF Labels
  <2> HIDE DEF b
  <2> QED BY <1>1, <1>4, <2>1 DEF FrameType
<1>6. StandsFor(f, Top)
  <2> HIDE DEF f
  <2> QED BY <1>1, <1>5, Families DEF StandsFor
<1>7. tok' = tok
  BY DEF KeepToken
<1>8. Begins(f, tok')
  <2> HIDE DEF f, b
  <2> QED BY <1>3, <1>4, <1>5, <1>7 DEF Begins, OperatorsInOrder, Suits
<1>9. Goto(f)
  BY DEF MergeOperands
<1> HIDE DEF f
<1> QED BY <1>1, <1>5, <1>6, <1>8, <1>9, GotoStep

LEMMA BinOpRhsPreserves ==
    ASSUME Inductive, parse_bin_op_rhs
    PROVE  Inductive'
<1>1. CASE At("rhs") /\ get_tok_precedence(tok) < Top.min /\ KeepToken /\ Succeed(Top.lhs)
  <2>1. /\ Running /\ Top.at = "rhs" /\ Top \in FrameType /\ OperatorsInOrder(Top)
        /\ errors = 0
    BY <1>1, AtRuns DEF TokenStep
  <2>2. /\ Top.lhs \in Result
        /\ ~IsNull(Top.lhs)
        /\ Bound(Top.lhs)
        /\ Top.lhs.prec >= Top.min
    BY <2>1, Families DEF OperatorsInOrder, FrameType
  <2>3. Top.at \notin ItemLabels /\ Top.at \notin OperandLabels
    BY <2>1, Families
  <2>4. ASSUME NEW c \in FrameType, Waits(c, Top) PROVE Suits(c, Top.lhs, tok')
    <3>1. c.at \notin {"rhs.operand", "expr.lhs"}
      BY <2>3, <2>4 DEF Waits
    <3>2. ASSUME c.at = "rhs.nested"
          PROVE  /\ Top.lhs.prec > get_tok_precedence(c.op)
                 /\ get_tok_precedence(tok') <= get_tok_precedence(c.op)
      <4>1. Top.min = get_tok_precedence(c.op) + 1
        BY <2>4, <3>2 DEF Waits
      <4>2. Top.lhs.prec \in -1..Tight /\ tok' = tok
        BY <1>1, <2>2 DEF Result, KeepToken
      <4> QED BY <1>1, <2>2, <4>1, <4>2, Precedences DEF Tight
    <3> QED BY <3>1, <3>2 DEF Suits
  <2>5. Return(Top.lhs) /\ errors' = 0
    BY <1>1, <2>1 DEF Succeed
  <2> QED BY <2>1, <2>2, <2>3, <2>4, <2>5, ReturnStep
<1>2. CASE /\ At("rhs")
           /\ get_tok_precedence(tok) >= Top.min
           /\ get_next_token
           /\ Enter([Top EXCEPT !.at = "rhs.operand", !.op = tok, !.loc = pos], Frame("unary"))
  <2> DEFINE f == [Top EXCEPT !.at = "rhs.operand", !.op = tok, !.loc = pos]
             g == Frame("unary")
  <2>1. /\ Running /\ ~IsNull(ret) /\ Top.at = "rhs" /\ Top \in FrameType
        /\ OperatorsInOrder(Top) /\ Top.lhs.prec >= get_tok_precedence(tok)
    BY <1>2, AtRuns DEF TokenStep
  <2>2. tok \in AnyToken /\ pos \in Nat
    BY DEF Inductive, TypeOK
  <2>3. /\ f \in FrameType
        /\ f.at = "rhs.operand"
        /\ f.op = tok
        /\ f.min = Top.min
        /\ f.lhs = Top.lhs
    <3>1. "rhs.operand" \in Labels
      BY Families DEF Labels
    <3> QED BY <2>1, <2>2, <3>1 DEF FrameType
  <2>4. g \in FrameType /\ g.at = "unary" /\ g.lhs = Pending
    <3>1. "unary" \in Labels
      BY Families DEF Labels
    <3> QED BY <2>1, <3>1, FrameFacts DEF Running
  <2>5. Enter(f, g)
    BY <1>2
  <2> HIDE DEF f, g
  <2>6. StandsFor(f, Top)
    BY <2>1, <2>3, Families DEF StandsFor
  <2>7. OperatorsInOrder(f)
    BY <1>2, <2>1, <2>3, Families DEF OperatorsInOrder
  <2>8. Waits(f, g)
    BY <2>3, <2>4, Families DEF Waits
  <2>9. Begins(g, tok')
    BY <2>4, Families, PendingFacts DEF Begins, OperatorsInOrder, Suits
  <2> QED BY <2>1, <2>3, <2>4, <2>5, <2>6, <2>7, <2>8, <2>9, EnterStep
<1>3. CASE /\ At("rhs.operand")
           /\ BindsLessTightly(Top.op, tok)
           /\ KeepToken
           /\ Enter([Top EXCEPT !.at = "rhs.nested"],
                    [Frame("rhs") EXCEPT !.first = Top.loc + 1, !.lhs = ret,
                                         !.min = get_tok_precedence(Top.op) + 1])
  <2> DEFINE f == [Top EXCEPT !.at = "rhs.nested"]
             n == get_tok_precedence(Top.op) + 1
             g == [Frame("rhs") EXCEPT !.first = Top.loc + 1, !.lhs = ret, !.min = n]
  <2>1. /\ Running /\ ~IsNull(ret) /\ Top.at = "rhs.operand" /\ Top \in FrameType
        /\ OperatorsInOrder(Top) /\ ret \in Result /\ Bound(ret) /\ Suits(Top, ret, tok)
    BY <1>3, AtRuns DEF TokenStep
  <2>2. n \in 0..41 /\ ret.prec = Tight
    BY <2>1, Precedences DEF Suits
  <2>3. /\ f \in FrameType
        /\ f.at = "rhs.nested"
        /\ f.op = Top.op
        /\ f.min = Top.min
        /\ f.lhs = Top.lhs
    <3>1. "rhs.nested" \in Labels
      BY Families DEF Labels
    <3> QED BY <2>1, <3>1 DEF FrameType
  <2>4. g \in FrameType /\ g.at = "rhs" /\ g.lhs = ret /\ g.min = n
    <3>1. "rhs" \in Labels
      BY Families DEF Labels
    <3>2. Frame("rhs") \in FrameType /\ Frame("rhs").at = "rhs"
      BY <2>1, <3>1, FrameFacts DEF Running
    <3>3. Top.loc + 1 \in Nat /\ n \in Nat
      BY <2>1, <2>2 DEF FrameType
    <3> HIDE DEF n
    <3> QED BY <2>1, <3>2, <3>3 DEF FrameType
  <2>5. Enter(f, g)
    BY <1>3
  <2>6. Waits(f, g)
    <3> HIDE DEF f, g
    <3> QED BY <2>3, <2>4, Families DEF Waits
  <2> HIDE DEF f, g, n
  <2>7. StandsFor(f, Top)
    BY <2>1, <2>3, Families DEF StandsFor
  <2>8. OperatorsInOrder(f)
    BY <2>1, <2>3, Families DEF OperatorsInOrder
  <2>9. Begins(g, tok')
    BY <2>1, <2>2, <2>4, Precedences DEF Begins, OperatorsInOrder, Suits, Tight
  <2> QED BY <2>1, <2>3, <2>4, <2>5, <2>6, <2>7, <2>8, <2>9, EnterStep
<1>4. CASE At("rhs.operand") /\ ~BindsLessTightly(Top.op, tok) /\ KeepToken /\ MergeOperands
  <2>1. Suits(Top, ret, tok) /\ Top.at = "rhs.operand"
    BY <1>4, AtRuns DEF TokenStep
  <2>2. /\ ret.prec > get_tok_precedence(Top.op)
        /\ get_tok_precedence(tok) <= get_tok_precedence(Top.op)
    BY <1>4, <2>1, Precedences DEF Suits, BindsLessTightly, Tight
  <2> QED BY <1>4, <2>2, MergeStep
<1>5. CASE At("rhs.nested") /\ KeepToken /\ MergeOperands
  <2>1. Suits(Top, ret, tok) /\ Top.at = "rhs.nested" /\ ~IsNull(ret)
    BY <1>5, AtRuns DEF TokenStep
  <2>2. /\ ret.prec > get_tok_precedence(Top.op)
        /\ get_tok_precedence(tok) <= get_tok_precedence(Top.op)
    BY <2>1 DEF Suits
  <2> QED BY <1>5, <2>2, MergeStep
<1>6. CASE PropagateNull({"rhs.operand", "rhs.nested"})
  BY <1>6, PropagateStep
<1> QED BY <1>1, <1>2, <1>3, <1>4, <1>5, <1>6 DEF parse_bin_op_rhs

LEMMA ParsePreserves ==
    ASSUME Inductive, parse
    PROVE  Inductive'
<1>1. /\ stack = <<>>
      /\ TypeOK
      /\ errors = IF IsNull(ret) THEN 1 ELSE 0
      /\ Bound(ret)
      /\ ret.kind \in ItemKinds \cup {"pending"}
  BY DEF Inductive, OneDiagnosticPerFailure, parse
<1>2. Len(<<>>) = 0
  OBVIOUS
<1>3. CASE AppendNode
  <2>1. nodes' \in Seq(ItemKinds) /\ status' \in {"running", "exhausted"}
    <3>1. ret.kind \in ItemKinds
      BY <1>1, <1>3 DEF AppendNode, IsPending
    <3>2. nodes \in Seq(ItemKinds) /\ status = "running"
      BY <1>1 DEF TypeOK, parse
    <3>3. Append(nodes, ret.kind) \in Seq(ItemKinds)
      BY <3>1, <3>2, AppendProperties
    <3> QED BY <1>3, <3>2, <3>3 DEF AppendNode
  <2> QED BY <1>1, <1>2, <1>3, <2>1, PendingFacts
          DEF AppendNode, Inductive, TypeOK, OneDiagnosticPerFailure
<1>4. CASE ParseItem
  <2> DEFINE f == Frame(ItemParser(tok))
  <2>1. /\ IsPending(ret)
        /\ tok' = tok
        /\ pos' = pos
        /\ stack' = <<f>>
        /\ mark' = pos
        /\ ret' = ret /\ nodes' = nodes /\ errors' = errors /\ status' = status
    BY <1>4 DEF ParseItem, KeepToken
  <2>2. ItemParser(tok) \in ItemLabels
    BY DEF ItemParser, ItemLabels
  <2>3. f \in FrameType /\ f.at = ItemParser(tok) /\ f.lhs = Pending
    BY <1>1, <2>1, <2>2, FrameFacts DEF TypeOK, Labels
  <2> HIDE DEF f
  <2>4. /\ stack' \in Seq(FrameType)
        /\ stack' # <<>>
        /\ Len(stack') = 1
        /\ stack'[1] = f
        /\ Top' = f
    BY <2>1, <2>3 DEF Top, Last
  <2>5. TypeOK' /\ OneDiagnosticPerFailure' /\ Bound(ret)'
    BY <1>1, <2>1, <2>4 DEF TypeOK, OneDiagnosticPerFailure
  <2>6. OperatorsInOrder(f)
    BY <2>2, <2>3, PendingFacts, Families DEF OperatorsInOrder
  <2>7. Suits(f, ret', tok') /\ f.at # "rhs" /\ f.at \in ItemLabels
    BY <2>2, <2>3, Families DEF Suits
  <2>8. \A i \in 1..Len(stack') : OperatorsInOrder(stack[i])'
    BY <2>4, <2>6
  <2>9. \A i \in 1..(Len(stack') - 1) : Waits(stack[i], stack[i + 1])'
    BY <2>4
  <2>10. stack'[1].at \in ItemLabels /\ Suits(Top, ret, tok)' /\ Top'.at # "rhs"
    BY <2>4, <2>7
  <2> QED BY <2>4, <2>5, <2>8, <2>9, <2>10 DEF Inductive
<1>5. CASE SkipToken
  <2>1. tok' \in AnyToken /\ pos' \in Nat
    BY <1>1, <1>5, TokenType DEF SkipToken, TokenStep
  <2> QED BY <1>1, <1>2, <1>5, <2>1 DEF SkipToken, Inductive, TypeOK, OneDiagnosticPerFailure
<1>6. CASE ReturnTree
  BY <1>1, <1>2, <1>6 DEF ReturnTree, Inductive, TypeOK, OneDiagnosticPerFailure
<1> QED BY <1>3, <1>4, <1>5, <1>6 DEF parse

-----------------------------------------------------------------------------
(* The theorems. *)

LEMMA InitInductive == Init => Inductive
<1> SUFFICES ASSUME Init PROVE Inductive
  OBVIOUS
<1>1. stack = <<>> /\ Len(<<>>) = 0 /\ <<>> \in Seq(FrameType) /\ <<>> \in Seq(ItemKinds)
  BY DEF Init
<1>2. TypeOK
  BY <1>1, PendingFacts DEF Init, TypeOK, AnyToken
<1> QED BY <1>1, <1>2, PendingFacts DEF Init, Inductive, OneDiagnosticPerFailure

LEMMA StepInductive == Inductive /\ [Next]_vars => Inductive'
<1> SUFFICES ASSUME Inductive, [Next]_vars PROVE Inductive'
  OBVIOUS
<1>1. CASE UNCHANGED vars
  BY <1>1 DEF vars, Inductive, TypeOK, OneDiagnosticPerFailure, Top
<1>2. CASE parse
  BY <1>2, ParsePreserves
<1>3. CASE parse_extern \/ parse_prototype \/ parse_definition \/ parse_top_level_expr
  BY <1>3, ExternPreserves, PrototypePreserves, DefinitionPreserves, TopLevelExprPreserves
<1>4. CASE parse_expression \/ parse_unary \/ parse_bin_op_rhs
  BY <1>4, ExpressionPreserves, UnaryPreserves, BinOpRhsPreserves
<1>5. CASE parse_primary \/ parse_float_expr \/ parse_paren_expr \/ parse_identifier_expr
  BY <1>5, PrimaryPreserves, FloatExprPreserves, ParenExprPreserves, IdentifierExprPreserves
<1>6. CASE parse_if_expr \/ parse_for_expr \/ parse_var_expr
  BY <1>6, IfExprPreserves, ForExprPreserves, VarExprPreserves
<1>7. CASE Done
  BY <1>1, <1>7 DEF Done
<1> QED BY <1>1, <1>2, <1>3, <1>4, <1>5, <1>6, <1>7 DEF Next

(* The strengthening of the three properties below: parse() and the        *)
(* functions it calls keep the frames, the result and the diagnostics in   *)
(* step.                                                                   *)
THEOREM InductiveInvariant == Spec => []Inductive
<1>1. Init => Inductive
  BY InitInductive
<1>2. Inductive /\ [Next]_vars => Inductive'
  BY StepInductive
<1> QED BY <1>1, <1>2, PTL DEF Spec

(* The state of the parser is always of its type; in particular the tree   *)
(* holds prototypes, functions and nulls only.                             *)
THEOREM TypeCorrect == Spec => []TypeOK
<1>1. Inductive => TypeOK
  BY DEF Inductive
<1> QED BY <1>1, InductiveInvariant, PTL

(* Every nullptr a parse function returns stands for exactly one call of   *)
(* LogError, whatever the input.                                           *)
THEOREM Diagnostics == Spec => []OneDiagnosticPerFailure
<1>1. Inductive => OneDiagnosticPerFailure
  BY DEF Inductive
<1> QED BY <1>1, InductiveInvariant, PTL

(* Every tree of operators parse_bin_op_rhs builds groups by precedence    *)
(* and, among equals, to the left, whatever the input.                     *)
THEOREM Precedence == Spec => []BindsByPrecedence
<1>1. Inductive => BindsByPrecedence
  <2> SUFFICES ASSUME Inductive PROVE BindsByPrecedence
    OBVIOUS
  <2>1. stack \in Seq(FrameType)
    BY DEF Inductive, TypeOK
  <2>2. DOMAIN stack = 1..Len(stack)
    BY <2>1, LenProperties
  <2> QED BY <2>2 DEF Inductive, BindsByPrecedence, OperatorsInOrder
<1> QED BY <1>1, InductiveInvariant, PTL
=============================================================================
