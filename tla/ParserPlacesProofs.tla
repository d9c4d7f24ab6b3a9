------------------------- MODULE ParserPlacesProofs -------------------------
(***************************************************************************)
(* Proofs about the places in the input that the parse functions are at:   *)
(* how deep they recurse, which locations they give, that they never read  *)
(* past the end of the input, and on which items parse() does not advance. *)
(***************************************************************************)
EXTENDS ParserProofs

(* The points that are reached when a token of the item, or of the         *)
(* operand, has been consumed.                                             *)
Eaten ==
    (ItemLabels \ {"definition", "extern", "top", "top.body"})
    \cup (OperandLabels \ ({"unary", "primary"} \cup PrimaryTokens))

(* The points at which a function waits for one it has called.             *)
Waiting == Eaten \cup {"top.body", "expr.lhs", "rhs.operand", "rhs.nested"}

(* The nodes of ExplicitLocationsOwned. *)
Explicit == {"float", "variable", "call", "if", "binary"}
Owned(n) == n.kind \in Explicit => n.owns

(* Where a function began, and how far it has come when the token p is     *)
(* looked at.                                                              *)
Placed(f, p) ==
    /\ f.first <= p
    /\ f.at \in Eaten \cup {"rhs"} => f.first < p
    /\ f.at \in OperandLabels => f.loc = f.first
    /\ f.at \in {"rhs.operand", "rhs.nested"} => f.first < f.loc /\ f.loc < p
    /\ Owned(f.lhs)

(* The i-th function on the stack has been paid for by tokens from m on.   *)
Deep(f, i, m) ==
    /\ m <= f.first
    /\ i <= 3 + 2 * (f.first - m)
    /\ f.at \in ItemLabels => i <= 1 + 2 * (f.first - m)
    /\ f.at \in ExprLabels => i <= 2 + 2 * (f.first - m)

(* A function and the one it waits for.                                    *)
Linked(f, g) ==
    /\ f.at \in Waiting
    /\ f.first <= g.first
    /\ f.at = "rhs.operand" => f.loc < g.first

(* What a function gives that is not nullptr has consumed a token.         *)
Given(f, result, p) ==
    ~IsNull(result) =>
        /\ f.at \in {"expr.lhs", "top.body"} => f.first < p
        /\ f.at = "rhs.operand" => f.loc + 1 < p

(* A function begins at a token that has been looked at, and a primary     *)
(* expression at one that is not a unary operator.                         *)
Begun(at, t) ==
    /\ at = "definition" => t = "fn"
    /\ at = "extern" => t = "extern"
    /\ at \in PrimaryTokens => t = at
    /\ at = "primary" => ~isascii(t) \/ t \in {"(", ","}

Places ==
    /\ Inductive
    /\ Owned(ret)
    /\ mark <= pos
    /\ \A i \in 1..Len(stack) : Placed(stack[i], pos) /\ Deep(stack[i], i, mark)
    /\ \A i \in 1..(Len(stack) - 1) : Linked(stack[i], stack[i + 1])
    /\ stack # <<>> => Given(Top, ret, pos) /\ Begun(Top.at, tok)

(* The input has MaxTokens tokens at most and then its end.                *)
Bounded ==
    /\ pos <= MaxTokens + 1
    /\ pos > MaxTokens => tok = Eof

(* An item that begins with a token in Orphans has consumed nothing; of    *)
(* any other, one has been or will be.                                     *)
Stalled == pos = mark /\ tok \in Orphans

Advancing == Len(nodes) <= mark /\ mark < pos

Starting ==
    /\ Len(nodes) <= mark
    /\ mark = pos
    /\ tok \notin Orphans \cup {Eof, NotInitialized}
    /\ ~IsNull(ret)
    /\ tok \in {"fn", "extern"} => Top.at \in {"definition", "extern"}

Items ==
    /\ stack # <<>> => Stalled \/ Advancing \/ Starting
    /\ stack = <<>> /\ IsPending(ret) => tok \in Orphans \/ Len(nodes) <= pos
    /\ stack = <<>> /\ ~IsPending(ret) => tok \in Orphans \/ Len(nodes) < pos
    /\ status = "exhausted" => tok \in Orphans

Positions == Places /\ Bounded /\ Items

-----------------------------------------------------------------------------
(* The steps of the parse functions, by what they do to the place.         *)

(* A token is consumed, which is not the end of the input; and when it is  *)
(* the first one, no token in Orphans.                                     *)
Eating ==
    /\ get_next_token
    /\ tok # Eof
    /\ tok \in Orphans => Top.at \in Eaten \cup {"rhs"}

InFunction ==
    /\ status = "running"
    /\ stack # <<>>
    /\ UNCHANGED <<nodes, mark, status>>

Advances ==
    /\ ~IsNull(ret)
    /\ \E at \in ItemLabels \cup OperandLabels :
          /\ SameFunction(Top.at, at)
          /\ Continue(at)
          /\ \/ Eating /\ at \in Eaten
             \/ KeepToken /\ Top.at \in Eaten /\ at \in Eaten
             \/ /\ KeepToken
                /\ Top.at \in {"unary", "primary"}
                /\ at \in {"primary"} \cup PrimaryTokens
                /\ Begun(at, tok)

Calls ==
    /\ ~IsNull(ret)
    /\ \E at \in Labels, callee \in {"expr", "unary"} :
          /\ Call(callee, at)
          /\ \/ /\ SameFunction(Top.at, at) /\ at \in Eaten
                /\ Eating \/ (KeepToken /\ Top.at \in Eaten)
             \/ KeepToken /\ Top.at = "top" /\ at = "top.body" /\ callee = "expr"
             \/ KeepToken /\ Top.at = "expr" /\ at = "expr.lhs" /\ callee = "unary"

Answers ==
    /\ ~IsNull(ret)
    /\ \/ Eating /\ Top.at \in Eaten \cup OperandLabels
       \/ KeepToken /\ Top.at \in Eaten \cup {"top.body"}
    /\ \E result : Succeed(result) /\ ~IsNull(result) /\ Owned(result)

Fails ==
    /\ ~IsNull(ret)
    /\ Top.at \in Eaten \/ (Top.at = "primary" /\ tok \notin PrimaryTokens \cup {";"})
    /\ LogError

PassesOn == IsNull(ret) /\ KeepToken /\ Succeed(Null)

Loops ==
    /\ ~IsNull(ret)
    /\ \/ /\ Top.at = "expr.lhs"
          /\ KeepToken
          /\ Goto([Top EXCEPT !.at = "rhs", !.min = 0, !.lhs = ret])
       \/ Top.at = "rhs" /\ KeepToken /\ Succeed(Top.lhs)
       \/ /\ Top.at = "rhs"
          /\ Eating
          /\ Enter([Top EXCEPT !.at = "rhs.operand", !.op = tok, !.loc = pos], Frame("unary"))
       \/ /\ Top.at = "rhs.operand"
          /\ KeepToken
          /\ Enter([Top EXCEPT !.at = "rhs.nested"],
                   [Frame("rhs") EXCEPT !.first = Top.loc + 1, !.lhs = ret,
                                        !.min = get_tok_precedence(Top.op) + 1])
       \/ Top.at \in {"rhs.operand", "rhs.nested"} /\ KeepToken /\ MergeOperands

Moves == InFunction /\ (Advances \/ Calls \/ Answers \/ Fails \/ PassesOn \/ Loops)

(* Where control is, and what is known of the innermost frame.             *)
LEMMA InnermostFrame ==
    ASSUME Places, stack # <<>>
    PROVE  /\ stack \in Seq(FrameType)
           /\ Len(stack) \in Nat \ {0} /\ Len(stack) \in 1..Len(stack)
           /\ Top = stack[Len(stack)] /\ Top \in FrameType
           /\ Placed(Top, pos) /\ Deep(Top, Len(stack), mark)
           /\ Given(Top, ret, pos) /\ Begun(Top.at, tok)
           /\ Owned(ret)
           /\ pos \in Nat /\ mark \in Nat /\ tok \in AnyToken /\ ret \in Result
<1>1. stack \in Seq(FrameType) /\ pos \in Nat /\ mark \in Nat /\ tok \in AnyToken /\ ret \in Result
  BY DEF Places, Inductive, TypeOK
<1>2. Len(stack) \in Nat \ {0} /\ Top = stack[Len(stack)] /\ Top \in FrameType
  BY <1>1, Dropped DEF Top
<1>3. Len(stack) \in 1..Len(stack)
  BY <1>2
<1> QED BY <1>1, <1>2, <1>3 DEF Places

LEMMA AtPlace ==
    ASSUME NEW at, At(at)
    PROVE  InFunction /\ Top.at = at /\ ~IsNull(ret)
BY DEF At, InFunction

LEMMA PropagateMoves ==
    ASSUME NEW points, PropagateNull(points)
    PROVE  Moves
BY DEF PropagateNull, Moves, PassesOn, InFunction

LEMMA ContinueMoves ==
    ASSUME NEW at, NEW to, At(at), Continue(to), SameFunction(at, to), to \in Eaten,
           \/ get_next_token /\ tok # Eof /\ (tok \in Orphans => at \in Eaten)
           \/ KeepToken /\ at \in Eaten
    PROVE  Moves
<1>1. InFunction /\ Top.at = at /\ ~IsNull(ret)
  BY AtPlace
<1>2. to \in ItemLabels \cup OperandLabels
  BY DEF SameFunction
<1>3. Eating \/ (KeepToken /\ at \in Eaten)
  BY <1>1, Zenon DEF Eating
<1>4. Advances
  BY <1>1, <1>2, <1>3 DEF Advances
<1> QED BY <1>1, <1>4 DEF Moves

LEMMA CallMoves ==
    ASSUME NEW at, NEW to, NEW callee \in {"expr", "unary"}, At(at), Call(callee, to),
           SameFunction(at, to), to \in Eaten,
           \/ get_next_token /\ tok # Eof /\ (tok \in Orphans => at \in Eaten)
           \/ KeepToken /\ at \in Eaten
    PROVE  Moves
<1>1. InFunction /\ Top.at = at /\ ~IsNull(ret)
  BY AtPlace
<1>2. to \in Labels
  BY DEF SameFunction, Labels
<1>3. Eating \/ (KeepToken /\ at \in Eaten)
  BY <1>1, Zenon DEF Eating
<1>4. Calls
  BY <1>1, <1>2, <1>3 DEF Calls
<1> QED BY <1>1, <1>4 DEF Moves

LEMMA ErrorMoves ==
    ASSUME NEW at, At(at), LogError, at \in Eaten
    PROVE  Moves
<1>1. InFunction /\ Top.at = at /\ ~IsNull(ret)
  BY AtPlace
<1>2. Fails
  BY <1>1, Zenon DEF Fails
<1> QED BY <1>1, <1>2, Zenon DEF Moves

LEMMA ExpectMoves ==
    ASSUME NEW t, NEW at, NEW to, At(at), Expect(t, to), SameFunction(at, to),
           to \in Eaten, at \in Eaten, t # Eof
    PROVE  Moves
<1>1. CASE tok = t
  BY <1>1, ContinueMoves DEF Expect
<1>2. CASE tok # t
  BY <1>2, ErrorMoves DEF Expect
<1> QED BY <1>1, <1>2

LEMMA ExpectThenExpressionMoves ==
    ASSUME NEW t, NEW at, NEW to, At(at), ExpectThenExpression(t, to), SameFunction(at, to),
           to \in Eaten, at \in Eaten, t # Eof
    PROVE  Moves
<1>1. CASE tok = t
  BY <1>1, CallMoves DEF ExpectThenExpression, parse_expression_then
<1>2. CASE tok # t
  BY <1>2, ErrorMoves DEF ExpectThenExpression
<1> QED BY <1>1, <1>2

(* The place a node is given is one of its own, where it is explicit.      *)
LEMMA BuildMoves ==
    ASSUME Places, NEW at, At(at), NEW kind, kind # "null", NEW loc, Build(kind, loc),
           \/ get_next_token /\ tok # Eof /\ tok \notin Orphans /\ at \in OperandLabels
           \/ get_next_token /\ tok # Eof /\ at \in Eaten
           \/ KeepToken /\ at \in Eaten \cup {"top.body"},
           kind \in Explicit => \/ loc = Top.loc /\ at \in Eaten \cap OperandLabels
                                \/ loc = pos /\ get_next_token
    PROVE  Moves
<1>1. InFunction /\ Top.at = at /\ ~IsNull(ret)
  BY AtPlace
<1> DEFINE result == Node(kind, Top.first <= loc /\ loc < pos')
<1>2. Succeed(result) /\ result.kind = kind /\ result.owns = (Top.first <= loc /\ loc < pos')
  BY DEF Build, Node
<1>3. ~IsNull(result)
  BY <1>2 DEF IsNull
<1>4. Owned(result)
  <2> SUFFICES ASSUME kind \in Explicit PROVE Top.first <= loc /\ loc < pos'
    BY <1>2 DEF Owned
  <2>1. /\ pos \in Nat /\ Top.first \in Nat /\ Placed(Top, pos)
    BY <1>1, InnermostFrame DEF InFunction, FrameType
  <2>2. CASE loc = Top.loc /\ at \in Eaten \cap OperandLabels
    <3>1. loc = Top.first /\ Top.first < pos
      BY <1>1, <2>1, <2>2 DEF Placed
    <3>2. pos <= pos'
      <4>1. get_next_token \/ KeepToken
        OBVIOUS
      <4>2. pos' = pos + 1 \/ pos' = pos
        BY <4>1 DEF get_next_token, KeepToken
      <4> QED BY <2>1, <4>2
    <3>3. pos' \in Nat
      <4>1. pos' = pos + 1 \/ pos' = pos
        BY DEF get_next_token, KeepToken
      <4> QED BY <2>1, <4>1
    <3> QED BY <2>1, <3>1, <3>2, <3>3
  <2>3. CASE loc = pos /\ get_next_token
    <3>1. Top.first <= pos /\ pos' = pos + 1
      BY <2>1, <2>3 DEF Placed, get_next_token
    <3> QED BY <2>1, <2>3, <3>1
  <2> QED BY <2>2, <2>3
<1> HIDE DEF result
<1>5. \/ Eating /\ Top.at \in Eaten \cup OperandLabels
      \/ KeepToken /\ Top.at \in Eaten \cup {"top.body"}
  BY <1>1, Zenon DEF Eating
<1>6. Answers
  BY <1>1, <1>2, <1>3, <1>4, <1>5 DEF Answers
<1> QED BY <1>1, <1>6 DEF Moves

-----------------------------------------------------------------------------
(* Every step of a parse function is one of these moves.                   *)

(* The first token of a function that begins with it.                      *)
LEMMA FirstToken ==
    ASSUME Places, NEW at, At(at), at \in {"definition", "extern"} \cup PrimaryTokens
    PROVE  tok # Eof /\ tok \notin Orphans
<1>1. Begun(at, tok)
  BY AtPlace, InnermostFrame DEF InFunction
<1>2. tok \in {"fn", "extern"} \cup PrimaryTokens
  BY <1>1 DEF Begun
<1> QED BY <1>2 DEF PrimaryTokens, Orphans, Eof

LEMMA PrototypeMoves ==
    ASSUME Places, parse_prototype
    PROVE  Moves
<1>1. CASE At("proto.name") /\ Expect("ident", "proto.open")
  BY <1>1, ExpectMoves DEF SameFunction, Eaten, ItemLabels, Eof
<1>2. CASE At("proto.open") /\ Expect("(", "proto.arg")
  BY <1>2, ExpectMoves DEF SameFunction, Eaten, ItemLabels, Eof
<1>3. CASE At("proto.arg") /\ tok = "ident" /\ get_next_token /\ Continue("proto.sep")
  BY <1>3, ContinueMoves DEF SameFunction, Eaten, ItemLabels, Eof
<1>4. CASE At("proto.arg") /\ tok # "ident" /\ KeepToken /\ Continue("proto.close")
  BY <1>4, ContinueMoves DEF SameFunction, Eaten, ItemLabels, Eof
<1>5. CASE At("proto.sep") /\ tok = "," /\ get_next_token /\ Continue("proto.arg")
  BY <1>5, ContinueMoves DEF SameFunction, Eaten, ItemLabels, Eof
<1>6. CASE At("proto.sep") /\ tok # "," /\ KeepToken /\ Continue("proto.close")
  BY <1>6, ContinueMoves DEF SameFunction, Eaten, ItemLabels, Eof
<1>7. CASE At("proto.close") /\ Expect(")", "proto.end")
  BY <1>7, ExpectMoves DEF SameFunction, Eaten, ItemLabels, Eof
<1>8. CASE At("proto.end") /\ Top.op = "fn" /\ ExpectThenExpression(":", "definition.body")
  BY <1>8, ExpectThenExpressionMoves DEF SameFunction, Eaten, ItemLabels, Eof
<1>9. CASE At("proto.end") /\ Top.op = "extern" /\ KeepToken /\ Build("prototype", pos)
  BY <1>9, BuildMoves DEF Explicit, Eaten, ItemLabels, Eof
<1> QED BY <1>1, <1>2, <1>3, <1>4, <1>5, <1>6, <1>7, <1>8, <1>9 DEF parse_prototype

LEMMA DefinitionMoves ==
    ASSUME Places, parse_definition
    PROVE  Moves
<1>1. CASE At("definition") /\ get_next_token /\ Continue("proto.name")
  <2>1. tok # Eof /\ tok \notin Orphans
    BY <1>1, FirstToken DEF PrimaryTokens
  <2> QED BY <1>1, <2>1, ContinueMoves DEF SameFunction, Eaten, ItemLabels
<1>2. CASE At("definition.body") /\ KeepToken /\ Build("function", pos)
  BY <1>2, BuildMoves DEF Explicit, Eaten, ItemLabels, Eof
<1>3. CASE PropagateNull({"definition.body"})
  BY <1>3, PropagateMoves
<1> QED BY <1>1, <1>2, <1>3 DEF parse_definition

LEMMA TopLevelExprMoves ==
    ASSUME Places, parse_top_level_expr
    PROVE  Moves
<1>1. CASE At("top") /\ KeepToken /\ parse_expression_then("top.body")
  <2>1. InFunction /\ Top.at = "top" /\ ~IsNull(ret)
    BY <1>1, AtPlace
  <2>2. "top.body" \in Labels
    BY DEF Labels, ItemLabels
  <2>3. Calls
    BY <1>1, <2>1, <2>2 DEF Calls, parse_expression_then
  <2> QED BY <2>1, <2>3 DEF Moves
<1>2. CASE At("top.body") /\ KeepToken /\ Build("function", pos)
  BY <1>2, BuildMoves DEF Explicit, Eaten, ItemLabels, Eof
<1>3. CASE PropagateNull({"top.body"})
  BY <1>3, PropagateMoves
<1> QED BY <1>1, <1>2, <1>3 DEF parse_top_level_expr

LEMMA ParenExprMoves ==
    ASSUME Places, parse_paren_expr
    PROVE  Moves
<1>1. CASE At("(") /\ get_next_token /\ parse_expression_then("paren.close")
  <2>1. tok # Eof /\ tok \notin Orphans
    BY <1>1, FirstToken DEF PrimaryTokens
  <2> QED BY <1>1, <2>1, CallMoves DEF parse_expression_then, SameFunction, Eaten, OperandLabels, PrimaryTokens
<1>2. CASE At("paren.close") /\ tok = ")" /\ get_next_token /\ Succeed([ret EXCEPT !.prec = Tight])
  <2>1. InFunction /\ Top.at = "paren.close" /\ ~IsNull(ret)
    BY <1>2, AtPlace
  <2> DEFINE result == [ret EXCEPT !.prec = Tight]
  <2>2. result.kind = ret.kind /\ result.owns = ret.owns
    BY <2>1, InnermostFrame DEF InFunction, Result
  <2>3. Succeed(result) /\ ~IsNull(result) /\ Owned(result)
    BY <1>2, <2>1, <2>2, InnermostFrame DEF InFunction, IsNull, Owned
  <2> HIDE DEF result
  <2>4. Eating /\ Top.at \in Eaten
    BY <1>2, <2>1 DEF Eating, Eaten, OperandLabels, PrimaryTokens, Eof
  <2>5. Answers
    BY <2>1, <2>3, <2>4 DEF Answers
  <2> QED BY <2>1, <2>5 DEF Moves
<1>3. CASE At("paren.close") /\ tok # ")" /\ LogError
  BY <1>3, ErrorMoves DEF Eaten, OperandLabels, PrimaryTokens
<1>4. CASE PropagateNull({"paren.close"})
  BY <1>4, PropagateMoves
<1> QED BY <1>1, <1>2, <1>3, <1>4 DEF parse_paren_expr

LEMMA IdentifierExprMoves ==
    ASSUME Places, parse_identifier_expr
    PROVE  Moves
<1>1. CASE At("ident") /\ get_next_token /\ Continue("ident.call")
  <2>1. tok # Eof /\ tok \notin Orphans
    BY <1>1, FirstToken DEF PrimaryTokens
  <2> QED BY <1>1, <2>1, ContinueMoves DEF SameFunction, Eaten, OperandLabels, PrimaryTokens
<1>2. CASE At("ident.call") /\ tok # "(" /\ KeepToken /\ Build("variable", Top.loc)
  BY <1>2, BuildMoves DEF Explicit, Eaten, OperandLabels, PrimaryTokens, Eof
<1>3. CASE At("ident.call") /\ tok = "(" /\ get_next_token /\ Continue("args")
  BY <1>3, ContinueMoves DEF SameFunction, Eaten, OperandLabels, PrimaryTokens, Eof
<1>4. CASE At("args") /\ tok = ")" /\ get_next_token /\ Build("call", Top.loc)
  BY <1>4, BuildMoves DEF Explicit, Eaten, OperandLabels, PrimaryTokens, Eof
<1>5. CASE At("args") /\ tok # ")" /\ KeepToken /\ parse_expression_then("args.sep")
  BY <1>5, CallMoves DEF parse_expression_then, SameFunction, Eaten, OperandLabels, PrimaryTokens, Eof
<1>6. CASE At("args.sep") /\ tok = ")" /\ get_next_token /\ Build("call", Top.loc)
  BY <1>6, BuildMoves DEF Explicit, Eaten, OperandLabels, PrimaryTokens, Eof
<1>7. CASE At("args.sep") /\ tok = "," /\ KeepToken /\ parse_expression_then("args.sep")
  BY <1>7, CallMoves DEF parse_expression_then, SameFunction, Eaten, OperandLabels, PrimaryTokens, Eof
<1>8. CASE At("args.sep") /\ tok \notin {")", ","} /\ LogError
  BY <1>8, ErrorMoves DEF Eaten, OperandLabels, PrimaryTokens
<1>9. CASE PropagateNull({"args.sep"})
  BY <1>9, PropagateMoves
<1> QED BY <1>1, <1>2, <1>3, <1>4, <1>5, <1>6, <1>7, <1>8, <1>9 DEF parse_identifier_expr

LEMMA IfExprMoves ==
    ASSUME Places, parse_if_expr
    PROVE  Moves
<1>1. CASE At("if") /\ get_next_token /\ parse_expression_then("if.cond")
  <2>1. tok # Eof /\ tok \notin Orphans
    BY <1>1, FirstToken DEF PrimaryTokens
  <2> QED BY <1>1, <2>1, CallMoves DEF parse_expression_then, SameFunction, Eaten, OperandLabels, PrimaryTokens
<1>2. CASE At("if.cond") /\ ExpectThenExpression(":", "if.then")
  BY <1>2, ExpectThenExpressionMoves DEF SameFunction, Eaten, OperandLabels, PrimaryTokens, Eof
<1>3. CASE At("if.then") /\ Expect("else", "if.else")
  BY <1>3, ExpectMoves DEF SameFunction, Eaten, OperandLabels, PrimaryTokens, Eof
<1>4. CASE At("if.else") /\ ExpectThenExpression(":", "if.end")
  BY <1>4, ExpectThenExpressionMoves DEF SameFunction, Eaten, OperandLabels, PrimaryTokens, Eof
<1>5. CASE At("if.end") /\ KeepToken /\ Build("if", Top.loc)
  BY <1>5, BuildMoves DEF Explicit, Eaten, OperandLabels, PrimaryTokens, Eof
<1>6. CASE PropagateNull({"if.cond", "if.then", "if.end"})
  BY <1>6, PropagateMoves
<1> QED BY <1>1, <1>2, <1>3, <1>4, <1>5, <1>6 DEF parse_if_expr

LEMMA ForExprMoves ==
    ASSUME Places, parse_for_expr
    PROVE  Moves
<1>1. CASE At("for") /\ get_next_token /\ Continue("for.name")
  <2>1. tok # Eof /\ tok \notin Orphans
    BY <1>1, FirstToken DEF PrimaryTokens
  <2> QED BY <1>1, <2>1, ContinueMoves DEF SameFunction, Eaten, OperandLabels, PrimaryTokens
<1>2. CASE At("for.name") /\ Expect("ident", "for.assign")
  BY <1>2, ExpectMoves DEF SameFunction, Eaten, OperandLabels, PrimaryTokens, Eof
<1>3. CASE At("for.assign") /\ ExpectThenExpression("=", "for.start")
  BY <1>3, ExpectThenExpressionMoves DEF SameFunction, Eaten, OperandLabels, PrimaryTokens, Eof
<1>4. CASE At("for.start") /\ ExpectThenExpression(",", "for.end")
  BY <1>4, ExpectThenExpressionMoves DEF SameFunction, Eaten, OperandLabels, PrimaryTokens, Eof
<1>5. CASE At("for.end") /\ tok = "," /\ get_next_token /\ parse_expression_then("for.step")
  BY <1>5, CallMoves DEF parse_expression_then, SameFunction, Eaten, OperandLabels, PrimaryTokens, Eof
<1>6. CASE At("for.end") /\ tok # "," /\ KeepToken /\ Continue("for.step")
  BY <1>6, ContinueMoves DEF SameFunction, Eaten, OperandLabels, PrimaryTokens, Eof
<1>7. CASE At("for.step") /\ ExpectThenExpression("in", "for.body")
  BY <1>7, ExpectThenExpressionMoves DEF SameFunction, Eaten, OperandLabels, PrimaryTokens, Eof
<1>8. CASE At("for.body") /\ KeepToken /\ Build("for", pos)
  BY <1>8, BuildMoves DEF Explicit, Eaten, OperandLabels, PrimaryTokens, Eof
<1>9. CASE PropagateNull({"for.start", "for.end", "for.step", "for.body"})
  BY <1>9, PropagateMoves
<1> QED BY <1>1, <1>2, <1>3, <1>4, <1>5, <1>6, <1>7, <1>8, <1>9 DEF parse_for_expr

LEMMA VarExprMoves ==
    ASSUME Places, parse_var_expr
    PROVE  Moves
<1>1. CASE At("var") /\ get_next_token /\ Continue("var.name")
  <2>1. tok # Eof /\ tok \notin Orphans
    BY <1>1, FirstToken DEF PrimaryTokens
  <2> QED BY <1>1, <2>1, ContinueMoves DEF SameFunction, Eaten, OperandLabels, PrimaryTokens
<1>2. CASE At("var.name") /\ Expect("ident", "var.init")
  BY <1>2, ExpectMoves DEF SameFunction, Eaten, OperandLabels, PrimaryTokens, Eof
<1>3. CASE At("var.init") /\ tok = "=" /\ get_next_token /\ parse_expression_then("var.sep")
  BY <1>3, CallMoves DEF parse_expression_then, SameFunction, Eaten, OperandLabels, PrimaryTokens, Eof
<1>4. CASE At("var.init") /\ tok # "=" /\ KeepToken /\ Continue("var.sep")
  BY <1>4, ContinueMoves DEF SameFunction, Eaten, OperandLabels, PrimaryTokens, Eof
<1>5. CASE At("var.sep") /\ tok = "," /\ get_next_token /\ Continue("var.name")
  BY <1>5, ContinueMoves DEF SameFunction, Eaten, OperandLabels, PrimaryTokens, Eof
<1>6. CASE At("var.sep") /\ tok # "," /\ ExpectThenExpression("in", "var.body")
  BY <1>6, ExpectThenExpressionMoves DEF SameFunction, Eaten, OperandLabels, PrimaryTokens, Eof
<1>7. CASE At("var.body") /\ KeepToken /\ Build("var", pos)
  BY <1>7, BuildMoves DEF Explicit, Eaten, OperandLabels, PrimaryTokens, Eof
<1>8. CASE PropagateNull({"var.sep", "var.body"})
  BY <1>8, PropagateMoves
<1> QED BY <1>1, <1>2, <1>3, <1>4, <1>5, <1>6, <1>7, <1>8 DEF parse_var_expr

LEMMA ExternMoves ==
    ASSUME Places, parse_extern
    PROVE  Moves
<1>1. At("extern") /\ get_next_token /\ Continue("proto.name")
  BY DEF parse_extern
<1>2. tok # Eof /\ tok \notin Orphans
  BY <1>1, FirstToken
<1> QED BY <1>1, <1>2, ContinueMoves DEF SameFunction, Eaten, ItemLabels

LEMMA FloatExprMoves ==
    ASSUME Places, parse_float_expr
    PROVE  Moves
<1>1. At("num") /\ get_next_token /\ Build("float", pos)
  BY DEF parse_float_expr
<1>2. tok # Eof /\ tok \notin Orphans
  BY <1>1, FirstToken DEF PrimaryTokens
<1>3. "num" \in OperandLabels
  BY DEF OperandLabels
<1> QED BY <1>1, <1>2, <1>3, BuildMoves

(* A primary expression never begins with the ';' that parse_primary eats. *)
LEMMA PrimaryMoves ==
    ASSUME Places, parse_primary
    PROVE  Moves
<1>1. InFunction /\ Top.at = "primary" /\ ~IsNull(ret)
  BY AtPlace DEF parse_primary
<1>2. CASE tok \in PrimaryTokens
  <2>1. KeepToken /\ Continue(tok)
    BY <1>2 DEF parse_primary
  <2>2. tok \in OperandLabels /\ "primary" \in OperandLabels /\ Begun(tok, tok)
    BY <1>2 DEF OperandLabels, PrimaryTokens, Begun
  <2>3. Advances
    BY <1>1, <1>2, <2>1, <2>2 DEF Advances, SameFunction
  <2> QED BY <1>1, <2>3 DEF Moves
<1>3. CASE tok \notin PrimaryTokens
  <2>1. Begun("primary", tok)
    BY <1>1, InnermostFrame DEF InFunction
  <2>2. tok # ";"
    BY <2>1 DEF Begun, isascii, Punctuation
  <2>3. LogError
    BY <1>3, <2>2 DEF parse_primary, Expect
  <2>4. Fails
    BY <1>1, <1>3, <2>2, <2>3 DEF Fails
  <2> QED BY <1>1, <2>4 DEF Moves
<1> QED BY <1>2, <1>3

LEMMA UnaryMoves ==
    ASSUME Places, parse_unary
    PROVE  Moves
<1>1. CASE /\ At("unary")
           /\ ~isascii(tok) \/ tok \in {"(", ","}
           /\ KeepToken
           /\ Continue("primary")
  <2>1. InFunction /\ Top.at = "unary" /\ ~IsNull(ret)
    BY <1>1, AtPlace
  <2>2. "unary" \in OperandLabels /\ "primary" \in OperandLabels /\ Begun("primary", tok)
    BY <1>1 DEF OperandLabels, PrimaryTokens, Begun
  <2>3. Advances
    BY <1>1, <2>1, <2>2 DEF Advances, SameFunction
  <2> QED BY <2>1, <2>3 DEF Moves
<1>2. CASE /\ At("unary")
           /\ isascii(tok) /\ tok \notin {"(", ","}
           /\ get_next_token
           /\ Call("unary", "unary.operand")
  <2>1. tok # Eof /\ tok \notin Orphans
    BY <1>2 DEF isascii, Punctuation, Orphans, Eof
  <2> QED BY <1>2, <2>1, CallMoves DEF SameFunction, Eaten, OperandLabels, PrimaryTokens
<1>3. CASE At("unary.operand") /\ KeepToken /\ Build("unary", pos)
  BY <1>3, BuildMoves DEF Explicit, Eaten, OperandLabels, PrimaryTokens
<1>4. CASE PropagateNull({"unary.operand"})
  BY <1>4, PropagateMoves
<1> QED BY <1>1, <1>2, <1>3, <1>4 DEF parse_unary

LEMMA ExpressionMoves ==
    ASSUME Places, parse_expression
    PROVE  Moves
<1>1. CASE At("expr") /\ KeepToken /\ Call("unary", "expr.lhs")
  <2>1. InFunction /\ Top.at = "expr" /\ ~IsNull(ret)
    BY <1>1, AtPlace
  <2>2. "expr.lhs" \in Labels
    BY DEF Labels, ExprLabels
  <2>3. Calls
    BY <1>1, <2>1, <2>2 DEF Calls
  <2> QED BY <2>1, <2>3 DEF Moves
<1>2. CASE /\ At("expr.lhs")
           /\ KeepToken
           /\ Goto([Top EXCEPT !.at = "rhs", !.min = 0, !.lhs = ret])
  <2>1. InFunction /\ Top.at = "expr.lhs" /\ ~IsNull(ret)
    BY <1>2, AtPlace
  <2>2. Loops
    BY <1>2, <2>1 DEF Loops
  <2> QED BY <2>1, <2>2 DEF Moves
<1>3. CASE PropagateNull({"expr.lhs"})
  BY <1>3, PropagateMoves
<1> QED BY <1>1, <1>2, <1>3 DEF parse_expression

LEMMA BinOpRhsMoves ==
    ASSUME Places, parse_bin_op_rhs
    PROVE  Moves
<1>1. CASE At("rhs") /\ KeepToken /\ Succeed(Top.lhs)
  <2>1. InFunction /\ Top.at = "rhs" /\ ~IsNull(ret)
    BY <1>1, AtPlace
  <2> QED BY <1>1, <2>1 DEF Moves, Loops
<1>2. CASE /\ At("rhs")
           /\ get_tok_precedence(tok) >= Top.min
           /\ get_next_token
           /\ Enter([Top EXCEPT !.at = "rhs.operand", !.op = tok, !.loc = pos], Frame("unary"))
  <2>1. InFunction /\ Top.at = "rhs" /\ ~IsNull(ret)
    BY <1>2, AtPlace
  <2>2. Top.min \in Nat
    BY <2>1, InnermostFrame DEF InFunction, FrameType
  <2>3. get_tok_precedence(Eof) = -1
    BY DEF get_tok_precedence, bin_op_precedence, Eof
  <2>4. tok # Eof
    BY <1>2, <2>2, <2>3
  <2>5. Eating
    BY <1>2, <2>1, <2>4 DEF Eating
  <2> QED BY <1>2, <2>1, <2>5 DEF Moves, Loops
<1>3. CASE /\ At("rhs.operand")
           /\ KeepToken
           /\ Enter([Top EXCEPT !.at = "rhs.nested"],
                    [Frame("rhs") EXCEPT !.first = Top.loc + 1, !.lhs = ret,
                                         !.min = get_tok_precedence(Top.op) + 1])
  <2>1. InFunction /\ Top.at = "rhs.operand" /\ ~IsNull(ret)
    BY <1>3, AtPlace
  <2> QED BY <1>3, <2>1 DEF Moves, Loops
<1>4. CASE (At("rhs.operand") \/ At("rhs.nested")) /\ KeepToken /\ MergeOperands
  <2>1. InFunction /\ Top.at \in {"rhs.operand", "rhs.nested"} /\ ~IsNull(ret)
    BY <1>4, AtPlace
  <2> QED BY <1>4, <2>1 DEF Moves, Loops
<1>5. CASE PropagateNull({"rhs.operand", "rhs.nested"})
  BY <1>5, PropagateMoves
<1> QED BY <1>1, <1>2, <1>3, <1>4, <1>5 DEF parse_bin_op_rhs

LEMMA StepMoves ==
    ASSUME Places, [Next]_vars
    PROVE  Moves \/ parse \/ UNCHANGED vars
BY ExternMoves, PrototypeMoves, DefinitionMoves, TopLevelExprMoves, ExpressionMoves, UnaryMoves,
   BinOpRhsMoves, PrimaryMoves, FloatExprMoves, ParenExprMoves, IdentifierExprMoves, IfExprMoves,
   ForExprMoves, VarExprMoves
   DEF Next, Done

-----------------------------------------------------------------------------
(* How the stack changes, and that the places stay in order.               *)

LEMMA LaterPlaced ==
    ASSUME NEW f \in FrameType, NEW p \in Nat, NEW q \in Nat, p <= q, Placed(f, p)
    PROVE  Placed(f, q)
<1>1. f.first \in Nat /\ f.loc \in Nat
  BY DEF FrameType
<1>2. f.first <= q /\ (f.first < p => f.first < q) /\ (f.loc < p => f.loc < q)
  BY <1>1 DEF Placed
<1> QED BY <1>2 DEF Placed

LEMMA BelowPlaced ==
    ASSUME Places, NEW q \in Nat, pos <= q
    PROVE  \A i \in 1..Len(stack) : Placed(stack[i], q) /\ Deep(stack[i], i, mark)
<1>1. stack \in Seq(FrameType) /\ pos \in Nat
  BY DEF Places, Inductive, TypeOK
<1>2. ASSUME NEW i \in 1..Len(stack) PROVE Placed(stack[i], q)
  BY <1>1, <1>2, LaterPlaced, ElementOfSeq DEF Places
<1> QED BY <1>2 DEF Places

LEMMA GotoPlaces ==
    ASSUME Places, Inductive', stack # <<>>, mark' = mark, pos <= pos',
           NEW f \in FrameType, Goto(f),
           f.first = Top.first,
           Placed(f, pos'), Deep(f, Len(stack), mark), Begun(f.at, tok'),
           f.at \notin {"expr.lhs", "top.body", "rhs.operand"}
    PROVE  Places'
<1>1. /\ stack \in Seq(FrameType) /\ mark \in Nat /\ pos \in Nat
      /\ pos' \in Nat
      /\ Len(stack) \in Nat \ {0} /\ Top = stack[Len(stack)]
  BY InnermostFrame DEF Inductive, TypeOK
<1>2. /\ stack' # <<>>
      /\ Len(stack') = Len(stack)
      /\ stack'[Len(stack)] = f
      /\ \A i \in 1..(Len(stack) - 1) : stack'[i] = stack[i]
      /\ Top' = f
      /\ ret' = Pending
  BY <1>1, Replaced DEF Goto, Top
<1>3. ASSUME NEW i \in 1..Len(stack) PROVE Placed(stack'[i], pos') /\ Deep(stack'[i], i, mark)
  <2>1. CASE i = Len(stack)
    BY <1>2, <2>1
  <2>2. CASE i # Len(stack)
    <3>1. i \in 1..(Len(stack) - 1)
      BY <1>1, <2>2
    <3> QED BY <1>1, <1>2, <3>1, BelowPlaced
  <2> QED BY <2>1, <2>2
<1>4. ASSUME NEW i \in 1..(Len(stack) - 1) PROVE Linked(stack'[i], stack'[i + 1])
  <2>1. Linked(stack[i], stack[i + 1]) /\ stack'[i] = stack[i]
    BY <1>2 DEF Places
  <2>2. CASE i + 1 = Len(stack)
    BY <1>1, <1>2, <2>1, <2>2 DEF Linked
  <2>3. CASE i + 1 # Len(stack)
    <3>1. i + 1 \in 1..(Len(stack) - 1)
      BY <1>1, <2>3
    <3> QED BY <1>2, <2>1, <3>1
  <2> QED BY <2>2, <2>3
<1>5. Owned(Pending) /\ Given(f, Pending, pos')
  BY DEF Owned, Pending, Node, Explicit, Given
<1>6. mark' <= pos'
  BY <1>1 DEF Places
<1>7. Given(Top', ret', pos') /\ Begun(Top'.at, tok')
  BY <1>2, <1>5
<1> QED BY <1>2, <1>3, <1>4, <1>5, <1>6, <1>7 DEF Places

LEMMA EnterPlaces ==
    ASSUME Places, Inductive', stack # <<>>, mark' = mark, pos <= pos',
           NEW f \in FrameType, NEW g \in FrameType, Enter(f, g),
           f.first = Top.first,
           Placed(f, pos'), Deep(f, Len(stack), mark),
           Placed(g, pos'), Deep(g, Len(stack) + 1, mark),
           Linked(f, g),
           g.at \in {"expr", "unary", "rhs"}
    PROVE  Places'
<1> DEFINE s == Append(Front(stack), f)
<1>1. /\ stack \in Seq(FrameType) /\ mark \in Nat /\ pos \in Nat
      /\ pos' \in Nat
      /\ Len(stack) \in Nat \ {0} /\ Top = stack[Len(stack)]
  BY InnermostFrame DEF Inductive, TypeOK
<1>2. /\ s \in Seq(FrameType)
      /\ Len(s) = Len(stack)
      /\ s[Len(stack)] = f
      /\ \A i \in 1..(Len(stack) - 1) : s[i] = stack[i]
  BY <1>1, Replaced
<1>3. stack' = Append(s, g) /\ ret' = Pending
  BY DEF Enter
<1> HIDE DEF s
<1>4. /\ stack' # <<>>
      /\ Len(stack') = Len(stack) + 1
      /\ stack'[Len(stack) + 1] = g
      /\ \A i \in 1..Len(stack) : stack'[i] = s[i]
      /\ Top' = g
  BY <1>2, <1>3, Pushed DEF Top
<1>5. stack'[Len(stack)] = f /\ \A i \in 1..(Len(stack) - 1) : stack'[i] = stack[i]
  BY <1>1, <1>2, <1>4
<1>6. ASSUME NEW i \in 1..(Len(stack) + 1)
      PROVE  Placed(stack'[i], pos') /\ Deep(stack'[i], i, mark)
  <2>1. CASE i = Len(stack) + 1
    BY <1>4, <2>1
  <2>2. CASE i = Len(stack)
    BY <1>5, <2>2
  <2>3. CASE i # Len(stack) + 1 /\ i # Len(stack)
    <3>1. i \in 1..(Len(stack) - 1) /\ i \in 1..Len(stack)
      BY <1>1, <2>3
    <3> QED BY <1>1, <1>5, <3>1, BelowPlaced
  <2> QED BY <2>1, <2>2, <2>3
<1>7. ASSUME NEW i \in 1..Len(stack) PROVE Linked(stack'[i], stack'[i + 1])
  <2>1. CASE i = Len(stack)
    BY <1>4, <1>5, <2>1
  <2>2. CASE i # Len(stack)
    <3>1. i \in 1..(Len(stack) - 1)
      BY <1>1, <2>2
    <3>2. Linked(stack[i], stack[i + 1]) /\ stack'[i] = stack[i]
      BY <1>5, <3>1 DEF Places
    <3>3. CASE i + 1 = Len(stack)
      BY <1>1, <1>5, <3>2, <3>3 DEF Linked
    <3>4. CASE i + 1 # Len(stack)
      <4>1. i + 1 \in 1..(Len(stack) - 1)
        BY <1>1, <3>1, <3>4
      <4> QED BY <1>5, <3>2, <4>1
    <3> QED BY <3>3, <3>4
  <2> QED BY <2>1, <2>2
<1>8. Len(stack') - 1 = Len(stack)
  BY <1>1, <1>4
<1>9. Owned(Pending) /\ Given(g, Pending, pos') /\ Begun(g.at, tok')
  BY DEF Owned, Pending, Node, Explicit, Given, Begun, PrimaryTokens
<1>10. mark' <= pos'
  BY <1>1 DEF Places
<1>11. Given(Top', ret', pos') /\ Begun(Top'.at, tok') /\ Owned(ret')
  BY <1>3, <1>4, <1>9
<1> QED BY <1>4, <1>6, <1>7, <1>8, <1>10, <1>11 DEF Places

LEMMA ReturnPlaces ==
    ASSUME Places, Inductive', stack # <<>>, mark' = mark, pos <= pos',
           NEW r, Return(r), Owned(r), ~IsNull(r) => Top.first < pos'
    PROVE  Places'
<1>1. /\ stack \in Seq(FrameType) /\ mark \in Nat /\ pos \in Nat
      /\ pos' \in Nat
      /\ Len(stack) \in Nat \ {0} /\ Top = stack[Len(stack)]
      /\ Top \in FrameType
  BY InnermostFrame DEF Inductive, TypeOK
<1>2. /\ Len(stack') = Len(stack) - 1
      /\ \A i \in 1..(Len(stack) - 1) : stack'[i] = stack[i]
      /\ stack' # <<>> => Len(stack) > 1 /\ Top' = stack[Len(stack) - 1]
      /\ ret' = r
  BY <1>1, Dropped DEF Return, Top
<1>3. ASSUME NEW i \in 1..(Len(stack) - 1) PROVE Placed(stack'[i], pos') /\ Deep(stack'[i], i, mark)
  <2>1. i \in 1..Len(stack) /\ stack'[i] = stack[i]
    BY <1>1, <1>2
  <2> QED BY <1>1, <2>1, BelowPlaced
<1>4. ASSUME NEW i \in 1..(Len(stack) - 1 - 1) PROVE Linked(stack'[i], stack'[i + 1])
  <2>1. i \in 1..(Len(stack) - 1) /\ i + 1 \in 1..(Len(stack) - 1)
    BY <1>1
  <2> QED BY <1>2, <2>1 DEF Places
<1>5. mark' <= pos'
  BY <1>1 DEF Places
<1>6. ASSUME stack' # <<>> PROVE Given(Top', r, pos') /\ Begun(Top'.at, tok')
  <2> DEFINE n == Len(stack) - 1
             c == stack[n]
  <2>1. n \in 1..n /\ n + 1 = Len(stack) /\ n \in 1..Len(stack)
    BY <1>1, <1>2, <1>6
  <2>2. Linked(stack[n], stack[n + 1])
    BY <2>1 DEF Places
  <2>3. c \in FrameType
    BY <1>1, <2>1, ElementOfSeq
  <2>4. Linked(c, Top) /\ Top' = c
    BY <1>1, <1>2, <1>6, <2>1, <2>2
  <2> HIDE DEF c
  <2>5. Given(c, r, pos')
    <3> SUFFICES ASSUME ~IsNull(r)
                 PROVE  c.first < pos' /\ (c.at = "rhs.operand" => c.loc + 1 < pos')
      BY DEF Given
    <3>1. c.first \in Nat /\ c.loc \in Nat /\ Top.first \in Nat /\ Top.first < pos'
      BY <1>1, <2>3 DEF FrameType
    <3>2. c.first <= Top.first /\ (c.at = "rhs.operand" => c.loc < Top.first)
      BY <2>4 DEF Linked
    <3> QED BY <1>1, <3>1, <3>2
  <2>6. Begun(c.at, tok')
    BY <2>4 DEF Linked, Waiting, Begun, Eaten, ItemLabels, OperandLabels, PrimaryTokens
  <2> QED BY <2>4, <2>5, <2>6
<1>7. Owned(ret')
  BY <1>2
<1> QED BY <1>2, <1>3, <1>4, <1>5, <1>6, <1>7 DEF Places

-----------------------------------------------------------------------------
(* Every move keeps the places in order.                                   *)

(* Where a move leaves the token, and the innermost frame it begins with.  *)
LEMMA MoveFacts ==
    ASSUME Places, InFunction, TokenStep
    PROVE  /\ pos' \in Nat /\ pos <= pos' /\ mark' = mark /\ tok' \in AnyToken
           /\ get_next_token => pos' = pos + 1
           /\ KeepToken => pos' = pos /\ tok' = tok
           /\ Top.first \in Nat /\ Top.loc \in Nat /\ Top.first <= pos
           /\ Top.at \in Eaten \cup {"rhs"} => Top.first < pos
           /\ Len(stack) \in Nat
<1>1. pos \in Nat /\ Top.first \in Nat /\ Top.loc \in Nat /\ Len(stack) \in Nat
  BY InnermostFrame DEF InFunction, FrameType
<1>2. Top.first <= pos /\ (Top.at \in Eaten \cup {"rhs"} => Top.first < pos)
  BY InnermostFrame DEF InFunction, Placed
<1>3. tok' \in AnyToken /\ pos' \in Nat
  BY TokenType DEF Places, Inductive
<1>4. pos <= pos' /\ (get_next_token => pos' = pos + 1) /\ (KeepToken => pos' = pos /\ tok' = tok)
  BY <1>1 DEF TokenStep, get_next_token, KeepToken
<1> QED BY <1>1, <1>2, <1>3, <1>4 DEF InFunction

(* A function goes on with itself, at a point it may be at.                *)
LEMMA Resumed ==
    ASSUME NEW at, SameFunction(Top.at, at), NEW n, NEW m, NEW p,
           Top \in FrameType, Placed(Top, pos), Deep(Top, n, m),
           p \in Nat, Top.first <= p, at \in Eaten => Top.first < p
    PROVE  /\ [Top EXCEPT !.at = at] \in FrameType
           /\ [Top EXCEPT !.at = at].at = at
           /\ [Top EXCEPT !.at = at].first = Top.first
           /\ Placed([Top EXCEPT !.at = at], p)
           /\ Deep([Top EXCEPT !.at = at], n, m)
<1> DEFINE f == [Top EXCEPT !.at = at]
<1>1. /\ f \in FrameType
      /\ f.at = at
      /\ f.first = Top.first
      /\ f.loc = Top.loc
      /\ f.lhs = Top.lhs
  BY DEF FrameType, SameFunction, Labels
<1> HIDE DEF f
<1>2. at \notin RhsLabels \cup ExprLabels
  BY Families DEF SameFunction
<1>3. Placed(f, p)
  BY <1>1, <1>2, Families DEF Placed, SameFunction
<1>4. Deep(f, n, m)
  BY <1>1, <1>2, Families DEF Deep, SameFunction
<1> QED BY <1>1, <1>3, <1>4 DEF f

LEMMA AdvancesPlaces ==
    ASSUME Places, Inductive', InFunction, Advances
    PROVE  Places'
<1>1. PICK at \in ItemLabels \cup OperandLabels :
          /\ SameFunction(Top.at, at)
          /\ Continue(at)
          /\ \/ Eating /\ at \in Eaten
             \/ KeepToken /\ Top.at \in Eaten /\ at \in Eaten
             \/ /\ KeepToken
                /\ Top.at \in {"unary", "primary"}
                /\ at \in {"primary"} \cup PrimaryTokens
                /\ Begun(at, tok)
  BY DEF Advances
<1> DEFINE f == [Top EXCEPT !.at = at]
<1>2. TokenStep
  BY <1>1 DEF TokenStep, Eating
<1>3. Top \in FrameType /\ Placed(Top, pos) /\ Deep(Top, Len(stack), mark) /\ pos \in Nat
  BY InnermostFrame DEF InFunction
<1>4. pos' \in Nat /\ pos <= pos' /\ mark' = mark /\ Top.first \in Nat /\ Top.first <= pos
  BY <1>2, MoveFacts
<1>5. at \in Eaten => Top.first < pos'
  <2>1. CASE Eating
    BY <1>2, <1>3, <1>4, <2>1, MoveFacts DEF Eating
  <2>2. CASE Top.at \in Eaten
    BY <1>2, <1>3, <1>4, <2>2, MoveFacts
  <2>3. CASE at \in {"primary"} \cup PrimaryTokens
    BY <2>3 DEF Eaten, PrimaryTokens, ItemLabels
  <2> QED BY <1>1, <2>1, <2>2, <2>3
<1>6. Top.first <= pos'
  BY <1>3, <1>4
<1>7. /\ f \in FrameType
      /\ f.at = at
      /\ f.first = Top.first
      /\ Placed(f, pos')
      /\ Deep(f, Len(stack), mark)
  BY <1>1, <1>3, <1>4, <1>5, <1>6, Resumed
<1>8. Goto(f)
  BY <1>1 DEF Continue
<1> HIDE DEF f
<1>9. Begun(at, tok')
  <2>1. CASE at \in Eaten
    BY <2>1 DEF Begun, Eaten, ItemLabels, OperandLabels, PrimaryTokens
  <2>2. CASE KeepToken /\ Begun(at, tok)
    BY <2>2 DEF KeepToken
  <2> QED BY <1>1, <2>1, <2>2
<1>10. at \notin {"expr.lhs", "top.body", "rhs.operand"}
  BY <1>1 DEF Eaten, ItemLabels, OperandLabels, PrimaryTokens
<1> QED BY <1>4, <1>7, <1>8, <1>9, <1>10, GotoPlaces DEF InFunction

(* A function that begins at the token that has just been looked at.       *)
LEMMA Entered ==
    ASSUME NEW at \in {"expr", "unary"}, tok' \in AnyToken, pos' \in Nat,
           NEW n \in Nat, NEW m \in Nat, m <= pos',
           at = "unary" => n <= 3 + 2 * (pos' - m),
           at = "expr" => n <= 2 + 2 * (pos' - m)
    PROVE  /\ Frame(at) \in FrameType
           /\ Frame(at).at = at
           /\ Frame(at).first = pos'
           /\ Placed(Frame(at), pos')
           /\ Deep(Frame(at), n, m)
<1>0. at \in Labels
  BY DEF Labels, ExprLabels, OperandLabels
<1>1. /\ Frame(at) \in FrameType
      /\ Frame(at).at = at
      /\ Frame(at).first = pos'
      /\ Frame(at).loc = pos'
      /\ Frame(at).lhs = Pending
  BY <1>0, FrameFacts DEF Frame
<1>2. at \notin Eaten \cup ItemLabels /\ at \notin RhsLabels
  BY DEF Eaten, ItemLabels, OperandLabels, RhsLabels
<1>3. Owned(Pending)
  BY DEF Owned, Pending, Node, Explicit
<1>4. Placed(Frame(at), pos')
  BY <1>1, <1>2, <1>3 DEF Placed, RhsLabels
<1>5. n <= 3 + 2 * (pos' - m)
  <2>1. CASE at = "unary"
    BY <2>1
  <2>2. CASE at = "expr"
    <3> DEFINE paid == 2 * (pos' - m)
    <3>1. n <= 2 + paid
      BY <2>2, Zenon
    <3>2. paid \in Int
      <4>1. pos' - m \in Int
        OBVIOUS
      <4> QED BY <4>1
    <3> HIDE DEF paid
    <3>3. n <= 3 + paid
      BY <3>1, <3>2
    <3> QED BY <3>3 DEF paid
  <2> QED BY <2>1, <2>2
<1>6. at \in ExprLabels => n <= 2 + 2 * (pos' - m)
  BY DEF ExprLabels
<1>7. Deep(Frame(at), n, m)
  BY <1>1, <1>2, <1>5, <1>6 DEF Deep
<1> QED BY <1>1, <1>4, <1>7

LEMMA CallsPlaces ==
    ASSUME Places, Inductive', InFunction, Calls
    PROVE  Places'
<1>1. PICK at \in Labels, callee \in {"expr", "unary"} :
          /\ Call(callee, at)
          /\ \/ /\ SameFunction(Top.at, at) /\ at \in Eaten
                /\ Eating \/ (KeepToken /\ Top.at \in Eaten)
             \/ KeepToken /\ Top.at = "top" /\ at = "top.body" /\ callee = "expr"
             \/ KeepToken /\ Top.at = "expr" /\ at = "expr.lhs" /\ callee = "unary"
  BY DEF Calls
<1> DEFINE f == [Top EXCEPT !.at = at]
           g == Frame(callee)
           n == Len(stack) + 1
<1>2. TokenStep
  BY <1>1 DEF TokenStep, Eating
<1>3. /\ Top \in FrameType /\ Placed(Top, pos) /\ Deep(Top, Len(stack), mark)
      /\ pos \in Nat /\ mark \in Nat
  BY InnermostFrame DEF InFunction
<1>4. /\ pos' \in Nat /\ pos <= pos' /\ mark' = mark /\ tok' \in AnyToken
      /\ Top.first \in Nat /\ Top.first <= pos /\ Len(stack) \in Nat
  BY <1>2, MoveFacts
<1>5. /\ mark <= Top.first
      /\ Len(stack) <= 3 + 2 * (Top.first - mark)
      /\ Top.at = "top" => Len(stack) <= 1 + 2 * (Top.first - mark)
      /\ Top.at = "expr" => Len(stack) <= 2 + 2 * (Top.first - mark)
  BY <1>3 DEF Deep, ItemLabels, ExprLabels
<1>6. Enter(f, g)
  BY <1>1 DEF Call
<1>7. /\ f \in FrameType /\ f.at = at /\ f.first = Top.first
      /\ Placed(f, pos') /\ Deep(f, Len(stack), mark)
      /\ f.at \in Waiting /\ f.at # "rhs.operand"
      /\ n \in Nat /\ mark <= pos'
      /\ callee = "unary" => n <= 3 + 2 * (pos' - mark)
      /\ callee = "expr" => n <= 2 + 2 * (pos' - mark)
  <2>1. CASE SameFunction(Top.at, at) /\ at \in Eaten /\ (Eating \/ (KeepToken /\ Top.at \in Eaten))
    <3>1. Top.first < pos'
      <4>1. CASE Eating
        BY <1>2, <1>3, <1>4, <4>1, MoveFacts DEF Eating
      <4>2. CASE Top.at \in Eaten
        BY <1>2, <1>3, <1>4, <4>2, MoveFacts
      <4> QED BY <2>1, <4>1, <4>2
    <3>2. Top.first <= pos'
      BY <1>4, <3>1
    <3>3. /\ f \in FrameType /\ f.at = at /\ f.first = Top.first
          /\ Placed(f, pos') /\ Deep(f, Len(stack), mark)
      BY <1>3, <1>4, <2>1, <3>1, <3>2, Resumed
    <3>4. at \in Waiting /\ at # "rhs.operand"
      BY <2>1 DEF Waiting, Eaten, ItemLabels, OperandLabels
    <3>5. n \in Nat /\ mark <= pos' /\ n <= 2 + 2 * (pos' - mark) /\ n <= 3 + 2 * (pos' - mark)
      BY SMTT(30), <1>3, <1>4, <1>5, <3>1
    <3> QED BY <3>3, <3>4, <3>5
  <2>2. CASE KeepToken /\ Top.at = "top" /\ at = "top.body" /\ callee = "expr"
    <3>1. SameFunction(Top.at, at) /\ at \notin Eaten
      BY <2>2 DEF SameFunction, ItemLabels, Eaten, OperandLabels
    <3>2. Top.first <= pos'
      BY <1>3, <1>4
    <3>3. /\ f \in FrameType /\ f.at = at /\ f.first = Top.first
          /\ Placed(f, pos') /\ Deep(f, Len(stack), mark)
      BY <1>3, <1>4, <3>1, <3>2, Resumed
    <3>4. n \in Nat /\ mark <= pos' /\ n <= 2 + 2 * (pos' - mark)
      BY SMTT(30), <1>3, <1>4, <1>5, <2>2
    <3> QED BY <2>2, <3>3, <3>4 DEF Waiting
  <2>3. CASE KeepToken /\ Top.at = "expr" /\ at = "expr.lhs" /\ callee = "unary"
    <3>1. /\ f \in FrameType /\ f.at = at /\ f.first = Top.first
          /\ f.loc = Top.loc /\ f.lhs = Top.lhs
      BY <1>3 DEF FrameType
    <3>2. at \notin Eaten \cup OperandLabels \cup ItemLabels /\ at \in ExprLabels
      BY <2>3 DEF Eaten, OperandLabels, ItemLabels, ExprLabels
    <3> HIDE DEF f
    <3>3. Placed(f, pos')
      BY <1>3, <1>4, <2>3, <3>1, <3>2 DEF Placed
    <3>4. Deep(f, Len(stack), mark)
      BY <1>5, <2>3, <3>1, <3>2 DEF Deep
    <3>5. n \in Nat /\ mark <= pos' /\ n <= 3 + 2 * (pos' - mark)
      BY SMTT(30), <1>3, <1>4, <1>5, <2>3
    <3> QED BY <2>3, <3>1, <3>3, <3>4, <3>5 DEF Waiting
  <2> QED BY <1>1, <2>1, <2>2, <2>3
<1> HIDE DEF f, n
<1>8. /\ g \in FrameType /\ g.at = callee /\ g.first = pos'
      /\ Placed(g, pos') /\ Deep(g, n, mark)
  BY <1>3, <1>4, <1>7, Entered
<1> HIDE DEF g
<1>9. Linked(f, g)
  BY <1>3, <1>4, <1>7, <1>8 DEF Linked
<1>10. Deep(g, Len(stack) + 1, mark)
  BY <1>8 DEF n
<1> QED BY <1>4, <1>6, <1>7, <1>8, <1>9, <1>10, EnterPlaces DEF InFunction

LEMMA AnswersPlaces ==
    ASSUME Places, Inductive', InFunction, Answers
    PROVE  Places'
<1>1. PICK result : Succeed(result) /\ ~IsNull(result) /\ Owned(result)
  BY DEF Answers
<1>2. TokenStep
  BY DEF Answers, TokenStep, Eating
<1>3. pos' \in Nat /\ pos <= pos' /\ mark' = mark /\ Top.first \in Nat /\ Top.first <= pos
  BY <1>2, MoveFacts
<1>4. Top.first < pos'
  <2>1. CASE Eating
    <3>1. pos' = pos + 1 /\ pos \in Nat
      BY <1>2, <2>1, MoveFacts, InnermostFrame DEF Eating, InFunction
    <3> QED BY <1>3, <3>1
  <2>2. CASE KeepToken /\ Top.at \in Eaten
    BY <1>2, <2>2, MoveFacts
  <2>3. CASE KeepToken /\ Top.at = "top.body"
    <3>1. ~IsNull(ret) /\ Given(Top, ret, pos)
      BY InnermostFrame DEF Answers, InFunction
    <3> QED BY <1>2, <2>3, <3>1, MoveFacts DEF Given
  <2> QED BY <2>1, <2>2, <2>3 DEF Answers
<1> QED BY <1>1, <1>3, <1>4, ReturnPlaces DEF InFunction, Succeed

LEMMA NullPlaces ==
    ASSUME Places, Inductive', InFunction, KeepToken, Return(Null)
    PROVE  Places'
<1>1. pos <= pos' /\ mark' = mark
  BY MoveFacts DEF TokenStep
<1>2. Owned(Null) /\ IsNull(Null)
  BY DEF Owned, Null, Node, Explicit, IsNull
<1> QED BY <1>1, <1>2, ReturnPlaces DEF InFunction

(* The loop of operators: between an operand and the next operator, and    *)
(* between an operator and what it is applied to.                          *)

LEMMA OperatorLoopPlaces ==
    ASSUME Places, Inductive', InFunction, ~IsNull(ret), Top.at = "expr.lhs", KeepToken,
           Goto([Top EXCEPT !.at = "rhs", !.min = 0, !.lhs = ret])
    PROVE  Places'
<1> DEFINE f == [Top EXCEPT !.at = "rhs", !.min = 0, !.lhs = ret]
<1>1. /\ Top \in FrameType /\ Placed(Top, pos) /\ Deep(Top, Len(stack), mark)
      /\ Given(Top, ret, pos) /\ Owned(ret) /\ ret \in Result
  BY InnermostFrame DEF InFunction
<1>2. pos' = pos /\ tok' = tok /\ mark' = mark /\ pos <= pos'
  BY MoveFacts DEF TokenStep
<1>3. Top.first < pos
  BY <1>1 DEF Given
<1>4. "rhs" \in Labels
  BY DEF Labels, RhsLabels
<1>5. /\ f \in FrameType /\ f.at = "rhs" /\ f.first = Top.first /\ f.lhs = ret
  BY <1>1, <1>4 DEF FrameType
<1>6. Goto(f)
  OBVIOUS
<1> HIDE DEF f
<1>7. Placed(f, pos')
  BY <1>1, <1>2, <1>3, <1>5, Families DEF Placed
<1>8. Deep(f, Len(stack), mark)
  BY <1>1, <1>5, Families DEF Deep
<1>9. Begun("rhs", tok')
  BY DEF Begun, PrimaryTokens
<1> QED BY <1>2, <1>5, <1>6, <1>7, <1>8, <1>9, GotoPlaces DEF InFunction

LEMMA LoopEndPlaces ==
    ASSUME Places, Inductive', InFunction, Top.at = "rhs", KeepToken, Succeed(Top.lhs)
    PROVE  Places'
<1>1. Placed(Top, pos)
  BY InnermostFrame DEF InFunction
<1>2. pos' = pos /\ mark' = mark /\ pos <= pos'
  BY MoveFacts DEF TokenStep
<1>3. Owned(Top.lhs) /\ Top.first < pos'
  BY <1>1, <1>2 DEF Placed
<1> QED BY <1>2, <1>3, ReturnPlaces DEF InFunction, Succeed

LEMMA OperandPlaces ==
    ASSUME Places, Inductive', InFunction, Top.at = "rhs", Eating,
           Enter([Top EXCEPT !.at = "rhs.operand", !.op = tok, !.loc = pos], Frame("unary"))
    PROVE  Places'
<1> DEFINE f == [Top EXCEPT !.at = "rhs.operand", !.op = tok, !.loc = pos]
           g == Frame("unary")
           n == Len(stack) + 1
<1>1. /\ Top \in FrameType /\ Placed(Top, pos) /\ Deep(Top, Len(stack), mark)
      /\ pos \in Nat /\ mark \in Nat /\ tok \in AnyToken
  BY InnermostFrame DEF InFunction
<1>2. /\ pos' \in Nat /\ pos <= pos' /\ mark' = mark /\ tok' \in AnyToken
      /\ pos' = pos + 1 /\ Len(stack) \in Nat
      /\ Top.first \in Nat /\ Top.first < pos
  BY MoveFacts DEF TokenStep, Eating
<1>3. "rhs.operand" \in Labels
  BY DEF Labels, RhsLabels
<1>4. /\ f \in FrameType /\ f.at = "rhs.operand" /\ f.first = Top.first /\ f.loc = pos
      /\ f.lhs = Top.lhs
  BY <1>1, <1>3 DEF FrameType
<1>5. Enter(f, g)
  OBVIOUS
<1> HIDE DEF f
<1>6. Placed(f, pos')
  <2>1. "rhs.operand" \notin OperandLabels /\ "rhs.operand" \notin Eaten \cup {"rhs"}
    BY DEF OperandLabels, Eaten, ItemLabels
  <2>2. f.first < f.loc /\ f.loc < pos' /\ f.first <= pos'
    BY <1>1, <1>2, <1>4
  <2> QED BY <1>1, <1>4, <2>1, <2>2 DEF Placed
<1>7. Deep(f, Len(stack), mark)
  BY <1>1, <1>4, Families DEF Deep
<1>8. n \in Nat /\ mark <= pos' /\ n <= 3 + 2 * (pos' - mark)
  <2>1. mark <= Top.first /\ Len(stack) <= 3 + 2 * (Top.first - mark)
    BY <1>1 DEF Deep
  <2> QED BY SMTT(30), <1>1, <1>2, <2>1
<1> HIDE DEF n
<1>9. /\ g \in FrameType /\ g.at = "unary" /\ g.first = pos'
      /\ Placed(g, pos') /\ Deep(g, n, mark)
  BY <1>1, <1>2, <1>8, Entered
<1> HIDE DEF g
<1>10. Linked(f, g)
  BY <1>1, <1>2, <1>4, <1>9 DEF Linked, Waiting
<1>11. Deep(g, Len(stack) + 1, mark)
  BY <1>9 DEF n
<1> QED BY <1>2, <1>4, <1>5, <1>6, <1>7, <1>9, <1>10, <1>11, EnterPlaces DEF InFunction

LEMMA NestedPlaces ==
    ASSUME Places, Inductive', InFunction, ~IsNull(ret), Top.at = "rhs.operand", KeepToken,
           Enter([Top EXCEPT !.at = "rhs.nested"],
                 [Frame("rhs") EXCEPT !.first = Top.loc + 1, !.lhs = ret,
                                      !.min = get_tok_precedence(Top.op) + 1])
    PROVE  Places'
<1> DEFINE f == [Top EXCEPT !.at = "rhs.nested"]
           k == get_tok_precedence(Top.op) + 1
           g == [Frame("rhs") EXCEPT !.first = Top.loc + 1, !.lhs = ret, !.min = k]
<1>1. /\ Top \in FrameType /\ Placed(Top, pos) /\ Deep(Top, Len(stack), mark)
      /\ Given(Top, ret, pos) /\ Owned(ret) /\ ret \in Result
      /\ pos \in Nat /\ mark \in Nat
  BY InnermostFrame DEF InFunction
<1>2. /\ pos' \in Nat /\ pos' = pos /\ pos <= pos' /\ mark' = mark /\ tok' \in AnyToken
      /\ Top.first \in Nat /\ Top.loc \in Nat /\ Top.first <= pos /\ Len(stack) \in Nat
  BY MoveFacts DEF TokenStep
<1>3. Top.loc + 1 < pos /\ Top.first < Top.loc /\ Top.loc < pos
  BY <1>1 DEF Given, Placed
<1>4. k \in Nat
  <2>1. get_tok_precedence(Top.op) \in {-1, 2, 10, 20, 40}
    BY Precedences
  <2> QED BY <2>1
<1>5. "rhs" \in Labels /\ "rhs.nested" \in Labels
  BY DEF Labels, RhsLabels
<1>6. /\ f \in FrameType /\ f.at = "rhs.nested" /\ f.first = Top.first /\ f.loc = Top.loc
      /\ f.lhs = Top.lhs
  BY <1>1, <1>5 DEF FrameType
<1> HIDE DEF k
<1>7. /\ g \in FrameType /\ g.at = "rhs" /\ g.first = Top.loc + 1 /\ g.lhs = ret
  <2>1. Frame("rhs") \in FrameType /\ Frame("rhs").at = "rhs"
    BY <1>2, <1>5, FrameFacts
  <2>2. Top.loc + 1 \in Nat
    BY <1>2
  <2> QED BY <1>1, <1>4, <2>1, <2>2 DEF FrameType
<1>8. Enter(f, g)
  BY DEF k
<1> HIDE DEF f, g
<1>9. Placed(f, pos')
  <2>1. "rhs.nested" \notin OperandLabels /\ "rhs.nested" \notin Eaten \cup {"rhs"}
    BY DEF OperandLabels, Eaten, ItemLabels
  <2> QED BY <1>1, <1>2, <1>3, <1>6, <2>1 DEF Placed
<1>10. Deep(f, Len(stack), mark)
  BY <1>1, <1>6, Families DEF Deep
<1>11. Placed(g, pos')
  <2>1. g.first <= pos' /\ g.first < pos'
    BY <1>2, <1>3, <1>7
  <2> QED BY <1>1, <1>7, <2>1, Families DEF Placed
<1>12. Deep(g, Len(stack) + 1, mark)
  <2>1. mark <= Top.first /\ Len(stack) <= 3 + 2 * (Top.first - mark)
    BY <1>1 DEF Deep
  <2>2. mark <= g.first /\ Len(stack) + 1 <= 3 + 2 * (g.first - mark)
    BY SMTT(30), <1>1, <1>2, <1>3, <1>7, <2>1
  <2> QED BY <1>7, <2>2, Families DEF Deep
<1>13. Linked(f, g)
  BY <1>2, <1>3, <1>6, <1>7 DEF Linked, Waiting
<1> QED BY <1>2, <1>6, <1>7, <1>8, <1>9, <1>10, <1>11, <1>12, <1>13, EnterPlaces DEF InFunction

LEMMA MergePlaces ==
    ASSUME Places, Inductive', InFunction, Top.at \in {"rhs.operand", "rhs.nested"}, KeepToken,
           MergeOperands
    PROVE  Places'
<1> DEFINE b == Binary(Top.op, Top.lhs, ret, Top.first <= Top.loc /\ Top.loc < pos)
           f == [Top EXCEPT !.at = "rhs", !.lhs = b]
<1>1. /\ Top \in FrameType /\ Placed(Top, pos) /\ Deep(Top, Len(stack), mark)
      /\ ret \in Result /\ pos \in Nat
  BY InnermostFrame DEF InFunction
<1>2. /\ pos' = pos /\ pos <= pos' /\ mark' = mark
      /\ Top.first \in Nat /\ Top.loc \in Nat
  BY MoveFacts DEF TokenStep
<1>3. Top.first < Top.loc /\ Top.loc < pos
  BY <1>1 DEF Placed
<1>4. b \in Result /\ Owned(b)
  <2>1. get_tok_precedence(Top.op) \in -1..Tight
    BY Precedences DEF Tight
  <2>2. Top.lhs \in Result
    BY <1>1 DEF FrameType
  <2>3. Top.lhs.prec \in -1..Tight /\ ret.prec \in -1..Tight
    BY <1>1, <2>2 DEF Result
  <2>4. b \in Result
    BY <2>1, <2>3 DEF Binary, Result, ExprKinds
  <2>5. b.owns = (Top.first <= Top.loc /\ Top.loc < pos)
    BY DEF Binary
  <2>6. Top.first <= Top.loc /\ Top.loc < pos
    BY <1>2, <1>3
  <2> QED BY <2>4, <2>5, <2>6 DEF Owned
<1>5. Goto(f)
  BY DEF MergeOperands
<1> HIDE DEF b
<1>6. /\ f \in FrameType /\ f.at = "rhs" /\ f.first = Top.first /\ f.lhs = b
  <2>1. "rhs" \in Labels
    BY DEF Labels, RhsLabels
  <2> QED BY <1>1, <1>4, <2>1 DEF FrameType
<1> HIDE DEF f
<1>7. Placed(f, pos')
  <2>1. f.first <= pos' /\ f.first < pos'
    BY <1>1, <1>2, <1>3, <1>6
  <2> QED BY <1>4, <1>6, <2>1, Families DEF Placed
<1>8. Deep(f, Len(stack), mark)
  BY <1>1, <1>6, Families DEF Deep
<1>9. Begun("rhs", tok')
  BY DEF Begun, PrimaryTokens
<1> QED BY <1>2, <1>5, <1>6, <1>7, <1>8, <1>9, GotoPlaces DEF InFunction

LEMMA MovesPlaces ==
    ASSUME Places, Inductive', Moves
    PROVE  Places'
<1>1. CASE Advances
  BY <1>1, AdvancesPlaces DEF Moves
<1>2. CASE Calls
  BY <1>2, CallsPlaces DEF Moves
<1>3. CASE Answers
  BY <1>3, AnswersPlaces DEF Moves
<1>4. CASE Fails
  BY <1>4, NullPlaces DEF Moves, Fails, LogError
<1>5. CASE PassesOn
  BY <1>5, NullPlaces DEF Moves, PassesOn, Succeed
<1>6. CASE Loops
  BY <1>6, OperatorLoopPlaces, LoopEndPlaces, OperandPlaces, NestedPlaces, MergePlaces
     DEF Moves, Loops
<1> QED BY <1>1, <1>2, <1>3, <1>4, <1>5, <1>6 DEF Moves

-----------------------------------------------------------------------------
(* parse(), between two items.                                             *)

(* What the beginning of an item is, for the token it begins with.         *)
LEMMA ItemBegins ==
    /\ ItemParser(tok) \in {"definition", "extern", "top"}
    /\ Begun(ItemParser(tok), tok)
    /\ tok \in {"fn", "extern"} => ItemParser(tok) \in {"definition", "extern"}
<1>1. CASE tok = "fn"
  <2>1. ItemParser(tok) = "definition"
    BY <1>1 DEF ItemParser
  <2> QED BY <1>1, <2>1 DEF Begun, PrimaryTokens
<1>2. CASE tok = "extern"
  <2>1. ItemParser(tok) = "extern"
    BY <1>2 DEF ItemParser
  <2> QED BY <1>2, <2>1 DEF Begun, PrimaryTokens
<1>3. CASE tok \notin {"fn", "extern"}
  <2>1. ItemParser(tok) = "top"
    BY <1>3 DEF ItemParser
  <2> QED BY <1>3, <2>1 DEF Begun, PrimaryTokens
<1> QED BY <1>1, <1>2, <1>3

LEMMA EmptyPlaces ==
    ASSUME Inductive', stack' = <<>>, Owned(ret'), mark' <= pos'
    PROVE  Places'
<1>1. Len(stack') = 0
  OBVIOUS
<1> QED BY <1>1 DEF Places

LEMMA ParsePlaces ==
    ASSUME Places, Inductive', parse
    PROVE  Places'
<1>1. stack = <<>> /\ pos \in Nat /\ mark \in Nat /\ mark <= pos /\ Owned(ret) /\ tok \in AnyToken
  BY DEF Places, Inductive, TypeOK, parse
<1>2. CASE AppendNode
  <2>1. Owned(Pending)
    BY DEF Owned, Pending, Node, Explicit
  <2> QED BY <1>1, <1>2, <2>1, EmptyPlaces DEF AppendNode
<1>3. CASE ParseItem
  <2> DEFINE f == Frame(ItemParser(tok))
  <2>1. /\ IsPending(ret)
        /\ tok' = tok
        /\ pos' = pos
        /\ stack' = <<f>>
        /\ mark' = pos
        /\ ret' = ret
    BY <1>3 DEF ParseItem, KeepToken
  <2>2. f.at = ItemParser(tok) /\ f.first = pos /\ f.lhs = Pending
    BY <2>1 DEF Frame
  <2> HIDE DEF f
  <2>3. f.at \in {"definition", "extern", "top"} /\ Begun(f.at, tok)
    BY <2>2, ItemBegins
  <2>4. Len(stack') = 1 /\ stack'[1] = f /\ Top' = f
    BY <2>1 DEF Top, Last
  <2>5. Owned(Pending)
    BY DEF Owned, Pending, Node, Explicit
  <2>6. f.at \notin Eaten \cup OperandLabels \cup RhsLabels \cup ExprLabels
    BY <2>3 DEF Eaten, ItemLabels, OperandLabels, RhsLabels, ExprLabels
  <2>7. Placed(f, pos)
    BY <1>1, <2>2, <2>5, <2>6, Families DEF Placed
  <2>8. Deep(f, 1, pos)
    <3>1. 1 <= 1 + 2 * (pos - pos) /\ 1 <= 3 + 2 * (pos - pos) /\ pos <= pos
      BY <1>1
    <3> QED BY <2>2, <2>6, <3>1 DEF Deep
  <2>9. Given(f, ret, pos)
    BY <2>3 DEF Given
  <2>10. \A i \in 1..Len(stack') : Placed(stack'[i], pos') /\ Deep(stack'[i], i, mark')
    BY <2>1, <2>4, <2>7, <2>8
  <2>11. \A i \in 1..(Len(stack') - 1) : Linked(stack'[i], stack'[i + 1])
    BY <2>4
  <2>12. Given(Top', ret', pos') /\ Begun(Top'.at, tok')
    BY <2>1, <2>3, <2>4, <2>9
  <2> QED BY <1>1, <2>1, <2>10, <2>11, <2>12 DEF Places
<1>4. CASE SkipToken
  <2>1. pos' = pos + 1 /\ stack' = <<>> /\ ret' = ret /\ mark' = mark
    BY <1>1, <1>4 DEF SkipToken, get_next_token
  <2>2. mark' <= pos'
    BY <1>1, <2>1
  <2> QED BY <1>1, <2>1, <2>2, EmptyPlaces
<1>5. CASE ReturnTree
  BY <1>1, <1>5, EmptyPlaces DEF ReturnTree
<1> QED BY <1>2, <1>3, <1>4, <1>5 DEF parse

LEMMA StepPlaces ==
    ASSUME Places, [Next]_vars
    PROVE  Places'
<1>1. Inductive'
  BY StepInductive DEF Places
<1>2. CASE UNCHANGED vars
  <2>1. /\ tok' = tok /\ pos' = pos /\ stack' = stack /\ ret' = ret /\ mark' = mark
    BY <1>2 DEF vars
  <2>2. Top' = Top
    BY <2>1 DEF Top
  <2> QED BY <1>1, <2>1, <2>2 DEF Places
<1> QED BY <1>1, <1>2, StepMoves, MovesPlaces, ParsePlaces

-----------------------------------------------------------------------------
(* The end of the input.                                                   *)

(* No step asks for a token after the end of the input. *)
LEMMA NoTokenAfterEof ==
    ASSUME Places, [Next]_vars
    PROVE  KeepToken \/ (get_next_token /\ tok # Eof)
<1>1. CASE Moves
  BY <1>1 DEF Moves, Advances, Calls, Answers, Fails, PassesOn, Loops, LogError, Eating
<1>2. CASE parse
  BY <1>2 DEF parse, AppendNode, ParseItem, SkipToken, ReturnTree, KeepToken, Eof,
              NotInitialized
<1>3. CASE UNCHANGED vars
  BY <1>3 DEF vars, KeepToken
<1> QED BY <1>1, <1>2, <1>3, StepMoves

LEMMA StepBounded ==
    ASSUME Places, Bounded, [Next]_vars
    PROVE  Bounded'
<1>1. pos \in Nat /\ MaxTokens \in Nat
  BY ParserAssumption DEF Places, Inductive, TypeOK
<1>2. CASE KeepToken
  BY <1>2 DEF KeepToken, Bounded
<1>3. CASE get_next_token /\ tok # Eof
  <2>1. pos <= MaxTokens /\ pos' = pos + 1
    BY <1>1, <1>3 DEF Bounded, get_next_token
  <2>2. ASSUME pos' > MaxTokens PROVE tok' = Eof
    <3>1. pos >= MaxTokens
      BY <1>1, <2>1, <2>2
    <3> QED BY <1>3, <3>1 DEF get_next_token
  <2>3. pos' <= MaxTokens + 1
    BY <1>1, <2>1
  <2> QED BY <2>2, <2>3 DEF Bounded
<1> QED BY <1>2, <1>3, NoTokenAfterEof

-----------------------------------------------------------------------------
(* The items that are not consumed.                                        *)

(* What a step leaves of an item that advances, or is at an orphan.        *)
LEMMA StillPositioned ==
    ASSUME UNCHANGED <<nodes, mark, status>>, status = "running",
           Stalled' \/ (Advancing /\ pos <= pos') \/ (Len(nodes) <= mark /\ mark < pos'),
           pos \in Nat, pos' \in Nat, mark \in Nat, nodes \in Seq(ItemKinds)
    PROVE  Items'
<1>1. Stalled' \/ (Len(nodes) <= mark /\ mark < pos')
  BY DEF Advancing
<1>2. Len(nodes) \in Nat
  BY LenProperties
<1>3. CASE Stalled'
  BY <1>3 DEF Items, Stalled
<1>4. CASE Len(nodes) <= mark /\ mark < pos'
  <2>1. Advancing' /\ Len(nodes') <= pos' /\ Len(nodes') < pos'
    BY <1>2, <1>4 DEF Advancing
  <2> QED BY <2>1 DEF Items
<1> QED BY <1>1, <1>3, <1>4

(* An item that has consumed nothing is at a point before its first token, *)
(* and goes on to another.                                                 *)
LEMMA StartingGoesOn ==
    ASSUME Places, Inductive', Moves, KeepToken, Starting
    PROVE  stack' # <<>> /\ Starting'
<1>1. /\ Placed(Top, pos) /\ Deep(Top, Len(stack), mark) /\ Given(Top, ret, pos)
      /\ Begun(Top.at, tok) /\ pos \in Nat /\ mark \in Nat /\ tok \in AnyToken
      /\ Top \in FrameType /\ stack \in Seq(FrameType) /\ stack # <<>>
  BY InnermostFrame DEF Moves, InFunction
<1>2. /\ mark = pos /\ ~IsNull(ret) /\ tok \notin Orphans \cup {Eof, NotInitialized}
      /\ tok \in {"fn", "extern"} => Top.at \in {"definition", "extern"}
  BY DEF Starting
<1>3. ~(Top.first < pos) /\ ~(Top.first < Top.loc /\ Top.loc < pos)
  <2>1. mark <= Top.first /\ Top.first \in Nat /\ Top.loc \in Nat
    BY <1>1 DEF Deep, FrameType
  <2> QED BY <1>1, <1>2, <2>1
<1>4. Top.at \notin Eaten \cup RhsLabels \cup {"expr.lhs", "top.body"}
  BY <1>1, <1>2, <1>3 DEF Placed, Given, RhsLabels
<1>5. tok' = tok /\ pos' = pos /\ nodes' = nodes /\ mark' = mark
  BY DEF KeepToken, Moves, InFunction
<1>6. ASSUME stack' # <<>>, ret' = Pending, Top.at \notin {"definition", "extern"}
      PROVE  stack' # <<>> /\ Starting'
  BY <1>2, <1>5, <1>6, PendingFacts DEF Starting
<1>7. CASE Advances
  <2>1. PICK at : Continue(at) /\ (at \in Eaten => Eating \/ Top.at \in Eaten)
                  /\ (at \notin Eaten => Top.at \in {"unary", "primary"})
    BY <1>7 DEF Advances, Eaten, ItemLabels, PrimaryTokens
  <2>2. ~Eating
    BY <1>1, <1>5 DEF Eating, get_next_token
  <2>3. Top.at \in {"unary", "primary"}
    BY <1>4, <2>1, <2>2
  <2>4. stack' # <<>> /\ ret' = Pending
    <3> DEFINE f == [Top EXCEPT !.at = at]
    <3>1. stack' = Append(Front(stack), f) /\ ret' = Pending
      BY <2>1 DEF Continue, Goto
    <3> HIDE DEF f
    <3>2. stack' \in Seq(FrameType) /\ Front(stack) \in Seq(FrameType)
      BY <1>1, Dropped DEF Inductive, TypeOK
    <3>3. Len(stack') # 0
      BY <3>1, <3>2, AppendProperties
    <3> QED BY <3>1, <3>3
  <2> QED BY <1>6, <2>3, <2>4
<1>8. CASE Calls
  <2>1. ~Eating
    BY <1>1, <1>5 DEF Eating, get_next_token
  <2>2. PICK at, callee : Call(callee, at)
    BY <1>8 DEF Calls
  <2>3. Top.at \in {"top", "expr"}
    BY <1>4, <1>8, <2>1 DEF Calls
  <2>4. stack' # <<>> /\ ret' = Pending
    <3> DEFINE f == [Top EXCEPT !.at = at]
               g == Frame(callee)
    <3>1. stack' = Append(Append(Front(stack), f), g) /\ ret' = Pending
      BY <2>2 DEF Call, Enter
    <3> HIDE DEF f, g
    <3>2. stack' # <<>>
      BY <3>1
    <3> QED BY <3>1, <3>2
  <2> QED BY <1>6, <2>3, <2>4
<1>9. ~Answers
  <2>1. ~Eating
    BY <1>1, <1>5 DEF Eating, get_next_token
  <2> QED BY <1>4, <2>1 DEF Answers
<1>10. ~Fails
  <2> SUFFICES ASSUME Top.at = "primary", tok \notin PrimaryTokens \cup {";"} PROVE FALSE
    BY <1>4 DEF Fails
  <2>1. ~isascii(tok) \/ tok \in {"(", ","}
    BY <1>1 DEF Begun
  <2>2. tok \notin {"fn", "extern"}
    BY <1>2
  <2> QED BY <1>1, <1>2, <2>1, <2>2
          DEF AnyToken, Lexemes, isascii, Punctuation, Orphans, PrimaryTokens
<1>11. ~PassesOn
  BY <1>2 DEF PassesOn
<1>12. ~Loops
  BY <1>4 DEF Loops, RhsLabels
<1> QED BY <1>7, <1>8, <1>9, <1>10, <1>11, <1>12 DEF Moves

LEMMA MovesItems ==
    ASSUME Positions, Inductive', Moves
    PROVE  Items'
<1>1. /\ pos \in Nat /\ mark \in Nat /\ mark <= pos /\ nodes \in Seq(ItemKinds)
      /\ pos' \in Nat /\ Places
      /\ stack # <<>> /\ status = "running" /\ UNCHANGED <<nodes, mark, status>>
  BY DEF Positions, Places, Inductive, TypeOK, Moves, InFunction
<1>2. Stalled \/ Advancing \/ Starting
  BY <1>1 DEF Positions, Items
<1>3. KeepToken \/ Eating
  BY DEF Moves, Advances, Calls, Answers, Fails, PassesOn, Loops, LogError
<1>4. CASE Eating
  <2>1. pos' = pos + 1
    BY <1>4 DEF Eating, get_next_token
  <2>2. ~Stalled
    <3> SUFFICES ASSUME Stalled PROVE FALSE
      OBVIOUS
    <3>1. Top.at \in Eaten \cup {"rhs"} /\ mark = pos
      BY <1>4 DEF Eating, Stalled
    <3>2. Top.first < pos /\ mark <= Top.first /\ Top.first \in Nat
      BY <1>1, <3>1, InnermostFrame DEF Placed, Deep, FrameType
    <3> QED BY <1>1, <3>1, <3>2
  <2>3. Len(nodes) <= mark
    BY <1>2, <2>2 DEF Advancing, Starting
  <2>4. mark < pos'
    BY <1>1, <2>1
  <2> QED BY <1>1, <2>3, <2>4, StillPositioned
<1>5. CASE KeepToken
  <2>1. pos' = pos /\ tok' = tok
    BY <1>5 DEF KeepToken
  <2>2. CASE Stalled
    <3>1. Stalled'
      BY <1>1, <2>1, <2>2 DEF Stalled
    <3> QED BY <1>1, <3>1, StillPositioned
  <2>3. CASE Advancing
    <3>1. Advancing /\ pos <= pos'
      BY <1>1, <2>1, <2>3
    <3> QED BY <1>1, <3>1, StillPositioned
  <2>4. CASE Starting
    <3>1. stack' # <<>> /\ Starting'
      BY <1>1, <1>5, <2>4, StartingGoesOn
    <3> QED BY <1>1, <3>1 DEF Items
  <2> QED BY <1>2, <2>2, <2>3, <2>4
<1> QED BY <1>3, <1>4, <1>5

LEMMA ParseItems ==
    ASSUME Positions, Inductive', parse
    PROVE  Items'
<1>1. /\ pos \in Nat /\ mark \in Nat /\ nodes \in Seq(ItemKinds) /\ Len(nodes) \in Nat
      /\ stack = <<>> /\ status = "running" /\ MaxNodes \in Nat /\ MaxTokens \in Nat
      /\ MaxNodes > MaxTokens
  BY ParserAssumption, LenProperties DEF Positions, Places, Inductive, TypeOK, parse
<1>2. /\ IsPending(ret) => tok \in Orphans \/ Len(nodes) <= pos
      /\ ~IsPending(ret) => tok \in Orphans \/ Len(nodes) < pos
  BY <1>1 DEF Positions, Items
<1>3. CASE AppendNode
  <2>1. ~IsPending(ret) /\ IsPending(Pending) /\ ret' = Pending
    BY <1>3 DEF AppendNode, IsPending, Pending, Node
  <2>2. tok' = tok /\ pos' = pos /\ stack' = <<>>
    BY <1>1, <1>3 DEF AppendNode
  <2>3. CASE tok \in Orphans
    BY <2>1, <2>2, <2>3 DEF Items
  <2>4. CASE tok \notin Orphans
    <3>1. Len(nodes) < pos
      BY <1>2, <2>1, <2>4
    <3>2. pos <= MaxTokens + 1
      BY DEF Positions, Bounded
    <3>3. Len(nodes) < MaxNodes
      BY <1>1, <3>1, <3>2
    <3>4. nodes' = Append(nodes, ret.kind) /\ status' = "running"
      BY <1>1, <1>3, <3>3 DEF AppendNode
    <3>5. Len(nodes') = Len(nodes) + 1
      <4>1. ret.kind \in ItemKinds
        BY <1>1, <2>1 DEF Positions, Places, Inductive, IsPending
      <4> QED BY <1>1, <3>4, <4>1, AppendProperties
    <3>6. Len(nodes') <= pos'
      BY <1>1, <2>2, <3>1, <3>5
    <3> QED BY <2>1, <2>2, <3>4, <3>6 DEF Items
  <2> QED BY <2>3, <2>4
<1>4. CASE ParseItem
  <2> DEFINE f == Frame(ItemParser(tok))
  <2>1. /\ IsPending(ret)
        /\ tok \notin {Eof, NotInitialized}
        /\ tok' = tok
        /\ pos' = pos
        /\ stack' = <<f>>
        /\ mark' = pos
        /\ ret' = ret
        /\ nodes' = nodes
        /\ status' = "running"
    BY <1>1, <1>4 DEF ParseItem, KeepToken
  <2>2. f.at = ItemParser(tok)
    BY DEF Frame
  <2> HIDE DEF f
  <2>3. stack' # <<>> /\ Top' = f
    BY <2>1 DEF Top, Last
  <2>4. CASE tok \in Orphans
    BY <2>1, <2>3, <2>4 DEF Items, Stalled
  <2>5. CASE tok \notin Orphans
    <3>1. Len(nodes) <= pos /\ ~IsNull(ret)
      BY <1>2, <2>1, <2>5 DEF IsPending, IsNull
    <3>2. tok \in {"fn", "extern"} => f.at \in {"definition", "extern"}
      BY <2>2, ItemBegins
    <3>3. Starting'
      BY <2>1, <2>3, <2>5, <3>1, <3>2 DEF Starting
    <3> QED BY <2>1, <2>3, <3>3 DEF Items
  <2> QED BY <2>4, <2>5
<1>5. CASE SkipToken
  <2>1. /\ IsPending(ret) /\ tok \notin Orphans /\ pos' = pos + 1
        /\ stack' = <<>> /\ ret' = ret /\ nodes' = nodes /\ status' = "running"
    BY <1>1, <1>5 DEF SkipToken, get_next_token, Orphans, NotInitialized
  <2>2. Len(nodes) <= pos'
    BY <1>1, <1>2, <2>1
  <2> QED BY <2>1, <2>2 DEF Items
<1>6. CASE ReturnTree
  <2>1. /\ IsPending(ret) /\ tok' = tok /\ pos' = pos
        /\ stack' = <<>> /\ ret' = ret /\ nodes' = nodes /\ status' = "returned"
    BY <1>1, <1>6 DEF ReturnTree
  <2> QED BY <1>2, <2>1 DEF Items
<1> QED BY <1>3, <1>4, <1>5, <1>6 DEF parse

-----------------------------------------------------------------------------
(* The theorems. *)

LEMMA InitPositions ==
    ASSUME Init
    PROVE  Positions
<1>1. /\ pos = 0 /\ mark = 0 /\ stack = <<>> /\ nodes = <<>> /\ ret = Pending
      /\ status = "running" /\ Len(<<>>) = 0 /\ MaxTokens \in Nat
  BY ParserAssumption DEF Init
<1>2. Inductive
  BY InitInductive
<1>3. Owned(Pending) /\ IsPending(Pending)
  BY DEF Owned, Pending, Node, Explicit, IsPending
<1>4. Places
  BY <1>1, <1>2, <1>3 DEF Places
<1>5. Bounded
  BY <1>1 DEF Bounded
<1>6. Items
  BY <1>1, <1>3 DEF Items
<1> QED BY <1>4, <1>5, <1>6 DEF Positions

LEMMA StepPositions ==
    ASSUME Positions, [Next]_vars
    PROVE  Positions'
<1>1. Places /\ Bounded /\ Items
  BY DEF Positions
<1>2. Places' /\ Bounded'
  BY <1>1, StepPlaces, StepBounded
<1>3. Items'
  <2>1. Inductive'
    BY <1>2 DEF Places
  <2>2. CASE UNCHANGED vars
    <3>1. /\ tok' = tok /\ pos' = pos /\ stack' = stack /\ ret' = ret /\ mark' = mark
          /\ nodes' = nodes /\ status' = status
      BY <2>2 DEF vars
    <3>2. Top' = Top
      BY <3>1 DEF Top
    <3> QED BY <1>1, <3>1, <3>2 DEF Items, Stalled, Advancing, Starting
  <2> QED BY <1>1, <2>1, <2>2, StepMoves, MovesItems, ParseItems
<1> QED BY <1>2, <1>3 DEF Positions

(* Where the parse functions are: the strengthening of the four properties *)
(* below.                                                                  *)
THEOREM PositionsInvariant == Spec => []Positions
<1>1. Init => Positions
  BY InitPositions
<1>2. Positions /\ [Next]_vars => Positions'
  BY StepPositions
<1> QED BY <1>1, <1>2, PTL DEF Spec

(* However the parse functions call each other, two tokens of the item are *)
(* consumed for every three of them that are active at most, so that no    *)
(* input makes the recursion descend without end.                          *)
THEOREM Recursion == Spec => []RecursionConsumesTokens
<1>1. Positions => RecursionConsumesTokens
  <2> SUFFICES ASSUME Positions PROVE Len(stack) <= 3 + 2 * (pos - mark)
    BY DEF RecursionConsumesTokens
  <2>0. Places
    BY DEF Positions
  <2>1. pos \in Nat /\ mark \in Nat /\ mark <= pos
    BY DEF Positions, Places, Inductive, TypeOK
  <2>2. CASE stack = <<>>
    <3>1. Len(stack) = 0
      BY <2>2
    <3> QED BY <2>1, <3>1
  <2>3. CASE stack # <<>>
    <3>1. /\ Top.first \in Nat /\ Top.first <= pos /\ mark <= Top.first
          /\ Len(stack) \in Nat /\ Len(stack) <= 3 + 2 * (Top.first - mark)
      BY <2>0, <2>3, InnermostFrame DEF Placed, Deep, FrameType
    <3> QED BY <2>1, <3>1
  <2> QED BY <2>2, <2>3
<1> QED BY <1>1, PositionsInvariant, PTL

(* Every number, variable, call, `if` and binary operation that a parse    *)
(* function returns or holds has the location of one of its own tokens.    *)
THEOREM Locations == Spec => []ExplicitLocationsOwned
<1>1. Positions => ExplicitLocationsOwned
  <2> SUFFICES ASSUME Positions PROVE ExplicitLocationsOwned
    OBVIOUS
  <2>1. stack \in Seq(FrameType) /\ Places
    BY DEF Positions, Places, Inductive, TypeOK
  <2>2. DOMAIN stack = 1..Len(stack)
    BY <2>1, LenProperties
  <2>3. Owned(ret) /\ \A i \in DOMAIN stack : Owned(stack[i].lhs)
    BY <2>1, <2>2 DEF Places, Placed
  <2> QED BY <2>3 DEF ExplicitLocationsOwned, Owned, Explicit
<1> QED BY <1>1, PositionsInvariant, PTL

(* On every input, the nodes of the tree are no more than the tokens read, *)
(* unless parse() has met an item that begins with a token in Orphans:     *)
(* only on such a token does the memory run out.                           *)
THEOREM Stalls == Spec => []StallsOnlyOnOrphans
<1>1. Positions => StallsOnlyOnOrphans
  <2> SUFFICES ASSUME Positions PROVE StallsOnlyOnOrphans
    OBVIOUS
  <2>1. /\ pos \in Nat /\ mark \in Nat /\ nodes \in Seq(ItemKinds) /\ Len(nodes) \in Nat
        /\ Items /\ mark <= pos
    BY LenProperties DEF Positions, Places, Inductive, TypeOK
  <2>2. ASSUME tok \notin Orphans PROVE Len(nodes) <= pos
    <3>1. CASE stack # <<>>
      <4>1. Len(nodes) <= mark
        BY <2>1, <2>2, <3>1 DEF Items, Stalled, Advancing, Starting
      <4> QED BY <2>1, <4>1
    <3>2. CASE stack = <<>>
      <4>1. Len(nodes) <= pos \/ Len(nodes) < pos
        BY <2>1, <2>2, <3>2 DEF Items
      <4> QED BY <2>1, <4>1
    <3> QED BY <3>1, <3>2
  <2>3. status = "exhausted" => tok \in Orphans
    BY <2>1 DEF Items
  <2> QED BY <2>2, <2>3 DEF StallsOnlyOnOrphans
<1> QED BY <1>1, PositionsInvariant, PTL

(* On every input, tok_eof is not eaten: what pays for the recursion are   *)
(* tokens of the input, of which there are finitely many.                  *)
THEOREM EndOfInput == Spec => NeverReadsPastEnd
<1>1. Positions /\ [Next]_vars => [tok = Eof => UNCHANGED <<tok, pos>>]_vars
  <2> SUFFICES ASSUME Positions, [Next]_vars PROVE tok = Eof => UNCHANGED <<tok, pos>>
    OBVIOUS
  <2>1. KeepToken \/ (get_next_token /\ tok # Eof)
    BY NoTokenAfterEof DEF Positions
  <2> QED BY <2>1 DEF KeepToken
<1> QED BY <1>1, PositionsInvariant, PTL DEF Spec, NeverReadsPastEnd
=============================================================================
