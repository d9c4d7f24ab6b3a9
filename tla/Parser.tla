------------------------------- MODULE Parser -------------------------------
(***************************************************************************)
(* The recursive descent parser of parser.cpp: Parser::parse() and the     *)
(* functions it calls.  The C++ call stack is the variable `stack`, one    *)
(* frame per active parse function; an action runs one function up to its  *)
(* next call or its return.  The token stream is chosen as it is read, so  *)
(* a run of the model is a run of the parser on some input.                *)
(*                                                                         *)
(* A frame's `at` names the function and the point it has reached:         *)
(* "for.start" is parse_for_expr waiting for the start expression.         *)
(***************************************************************************)
EXTENDS Integers, SequencesExt

CONSTANTS
    Tokens,     \* the tokens an input may hold
    MaxTokens,  \* bound on the length of an input
    MaxNodes    \* nodes the tree can hold before std::bad_alloc ends the program

Punctuation == {"(", ")", ",", ":", ";", "=", "<", "+", "-", "*", "!"}

(* "other" stands for every byte the lexer returns as itself but isascii() *)
(* rejects.                                                                *)
Lexemes == {"ident", "num", "other", "fn", "extern", "if", "else", "for", "in",
            "var", "return", "binary", "unary"} \cup Punctuation

Eof == "eof"
NotInitialized == "not_initialized"

ASSUME ParserAssumption ==
    /\ Tokens \subseteq Lexemes
    /\ MaxTokens \in Nat
    /\ MaxNodes \in Nat
    /\ MaxNodes > MaxTokens

VARIABLES
    tok,     \* Lexer::cur_tok
    pos,     \* the place of cur_tok in the input, for Lexer::cur_loc
    stack,   \* the active parse functions, the innermost last
    ret,     \* what the function that just returned gave its caller
    nodes,   \* the kinds of TreeAST::nodes
    mark,    \* pos when parse() began the current item
    errors,  \* LogError calls since then
    status

vars == <<tok, pos, stack, ret, nodes, mark, errors, status>>

-----------------------------------------------------------------------------
(* Tokens and their precedence. *)

isascii(t) == t \in Punctuation

bin_op_precedence ==
    [t \in {"=", "<", "+", "-", "*"} |->
        CASE t = "=" -> 2 [] t = "<" -> 10 [] t \in {"+", "-"} -> 20 [] t = "*" -> 40]

get_tok_precedence(t) ==
    IF t \in DOMAIN bin_op_precedence THEN bin_op_precedence[t] ELSE -1

(* Any token at all may come next, and the input may end; nothing follows  *)
(* the end of the input.                                                   *)
get_next_token ==
    /\ tok' \in IF tok = Eof \/ pos >= MaxTokens THEN {Eof} ELSE Tokens \cup {Eof}
    /\ pos' = pos + 1

KeepToken == UNCHANGED <<tok, pos>>

-----------------------------------------------------------------------------
(* Results.  A node keeps its kind; whether its location `loc` is that of  *)
(* one of its own tokens; and, for the precedence properties, how tightly  *)
(* its root operator binds and how tightly those of its operands do.       *)

Tight == 100   \* no operator binds tighter than a parenthesis or a primary

Node(kind, owns) ==
    [kind |-> kind, owns |-> owns, prec |-> Tight, lprec |-> Tight, rprec |-> Tight]

Binary(op, lhs, rhs, owns) ==
    [kind |-> "binary", owns |-> owns, prec |-> get_tok_precedence(op),
     lprec |-> lhs.prec, rprec |-> rhs.prec]

Pending == Node("pending", TRUE)  \* no function has just returned
Null == Node("null", TRUE)        \* nullptr
IsPending(result) == result.kind = "pending"
IsNull(result) == result.kind = "null"

(* `first` is where the function's own tokens begin, `op` the token it was *)
(* called on or its pending operator, `loc` the location it has saved.     *)
Frame(at) ==
    [at |-> at, first |-> pos', loc |-> pos', op |-> tok', min |-> 0, lhs |-> Pending]

Top == Last(stack)

-----------------------------------------------------------------------------
(* Steps shared by the parse functions. *)

(* Mutant: the result of a call is used without the test for nullptr. *)
AtUnchecked(at) ==
    /\ status = "running"
    /\ stack # <<>>
    /\ Top.at = at
    /\ UNCHANGED <<nodes, mark, status>>

(* Control is at `at`: the function was just entered or continued, or the  *)
(* function it called has returned something other than nullptr.           *)
At(at) ==
    /\ status = "running"
    /\ stack # <<>>
    /\ Top.at = at
    /\ ~IsNull(ret)
    /\ UNCHANGED <<nodes, mark, status>>

Goto(frame) ==
    /\ stack' = Append(Front(stack), frame)
    /\ ret' = Pending
    /\ UNCHANGED errors

Continue(at) == Goto([Top EXCEPT !.at = at])

Enter(frame, callee) ==
    /\ stack' = Append(Append(Front(stack), frame), callee)
    /\ ret' = Pending
    /\ UNCHANGED errors

Call(callee, at) == Enter([Top EXCEPT !.at = at], Frame(callee))

parse_expression_then(at) == Call("expr", at)

Return(result) ==
    /\ stack' = Front(stack)
    /\ ret' = result

Succeed(result) == Return(result) /\ UNCHANGED errors

(* make_unique<...ExprAST>(loc, ...) as the value returned; the node spans *)
(* the tokens consumed since the function was entered.                     *)
Build(kind, loc) == Succeed(Node(kind, Top.first <= loc /\ loc < pos'))

LogError ==
    /\ KeepToken
    /\ errors' = errors + 1
    /\ Return(Null)

(* `if (!x) return nullptr;` after each of the calls `at` waits on. *)
PropagateNull(points) ==
    /\ status = "running"
    /\ stack # <<>>
    /\ Top.at \in points
    /\ IsNull(ret)
    /\ KeepToken
    /\ Succeed(Null)
    /\ UNCHANGED <<nodes, mark, status>>

(* Mutant: the token is eaten before it is compared. *)
ExpectAfterEating(t, at) ==
    /\ get_next_token
    /\ IF tok = t THEN Continue(at) ELSE errors' = errors + 1 /\ Return(Null)

(* `if (cur_tok != t) return LogError(...); get_next_token();` *)
Expect(t, at) == IF tok = t THEN get_next_token /\ Continue(at) ELSE LogError

ExpectThenExpression(t, at) ==
    IF tok = t THEN get_next_token /\ parse_expression_then(at) ELSE LogError

-----------------------------------------------------------------------------
(* Parser::parse() *)

AppendNode ==
    /\ ~IsPending(ret)
    /\ IF Len(nodes) < MaxNodes
       THEN nodes' = Append(nodes, ret.kind) /\ UNCHANGED status
       ELSE status' = "exhausted" /\ UNCHANGED nodes
    /\ ret' = Pending
    /\ errors' = 0
    /\ UNCHANGED <<tok, pos, stack, mark>>

ItemParser(t) ==
    CASE t = "fn" -> "definition" [] t = "extern" -> "extern" [] OTHER -> "top"

ParseItem ==
    /\ IsPending(ret)
    /\ tok \notin {Eof, NotInitialized, ";"}
    /\ KeepToken
    /\ stack' = <<Frame(ItemParser(tok))>>
    /\ mark' = pos
    /\ UNCHANGED <<ret, nodes, errors, status>>

(* Mutant: the ';' is recognised but not eaten. *)
SkipTokenUneaten ==
    /\ IsPending(ret)
    /\ tok \in {NotInitialized, ";"}
    /\ IF tok = ";" THEN KeepToken ELSE get_next_token
    /\ UNCHANGED <<stack, ret, nodes, mark, errors, status>>

SkipToken ==
    /\ IsPending(ret)
    /\ tok \in {NotInitialized, ";"}
    /\ get_next_token
    /\ UNCHANGED <<stack, ret, nodes, mark, errors, status>>

ReturnTree ==
    /\ IsPending(ret)
    /\ tok = Eof
    /\ status' = "returned"
    /\ UNCHANGED <<tok, pos, stack, ret, nodes, mark, errors>>

parse ==
    /\ status = "running"
    /\ stack = <<>>
    /\ AppendNode \/ ParseItem \/ SkipToken \/ ReturnTree

-----------------------------------------------------------------------------
(* Items.  parse_prototype and parse_extern_prototype are the same code up *)
(* to the ':' a definition needs; the frame they run in is their caller's. *)

(* Mutant: the word `extern` is not eaten. *)
parse_extern_uneaten == At("extern") /\ KeepToken /\ Continue("proto.name")

parse_extern == At("extern") /\ get_next_token /\ Continue("proto.name")

parse_prototype ==
    \/ At("proto.name") /\ Expect("ident", "proto.open")
    \/ At("proto.open") /\ Expect("(", "proto.arg")
    \/ At("proto.arg") /\ tok = "ident" /\ get_next_token /\ Continue("proto.sep")
    \/ At("proto.arg") /\ tok # "ident" /\ KeepToken /\ Continue("proto.close")
    \/ At("proto.sep") /\ tok = "," /\ get_next_token /\ Continue("proto.arg")
    \/ At("proto.sep") /\ tok # "," /\ KeepToken /\ Continue("proto.close")
    \/ At("proto.close") /\ Expect(")", "proto.end")
    \/ At("proto.end") /\ Top.op = "fn" /\ ExpectThenExpression(":", "definition.body")
    \/ At("proto.end") /\ Top.op = "extern" /\ KeepToken /\ Build("prototype", pos)

parse_definition ==
    \/ At("definition") /\ get_next_token /\ Continue("proto.name")
    \/ At("definition.body") /\ KeepToken /\ Build("function", pos)
    \/ PropagateNull({"definition.body"})

(* Mutant: the expression is returned without its anonymous function. *)
parse_top_level_expr_bare ==
    \/ At("top") /\ KeepToken /\ parse_expression_then("top.body")
    \/ At("top.body") /\ KeepToken /\ Succeed(ret)
    \/ PropagateNull({"top.body"})

parse_top_level_expr ==
    \/ At("top") /\ KeepToken /\ parse_expression_then("top.body")
    \/ At("top.body") /\ KeepToken /\ Build("function", pos)
    \/ PropagateNull({"top.body"})

-----------------------------------------------------------------------------
(* Expressions and their operators. *)

parse_expression ==
    \/ At("expr") /\ KeepToken /\ Call("unary", "expr.lhs")
    \/ At("expr.lhs") /\ KeepToken /\ Goto([Top EXCEPT !.at = "rhs", !.min = 0, !.lhs = ret])
    \/ PropagateNull({"expr.lhs"})

(* Mutant: the operator is not eaten before its operand is parsed. *)
parse_unary_uneaten ==
    \/ At("unary") /\ (~isascii(tok) \/ tok \in {"(", ","}) /\ KeepToken /\ Continue("primary")
    \/ At("unary") /\ isascii(tok) /\ KeepToken /\ Call("unary", "unary.operand")
    \/ At("unary.operand") /\ KeepToken /\ Build("unary", pos)
    \/ PropagateNull({"unary.operand"})

parse_unary ==
    \/ /\ At("unary")
       /\ IF ~isascii(tok) \/ tok \in {"(", ","}
          THEN KeepToken /\ Continue("primary")
          ELSE get_next_token /\ Call("unary", "unary.operand")
    \/ At("unary.operand") /\ KeepToken /\ Build("unary", pos)
    \/ PropagateNull({"unary.operand"})

(* Mutant: the comparison is the wrong way round. *)
BindsMoreTightly(op, next) == get_tok_precedence(op) > get_tok_precedence(next)

(* The operator after rhs takes rhs as its left operand. *)
BindsLessTightly(op, next) == get_tok_precedence(op) < get_tok_precedence(next)

(* Mutant: the location is read when the operands are merged. *)
MergeOperandsLate ==
    LET owns == Top.first <= pos /\ pos < pos'
    IN Goto([Top EXCEPT !.at = "rhs", !.lhs = Binary(Top.op, Top.lhs, ret, owns)])

MergeOperands ==
    LET owns == Top.first <= Top.loc /\ Top.loc < pos
    IN Goto([Top EXCEPT !.at = "rhs", !.lhs = Binary(Top.op, Top.lhs, ret, owns)])

parse_bin_op_rhs ==
    \/ At("rhs") /\ get_tok_precedence(tok) < Top.min /\ KeepToken /\ Succeed(Top.lhs)
    \/ /\ At("rhs")
       /\ get_tok_precedence(tok) >= Top.min
       /\ get_next_token
       /\ Enter([Top EXCEPT !.at = "rhs.operand", !.op = tok, !.loc = pos], Frame("unary"))
    \/ /\ At("rhs.operand")
       /\ BindsLessTightly(Top.op, tok)
       /\ KeepToken
       /\ Enter([Top EXCEPT !.at = "rhs.nested"],
                [Frame("rhs") EXCEPT !.first = Top.loc + 1, !.lhs = ret,
                                     !.min = get_tok_precedence(Top.op) + 1])
    \/ /\ At("rhs.operand")
       /\ ~BindsLessTightly(Top.op, tok)
       /\ KeepToken
       /\ MergeOperands
    \/ At("rhs.nested") /\ KeepToken /\ MergeOperands
    \/ PropagateNull({"rhs.operand", "rhs.nested"})

-----------------------------------------------------------------------------
(* Primary expressions. *)

PrimaryTokens == {"ident", "num", "(", "if", "for", "var"}

parse_primary ==
    /\ At("primary")
    /\ IF tok \in PrimaryTokens
       THEN KeepToken /\ Continue(tok)
       ELSE Expect(";", "primary")

(* Mutant: the node is made after the number has been eaten. *)
parse_float_expr_late == At("num") /\ get_next_token /\ Build("float", pos')

parse_float_expr == At("num") /\ get_next_token /\ Build("float", pos)

parse_paren_expr ==
    \/ At("(") /\ get_next_token /\ parse_expression_then("paren.close")
    \/ At("paren.close") /\ tok = ")" /\ get_next_token /\ Succeed([ret EXCEPT !.prec = Tight])
    \/ At("paren.close") /\ tok # ")" /\ LogError
    \/ PropagateNull({"paren.close"})

parse_identifier_expr ==
    \/ At("ident") /\ get_next_token /\ Continue("ident.call")
    \/ At("ident.call") /\ tok # "(" /\ KeepToken /\ Build("variable", Top.loc)
    \/ At("ident.call") /\ tok = "(" /\ get_next_token /\ Continue("args")
    \/ At("args") /\ tok = ")" /\ get_next_token /\ Build("call", Top.loc)
    \/ At("args") /\ tok # ")" /\ KeepToken /\ parse_expression_then("args.sep")
    \/ At("args.sep") /\ tok = ")" /\ get_next_token /\ Build("call", Top.loc)
    \/ At("args.sep") /\ tok = "," /\ KeepToken /\ parse_expression_then("args.sep")
    \/ At("args.sep") /\ tok \notin {")", ","} /\ LogError
    \/ PropagateNull({"args.sep"})

parse_if_expr ==
    \/ At("if") /\ get_next_token /\ parse_expression_then("if.cond")
    \/ At("if.cond") /\ ExpectThenExpression(":", "if.then")
    \/ At("if.then") /\ Expect("else", "if.else")
    \/ At("if.else") /\ ExpectThenExpression(":", "if.end")
    \/ At("if.end") /\ KeepToken /\ Build("if", Top.loc)
    \/ PropagateNull({"if.cond", "if.then", "if.end"})

parse_for_expr ==
    \/ At("for") /\ get_next_token /\ Continue("for.name")
    \/ At("for.name") /\ Expect("ident", "for.assign")
    \/ At("for.assign") /\ ExpectThenExpression("=", "for.start")
    \/ At("for.start") /\ ExpectThenExpression(",", "for.end")
    \/ At("for.end") /\ tok = "," /\ get_next_token /\ parse_expression_then("for.step")
    \/ At("for.end") /\ tok # "," /\ KeepToken /\ Continue("for.step")
    \/ At("for.step") /\ ExpectThenExpression("in", "for.body")
    \/ At("for.body") /\ KeepToken /\ Build("for", pos)
    \/ PropagateNull({"for.start", "for.end", "for.step", "for.body"})

parse_var_expr ==
    \/ At("var") /\ get_next_token /\ Continue("var.name")
    \/ At("var.name") /\ Expect("ident", "var.init")
    \/ At("var.init") /\ tok = "=" /\ get_next_token /\ parse_expression_then("var.sep")
    \/ At("var.init") /\ tok # "=" /\ KeepToken /\ Continue("var.sep")
    \/ At("var.sep") /\ tok = "," /\ get_next_token /\ Continue("var.name")
    \/ At("var.sep") /\ tok # "," /\ ExpectThenExpression("in", "var.body")
    \/ At("var.body") /\ KeepToken /\ Build("var", pos)
    \/ PropagateNull({"var.sep", "var.body"})

-----------------------------------------------------------------------------
Init ==
    /\ tok = NotInitialized
    /\ pos = 0
    /\ stack = <<>>
    /\ ret = Pending
    /\ nodes = <<>>
    /\ mark = 0
    /\ errors = 0
    /\ status = "running"

Done == status # "running" /\ UNCHANGED vars

Next ==
    \/ parse
    \/ parse_extern \/ parse_prototype \/ parse_definition \/ parse_top_level_expr
    \/ parse_expression \/ parse_unary \/ parse_bin_op_rhs
    \/ parse_primary \/ parse_float_expr \/ parse_paren_expr \/ parse_identifier_expr
    \/ parse_if_expr \/ parse_for_expr \/ parse_var_expr
    \/ Done

(* The parser is one thread, and no step of it waits for anything but the  *)
(* next token: it runs until parse() returns.                              *)
Spec == Init /\ [][Next]_vars /\ WF_vars(Next)

-----------------------------------------------------------------------------
(* Properties. *)

(* The points at which an item, an expression, an operator loop, and an    *)
(* operand are being parsed.                                               *)
ItemLabels ==
    {"definition", "definition.body", "extern", "top", "top.body",
     "proto.name", "proto.open", "proto.arg", "proto.sep", "proto.close", "proto.end"}
ExprLabels == {"expr", "expr.lhs"}
RhsLabels == {"rhs", "rhs.operand", "rhs.nested"}
OperandLabels ==
    {"unary", "unary.operand", "primary", "num", "(", "paren.close",
     "ident", "ident.call", "args", "args.sep",
     "if", "if.cond", "if.then", "if.else", "if.end",
     "for", "for.name", "for.assign", "for.start", "for.end", "for.step", "for.body",
     "var", "var.name", "var.init", "var.sep", "var.body"}
Labels == ItemLabels \cup ExprLabels \cup RhsLabels \cup OperandLabels

ExprKinds == {"float", "variable", "unary", "binary", "call", "if", "for", "var"}

ItemKinds == {"null", "prototype", "function"}

Result ==
    [kind : ExprKinds \cup ItemKinds \cup {"pending"}, owns : BOOLEAN,
     prec : -1..Tight, lprec : -1..Tight, rprec : -1..Tight]

AnyToken == Lexemes \cup {Eof, NotInitialized}

FrameType ==
    [at : Labels, first : Nat, loc : Nat, op : AnyToken, min : Nat, lhs : Result]

(* Every variable has its type. *)
TypeOK ==
    /\ tok \in AnyToken
    /\ pos \in Nat
    /\ stack \in Seq(FrameType)
    /\ ret \in Result
    /\ nodes \in Seq(ItemKinds)
    /\ mark \in Nat
    /\ errors \in Nat
    /\ status \in {"running", "returned", "exhausted"}

(* A parse function gives its caller nullptr exactly when one diagnostic   *)
(* has been reported for the item: no failure is silent, none is reported  *)
(* twice on its way out through the callers, and none is forgotten by a    *)
(* caller that then goes on to build a node.                               *)
OneDiagnosticPerFailure == errors = IF IsNull(ret) THEN 1 ELSE 0

(* In every tree parse_bin_op_rhs builds, the left operand binds at least  *)
(* as tightly as the operator and the right operand more tightly: the      *)
(* precedences of setup() hold and equal operators group to the left.      *)
Bound(n) == n.prec < Tight => n.lprec >= n.prec /\ n.rprec > n.prec
BindsByPrecedence == Bound(ret) /\ \A i \in DOMAIN stack : Bound(stack[i].lhs)

(* A number, a variable, a call, an `if` and a binary operation carry the  *)
(* location of one of their own tokens, however many tokens their parsing  *)
(* has consumed since.                                                     *)
ExplicitLocationsOwned ==
    \A n \in {ret} \cup {stack[i].lhs : i \in DOMAIN stack} :
        n.kind \in {"float", "variable", "call", "if", "binary"} => n.owns

(* The recursion of the parse functions is paid for by tokens of the item: *)
(* no cycle of calls is possible that consumes nothing.                    *)
RecursionConsumesTokens == Len(stack) <= 3 + 2 * (pos - mark)

(* The parser never eats the end of the input.  The lexer repeats tok_eof  *)
(* for ever (lexer.cpp:174), so a function that ate it would have consumed *)
(* nothing, and the tokens that pay for the recursion would not run out.   *)
NeverReadsPastEnd == [][tok = Eof => UNCHANGED <<tok, pos>>]_vars

(* Tokens no item or expression begins with.  parse() consumes nothing of  *)
(* an item that begins with one of these and reports it again and again.   *)
Orphans == {",", "else", "in", "return", "binary", "unary", "other"}

(* Every other item consumes a token, so that the tree cannot outgrow the  *)
(* input and memory runs out on the tokens in Orphans only.                *)
StallsOnlyOnOrphans ==
    /\ tok \notin Orphans => Len(nodes) <= pos
    /\ status = "exhausted" => tok \in Orphans

(* Why the trees bind by precedence.  The left operand of a pending        *)
(* operator binds as tightly as the operator, and no pending operator is   *)
(* looser than the loop that took it allows;                               *)
OperatorsInOrder(f) ==
    /\ ~IsNull(f.lhs)
    /\ Bound(f.lhs)
    /\ f.at \in RhsLabels => f.lhs.prec >= f.min
    /\ f.at \in {"rhs.operand", "rhs.nested"} =>
          f.lhs.prec >= get_tok_precedence(f.op) /\ get_tok_precedence(f.op) >= f.min

(* a function that waits for an operand has called one that parses an      *)
(* operand, or the loop that takes only tighter operators;                 *)
Waits(caller, callee) ==
    /\ caller.at # "rhs"
    /\ caller.at = "rhs.nested" =>
          callee.at \in RhsLabels /\ callee.min = get_tok_precedence(caller.op) + 1
    /\ caller.at \in {"rhs.operand", "expr.lhs"} => callee.at \in OperandLabels

(* and what it is given when t is the token after the operand suits it.    *)
Suits(caller, result, t) ==
    /\ caller.at = "rhs.nested" /\ ~IsNull(result) =>
          /\ result.prec > get_tok_precedence(caller.op)
          /\ get_tok_precedence(t) <= get_tok_precedence(caller.op)
    /\ caller.at \in {"rhs.operand", "expr.lhs"} => result.prec = Tight

(* The inductive invariant that TypeOK, OneDiagnosticPerFailure and        *)
(* BindsByPrecedence follow from.                                          *)
Inductive ==
    /\ TypeOK
    /\ OneDiagnosticPerFailure
    /\ Bound(ret)
    /\ \A i \in 1..Len(stack) : OperatorsInOrder(stack[i])
    /\ \A i \in 1..(Len(stack) - 1) : Waits(stack[i], stack[i + 1])
    /\ stack = <<>> => ret.kind \in ItemKinds \cup {"pending"}
    /\ stack # <<>> =>
          /\ stack[1].at \in ItemLabels
          /\ Suits(Top, ret, tok)
          /\ Top.at = "rhs" => Top.lhs.prec >= get_tok_precedence(tok)

(* parse() ends. *)
Terminates == <>(status # "running")

(* What the documentation says and the code does not do (see README.md).   *)

(* ast-to-object.cpp:621 "top ::= definition | external | expression | ';'" *)
(* of the nodes main_loop walks: none of them is null.                     *)
NodesAreItems == \A i \in DOMAIN nodes : nodes[i] # "null"
=============================================================================
