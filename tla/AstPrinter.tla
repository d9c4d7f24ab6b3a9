----------------------------- MODULE AstPrinter -----------------------------
(***************************************************************************)
(* ASTToOutputVisitor and print_ast of codegen/ast-to-stdout.cpp: the walk *)
(* that prints the tree.  Its members are the indentation and the          *)
(* annotation that the next node to ask for one will print.  What is       *)
(* printed is abstracted to the columns of the brackets that stand on      *)
(* lines of their own.  The tree is chosen as it is visited.               *)
(***************************************************************************)
EXTENDS Integers, SequencesExt

CONSTANTS
    MaxBranches,  \* bound on the inner nodes of the tree
    MaxChildren,  \* bound on arguments, parameters and variables
    MaxItems      \* bound on the nodes print_ast walks

ASSUME PrinterAssumption ==
    /\ MaxBranches \in Nat
    /\ MaxChildren \in Nat
    /\ MaxItems \in Nat

VARIABLES
    indent,
    annotation,  \* its text, and the kind of node it was set for
    stack,       \* the active visit methods, the innermost last
    open,        \* the columns of the brackets not yet closed
    column,      \* that of the last bracket printed
    stray,       \* the kind of node whose annotation the last step printed elsewhere
    branches,    \* inner nodes visited
    items,       \* nodes print_ast has begun
    status

vars == <<indent, annotation, stack, open, column, stray, branches, items, status>>

-----------------------------------------------------------------------------
INDENT_SIZE == 2

Leaves == {"float", "variable"}
Branches == {"unary", "binary", "call", "if", "for", "var"}

NoAnnotation == [text |-> "", of |-> "none"]

Annotation(kind, i) ==
    CASE kind = "if" -> <<"<COND>", "<THEN>", "<ELSE>">>[i]
      [] kind = "for" -> <<"<START>", "<END>", "<STEP>", "<BODY>">>[i]
      [] OTHER -> ""

(* `at` is 0 for a method that has printed nothing and i while its i-th    *)
(* child is next; `n` the number of children, where the class leaves it    *)
(* open; `mine` TRUE when the pending annotation is of this node;          *)
(* `optional` TRUE when the pointer to this node may be null.              *)
Frame(kind, optional, n) ==
    [kind |-> kind, at |-> 0, n |-> n, mine |-> FALSE, optional |-> optional]

Top == Last(stack)
In(kind) == status = "running" /\ stack # <<>> /\ Top.kind = kind /\ UNCHANGED items
At(kind, i) == In(kind) /\ Top.at = i /\ UNCHANGED <<branches, status>>

Advanced(frame) == [frame EXCEPT !.at = @ + 1]
Advance == stack' = Append(Front(stack), Advanced(Top))
Return == stack' = Front(stack)
Visit(optional) ==
    stack' = Append(Append(Front(stack), Advanced(Top)), Frame("unvisited", optional, 0))

-----------------------------------------------------------------------------
(* Printing. *)

PrintNothing == UNCHANGED <<indent, open, column>>

(* n lines that end in a bracket, each indented deeper than the one before *)
Open(n) ==
    /\ indent' = indent + n * INDENT_SIZE
    /\ open' = open \o [i \in 1..n |-> indent + (i - 1) * INDENT_SIZE]
    /\ column' = Last(open')

(* Mutant: the indentation goes back one step for two brackets. *)
CloseOneStep(n) ==
    /\ indent' = indent - INDENT_SIZE
    /\ open' = SubSeq(open, 1, Len(open) - n)
    /\ column' = indent'

(* and n lines with the brackets that close them. *)
Close(n) ==
    /\ indent' = indent - n * INDENT_SIZE
    /\ open' = SubSeq(open, 1, Len(open) - n)
    /\ column' = indent'

set_annotation(text) == annotation' = [text |-> text, of |-> "next"]
KeepAnnotation == UNCHANGED annotation /\ stray' = "none"

(* Mutant: the annotation is printed and kept. *)
get_annotation_keeping ==
    /\ stray' = IF annotation.text # "" /\ ~Top.mine THEN annotation.of ELSE "none"
    /\ UNCHANGED annotation

get_annotation ==
    /\ stray' = IF annotation.text # "" /\ ~Top.mine THEN annotation.of ELSE "none"
    /\ annotation' = NoAnnotation

(* The annotation of the i-th child is set, and the child is visited. *)
VisitNext(kind, i) ==
    /\ IF Annotation(kind, i) = "" THEN UNCHANGED annotation ELSE set_annotation(Annotation(kind, i))
    /\ stray' = "none"
    /\ PrintNothing
    /\ Visit(kind = "for" /\ i = 3)

-----------------------------------------------------------------------------
(* The visit methods. *)

Nodes ==
    IF branches < MaxBranches
    THEN {<<kind, 0>> : kind \in (Leaves \cup Branches) \ {"call", "var"}}
            \cup ({"call"} \X (0..MaxChildren)) \cup ({"var"} \X (1..MaxChildren))
    ELSE Leaves \X {0}

(* The call through the pointer to a child, which may be null. *)
accept ==
    /\ In("unvisited")
    /\ PrintNothing
    /\ stray' = "none"
    /\ \/ /\ Top.optional
          /\ status' = "crashed"
          /\ UNCHANGED <<stack, annotation, branches>>
       \/ \E node \in Nodes :
             /\ stack' = Append(Front(stack),
                   [Frame(node[1], FALSE, node[2]) EXCEPT !.mine = annotation.of = "next"])
             /\ annotation' = IF annotation.of = "next"
                              THEN [annotation EXCEPT !.of = node[1]] ELSE annotation
             /\ branches' = IF node[1] \in Leaves THEN branches ELSE branches + 1
             /\ UNCHANGED status

visitFloat == At("float", 0) /\ get_annotation /\ PrintNothing /\ Return
visitVariable == At("variable", 0) /\ get_annotation /\ PrintNothing /\ Return

(* Neither the operand nor the annotation is printed. *)
visitUnary == At("unary", 0) /\ KeepAnnotation /\ PrintNothing /\ Return

Bracketed(kind, n) ==
    \/ At(kind, 0) /\ get_annotation /\ Open(2) /\ Advance
    \/ \E i \in 1..n : At(kind, i) /\ VisitNext(kind, i)
    \/ At(kind, n + 1) /\ KeepAnnotation /\ Close(2) /\ Return

visitBinary == Bracketed("binary", 2)
visitCall == In("call") /\ Bracketed("call", Top.n)
visitFor == Bracketed("for", 4)

(* Mutant: a missing `else` is dereferenced. *)
visitIf_unguarded ==
    \/ At("if", 0) /\ KeepAnnotation /\ Open(2) /\ Advance
    \/ \E i \in 1..2 : At("if", i) /\ VisitNext("if", i)
    \/ At("if", 3) /\ set_annotation("<ELSE>") /\ stray' = "none" /\ PrintNothing /\ Visit(TRUE)
    \/ At("if", 4) /\ KeepAnnotation /\ Close(2) /\ Return

(* `if` does not print its own annotation, but replaces it at once, and    *)
(* looks whether it has an `else`.                                         *)
visitIf ==
    \/ At("if", 0) /\ KeepAnnotation /\ Open(2) /\ Advance
    \/ \E i \in 1..3 : At("if", i) /\ VisitNext("if", i)
    \/ At("if", 3) /\ KeepAnnotation /\ PrintNothing /\ Advance
    \/ At("if", 4) /\ KeepAnnotation /\ Close(2) /\ Return

(* The brackets of a `var` are not indented, and its initializers (not its *)
(* body) are visited, whether there are any or not.                        *)
visitVar ==
    /\ In("var")
    /\ KeepAnnotation
    /\ \/ /\ At("var", 0)
          /\ indent' = indent + INDENT_SIZE
          /\ open' = Append(open, 0)
          /\ column' = 0
          /\ Advance
       \/ \E i \in 1..Top.n : At("var", i) /\ PrintNothing /\ Visit(TRUE)
       \/ /\ At("var", Top.n + 1)
          /\ indent' = indent - INDENT_SIZE
          /\ open' = Front(open)
          /\ column' = 0
          /\ Return

visitPrototype == At("prototype", 0) /\ KeepAnnotation /\ PrintNothing /\ Return

(* Mutant: the function is closed before its body. *)
visitFunction_closing_early ==
    /\ In("function")
    /\ KeepAnnotation
    /\ \/ At("function", 0) /\ Open(2) /\ Advance
       \/ \E i \in 1..Top.n :
             /\ At("function", i)
             /\ PrintNothing
             /\ stack' = Append(Append(Front(stack), Advanced(Top)), Frame("variable", FALSE, 0))
       \/ At("function", Top.n + 1) /\ Close(2) /\ Advance
       \/ At("function", Top.n + 2) /\ Open(1) /\ Visit(FALSE)
       \/ At("function", Top.n + 3) /\ Close(2) /\ Return

(* The parameters are printed as variables. *)
visitFunction ==
    /\ In("function")
    /\ KeepAnnotation
    /\ \/ At("function", 0) /\ Open(2) /\ Advance
       \/ \E i \in 1..Top.n :
             /\ At("function", i)
             /\ PrintNothing
             /\ stack' = Append(Append(Front(stack), Advanced(Top)), Frame("variable", FALSE, 0))
       \/ At("function", Top.n + 1) /\ Close(1) /\ Advance
       \/ At("function", Top.n + 2) /\ Open(1) /\ Visit(FALSE)
       \/ At("function", Top.n + 3) /\ Close(2) /\ Return

-----------------------------------------------------------------------------
(* print_ast: the loop over the tree, which may hold null pointers, and    *)
(* the bracket after it.                                                   *)
NextItem ==
    /\ status = "running"
    /\ stack = <<>>
    /\ items < MaxItems
    /\ items' = items + 1
    /\ KeepAnnotation
    /\ PrintNothing
    /\ UNCHANGED branches
    /\ \/ status' = "crashed" /\ UNCHANGED stack
       \/ /\ \E n \in 0..MaxChildren : stack' = <<Frame("function", FALSE, n)>>
          /\ UNCHANGED status
       \/ stack' = <<Frame("prototype", FALSE, 0)>> /\ UNCHANGED status

EndOfTree ==
    /\ status = "running"
    /\ stack = <<>>
    /\ status' = "finished"
    /\ open' = Front(open)
    /\ column' = 0
    /\ KeepAnnotation
    /\ UNCHANGED <<indent, stack, branches, items>>

print_ast == NextItem \/ EndOfTree

-----------------------------------------------------------------------------
Init ==
    /\ indent = INDENT_SIZE
    /\ annotation = NoAnnotation
    /\ stack = <<>>
    /\ open = <<0>>
    /\ column = 0
    /\ stray = "none"
    /\ branches = 0
    /\ items = 0
    /\ status = "running"

Done == status # "running" /\ UNCHANGED vars

Next ==
    \/ accept
    \/ visitFloat \/ visitVariable \/ visitUnary \/ visitBinary \/ visitCall
    \/ visitIf \/ visitFor \/ visitVar \/ visitPrototype \/ visitFunction
    \/ print_ast
    \/ Done

Spec == Init /\ [][Next]_vars

-----------------------------------------------------------------------------
(* Properties. *)

Kinds == Leaves \cup Branches \cup {"function", "prototype"}
AnnotationType ==
    [text : {"", "<COND>", "<THEN>", "<ELSE>", "<START>", "<END>", "<STEP>", "<BODY>"},
     of : Kinds \cup {"none", "next"}]
FrameType ==
    [kind : Kinds \cup {"unvisited"}, at : Nat, n : 0..MaxChildren,
     mine : BOOLEAN, optional : BOOLEAN]

(* Every variable has its type; the indentation is never negative, which   *)
(* would make the string of blanks one of nearly 2^64 characters.          *)
TypeOK ==
    /\ indent \in Nat
    /\ annotation \in AnnotationType
    /\ stack \in Seq(FrameType)
    /\ open \in Seq(Nat)
    /\ column \in Nat
    /\ stray \in Kinds \cup {"none"}
    /\ branches \in 0..MaxBranches
    /\ items \in 0..MaxItems
    /\ status \in {"running", "finished", "crashed"}

(* A bracket is closed in the column of the one that opened it, whatever   *)
(* was printed in between; the last one closed by a step is the outermost. *)
BracketsAlign ==
    [][Len(open') < Len(open) => column' = open[Len(open') + 1]]_vars

(* An annotation is printed in front of the child it was set for.  What    *)
(* may print it later in front of another is left by a unary node, which   *)
(* prints no annotation, or by a `var`, whose first initializer takes it.  *)
StrayOnlyFromUnprinted == stray \in {"none", "unary", "var"}

(* The walk dereferences a null pointer for an item that could not be      *)
(* read, for the step of a `for` or an initializer, and for nothing else.  *)
CrashesOnMissing ==
    status = "crashed" =>
        stack = <<>> \/ (Len(stack) > 1 /\ stack[Len(stack) - 1].kind \in {"for", "var"})
=============================================================================
