---------------------------- MODULE ObjectCodegen ----------------------------
(***************************************************************************)
(* ASTToObjectVisitor of codegen/ast-to-object.cpp: the walk over the tree *)
(* that fills the LLVM module.  The visitor's mutable members (result_val, *)
(* result_func) and the globals of ArxLLVM (named_values, function_protos, *)
(* module) are the state; the visit methods call each other through the    *)
(* call stack `stack`.  The body of a function is chosen node by node as   *)
(* the walk first reaches it and kept in `tree`, because an assignment     *)
(* visits its operands a second time.                                      *)
(***************************************************************************)
EXTENDS Integers, SequencesExt

CONSTANTS
    Variables,      \* names of variables
    FunctionNames,  \* names of functions
    Kinds,          \* the kinds of expression a body may hold, besides leaves
    VarLists,       \* the lists of names a `var` may declare
    MaxArgs,        \* bound on the parameters of a function, the arguments of a call
    MaxItems,       \* bound on the nodes of the tree main_loop walks
    MaxBranches     \* bound on the inner nodes of one body

ASSUME CodegenAssumption ==
    /\ Kinds \subseteq {"unary", "=", "+", "call", "if", "for", "var"}
    /\ VarLists \subseteq Seq(Variables)
    /\ MaxArgs \in Nat
    /\ MaxItems \in Nat
    /\ MaxBranches \in Nat

VARIABLES
    functions,        \* every llvm::Function created, in order
    function_protos,  \* name -> argument names
    named_values,     \* variable -> alloca, or NoAlloca
    insert,           \* GetInsertBlock(): an index in the blocks of `current`
    result_val,       \* "null" or "value"
    result_func,      \* index in functions, or NoFunction for nullptr
    current,          \* the function whose body is being visited, or NoFunction
    tree,             \* its body: path -> node, as far as it was visited
    stack,            \* the active visit methods, the innermost last
    emitted,          \* the instructions the last step created
    items,            \* nodes main_loop has begun
    status

vars == <<functions, function_protos, named_values, insert, result_val, result_func,
          current, tree, stack, emitted, items, status>>

-----------------------------------------------------------------------------
(* The tree. *)

With(f, x, v) == [y \in DOMAIN f \cup {x} |-> IF y = x THEN v ELSE f[y]]

(* A node: its kind, the names it mentions, and n: the number of arguments *)
(* of a call, of steps of a `for`, and of variables of a `var` that have   *)
(* an initializer (taken to be its first n).                               *)
Node(kind, names, n) == [kind |-> kind, names |-> names, n |-> n]

Leaves == {Node("float", <<>>, 0)} \cup {Node("variable", <<v>>, 0) : v \in Variables}

Branches ==
    UNION {{Node(kind, <<>>, 0) : kind \in Kinds \cap {"unary", "=", "+", "if"}},
           {Node("call", <<f>>, n) : f \in FunctionNames, n \in 0..MaxArgs},
           {Node("for", <<v>>, n) : v \in Variables, n \in 0..1},
           UNION {{Node("var", l, n) : n \in 0..Len(l)} : l \in VarLists}}

Nodes == Leaves \cup {b \in Branches : b.kind \in Kinds}

(* The nodes that can be at `path`: the one found there before, or any.    *)
NodesAt(path) ==
    IF path \in DOMAIN tree THEN {tree[path]}
    ELSE IF Cardinality({p \in DOMAIN tree : tree[p] \notin Leaves}) < MaxBranches
         THEN Nodes
         ELSE Leaves

-----------------------------------------------------------------------------
(* The module. *)

NoFunction == 0
NoAlloca == [fn |-> NoFunction, n |-> 0]

(* `item` is the item of the tree that defined the function last, `calls`  *)
(* the functions called, each with the item in which the call was made.    *)
Declaration(name, args) ==
    [name |-> name, args |-> args, live |-> TRUE, item |-> 0, blocks |-> <<>>,
     allocas |-> 0, calls |-> {}]

(* A basic block: whether it is in the function's list of blocks yet, how  *)
(* many terminators it has, where they go, and where the values come from  *)
(* that its phi chooses among, if it has one.                              *)
Block(placed) == [placed |-> placed, ends |-> 0, next |-> {}, phi |-> {}]

Found(fs, name) == {i \in DOMAIN fs : fs[i].live /\ fs[i].name = name}

(* What getFunction leaves in the module and in result_func. *)
getFunction(fs, protos, name) ==
    IF Found(fs, name) # {}
    THEN [fs |-> fs, fn |-> CHOOSE i \in Found(fs, name) : TRUE]
    ELSE IF name \in DOMAIN protos
         THEN [fs |-> Append(fs, Declaration(name, protos[name])), fn |-> Len(fs) + 1]
         ELSE [fs |-> fs, fn |-> result_func]

Body == functions[current].blocks
SetBlocks(blocks) == functions' = [functions EXCEPT ![current].blocks = blocks]

(* A terminator at the end of the current block: a branch, or a return if  *)
(* it goes nowhere.                                                        *)
Branch(targets) == [Body EXCEPT ![insert].ends = @ + 1, ![insert].next = @ \cup targets]

NewAlloca == [fn |-> current, n |-> functions[current].allocas + 1]
create_entry_block_alloca ==
    /\ functions' = [functions EXCEPT ![current].allocas = @ + 1]
    /\ UNCHANGED insert

-----------------------------------------------------------------------------
(* Steps shared by the visit methods. *)

Top == Last(stack)
This == tree[Top.path]
Child(i) == Append(Top.path, i)
Failed == result_val = "null"

Frame(path) ==
    [path |-> path, at |-> "accept", i |-> 0, fn |-> NoFunction, lhs |-> "null",
     block |-> 0, then |-> 0, slot |-> NoAlloca, old |-> <<>>, scope |-> named_values']

At(at) ==
    /\ status = "running"
    /\ stack # <<>>
    /\ Top.at = at
    /\ UNCHANGED <<function_protos, current, items, status>>

(* `child->accept`, after which the caller continues as `frame`. *)
Visit(frame, i) ==
    /\ stack' = Append(Append(Front(stack), frame), Frame(Child(i)))
    /\ UNCHANGED result_val

VisitThen(i, at) == Visit([Top EXCEPT !.at = at], i)

Continue(frame) == stack' = Append(Front(stack), frame) /\ UNCHANGED result_val

Return(val) == stack' = Front(stack) /\ result_val' = val

KeepModule == UNCHANGED <<functions, insert, result_func>>
KeepScope == UNCHANGED named_values
Quiet == KeepScope /\ KeepModule /\ emitted' = {} /\ UNCHANGED tree

(* Of an instruction, the operation matters, and of a call the function,   *)
(* the name it was called by and the number of arguments.                  *)
Instruction(op) == [op |-> op, fn |-> NoFunction, name |-> "", args |-> 0]
Emit(instructions) == emitted' = instructions /\ KeepModule /\ UNCHANGED tree

Succeeded(at) == At(at) /\ ~Failed

(* `if (!val) { result_val = nullptr; return; }` *)
PropagateNull(at) == At(at) /\ Failed /\ Quiet /\ Return("null")

(* CreateCall(fn, ...) in the current function, fs being the module. *)
CreateCall(fs, fn, name, args) ==
    /\ functions' = [fs EXCEPT ![current].calls = @ \cup {[fn |-> fn, item |-> items]}]
    /\ emitted' = {[op |-> This.kind, fn |-> fn, name |-> name, args |-> args]}
    /\ KeepScope
    /\ UNCHANGED <<insert, tree>>
    /\ Return("value")

(* getFunction, and the call of what it left in result_func.  That is      *)
(* never nullptr within a body (beginFunction has set it), so neither the  *)
(* diagnostic of visitUnary nor the assertion of visitBinary is reached.   *)
CallOperator(name, args) ==
    LET found == getFunction(functions, function_protos, name)
    IN /\ result_func' = found.fn
       /\ IF found.fn = NoFunction
          THEN /\ functions' = found.fs
               /\ emitted' = {}
               /\ KeepScope
               /\ UNCHANGED <<insert, tree>>
               /\ Return("null")
          ELSE CreateCall(found.fs, found.fn, name, args)

-----------------------------------------------------------------------------
(* The visit methods. *)

accept ==
    /\ At("accept")
    /\ \E node \in NodesAt(Top.path) :
          /\ tree' = With(tree, Top.path, node)
          /\ Continue([Top EXCEPT !.at = node.kind])
    /\ emitted' = {}
    /\ KeepScope
    /\ KeepModule

visitFloat == At("float") /\ Quiet /\ Return("value")

visitVariable ==
    /\ At("variable")
    /\ KeepScope
    /\ IF named_values[This.names[1]] = NoAlloca
       THEN Emit({}) /\ Return("null")
       ELSE Emit({Instruction("load")}) /\ Return("value")

visitUnary ==
    \/ At("unary") /\ Quiet /\ VisitThen(1, "unary.operand")
    \/ PropagateNull("unary.operand")
    \/ Succeeded("unary.operand") /\ CallOperator("unary", 1)

(* The operand of an assignment is cast to a variable whatever it is: the  *)
(* name read from anything else is arbitrary.                              *)
Destinations(lhs) == IF lhs.kind = "variable" THEN {lhs.names[1]} ELSE Variables

visitBinary ==
    \/ At("+") /\ Quiet /\ VisitThen(1, "binary.lhs")
    \/ At("=") /\ Quiet /\ VisitThen(2, "assign.rhs")
    \/ PropagateNull("assign.rhs")
    \/ /\ Succeeded("assign.rhs")
       /\ KeepScope
       /\ \E lhs \in NodesAt(Child(1)) : \E name \in Destinations(lhs) :
             /\ tree' = With(tree, Child(1), lhs)
             /\ KeepModule
             /\ IF named_values[name] = NoAlloca
                THEN emitted' = {} /\ Return("null")
                ELSE emitted' = {Instruction("store")} /\ VisitThen(1, "binary.lhs")
    \/ At("binary.lhs") /\ Quiet /\ Visit([Top EXCEPT !.at = "binary.rhs", !.lhs = result_val], 2)
    \/ At("binary.rhs") /\ (Failed \/ Top.lhs = "null") /\ Quiet /\ Return("null")
    \/ /\ Succeeded("binary.rhs")
       /\ Top.lhs # "null"
       /\ IF This.kind = "="
          THEN CallOperator("binary=", 2)
          ELSE KeepScope /\ Emit({Instruction("fadd")}) /\ Return("value")

(* Mutant: the callee is what result_func points to after the arguments.   *)
CalleeReread == result_func

(* The callee found before the arguments were visited. *)
CalleeF == Top.fn

visitCall ==
    \/ /\ At("call")
       /\ LET found == getFunction(functions, function_protos, This.names[1])
          IN /\ result_func' = found.fn
             /\ IF found.fn # NoFunction /\ Len(found.fs[found.fn].args) = This.n
                THEN IF This.n = 0
                     THEN CreateCall(found.fs, found.fn, This.names[1], 0)
                     ELSE /\ functions' = found.fs
                          /\ emitted' = {}
                          /\ KeepScope
                          /\ UNCHANGED <<insert, tree>>
                          /\ Visit([Top EXCEPT !.at = "call.args", !.fn = found.fn, !.i = 1], 1)
                ELSE /\ functions' = found.fs
                     /\ emitted' = {}
                     /\ KeepScope
                     /\ UNCHANGED <<insert, tree>>
                     /\ Return("null")
    \/ PropagateNull("call.args")
    \/ /\ Succeeded("call.args")
       /\ IF Top.i < This.n
          THEN Quiet /\ Visit([Top EXCEPT !.i = @ + 1], Top.i + 1)
          ELSE CreateCall(functions, CalleeF, This.names[1], This.n) /\ UNCHANGED result_func

(* Mutant: where a branch ends is taken to be where it began.              *)
IncomingFirst == {Top.block, insert}

(* The blocks the two branches have ended in. *)
Incoming == {Top.then, insert}

(* Top.block is the block "then"; "else" and "ifcont" are the next two,    *)
(* placed in the function when their turn comes.                           *)
visitIf ==
    \/ At("if") /\ Quiet /\ VisitThen(1, "if.cond")
    \/ /\ Succeeded("if.cond")
       /\ KeepScope
       /\ LET then == Len(Body) + 1
          IN /\ SetBlocks(Branch({then, then + 1}) \o <<Block(TRUE), Block(FALSE), Block(FALSE)>>)
             /\ insert' = then
             /\ Visit([Top EXCEPT !.at = "if.then", !.block = then], 2)
       /\ emitted' = {Instruction("fcmp"), Instruction("br")}
       /\ UNCHANGED <<result_func, tree>>
    \/ /\ Succeeded("if.then")
       /\ SetBlocks([Branch({Top.block + 2}) EXCEPT ![Top.block + 1].placed = TRUE])
       /\ insert' = Top.block + 1
       /\ emitted' = {Instruction("br")}
       /\ KeepScope
       /\ UNCHANGED <<result_func, tree>>
       /\ Visit([Top EXCEPT !.at = "if.else", !.then = insert], 3)
    \/ /\ Succeeded("if.else")
       /\ SetBlocks([Branch({Top.block + 2}) EXCEPT ![Top.block + 2].placed = TRUE,
                                                   ![Top.block + 2].phi = Incoming])
       /\ insert' = Top.block + 2
       /\ emitted' = {Instruction("br"), Instruction("phi")}
       /\ KeepScope
       /\ UNCHANGED <<result_func, tree>>
       /\ Return("value")
    \/ \E at \in {"if.cond", "if.then", "if.else"} : PropagateNull(at)

Bind(v, alloca) == named_values' = [named_values EXCEPT ![v] = alloca]

(* Mutant: the block before the loop does not branch to it. *)
NoFallThrough(loop) == Body

FallThrough(loop) == Branch({loop})

visitFor ==
    \/ /\ At("for")
       /\ create_entry_block_alloca
       /\ emitted' = {}
       /\ KeepScope
       /\ UNCHANGED <<result_func, tree>>
       /\ Visit([Top EXCEPT !.at = "for.start", !.slot = NewAlloca], 1)
    \/ /\ Succeeded("for.start")
       /\ Bind(This.names[1], Top.slot)
       /\ LET loop == Len(Body) + 1
          IN /\ SetBlocks(Append(FallThrough(loop), Block(TRUE)))
             /\ insert' = loop
             /\ Visit([Top EXCEPT !.at = "for.body", !.block = loop,
                                  !.old = <<named_values[This.names[1]]>>], 4)
       /\ emitted' = {Instruction("store"), Instruction("br")}
       /\ UNCHANGED <<result_func, tree>>
    \/ Succeeded("for.body") /\ Quiet
         /\ IF This.n = 1 THEN VisitThen(3, "for.step") ELSE VisitThen(2, "for.end")
    \/ Succeeded("for.step") /\ Quiet /\ VisitThen(2, "for.end")
    \/ /\ Succeeded("for.end")
       /\ Bind(This.names[1], Top.old[1])
       /\ LET after == Len(Body) + 1
          IN /\ SetBlocks(Append(Branch({Top.block, after}), Block(TRUE)))
             /\ insert' = after
       /\ emitted' = {Instruction("fadd"), Instruction("fcmp"), Instruction("br")}
       /\ UNCHANGED <<result_func, tree>>
       /\ Return("value")
    \/ \E at \in {"for.start", "for.body", "for.step", "for.end"} : PropagateNull(at)

Places(names, v) == {i \in DOMAIN names : names[i] = v}

(* Mutant: the last binding is not restored. *)
RestoredButLast(names, old) ==
    [v \in Variables |->
        LET places == Places(Front(names), v)
        IN IF places = {} THEN named_values[v] ELSE old[Max(places)]]

(* named_values[names[i]] = old_bindings[i], for i = 0, 1, ... *)
Restored(names, old) ==
    [v \in Variables |->
        LET places == Places(names, v)
        IN IF places = {} THEN named_values[v] ELSE old[Max(places)]]

BindNext ==
    LET name == This.names[Top.i + 1]
    IN /\ create_entry_block_alloca
       /\ Bind(name, NewAlloca)
       /\ emitted' = {Instruction("store")}
       /\ UNCHANGED <<result_func, tree>>
       /\ Continue([Top EXCEPT !.at = "var", !.i = @ + 1, !.old = Append(@, named_values[name])])

visitVar ==
    \/ At("var") /\ Top.i < This.n /\ Quiet /\ VisitThen(Top.i + 1, "var.init")
    \/ Succeeded("var.init") /\ BindNext
    \/ At("var") /\ Top.i >= This.n /\ Top.i < Len(This.names) /\ BindNext
    \/ At("var") /\ Top.i = Len(This.names) /\ Quiet /\ VisitThen(0, "var.body")
    \/ /\ Succeeded("var.body")
       /\ named_values' = Restored(This.names, Top.old)
       /\ Emit({})
       /\ Return("value")
    \/ \E at \in {"var.init", "var.body"} : PropagateNull(at)

-----------------------------------------------------------------------------
(* The items of main_loop. *)

ArgLists == SeqOf(Variables, MaxArgs)

NextItem ==
    /\ status = "running"
    /\ current = NoFunction
    /\ items < MaxItems
    /\ items' = items + 1
    /\ emitted' = {}

(* Mutant: Function::Create is not told the module. *)
visitPrototypeUninserted ==
    /\ NextItem
    /\ \E name \in FunctionNames, args \in ArgLists : UNCHANGED functions
    /\ result_func' = Len(functions) + 1
    /\ UNCHANGED <<function_protos, named_values, insert, result_val, current, tree, stack, status>>

(* A name that is taken is made unique by LLVM and no longer found. *)
visitPrototype ==
    /\ NextItem
    /\ \E name \in FunctionNames, args \in ArgLists :
          functions' = Append(functions,
              Declaration(IF Found(functions, name) = {} THEN name ELSE "renamed", args))
    /\ result_func' = Len(functions) + 1
    /\ UNCHANGED <<function_protos, named_values, insert, result_val, current, tree, stack, status>>

Define(fn, item) ==
    [fn EXCEPT !.item = item, !.blocks = Append(@, Block(TRUE)), !.allocas = @ + Len(fn.args)]

(* Mutant: the variables of the function before stay in scope. *)
ArgumentsAdded(fn, f) ==
    [v \in Variables |->
        IF Places(f.args, v) = {} THEN named_values[v]
        ELSE [fn |-> fn, n |-> f.allocas + Min(Places(f.args, v))]]

(* named_values.clear(), and an alloca for each argument; of two with one  *)
(* name the first keeps it, LLVM makes the other's unique.                 *)
Arguments(fn, f) ==
    [v \in Variables |->
        IF Places(f.args, v) = {} THEN NoAlloca
        ELSE [fn |-> fn, n |-> f.allocas + Min(Places(f.args, v))]]

(* FunctionAST up to the body ... *)
beginFunction ==
    /\ NextItem
    /\ \E name \in FunctionNames, args \in ArgLists :
          /\ function_protos' = With(function_protos, name, args)
          /\ LET found == getFunction(functions, function_protos', name)
                 f == found.fs[found.fn]
             IN /\ current' = found.fn
                /\ result_func' = found.fn
                /\ named_values' = Arguments(found.fn, f)
                /\ functions' = [found.fs EXCEPT ![found.fn] = Define(f, items')]
                /\ insert' = Len(f.blocks) + 1
    /\ tree' = <<>>
    /\ stack' = <<Frame(<<>>)>>
    /\ UNCHANGED <<result_val, status>>

Erased(fn) == [fn EXCEPT !.live = FALSE, !.blocks = <<>>, !.allocas = 0, !.calls = {}]

(* Mutant: result_func keeps pointing to the function removed. *)
endFunctionStale ==
    /\ status = "running"
    /\ current # NoFunction
    /\ stack = <<>>
    /\ IF Failed
       THEN functions' = [functions EXCEPT ![current] = Erased(@)] /\ UNCHANGED result_func
       ELSE SetBlocks(Branch({})) /\ result_func' = current
    /\ current' = NoFunction
    /\ emitted' = {}
    /\ UNCHANGED <<function_protos, named_values, insert, result_val, tree, stack, items, status>>

(* Mutant: what is removed is the function result_func points to by now. *)
endFunctionErasingCallee ==
    /\ status = "running"
    /\ current # NoFunction
    /\ stack = <<>>
    /\ IF Failed
       THEN functions' = [functions EXCEPT ![result_func] = Erased(@)] /\ result_func' = NoFunction
       ELSE SetBlocks(Branch({})) /\ result_func' = current
    /\ current' = NoFunction
    /\ emitted' = {}
    /\ UNCHANGED <<function_protos, named_values, insert, result_val, tree, stack, items, status>>

(* ... and after it. *)
endFunction ==
    /\ status = "running"
    /\ current # NoFunction
    /\ stack = <<>>
    /\ IF Failed
       THEN functions' = [functions EXCEPT ![current] = Erased(@)] /\ result_func' = NoFunction
       ELSE SetBlocks(Branch({})) /\ result_func' = current
    /\ current' = NoFunction
    /\ emitted' = {}
    /\ UNCHANGED <<function_protos, named_values, insert, result_val, tree, stack, items, status>>

(* The parser leaves a null pointer for an item it could not read. *)
main_loop ==
    /\ status = "running"
    /\ current = NoFunction
    /\ status' \in {"finished", "crashed"}
    /\ emitted' = {}
    /\ UNCHANGED <<functions, function_protos, named_values, insert, result_val, result_func,
                   current, tree, stack, items>>

-----------------------------------------------------------------------------
Init ==
    /\ functions = <<>>
    /\ function_protos = <<>>
    /\ named_values = [v \in Variables |-> NoAlloca]
    /\ insert = 0
    /\ result_val = "null"
    /\ result_func = NoFunction
    /\ current = NoFunction
    /\ tree = <<>>
    /\ stack = <<>>
    /\ emitted = {}
    /\ items = 0
    /\ status = "running"

Done == status # "running" /\ UNCHANGED vars

Next ==
    \/ accept \/ visitFloat \/ visitVariable \/ visitUnary \/ visitBinary \/ visitCall
    \/ visitIf \/ visitFor \/ visitVar
    \/ visitPrototype \/ beginFunction \/ endFunction \/ main_loop
    \/ Done

Spec == Init /\ [][Next]_vars

-----------------------------------------------------------------------------
(* Properties. *)

Alloca == [fn : Nat, n : Nat]
Starting == {"accept", "float", "variable", "unary", "=", "+", "call", "if", "for", "var"}
Waiting ==
    {"unary.operand", "assign.rhs", "binary.lhs", "binary.rhs", "call.args",
     "if.cond", "if.then", "if.else", "for.start", "for.body", "for.step", "for.end",
     "var.init", "var.body"}
FrameType ==
    [path : Seq(Nat), at : Starting \cup Waiting, i : Nat, fn : Nat, lhs : {"null", "value"},
     block : Nat, then : Nat, slot : Alloca, old : Seq(Alloca), scope : [Variables -> Alloca]]
BlockType == [placed : BOOLEAN, ends : Nat, next : SUBSET Nat, phi : SUBSET Nat]
FunctionType ==
    [name : FunctionNames \cup {"renamed"}, args : ArgLists, live : BOOLEAN, item : Nat,
     blocks : Seq(BlockType), allocas : Nat, calls : SUBSET [fn : Nat, item : Nat]]

(* Every variable has its type. *)
TypeOK ==
    /\ functions \in Seq(FunctionType)
    /\ \A name \in DOMAIN function_protos :
          name \in FunctionNames /\ function_protos[name] \in ArgLists
    /\ named_values \in [Variables -> Alloca]
    /\ insert \in Nat
    /\ result_val \in {"null", "value"}
    /\ result_func \in 0..Len(functions)
    /\ current \in 0..Len(functions)
    /\ \A path \in DOMAIN tree : path \in Seq(Nat) /\ tree[path] \in Nodes
    /\ stack \in Seq(FrameType)
    /\ items \in 0..MaxItems
    /\ status \in {"running", "finished", "crashed"}

(* result_func, which getFunction may leave as it was for many visits,     *)
(* never points to a function that has been erased from the module.        *)
ResultFuncLive == result_func # NoFunction => functions[result_func].live

(* While a body is visited every variable in scope is an alloca of the     *)
(* function being built: no binding of an earlier function, finished or    *)
(* abandoned half way, is still visible.                                   *)
ScopeIsOwn ==
    current # NoFunction =>
        \A v \in Variables : named_values[v] # NoAlloca => named_values[v].fn = current

(* A visit that succeeds leaves the scope as it found it, so that a name   *)
(* after a `for` or a `var` means what it meant before: ast-to-object.cpp  *)
(* :516 "Pop all our variables from scope."                                *)
ScopeRestored ==
    [][Len(stack') < Len(stack) /\ result_val' = "value" => named_values' = Top.scope]_vars

(* Between two items every block of every function in the module is in the *)
(* function's list, ends in one terminator, and goes to blocks of the same *)
(* function: whatever is nested in a body, no block is left without a      *)
(* branch or filled behind one, and a body that failed half way is gone    *)
(* with its function.                                                      *)
WellFormed(blocks) ==
    \A b \in DOMAIN blocks :
        blocks[b].placed /\ blocks[b].ends = 1 /\ blocks[b].next \subseteq DOMAIN blocks

NoHalfBuiltFunction ==
    current = NoFunction =>
        \A i \in DOMAIN functions : functions[i].live => WellFormed(functions[i].blocks)

(* The phi of an `if` has a value for each block that branches to it and   *)
(* for no other, also when a branch ends in another block than it began    *)
(* with: ast-to-object.cpp:320 "Codegen of 'then' can change the current   *)
(* block, update ThenBB for the PHI."                                      *)
Predecessors(blocks, b) == {a \in DOMAIN blocks : b \in blocks[a].next}

PhiMatchesPredecessors ==
    \A i \in DOMAIN functions :
        LET blocks == functions[i].blocks
        IN \A b \in DOMAIN blocks :
              blocks[b].phi # {} => blocks[b].phi = Predecessors(blocks, b)

(* A call made after a body has failed is never of the function that was   *)
(* erased for it, though getFunction may find its prototype, a renamed     *)
(* function or what result_func was left with.  Only a call older than the *)
(* definition that failed can be left without its callee.                  *)
CalleesLive ==
    \A i \in DOMAIN functions : functions[i].live =>
        \A c \in functions[i].calls : ~functions[c.fn].live => c.item < functions[c.fn].item

(* A call expression passes as many arguments as the function it calls has *)
(* parameters, although a call among the arguments changes result_func and *)
(* may declare functions.  (An operator passes its operands to whatever    *)
(* function was visited last, see README.md.)                              *)
CallsMatchParameters ==
    \A e \in emitted : e.op = "call" => Len(functions[e.fn].args) = e.args

(* What the documentation says and the code does not do (see README.md).   *)

(* ast-to-object.cpp:75 "If no existing prototype exists, return null.": a *)
(* call is of the function it names.                                       *)
CallsFunctionNamed ==
    \A e \in emitted : e.op = "call" => functions[e.fn].name = e.name
=============================================================================
