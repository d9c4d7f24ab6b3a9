------------------------------ MODULE DebugInfo ------------------------------
(***************************************************************************)
(* ASTToLLVMIRVisitor of codegen/ast-to-llvm-ir.cpp: the visitor of        *)
(* ObjectCodegen with debug information.  Each of its visit methods sets   *)
(* the current location and calls the one it overrides; the one of a       *)
(* function keeps a stack of lexical blocks besides.  An action here is an *)
(* action of ObjectCodegen in conjunction with what the override adds.     *)
(***************************************************************************)
EXTENDS ObjectCodegen

VARIABLES
    subprograms,             \* the function each subprogram was made for
    llvm_di_lexical_blocks,  \* indices in subprograms
    location,                \* the IR builder's: the node it is of, and its scope
    locations                \* the functions and scopes of all instructions

debug == <<subprograms, llvm_di_lexical_blocks, location, locations>>

(* The compile unit, the scope where no function is. *)
Unit == 0

(* A node that is not in the tree: the fresh ExprAST of the prologue, and  *)
(* the place of nothing before the first location.                         *)
Fresh == <<0, 0>>

-----------------------------------------------------------------------------
(* Mutant: the compile unit is the scope whenever there is none or one. *)
ScopeOfUnit(blocks) == IF Len(blocks) <= 1 THEN Unit ELSE Last(blocks)

Scope(blocks) == IF blocks = <<>> THEN Unit ELSE Last(blocks)

emitLocation(node, blocks) == location' = [node |-> node, scope |-> Scope(blocks)]

(* The instructions of this step get the location that is current. *)
Locate ==
    locations' = IF emitted' = {} THEN locations ELSE locations \cup {<<current, location.scope>>}

(* Mutant: leaves are visited by the methods of the class below. *)
accept_without_leaves ==
    /\ accept
    /\ IF tree'[Top.path] \in Leaves
       THEN UNCHANGED location
       ELSE emitLocation(Top.path, llvm_di_lexical_blocks)
    /\ UNCHANGED <<subprograms, llvm_di_lexical_blocks, locations>>

(* emitLocation(expr), the first line of each visit of an expression ...   *)
acceptLocated ==
    /\ accept
    /\ emitLocation(Top.path, llvm_di_lexical_blocks)
    /\ UNCHANGED <<subprograms, llvm_di_lexical_blocks, locations>>

(* ... and the second, ASTToObjectVisitor::visit(expr). *)
visitLocated ==
    /\ \/ visitFloat \/ visitVariable \/ visitUnary \/ visitBinary \/ visitCall
       \/ visitIf \/ visitFor \/ visitVar
    /\ Locate
    /\ UNCHANGED <<subprograms, llvm_di_lexical_blocks, location>>

declarePrototype == visitPrototype /\ UNCHANGED debug

Prologue(fn, scope) == IF fn.args = <<>> THEN {} ELSE {<<current', scope>>}

(* Mutant: the arguments are stored at the location left by the function before. *)
beginSubprogram_unlocated ==
    /\ beginFunction
    /\ subprograms' = Append(subprograms, current')
    /\ llvm_di_lexical_blocks' = Append(llvm_di_lexical_blocks, Len(subprograms'))
    /\ locations' = locations \cup Prologue(functions'[current'], location.scope)
    /\ emitLocation(<<>>, llvm_di_lexical_blocks')

(* FunctionAST up to the body: a subprogram, pushed as the innermost       *)
(* block; the arguments are stored at the location of a fresh node, which  *)
(* is where the lexer is; then comes the location of the body.             *)
beginSubprogram ==
    /\ beginFunction
    /\ subprograms' = Append(subprograms, current')
    /\ llvm_di_lexical_blocks' = Append(llvm_di_lexical_blocks, Len(subprograms'))
    /\ locations' = locations \cup Prologue(functions'[current'], Scope(llvm_di_lexical_blocks'))
    /\ emitLocation(<<>>, llvm_di_lexical_blocks')

(* Mutant: the block is popped on the path that succeeds only. *)
endSubprogram_popping_once ==
    /\ endFunction
    /\ locations' = IF Failed THEN locations ELSE locations \cup {<<current, location.scope>>}
    /\ llvm_di_lexical_blocks' =
          IF Failed THEN llvm_di_lexical_blocks ELSE Front(llvm_di_lexical_blocks)
    /\ UNCHANGED <<subprograms, location>>

(* ... and after it: the return, and the block popped on both paths.       *)
endSubprogram ==
    /\ endFunction
    /\ locations' = IF Failed THEN locations ELSE locations \cup {<<current, location.scope>>}
    /\ llvm_di_lexical_blocks' = Front(llvm_di_lexical_blocks)
    /\ UNCHANGED <<subprograms, location>>

(* The end of the walk, finalize() and print(). *)
finalize == main_loop /\ UNCHANGED debug

-----------------------------------------------------------------------------
IRInit ==
    /\ Init
    /\ subprograms = <<>>
    /\ llvm_di_lexical_blocks = <<>>
    /\ location = [node |-> Fresh, scope |-> Unit]
    /\ locations = {}

IRDone == Done /\ UNCHANGED debug

IRNext ==
    \/ acceptLocated \/ visitLocated
    \/ declarePrototype \/ beginSubprogram \/ endSubprogram
    \/ finalize
    \/ IRDone

IRSpec == IRInit /\ [][IRNext]_<<vars, debug>>

-----------------------------------------------------------------------------
(* Properties. *)

(* Every variable has its type; within a function the scope is a           *)
(* subprogram and not the compile unit.                                    *)
IRTypeOK ==
    /\ TypeOK
    /\ subprograms \in Seq(DOMAIN functions)
    /\ llvm_di_lexical_blocks \in Seq(DOMAIN subprograms)
    /\ location \in [node : Seq(Nat), scope : {Unit} \cup DOMAIN subprograms]
    /\ current # NoFunction => location.scope # Unit
    /\ locations \subseteq (DOMAIN functions) \X ({Unit} \cup DOMAIN subprograms)

(* The stack of lexical blocks holds the subprogram of the function being  *)
(* built, and nothing between two functions, however the one before ended: *)
(* ast-to-llvm-ir.cpp:276 "Pop off the lexical block for the function      *)
(* since we added it unconditionally."                                     *)
LexicalBlocksBalanced ==
    llvm_di_lexical_blocks = IF current = NoFunction THEN <<>> ELSE <<Len(subprograms)>>

(* An instruction is located at the node it is made for or at one inside   *)
(* it, never at a neighbour visited before: a debugger that stops on it    *)
(* shows the expression being evaluated.                                   *)
LocatedInItsNode ==
    [][visitLocated /\ emitted' # {} => IsPrefix(Top.path, location.node)]_<<vars, debug>>

(* Every instruction of a function in the module, those that store its     *)
(* arguments included, is located in a subprogram made for that function,  *)
(* which is the attached one unless the name was defined twice: never in   *)
(* the compile unit, nor in the function built before, finished or not.    *)
LocatedInItsFunction ==
    \A l \in locations : functions[l[1]].live => l[2] # Unit /\ subprograms[l[2]] = l[1]
=============================================================================
