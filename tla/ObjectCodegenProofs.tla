------------------------ MODULE ObjectCodegenProofs ------------------------
(***************************************************************************)
(* Proofs about ObjectCodegen, for every set of names, of lists of names   *)
(* and of kinds of expression: what the scope holds, which functions and   *)
(* with how many arguments are called, and that the blocks of a body are   *)
(* complete whenever it is finished.                                       *)
(***************************************************************************)
EXTENDS ObjectCodegen, StackLemmas

(* The labels that the visit method for a kind of node goes through.       *)
Of(at, kind) ==
    \/ at = kind
    \/ at = "unary.operand" /\ kind = "unary"
    \/ at = "assign.rhs" /\ kind = "="
    \/ at \in {"binary.lhs", "binary.rhs"} /\ kind \in {"=", "+"}
    \/ at = "call.args" /\ kind = "call"
    \/ at \in {"if.cond", "if.then", "if.else"} /\ kind = "if"
    \/ at \in {"for.start", "for.body", "for.step", "for.end"} /\ kind = "for"
    \/ at \in {"var.init", "var.body"} /\ kind = "var"

Placed(f, t) == f.at # "accept" => f.path \in DOMAIN t /\ Of(f.at, t[f.path].kind)

(* A call whose arguments are being visited has looked its callee up, and  *)
(* found it to take that many.                                             *)
CalleeFound(f, t, fs) ==
    f.at = "call.args" =>
        f.fn \in DOMAIN fs /\ fs[f.fn].live /\ Len(fs[f.fn].args) = t[f.path].n

(* What `for` and `var` have put aside by the time they are at a label.    *)
OldKept(f, t) ==
    /\ f.at = "accept" => f.i = 0 /\ f.old = <<>>
    /\ f.at \in {"for.body", "for.step", "for.end"} => Len(f.old) = 1
    /\ f.at \in {"var", "var.init", "var.body"} =>
           Len(f.old) = f.i /\ f.i <= Len(t[f.path].names)
    /\ f.at = "var.init" => f.i < t[f.path].n
    /\ f.at = "var.body" => f.i = Len(t[f.path].names)

Own(alloca, fn) == alloca = NoAlloca \/ alloca.fn = fn

OldOwn(f, fn) ==
    /\ \A j \in 1..Len(f.old) : Own(f.old[j], fn)
    /\ f.at = "for.start" => f.slot.fn = fn

FrameOK(f, t, fs, fn) ==
    Placed(f, t) /\ CalleeFound(f, t, fs) /\ OldKept(f, t) /\ OldOwn(f, fn)

(* The active visits: all but the innermost wait for a child, and they are *)
(* visits of the body of a function of the module.                         *)
Visits ==
    /\ stack # <<>> => current # NoFunction
    /\ \A k \in 1..Len(stack) : FrameOK(stack[k], tree, functions, current)
    /\ \A k \in 1..(Len(stack) - 1) : stack[k].at \in Waiting

ScopeOwn == current # NoFunction => \A v \in Variables : Own(named_values[v], current)

(* The module: what may be called is there, and of the calls made since    *)
(* the definition at hand began all are in the function being built, which *)
(* is erased with them if it fails.                                        *)
ModuleSound ==
    /\ current # NoFunction => functions[current].live /\ functions[current].item = items
    /\ result_func # NoFunction => functions[result_func].live
    /\ \A i \in DOMAIN functions : \A c \in functions[i].calls :
          c.fn \in DOMAIN functions /\ c.item <= items
    /\ CalleesLive
    /\ current # NoFunction =>
          \A i \in DOMAIN functions : i # current =>
              \A c \in functions[i].calls : c.item < items

CodegenInductive == TypeOK /\ Visits /\ ScopeOwn /\ ModuleSound

(* The labels of visits that have bound a name, and the others.            *)
Looping == {"for.body", "for.step", "for.end"}
Binding == {"var", "var.init", "var.body"}
Unbound == (Starting \cup Waiting) \ (Looping \cup Binding \cup {"binary.rhs"})

(* The scope s is the one the visit began with, but for what it has bound; *)
(* and what it has put aside is what that scope had there.                 *)
Kept(f, t, s) ==
    /\ f.at \in Unbound => s = f.scope
    /\ f.at = "binary.rhs" /\ f.lhs = "value" => s = f.scope
    /\ f.at \in Looping =>
          /\ \A v \in Variables : v # t[f.path].names[1] => s[v] = f.scope[v]
          /\ f.old[1] = f.scope[t[f.path].names[1]]
    /\ f.at \in Binding =>
          /\ \A v \in Variables :
                (\A j \in 1..f.i : t[f.path].names[j] # v) => s[v] = f.scope[v]
          /\ \A j \in 1..f.i : f.old[j] = f.scope[t[f.path].names[j]]

(* A visit is in the scope its caller has kept; the innermost one too,     *)
(* unless it is about to find that its child has failed.                   *)
ScopeKept ==
    /\ \A k \in 1..(Len(stack) - 1) : Kept(stack[k], tree, stack[k + 1].scope)
    /\ stack # <<>> => Kept(Top, tree, named_values) \/ (Top.at \in Waiting /\ Failed)

(* A call that the function of the item at hand may make.                  *)
Call(c) == [fn |-> c, item |-> items]

(* The module after a step of the body of fn: no function is lost, changed *)
(* but in the blocks and calls of fn, or added but as a declaration.       *)
ModuleGrows(fs, gs, fn) ==
    /\ Len(fs) <= Len(gs)
    /\ \A i \in 1..Len(fs) :
          /\ gs[i].args = fs[i].args
          /\ gs[i].live = fs[i].live
          /\ gs[i].item = fs[i].item
          /\ i # fn => gs[i].blocks = fs[i].blocks
    /\ \A i \in 1..Len(fs) : \A c \in gs[i].calls :
          \/ c \in fs[i].calls
          \/ i = fn /\ c.item = items /\ c.fn \in 1..Len(gs) /\ gs[c.fn].live
    /\ \A i \in (Len(fs) + 1)..Len(gs) :
          gs[i].live /\ gs[i].blocks = <<>> /\ gs[i].calls = {}

(* No step removes a function from the list of all, not even from its end. *)
Lasting(fs, gs) == Len(fs) <= Len(gs)

-----------------------------------------------------------------------------
(* The operators of the model. *)

LEMMA ListOfArgs ==
    ASSUME NEW args \in ArgLists
    PROVE  /\ args \in Seq(Variables)
           /\ Len(args) \in Nat
           /\ DOMAIN args = 1..Len(args)
<1>1. PICK n \in 0..MaxArgs : args \in [1..n -> Variables]
  BY DEF ArgLists, SeqOf
<1>2. n \in Nat
  BY CodegenAssumption
<1>3. args \in Seq(Variables)
  BY <1>1, <1>2
<1> QED BY <1>3, LenProperties

LEMMA NodeFacts ==
    ASSUME NEW node \in Nodes
    PROVE  /\ node.kind \in {"float", "variable", "unary", "=", "+", "call", "if", "for", "var"}
           /\ node.n \in Nat
           /\ node.kind = "variable" => node.names[1] \in Variables
           /\ node.kind = "call" => node.names[1] \in FunctionNames
           /\ node.kind = "for" => node.names[1] \in Variables /\ node.n \in 0..1
           /\ node.kind = "var" => /\ node.names \in VarLists
                                   /\ node.names \in Seq(Variables)
                                   /\ Len(node.names) \in Nat
                                   /\ node.n \in 0..Len(node.names)
<1> DEFINE Goal ==
           /\ node.kind \in {"float", "variable", "unary", "=", "+", "call", "if", "for", "var"}
           /\ node.n \in Nat
           /\ node.kind = "variable" => node.names[1] \in Variables
           /\ node.kind = "call" => node.names[1] \in FunctionNames
           /\ node.kind = "for" => node.names[1] \in Variables /\ node.n \in 0..1
           /\ node.kind = "var" => /\ node.names \in VarLists
                                   /\ node.names \in Seq(Variables)
                                   /\ Len(node.names) \in Nat
                                   /\ node.n \in 0..Len(node.names)
<1>1. CASE node = Node("float", <<>>, 0)
  BY <1>1 DEF Node
<1>2. CASE \E v \in Variables : node = Node("variable", <<v>>, 0)
  BY <1>2 DEF Node
<1>3. CASE \E kind \in Kinds \cap {"unary", "=", "+", "if"} : node = Node(kind, <<>>, 0)
  BY <1>3 DEF Node
<1>4. CASE \E f \in FunctionNames, n \in 0..MaxArgs : node = Node("call", <<f>>, n)
  <2>1. \A n \in 0..MaxArgs : n \in Nat
    BY CodegenAssumption
  <2> QED BY <1>4, <2>1 DEF Node
<1>5. CASE \E v \in Variables, n \in 0..1 : node = Node("for", <<v>>, n)
  BY <1>5 DEF Node
<1>6. CASE \E l \in VarLists : \E n \in 0..Len(l) : node = Node("var", l, n)
  <2>1. PICK l \in VarLists : \E n \in 0..Len(l) : node = Node("var", l, n)
    BY <1>6
  <2>2. PICK n \in 0..Len(l) : node = Node("var", l, n)
    BY <2>1
  <2>3. l \in Seq(Variables) /\ Len(l) \in Nat
    BY CodegenAssumption, LenProperties
  <2> QED BY <2>2, <2>3 DEF Node
<1>7. node \in Leaves \/ node \in Branches
  BY DEF Nodes
<1>8. node \in Branches =>
         \/ \E kind \in Kinds \cap {"unary", "=", "+", "if"} : node = Node(kind, <<>>, 0)
         \/ \E f \in FunctionNames, n \in 0..MaxArgs : node = Node("call", <<f>>, n)
         \/ \E v \in Variables, n \in 0..1 : node = Node("for", <<v>>, n)
         \/ \E l \in VarLists : \E n \in 0..Len(l) : node = Node("var", l, n)
  <2>1. SUFFICES ASSUME node \in Branches,
                        ~ \E kind \in Kinds \cap {"unary", "=", "+", "if"} : node = Node(kind, <<>>, 0),
                        ~ \E f \in FunctionNames, n \in 0..MaxArgs : node = Node("call", <<f>>, n),
                        ~ \E v \in Variables, n \in 0..1 : node = Node("for", <<v>>, n)
                 PROVE  \E l \in VarLists : \E n \in 0..Len(l) : node = Node("var", l, n)
    OBVIOUS
  <2>2. node \in UNION {{Node("var", l, n) : n \in 0..Len(l)} : l \in VarLists}
    BY <2>1 DEF Branches
  <2> QED BY <2>2
<1> QED BY <1>1, <1>2, <1>3, <1>4, <1>5, <1>6, <1>7, <1>8 DEF Leaves

LEMMA Touched ==
    ASSUME NEW fs \in Seq(FunctionType), NEW i \in 1..Len(fs), NEW g \in FunctionType,
           NEW gs, gs = [fs EXCEPT ![i] = g]
    PROVE  /\ gs \in Seq(FunctionType)
           /\ Len(gs) = Len(fs)
           /\ gs[i] = g
           /\ \A j \in 1..Len(fs) : j # i => gs[j] = fs[j]
BY ExceptSeq

(* What getFunction finds, or adds, is in the module.                      *)
LEMMA LookedUp ==
    ASSUME NEW fs \in Seq(FunctionType), NEW protos, NEW name,
           \A p \in DOMAIN protos : p \in FunctionNames /\ protos[p] \in ArgLists,
           result_func \in 0..Len(fs), result_func # NoFunction => fs[result_func].live,
           NEW found, found = getFunction(fs, protos, name)
    PROVE  /\ found.fs \in Seq(FunctionType)
           /\ \A fn : ModuleGrows(fs, found.fs, fn)
           /\ found.fn \in 0..Len(found.fs)
           /\ found.fn # NoFunction => found.fs[found.fn].live
           /\ name \in DOMAIN protos => found.fn # NoFunction
           /\ \/ found.fs = fs
              \/ Len(found.fs) = Len(fs) + 1 /\ found.fn = Len(fs) + 1
<1>1. Len(fs) \in Nat /\ DOMAIN fs = 1..Len(fs) /\ \A i \in 1..Len(fs) : fs[i] \in FunctionType
  BY LenProperties, ElementOfSeq
<1>2. CASE Found(fs, name) # {}
  <2>1. found = [fs |-> fs, fn |-> CHOOSE i \in Found(fs, name) : TRUE]
    BY <1>2 DEF getFunction
  <2>2. found.fs = fs /\ found.fn \in Found(fs, name)
    BY <1>2, <2>1
  <2>3. found.fn \in 1..Len(fs) /\ fs[found.fn].live
    BY <1>1, <2>2 DEF Found
  <2>4. \A fn : ModuleGrows(fs, fs, fn)
    BY <1>1 DEF ModuleGrows
  <2> QED BY <1>1, <2>2, <2>3, <2>4 DEF NoFunction
<1>3. CASE Found(fs, name) = {} /\ name \in DOMAIN protos
  <2> DEFINE d == Declaration(name, protos[name])
             gs == Append(fs, d)
  <2>1. d \in FunctionType /\ d.live /\ d.blocks = <<>> /\ d.calls = {}
    BY <1>3 DEF Declaration, FunctionType
  <2>2. found = [fs |-> gs, fn |-> Len(fs) + 1]
    BY <1>3 DEF getFunction
  <2>3. found.fs = gs /\ found.fn = Len(fs) + 1
    BY <2>2
  <2> HIDE DEF d
  <2>4. /\ gs \in Seq(FunctionType)
        /\ Len(gs) = Len(fs) + 1
        /\ gs[Len(fs) + 1] = d
        /\ \A i \in 1..Len(fs) : gs[i] = fs[i]
    BY <2>1, Pushed
  <2> HIDE DEF gs
  <2>5. \A i \in (Len(fs) + 1)..Len(gs) : i = Len(fs) + 1
    BY <1>1, <2>4
  <2>6. \A fn : ModuleGrows(fs, gs, fn)
    BY <1>1, <2>1, <2>4, <2>5 DEF ModuleGrows
  <2> QED BY <1>1, <2>1, <2>3, <2>4, <2>6 DEF NoFunction
<1>4. CASE Found(fs, name) = {} /\ name \notin DOMAIN protos
  <2>1. found = [fs |-> fs, fn |-> result_func]
    BY <1>4 DEF getFunction
  <2>2. found.fs = fs /\ found.fn = result_func
    BY <2>1
  <2>3. \A fn : ModuleGrows(fs, fs, fn)
    BY <1>1 DEF ModuleGrows
  <2> QED BY <1>1, <1>4, <2>2, <2>3
<1> QED BY <1>2, <1>3, <1>4

(* A call of c added to what fn calls.                                     *)
CallAdded(gs, hs, fn, c) ==
    /\ Len(hs) = Len(gs)
    /\ \A j \in 1..Len(gs) : j # fn => hs[j] = gs[j]
    /\ hs[fn].args = gs[fn].args
    /\ hs[fn].live = gs[fn].live
    /\ hs[fn].item = gs[fn].item
    /\ hs[fn].blocks = gs[fn].blocks
    /\ hs[fn].calls = gs[fn].calls \cup {Call(c)}

LEMMA Called ==
    ASSUME NEW fs \in Seq(FunctionType), NEW fn \in 1..Len(fs), NEW gs \in Seq(FunctionType),
           ModuleGrows(fs, gs, fn), NEW c \in 1..Len(gs), gs[c].live,
           NEW hs \in Seq(FunctionType), CallAdded(gs, hs, fn, c)
    PROVE  /\ ModuleGrows(fs, hs, fn)
           /\ \A i \in 1..Len(gs) : /\ hs[i].args = gs[i].args
                                     /\ hs[i].live = gs[i].live
                                     /\ hs[i].blocks = gs[i].blocks
<1>1. Len(fs) \in Nat /\ Len(gs) \in Nat /\ Len(fs) <= Len(gs) /\ fn \in 1..Len(gs)
  BY LenProperties DEF ModuleGrows
<1>5. /\ Len(hs) = Len(gs)
      /\ \A j \in 1..Len(gs) : j # fn => hs[j] = gs[j]
      /\ hs[fn].calls = gs[fn].calls \cup {Call(c)}
  BY DEF CallAdded
<1>6. \A i \in 1..Len(gs) :
         /\ hs[i].args = gs[i].args
         /\ hs[i].live = gs[i].live
         /\ hs[i].item = gs[i].item
         /\ hs[i].blocks = gs[i].blocks
  BY <1>5 DEF CallAdded
<1>7. \A i \in 1..Len(fs) : i \in 1..Len(gs)
  BY <1>1
<1>8. ASSUME NEW i \in 1..Len(fs), NEW d \in hs[i].calls
      PROVE  \/ d \in fs[i].calls
             \/ i = fn /\ d.item = items /\ d.fn \in 1..Len(hs) /\ hs[d.fn].live
  <2>1. CASE d \in gs[i].calls
    <3>1. \/ d \in fs[i].calls
          \/ i = fn /\ d.item = items /\ d.fn \in 1..Len(gs) /\ gs[d.fn].live
      BY <2>1 DEF ModuleGrows
    <3> QED BY <1>5, <1>6, <3>1
  <2>2. CASE i = fn /\ d = Call(c)
    BY <1>5, <1>6, <2>2 DEF Call
  <2>3. i # fn => hs[i] = gs[i]
    BY <1>5, <1>7
  <2> QED BY <1>5, <2>1, <2>2, <2>3
<1>9. \A i \in (Len(fs) + 1)..Len(gs) : i # fn /\ i \in 1..Len(gs)
  BY <1>1
<1> QED BY <1>1, <1>5, <1>6, <1>7, <1>8, <1>9 DEF ModuleGrows

-----------------------------------------------------------------------------
(* A step of the body of the function being built.                         *)

Grows(t, u) == \A p \in DOMAIN t : p \in DOMAIN u /\ u[p] = t[p]

BodyStep ==
    /\ UNCHANGED <<function_protos, current, items, status>>
    /\ result_val' \in {"null", "value"}
    /\ Grows(tree, tree')
    /\ \A path \in DOMAIN tree' : path \in Seq(Nat) /\ tree'[path] \in Nodes
    /\ functions' \in Seq(FunctionType)
    /\ ModuleGrows(functions, functions', current)
    /\ insert' \in Nat
    /\ result_func' \in 0..Len(functions')
    /\ result_func' # NoFunction => functions'[result_func'].live
    /\ named_values' \in [Variables -> Alloca]
    /\ \A v \in Variables : Own(named_values'[v], current)

(* ... and what it does to the stack: the innermost visit ends, goes on,   *)
(* or visits a child.                                                      *)
Returned == stack' = Front(stack)

NextFrame(f) ==
    /\ f \in FrameType
    /\ f.path = Top.path
    /\ f.at # "accept"
    /\ FrameOK(f, tree', functions', current)

Continued(f) == NextFrame(f) /\ stack' = Append(Front(stack), f)

Visited(f, i) ==
    /\ NextFrame(f)
    /\ f.at \in Waiting
    /\ i \in Nat
    /\ stack' = Append(Append(Front(stack), f), Frame(Child(i)))

StackStep ==
    \/ Returned
    \/ \E f : Continued(f)
    \/ \E f, i : Visited(f, i)

LEMMA ModuleKept ==
    ASSUME CodegenInductive, BodyStep, current # NoFunction
    PROVE  ModuleSound'
<1>1. /\ functions \in Seq(FunctionType) /\ functions' \in Seq(FunctionType)
      /\ ModuleGrows(functions, functions', current)
      /\ current \in 0..Len(functions) /\ current' = current
      /\ ModuleSound
  BY DEF CodegenInductive, TypeOK, BodyStep
<1>2. /\ Len(functions) \in Nat /\ Len(functions') \in Nat
      /\ Len(functions) <= Len(functions')
      /\ DOMAIN functions = 1..Len(functions) /\ DOMAIN functions' = 1..Len(functions')
  BY <1>1, LenProperties DEF ModuleGrows
<1>3. current \in 1..Len(functions)
  BY <1>1, <1>2 DEF NoFunction
<1> DEFINE Old == 1..Len(functions)
           New == (Len(functions) + 1)..Len(functions')
<1>4. DOMAIN functions' = Old \cup New /\ Old \cap New = {} /\ DOMAIN functions = Old
  BY <1>2
<1>5. /\ \A i \in Old : /\ functions'[i].live = functions[i].live
                        /\ functions'[i].item = functions[i].item
      /\ \A i \in Old : \A c \in functions'[i].calls :
             \/ c \in functions[i].calls
             \/ i = current /\ c.item = items /\ c.fn \in Old \cup New /\ functions'[c.fn].live
      /\ \A i \in New : functions'[i].live /\ functions'[i].calls = {}
  <2>1. \A c : c \in 1..Len(functions') <=> c \in Old \cup New
    BY <1>2, <1>4
  <2> QED BY <1>1, <2>1 DEF ModuleGrows
<1> HIDE DEF Old, New
<1>6. functions'[current'].live /\ functions'[current'].item = items' /\ items' = items
      /\ items \in Nat
  BY <1>1, <1>3, <1>5, CodegenAssumption DEF ModuleSound, Old, BodyStep, CodegenInductive, TypeOK
<1>7. ASSUME NEW i \in DOMAIN functions', NEW c \in functions'[i].calls
      PROVE  /\ i \in Old
             /\ \/ /\ c \in functions[i].calls /\ c.fn \in Old /\ c.item <= items
                \/ i = current /\ c.item = items /\ c.fn \in Old \cup New /\ functions'[c.fn].live
  <2>1. i \in Old
    BY <1>4, <1>5
  <2> QED BY <1>1, <1>4, <1>5, <2>1 DEF ModuleSound
<1>8. \A i \in DOMAIN functions' : \A c \in functions'[i].calls :
         c.fn \in DOMAIN functions' /\ c.item <= items'
  BY <1>4, <1>6, <1>7
<1>9. ASSUME NEW i \in DOMAIN functions', functions'[i].live, NEW c \in functions'[i].calls,
             ~functions'[c.fn].live
      PROVE  c.item < functions'[c.fn].item
  <2>1. i \in Old /\ c \in functions[i].calls /\ c.fn \in Old
    BY <1>7, <1>9
  <2>2. functions[i].live /\ ~functions[c.fn].live
    BY <1>5, <1>9, <2>1
  <2>3. c.item < functions[c.fn].item
    BY <1>1, <1>4, <2>1, <2>2 DEF ModuleSound, CalleesLive
  <2> QED BY <1>5, <2>1, <2>3
<1>10. ASSUME NEW i \in DOMAIN functions', i # current', NEW c \in functions'[i].calls
       PROVE  c.item < items'
  <2>1. i \in Old /\ c \in functions[i].calls
    BY <1>1, <1>7, <1>10
  <2> QED BY <1>1, <1>4, <1>6, <1>10, <2>1 DEF ModuleSound
<1> QED BY <1>6, <1>8, <1>9, <1>10 DEF ModuleSound, CalleesLive, BodyStep

(* What holds of a frame still holds when the tree and the module grow.    *)
LEMMA FrameKept ==
    ASSUME CodegenInductive, BodyStep,
           NEW f \in FrameType, FrameOK(f, tree, functions, current)
    PROVE  FrameOK(f, tree', functions', current)
<1>1. f.at # "accept" => f.path \in DOMAIN tree' /\ tree'[f.path] = tree[f.path]
  BY DEF FrameOK, Placed, BodyStep, Grows
<1>2. Placed(f, tree')
  BY <1>1 DEF FrameOK, Placed
<1>3. CalleeFound(f, tree', functions')
  <2> SUFFICES ASSUME f.at = "call.args"
               PROVE  /\ f.fn \in DOMAIN functions' /\ functions'[f.fn].live
                      /\ Len(functions'[f.fn].args) = tree'[f.path].n
    BY DEF CalleeFound
  <2>1. /\ f.fn \in DOMAIN functions /\ functions[f.fn].live
        /\ Len(functions[f.fn].args) = tree[f.path].n
    BY DEF FrameOK, CalleeFound
  <2>2. /\ DOMAIN functions = 1..Len(functions) /\ DOMAIN functions' = 1..Len(functions')
        /\ Len(functions) \in Nat /\ Len(functions') \in Nat
    BY LenProperties DEF CodegenInductive, TypeOK, BodyStep
  <2>3. f.fn \in 1..Len(functions')
    BY <2>1, <2>2 DEF BodyStep, ModuleGrows
  <2> QED BY <1>1, <2>1, <2>2, <2>3 DEF BodyStep, ModuleGrows
<1>4. OldKept(f, tree')
  BY <1>1 DEF FrameOK, OldKept
<1> QED BY <1>2, <1>3, <1>4 DEF FrameOK

LEMMA NewFrame ==
    ASSUME NEW path \in Seq(Nat), named_values' \in [Variables -> Alloca], NEW t, NEW fs, NEW fn
    PROVE  /\ Frame(path) \in FrameType
           /\ FrameOK(Frame(path), t, fs, fn)
           /\ Frame(path).at = "accept"
           /\ Frame(path).path = path
           /\ Frame(path).scope = named_values'
<1>1. /\ Frame(path).at = "accept" /\ Frame(path).i = 0
      /\ Frame(path).old = <<>> /\ Frame(path).path = path /\ Frame(path).scope = named_values'
  BY DEF Frame
<1>2. Frame(path) \in FrameType
  BY DEF Frame, FrameType, NoFunction, NoAlloca, Alloca, Starting
<1>3. Len(Frame(path).old) = 0 /\ \A j \in 1..0 : FALSE
  BY <1>1
<1>4. \A j \in 1..Len(Frame(path).old) : FALSE
  BY <1>3
<1> QED BY <1>1, <1>2, <1>4 DEF FrameOK, Placed, CalleeFound, OldKept, OldOwn

(* The three ways on keep the stack in order.                              *)
LEMMA StackKept ==
    ASSUME CodegenInductive, BodyStep, stack # <<>>, StackStep
    PROVE  stack' \in Seq(FrameType) /\ Visits'
<1>1. /\ stack \in Seq(FrameType)
      /\ current # NoFunction /\ current' = current
      /\ Visits
  BY DEF CodegenInductive, TypeOK, BodyStep, Visits
<1>2. /\ Len(stack) \in Nat \ {0}
      /\ Front(stack) \in Seq(FrameType)
      /\ Len(Front(stack)) = Len(stack) - 1
      /\ \A k \in 1..(Len(stack) - 1) : Front(stack)[k] = stack[k]
      /\ Top \in FrameType /\ Top = stack[Len(stack)]
  BY <1>1, Dropped DEF Top
<1> DEFINE n == Len(stack)
           ok(f) == FrameOK(f, tree', functions', current)
<1>3. /\ \A k \in 1..n : stack[k] \in FrameType /\ ok(stack[k])
      /\ \A k \in 1..(n - 1) : stack[k].at \in Waiting /\ k \in 1..n
  BY <1>1, <1>2, ElementOfSeq, FrameKept DEF Visits
<1>4. SUFFICES /\ stack' \in Seq(FrameType)
               /\ \A k \in 1..Len(stack') : ok(stack'[k])
               /\ \A k \in 1..(Len(stack') - 1) : stack'[k].at \in Waiting
  BY <1>1 DEF Visits
<1> HIDE DEF n, ok
<1>5. CASE Returned
  <2>1. /\ stack' \in Seq(FrameType) /\ Len(stack') = n - 1 /\ n \in Nat
        /\ \A k \in 1..(n - 1) : stack'[k] = stack[k]
    BY <1>2, <1>5 DEF Returned, n
  <2>2. \A k \in 1..(n - 1 - 1) : k \in 1..(n - 1)
    BY <2>1
  <2> QED BY <1>3, <2>1, <2>2
<1>6. ASSUME NEW f, Continued(f)
      PROVE  /\ stack' \in Seq(FrameType)
             /\ \A k \in 1..Len(stack') : ok(stack'[k])
             /\ \A k \in 1..(Len(stack') - 1) : stack'[k].at \in Waiting
  <2>1. f \in FrameType /\ ok(f) /\ stack' = Append(Front(stack), f)
    BY <1>6 DEF Continued, NextFrame, ok
  <2>2. /\ stack' \in Seq(FrameType) /\ Len(stack') = n /\ n \in Nat
        /\ stack'[n] = f
        /\ \A k \in 1..(n - 1) : stack'[k] = stack[k]
    BY <1>1, <1>2, <2>1, Replaced DEF n
  <2>3. \A k \in 1..n : k = n \/ k \in 1..(n - 1)
    BY <2>2
  <2> QED BY <1>3, <2>1, <2>2, <2>3
<1>7. ASSUME NEW f, NEW i, Visited(f, i)
      PROVE  /\ stack' \in Seq(FrameType)
             /\ \A k \in 1..Len(stack') : ok(stack'[k])
             /\ \A k \in 1..(Len(stack') - 1) : stack'[k].at \in Waiting
  <2> DEFINE s == Append(Front(stack), f)
             g == Frame(Child(i))
  <2>1. f \in FrameType /\ ok(f) /\ f.at \in Waiting /\ i \in Nat /\ stack' = Append(s, g)
    BY <1>7 DEF Visited, NextFrame, ok
  <2>2. /\ s \in Seq(FrameType) /\ Len(s) = n /\ n \in Nat
        /\ s[n] = f
        /\ \A k \in 1..(n - 1) : s[k] = stack[k]
    BY <1>1, <1>2, <2>1, Replaced DEF n
  <2>3. Child(i) \in Seq(Nat)
    BY <1>2, <2>1, Pushed DEF Child, FrameType
  <2>4. g \in FrameType /\ ok(g)
    BY <2>3, NewFrame DEF BodyStep, ok
  <2> HIDE DEF s, g
  <2>5. /\ stack' \in Seq(FrameType) /\ Len(stack') = n + 1
        /\ stack'[n + 1] = g
        /\ \A k \in 1..n : stack'[k] = s[k]
    BY <2>1, <2>2, <2>4, Pushed
  <2>6. /\ \A k \in 1..(n + 1) : k = n + 1 \/ k = n \/ k \in 1..(n - 1)
        /\ \A k \in 1..(n + 1 - 1) : k = n \/ k \in 1..(n - 1)
        /\ n \in 1..n /\ \A k \in 1..(n - 1) : k \in 1..n
    BY <1>2, <2>2 DEF n
  <2> QED BY <1>3, <2>1, <2>2, <2>4, <2>5, <2>6
<1> QED BY <1>5, <1>6, <1>7 DEF StackStep

LEMMA BodyLasts ==
    ASSUME BodyStep
    PROVE  Lasting(functions, functions')
BY DEF BodyStep, ModuleGrows, Lasting

BodyKept == CodegenInductive' /\ BodyStep /\ StackStep

LEMMA BodyKeeps ==
    ASSUME CodegenInductive, BodyStep, stack # <<>>, StackStep
    PROVE  BodyKept
<1>1. stack' \in Seq(FrameType) /\ Visits'
  BY StackKept
<1>2. ModuleSound'
  BY ModuleKept DEF CodegenInductive, Visits
<1>3. ScopeOwn'
  BY DEF ScopeOwn, BodyStep
<1>4. current' \in 0..Len(functions')
  <2>1. current \in 0..Len(functions) /\ Len(functions) \in Nat /\ Len(functions') \in Nat
    BY LenProperties DEF CodegenInductive, TypeOK, BodyStep
  <2> QED BY <2>1 DEF BodyStep, ModuleGrows
<1>5. TypeOK'
  BY <1>1, <1>4 DEF CodegenInductive, TypeOK, BodyStep
<1> QED BY <1>1, <1>2, <1>3, <1>5 DEF CodegenInductive, BodyKept

-----------------------------------------------------------------------------
(* What the visit methods have in common.                                  *)

LEMMA TopFrame ==
    ASSUME CodegenInductive, stack # <<>>
    PROVE  /\ Top \in FrameType
           /\ FrameOK(Top, tree, functions, current)
           /\ Top.at # "accept" =>
                  /\ This \in Nodes /\ Of(Top.at, This.kind)
                  /\ This.kind \in {"float", "variable", "unary", "=", "+", "call", "if", "for", "var"}
           /\ functions \in Seq(FunctionType)
           /\ Len(functions) \in Nat
           /\ current \in 1..Len(functions)
           /\ functions[current] \in FunctionType
           /\ functions[current].live
           /\ named_values \in [Variables -> Alloca]
           /\ \A v \in Variables : Own(named_values[v], current)
<1>1. /\ stack \in Seq(FrameType)
      /\ functions \in Seq(FunctionType) /\ current \in 0..Len(functions)
      /\ named_values \in [Variables -> Alloca]
      /\ current # NoFunction
  BY DEF CodegenInductive, TypeOK, Visits
<1>2. Len(functions) \in Nat /\ current \in 1..Len(functions)
  BY <1>1, LenProperties DEF NoFunction
<1>3. functions[current] \in FunctionType
  BY <1>1, <1>2, ElementOfSeq
<1>4. Top \in FrameType /\ Top = stack[Len(stack)] /\ Len(stack) \in 1..Len(stack)
  BY <1>1, Dropped DEF Top
<1>5. FrameOK(Top, tree, functions, current)
  BY <1>4 DEF CodegenInductive, Visits
<1>6. Top.at # "accept" => This \in Nodes /\ Of(Top.at, This.kind)
  BY <1>5 DEF FrameOK, Placed, This, CodegenInductive, TypeOK
<1>7. Top.at # "accept" =>
         This.kind \in {"float", "variable", "unary", "=", "+", "call", "if", "for", "var"}
  BY <1>6, NodeFacts
<1> QED BY <1>1, <1>2, <1>3, <1>4, <1>5, <1>6, <1>7 DEF CodegenInductive, ScopeOwn, ModuleSound

TreeStep ==
    /\ Grows(tree, tree')
    /\ \A path \in DOMAIN tree' : path \in Seq(Nat) /\ tree'[path] \in Nodes

ModuleStep ==
    /\ functions' \in Seq(FunctionType)
    /\ ModuleGrows(functions, functions', current)
    /\ insert' \in Nat
    /\ result_func' \in 0..Len(functions')
    /\ result_func' # NoFunction => functions'[result_func'].live

ScopeStep ==
    /\ named_values' \in [Variables -> Alloca]
    /\ \A v \in Variables : Own(named_values'[v], current)

LEMMA Stays ==
    ASSUME CodegenInductive, stack # <<>>
    PROVE  /\ UNCHANGED tree => TreeStep
           /\ KeepModule => ModuleStep
           /\ KeepScope => ScopeStep
<1>1. ASSUME UNCHANGED tree PROVE TreeStep
  BY <1>1 DEF TreeStep, Grows, CodegenInductive, TypeOK
<1>2. ModuleGrows(functions, functions, current)
  BY TopFrame DEF ModuleGrows
<1>3. ASSUME KeepModule PROVE ModuleStep
  BY <1>2, <1>3 DEF KeepModule, ModuleStep, CodegenInductive, TypeOK, ModuleSound
<1>4. ASSUME KeepScope PROVE ScopeStep
  BY <1>4, TopFrame DEF KeepScope, ScopeStep
<1> QED BY <1>1, <1>3, <1>4

LEMMA StepOfBody ==
    ASSUME CodegenInductive, NEW at, At(at), TreeStep, ModuleStep, ScopeStep,
           result_val' \in {"null", "value"}
    PROVE  BodyStep /\ stack # <<>> /\ Top.at = at
BY DEF At, TreeStep, ModuleStep, ScopeStep, BodyStep

LEMMA QuietStep ==
    ASSUME CodegenInductive, NEW at, At(at), Quiet
    PROVE  /\ UNCHANGED result_val => BodyStep
           /\ \A val \in {"null", "value"} : Return(val) => BodyStep
           /\ stack # <<>> /\ Top.at = at
<1>1. stack # <<>>
  BY DEF At
<1>2. TreeStep /\ ModuleStep /\ ScopeStep
  BY <1>1, Stays DEF Quiet
<1>3. UNCHANGED result_val => result_val' \in {"null", "value"}
  BY DEF CodegenInductive, TypeOK
<1> QED BY <1>1, <1>2, <1>3, StepOfBody DEF At, Return

LEMMA EmitStep ==
    ASSUME CodegenInductive, NEW at, At(at), NEW instructions, Emit(instructions), ScopeStep
    PROVE  /\ UNCHANGED result_val => BodyStep
           /\ \A val \in {"null", "value"} : Return(val) => BodyStep
           /\ stack # <<>> /\ Top.at = at
<1>1. stack # <<>>
  BY DEF At
<1>2. TreeStep /\ ModuleStep
  BY <1>1, Stays DEF Emit
<1>3. UNCHANGED result_val => result_val' \in {"null", "value"}
  BY DEF CodegenInductive, TypeOK
<1> QED BY <1>1, <1>2, <1>3, StepOfBody DEF At, Return

LEMMA NullPropagated ==
    ASSUME CodegenInductive, NEW at, PropagateNull(at)
    PROVE  BodyKept
<1>1. At(at) /\ Quiet /\ Return("null")
  BY DEF PropagateNull
<1>2. BodyStep /\ stack # <<>> /\ Returned
  BY <1>1, QuietStep DEF Return, Returned
<1> QED BY <1>2, BodyKeeps DEF StackStep

(* The frame of a visit at another label of the same method, where nothing *)
(* is known of what it has put aside.                                      *)
LEMMA Relabelled ==
    ASSUME CodegenInductive, BodyStep, stack # <<>>, Top.at # "accept",
           NEW at \in {"unary.operand", "assign.rhs", "binary.lhs", "if.cond", "if.then", "if.else"},
           Of(at, This.kind),
           NEW f \in FrameType, f.at = at, f.path = Top.path, f.old = Top.old
    PROVE  NextFrame(f) /\ at \in Waiting
<1>1. at \in Waiting
  BY DEF Waiting
<1>2. FrameOK(Top, tree, functions, current)
  BY TopFrame
<1>4. Placed(f, tree)
  BY <1>2 DEF FrameOK, Placed, This
<1>5. CalleeFound(f, tree, functions) /\ OldKept(f, tree)
  BY DEF CalleeFound, OldKept
<1>6. OldOwn(f, current)
  BY <1>2 DEF FrameOK, OldOwn
<1>7. NextFrame(f)
  BY <1>4, <1>5, <1>6, FrameKept DEF FrameOK, NextFrame
<1> QED BY <1>1, <1>7

LEMMA VisitedAs ==
    ASSUME CodegenInductive, BodyStep, stack # <<>>, Top.at # "accept", NEW i \in Nat,
           NEW at \in {"unary.operand", "assign.rhs", "binary.lhs", "if.cond", "if.then", "if.else"},
           Of(at, This.kind),
           NEW f \in FrameType, f.at = at, f.path = Top.path, f.old = Top.old,
           Visit(f, i)
    PROVE  BodyKept
<1>1. NextFrame(f) /\ at \in Waiting
  BY Relabelled
<1>2. Visited(f, i)
  BY <1>1 DEF Visited, Visit
<1> QED BY <1>2, BodyKeeps DEF StackStep

LEMMA VisitedThen ==
    ASSUME CodegenInductive, BodyStep, stack # <<>>, Top.at # "accept", NEW i \in Nat,
           NEW at \in {"unary.operand", "assign.rhs", "binary.lhs", "if.cond", "if.then", "if.else"},
           Of(at, This.kind), VisitThen(i, at)
    PROVE  BodyKept
<1> DEFINE f == [Top EXCEPT !.at = at]
<1>1. at \in Waiting
  BY DEF Waiting
<1>2. f \in FrameType /\ f.at = at /\ f.path = Top.path /\ f.old = Top.old
  BY <1>1, TopFrame DEF FrameType
<1>3. Visit(f, i)
  BY DEF VisitThen
<1> HIDE DEF f
<1> QED BY <1>2, <1>3, VisitedAs

LEMMA CallCreated ==
    ASSUME CodegenInductive, NEW at, At(at),
           NEW fs \in Seq(FunctionType), ModuleGrows(functions, fs, current),
           NEW fn \in 1..Len(fs), fs[fn].live, NEW name, NEW args,
           result_func' \in 0..Len(fs), result_func' # NoFunction => fs[result_func'].live,
           CreateCall(fs, fn, name, args)
    PROVE  /\ BodyKept
           /\ functions'[fn].args = fs[fn].args
           /\ Len(functions') = Len(fs) /\ functions'[current].blocks = fs[current].blocks
<1>1. stack # <<>>
  BY DEF At
<1>2. /\ functions' = [fs EXCEPT ![current].calls = @ \cup {Call(fn)}]
      /\ KeepScope /\ UNCHANGED <<insert, tree>> /\ Return("value")
  BY DEF CreateCall, Call
<1>3. /\ functions' \in Seq(FunctionType) /\ Len(functions') = Len(fs)
      /\ ModuleGrows(functions, functions', current)
      /\ \A i \in 1..Len(fs) : functions'[i].live = fs[i].live
      /\ functions'[fn].args = fs[fn].args
      /\ functions'[current].blocks = fs[current].blocks
  <2>1. functions \in Seq(FunctionType) /\ current \in 1..Len(functions)
    BY <1>1, TopFrame
  <2>2. functions' \in Seq(FunctionType) /\ CallAdded(fs, functions', current, fn)
    <3> DEFINE g == [fs[current] EXCEPT !.calls = @ \cup {Call(fn)}]
    <3>1. current \in 1..Len(fs) /\ Call(fn) \in [fn : Nat, item : Nat]
      <4>1. items \in Nat
        BY CodegenAssumption DEF CodegenInductive, TypeOK
      <4> QED BY <2>1, <4>1, LenProperties DEF ModuleGrows, Call
    <3>2. fs[current] \in FunctionType
      BY <3>1, ElementOfSeq
    <3>3. fs[current].calls \cup {Call(fn)} \in SUBSET [fn : Nat, item : Nat]
      BY <3>1, <3>2 DEF FunctionType
    <3>4. /\ g \in FunctionType
          /\ g.args = fs[current].args /\ g.live = fs[current].live
          /\ g.item = fs[current].item /\ g.blocks = fs[current].blocks
          /\ g.calls = fs[current].calls \cup {Call(fn)}
      BY <3>2, <3>3 DEF FunctionType
    <3>5. functions' = [fs EXCEPT ![current] = g]
      BY <1>2
    <3> HIDE DEF g
    <3>6. /\ functions' \in Seq(FunctionType) /\ Len(functions') = Len(fs)
          /\ functions'[current] = g
          /\ \A j \in 1..Len(fs) : j # current => functions'[j] = fs[j]
      BY <3>1, <3>4, <3>5, Touched
    <3> QED BY <3>4, <3>6 DEF CallAdded
  <2>3. current \in 1..Len(fs)
    BY <2>1, LenProperties DEF ModuleGrows
  <2> QED BY <2>1, <2>2, <2>3, Called DEF CallAdded
<1>4. ModuleStep
  <2>1. result_func' # NoFunction => result_func' \in 1..Len(fs)
    BY LenProperties DEF NoFunction
  <2>2. insert' \in Nat
    BY <1>2 DEF CodegenInductive, TypeOK
  <2> QED BY <1>3, <2>1, <2>2 DEF ModuleStep
<1>5. TreeStep /\ ScopeStep
  BY <1>1, <1>2, Stays
<1>6. BodyStep /\ Returned
  BY <1>2, <1>4, <1>5, StepOfBody DEF Return, Returned
<1> QED BY <1>1, <1>3, <1>6, BodyKeeps DEF StackStep

LEMMA TreeGrown ==
    ASSUME CodegenInductive, NEW path \in Seq(Nat), NEW node \in NodesAt(path),
           tree' = With(tree, path, node)
    PROVE  /\ TreeStep
           /\ path \in DOMAIN tree' /\ tree'[path] = node
           /\ node \in Nodes
<1>1. \A p \in DOMAIN tree : p \in Seq(Nat) /\ tree[p] \in Nodes
  BY DEF CodegenInductive, TypeOK
<1>2. node \in Nodes /\ (path \in DOMAIN tree => node = tree[path])
  BY <1>1 DEF NodesAt, Nodes
<1>3. /\ DOMAIN tree' = DOMAIN tree \cup {path}
      /\ \A p \in DOMAIN tree' : tree'[p] = IF p = path THEN node ELSE tree[p]
  BY DEF With
<1> QED BY <1>1, <1>2, <1>3 DEF TreeStep, Grows

(* A function of which only the allocas or the blocks change.              *)
LEMMA Rewritten ==
    ASSUME CodegenInductive, stack # <<>>, UNCHANGED result_func, insert' \in Nat,
           NEW g \in FunctionType, functions' = [functions EXCEPT ![current] = g],
           g.args = functions[current].args, g.live = functions[current].live,
           g.item = functions[current].item, g.calls = functions[current].calls
    PROVE  /\ ModuleStep
           /\ Len(functions') = Len(functions) /\ functions'[current] = g
<1>1. /\ functions \in Seq(FunctionType) /\ Len(functions) \in Nat
      /\ current \in 1..Len(functions)
  BY TopFrame
<1>3. /\ functions' \in Seq(FunctionType) /\ Len(functions') = Len(functions)
      /\ functions'[current] = g
      /\ \A j \in 1..Len(functions) : j # current => functions'[j] = functions[j]
  BY <1>1, Touched
<1>4. (Len(functions) + 1)..Len(functions) = {}
  BY <1>1
<1>5. ModuleGrows(functions, functions', current)
  BY <1>1, <1>3, <1>4 DEF ModuleGrows
<1>6. \A j \in 1..Len(functions) : functions'[j].live = functions[j].live
  BY <1>3
<1>7. result_func \in 0..Len(functions) /\ (result_func # NoFunction => functions[result_func].live)
  BY DEF CodegenInductive, TypeOK, ModuleSound
<1>8. result_func # NoFunction => result_func \in 1..Len(functions)
  BY <1>1, <1>7 DEF NoFunction
<1> QED BY <1>3, <1>5, <1>6, <1>7, <1>8 DEF ModuleStep

LEMMA AllocaCreated ==
    ASSUME CodegenInductive, stack # <<>>
    PROVE  /\ NewAlloca \in Alloca /\ NewAlloca.fn = current
           /\ create_entry_block_alloca /\ UNCHANGED result_func =>
                 ModuleStep /\ functions'[current].blocks = Body
<1>1. /\ functions \in Seq(FunctionType) /\ Len(functions) \in Nat
      /\ current \in 1..Len(functions) /\ functions[current] \in FunctionType
  BY TopFrame
<1>2. NewAlloca \in Alloca /\ NewAlloca.fn = current
  BY <1>1 DEF NewAlloca, Alloca, FunctionType
<1>3. ASSUME create_entry_block_alloca, UNCHANGED result_func
      PROVE  ModuleStep /\ functions'[current].blocks = Body
  <2> DEFINE g == [functions[current] EXCEPT !.allocas = @ + 1]
  <2>1. functions[current].allocas + 1 \in Nat
    BY <1>1 DEF FunctionType
  <2>2. /\ g \in FunctionType /\ g.blocks = Body
        /\ g.args = functions[current].args /\ g.live = functions[current].live
        /\ g.item = functions[current].item /\ g.calls = functions[current].calls
    BY <1>1, <2>1 DEF FunctionType, Body
  <2>3. functions' = [functions EXCEPT ![current] = g] /\ insert' \in Nat
    BY <1>3 DEF create_entry_block_alloca, CodegenInductive, TypeOK
  <2> HIDE DEF g
  <2> QED BY <1>3, <2>2, <2>3, Rewritten
<1> QED BY <1>2, <1>3

LEMMA BlocksSet ==
    ASSUME CodegenInductive, stack # <<>>, NEW blocks \in Seq(BlockType), SetBlocks(blocks),
           insert' \in Nat, UNCHANGED result_func
    PROVE  ModuleStep /\ functions'[current].blocks = blocks
<1> DEFINE g == [functions[current] EXCEPT !.blocks = blocks]
<1>1. functions[current] \in FunctionType
  BY TopFrame
<1>2. /\ g \in FunctionType /\ g.blocks = blocks
      /\ g.args = functions[current].args /\ g.live = functions[current].live
      /\ g.item = functions[current].item /\ g.calls = functions[current].calls
  BY <1>1 DEF FunctionType
<1>3. functions' = [functions EXCEPT ![current] = g]
  BY DEF SetBlocks
<1> HIDE DEF g
<1> QED BY <1>2, <1>3, Rewritten

Edit(B, b, d) == [B EXCEPT ![b] = d]

LEMMA Edited ==
    ASSUME NEW B \in Seq(BlockType), NEW b, NEW d, b \in 1..Len(B) => d \in BlockType,
           NEW C, C = Edit(B, b, d)
    PROVE  /\ C \in Seq(BlockType) /\ Len(C) = Len(B)
           /\ b \in 1..Len(B) => C[b] = d
           /\ \A a \in 1..Len(B) : a # b => C[a] = B[a]
<1>1. CASE b \in 1..Len(B)
  BY <1>1, ExceptSeq DEF Edit
<1>2. CASE b \notin 1..Len(B)
  <2>1. DOMAIN B = 1..Len(B) /\ B = [a \in DOMAIN B |-> B[a]]
    BY LenProperties
  <2>2. C = B
    BY <1>2, <2>1 DEF Edit
  <2> QED BY <1>2, <2>2
<1> QED BY <1>1, <1>2

(* The blocks after a terminator at the end of the current one, and after  *)
(* one of them is placed and given a phi.                                  *)
LEMMA Branching ==
    ASSUME CodegenInductive, stack # <<>>, NEW T \in SUBSET Nat, NEW C, C = Branch(T)
    PROVE  /\ Body \in Seq(BlockType) /\ Len(Body) \in Nat /\ insert \in Nat
           /\ C \in Seq(BlockType) /\ Len(C) = Len(Body)
           /\ insert \in 1..Len(Body) =>
                 /\ C[insert].ends = Body[insert].ends + 1 /\ C[insert].next = Body[insert].next \cup T
                 /\ C[insert].placed = Body[insert].placed /\ C[insert].phi = Body[insert].phi
           /\ \A a \in 1..Len(Body) : a # insert => C[a] = Body[a]
<1> DEFINE d == [Body[insert] EXCEPT !.ends = @ + 1, !.next = @ \cup T]
<1>1. Body \in Seq(BlockType) /\ insert \in Nat
  BY TopFrame DEF Body, FunctionType, CodegenInductive, TypeOK
<1>2. ASSUME insert \in 1..Len(Body)
      PROVE  /\ d \in BlockType /\ d.placed = Body[insert].placed /\ d.phi = Body[insert].phi
             /\ d.ends = Body[insert].ends + 1 /\ d.next = Body[insert].next \cup T
  <2>1. Body[insert] \in BlockType
    BY <1>1, <1>2, ElementOfSeq
  <2>2. Body[insert].ends \in Nat /\ Body[insert].next \in SUBSET Nat
    BY <2>1 DEF BlockType
  <2>3. Body[insert].ends + 1 \in Nat
    BY <2>2
  <2>4. Body[insert].next \cup T \in SUBSET Nat
    BY <2>2
  <2> QED BY <2>1, <2>3, <2>4 DEF BlockType
<1>3. C = [Body EXCEPT ![insert] = d]
  BY DEF Branch
<1> HIDE DEF d
<1>4. /\ C \in Seq(BlockType) /\ Len(C) = Len(Body)
      /\ insert \in 1..Len(Body) => C[insert] = d
      /\ \A a \in 1..Len(Body) : a # insert => C[a] = Body[a]
  <2> DEFINE B == Body
  <2>1. B \in Seq(BlockType) /\ (insert \in 1..Len(B) => d \in BlockType)
        /\ C = Edit(B, insert, d)
    BY <1>1, <1>2, <1>3 DEF Edit
  <2> HIDE DEF B
  <2>2. /\ C \in Seq(BlockType) /\ Len(C) = Len(B)
        /\ insert \in 1..Len(B) => C[insert] = d
        /\ \A a \in 1..Len(B) : a # insert => C[a] = B[a]
    BY <2>1, Edited
  <2> QED BY <2>2 DEF B
<1>5. Len(Body) \in Nat
  BY <1>1, LenProperties
<1> QED BY <1>1, <1>2, <1>4, <1>5

(* The blocks D with c placed, and P its phi.                              *)
PlacedIn(C, D, c, P) ==
    \/ C = [D EXCEPT ![c].placed = TRUE] /\ P = D[c].phi
    \/ C = [D EXCEPT ![c].placed = TRUE, ![c].phi = P]

LEMMA Placing ==
    ASSUME NEW B \in Seq(BlockType), NEW b, NEW T \in SUBSET Nat,
           NEW C, PlacedIn(C, B, b, T)
    PROVE  /\ C \in Seq(BlockType) /\ Len(C) = Len(B)
           /\ b \in 1..Len(B) => /\ C[b].placed /\ C[b].phi = T
                                  /\ C[b].ends = B[b].ends /\ C[b].next = B[b].next
           /\ \A a \in 1..Len(B) : a # b => C[a] = B[a]
<1> DEFINE d == [B[b] EXCEPT !.placed = TRUE, !.phi = T]
<1>1. ASSUME b \in 1..Len(B)
      PROVE  /\ d \in BlockType /\ d.placed /\ d.phi = T
             /\ d.ends = B[b].ends /\ d.next = B[b].next
  <2>1. B[b] \in BlockType
    BY <1>1, ElementOfSeq
  <2> QED BY <2>1 DEF BlockType
<1>2. CASE C = [B EXCEPT ![b].placed = TRUE] /\ T = B[b].phi
  <2> DEFINE e == [B[b] EXCEPT !.placed = TRUE]
  <2>1. b \in 1..Len(B) => e = d
    <3>1. b \in 1..Len(B) => B[b] \in BlockType
      BY ElementOfSeq
    <3> QED BY <1>2, <3>1 DEF BlockType
  <2>2. C = Edit(B, b, e)
    BY <1>2 DEF Edit
  <2> HIDE DEF d, e
  <2>3. b \in 1..Len(B) => e \in BlockType
    BY <1>1, <2>1
  <2>4. /\ C \in Seq(BlockType) /\ Len(C) = Len(B)
        /\ b \in 1..Len(B) => C[b] = e
        /\ \A a \in 1..Len(B) : a # b => C[a] = B[a]
    BY <2>2, <2>3, Edited
  <2> QED BY <1>1, <2>1, <2>4
<1>3. CASE C = [B EXCEPT ![b].placed = TRUE, ![b].phi = T]
  <2>1. C = Edit(B, b, d)
    BY <1>3 DEF Edit
  <2> HIDE DEF d
  <2>2. b \in 1..Len(B) => d \in BlockType
    BY <1>1
  <2>3. /\ C \in Seq(BlockType) /\ Len(C) = Len(B)
        /\ b \in 1..Len(B) => C[b] = d
        /\ \A a \in 1..Len(B) : a # b => C[a] = B[a]
    BY <2>1, <2>2, Edited
  <2> QED BY <1>1, <2>3
<1> QED BY <1>2, <1>3 DEF PlacedIn

LEMMA NewBlock ==
    ASSUME NEW placed \in BOOLEAN
    PROVE  /\ Block(placed) \in BlockType /\ Block(placed).placed = placed
           /\ Block(placed).ends = 0 /\ Block(placed).next = {} /\ Block(placed).phi = {}
BY DEF Block, BlockType

LEMMA NewBlocks ==
    /\ <<Block(TRUE), Block(FALSE), Block(FALSE)>> \in Seq(BlockType)
    /\ Len(<<Block(TRUE), Block(FALSE), Block(FALSE)>>) = 3
    /\ <<Block(TRUE), Block(FALSE), Block(FALSE)>>[1] = Block(TRUE)
    /\ <<Block(TRUE), Block(FALSE), Block(FALSE)>>[2] = Block(FALSE)
    /\ <<Block(TRUE), Block(FALSE), Block(FALSE)>>[3] = Block(FALSE)
<1> DEFINE x == Block(TRUE)
           y == Block(FALSE)
<1>1. x \in BlockType /\ y \in BlockType
  BY NewBlock
<1> HIDE DEF x, y
<1>2. /\ <<x, y, y>> \in Seq(BlockType) /\ Len(<<x, y, y>>) = 3
      /\ <<x, y, y>>[1] = x /\ <<x, y, y>>[2] = y /\ <<x, y, y>>[3] = y
  BY <1>1
<1> QED BY <1>2 DEF x, y

LEMMA Rebound ==
    ASSUME CodegenInductive, stack # <<>>,
           NEW v \in Variables, NEW alloca \in Alloca, Own(alloca, current), Bind(v, alloca)
    PROVE  /\ ScopeStep
           /\ named_values'[v] = alloca
           /\ \A u \in Variables : u # v => named_values'[u] = named_values[u]
<1>1. named_values \in [Variables -> Alloca] /\ \A u \in Variables : Own(named_values[u], current)
  BY TopFrame
<1>2. named_values' = [named_values EXCEPT ![v] = alloca]
  BY DEF Bind
<1>3. /\ named_values' \in [Variables -> Alloca]
      /\ named_values'[v] = alloca
      /\ \A u \in Variables : u # v => named_values'[u] = named_values[u]
  BY <1>1, <1>2
<1>4. \A u \in Variables : Own(named_values'[u], current)
  BY <1>1, <1>3
<1> QED BY <1>3, <1>4 DEF ScopeStep

-----------------------------------------------------------------------------
(* Each visit method keeps the invariant.                                  *)

LEMMA AcceptKeeps ==
    ASSUME CodegenInductive, accept
    PROVE  BodyKept
<1>1. At("accept") /\ stack # <<>> /\ Top.at = "accept" /\ KeepScope /\ KeepModule
  BY DEF accept, At
<1>2. PICK node \in NodesAt(Top.path) :
         tree' = With(tree, Top.path, node) /\ Continue([Top EXCEPT !.at = node.kind])
  BY DEF accept
<1>3. /\ Top \in FrameType /\ FrameOK(Top, tree, functions, current)
      /\ Top.path \in Seq(Nat) /\ Top.i = 0 /\ Top.old = <<>>
  BY <1>1, TopFrame DEF FrameType, FrameOK, OldKept
<1>4. /\ TreeStep /\ node \in Nodes
      /\ Top.path \in DOMAIN tree' /\ tree'[Top.path] = node
  BY <1>2, <1>3, TreeGrown
<1> DEFINE f == [Top EXCEPT !.at = node.kind]
<1>5. Continue(f)
  BY <1>2
<1>6. node.kind \in {"float", "variable", "unary", "=", "+", "call", "if", "for", "var"}
  BY <1>4, NodeFacts
<1>7. /\ f \in FrameType /\ f.at = node.kind
      /\ f.path = Top.path /\ f.i = 0 /\ f.old = <<>>
  BY <1>3, <1>6 DEF FrameType, Starting
<1> HIDE DEF f
<1>8. result_val' \in {"null", "value"}
  BY <1>5 DEF Continue, CodegenInductive, TypeOK
<1>9. BodyStep
  BY <1>1, <1>4, <1>8, Stays, StepOfBody
<1>10. Placed(f, tree') /\ CalleeFound(f, tree', functions')
  BY <1>4, <1>6, <1>7 DEF Placed, Of, CalleeFound
<1>11. OldKept(f, tree')
  <2>1. Len(f.old) = 0
    BY <1>7
  <2>2. f.at = "var" => Len(tree'[f.path].names) \in Nat
    BY <1>4, <1>7, NodeFacts
  <2> QED BY <1>6, <1>7, <2>1, <2>2 DEF OldKept
<1>12. OldOwn(f, current)
  <2>1. Len(f.old) = 0 /\ \A j \in 1..0 : FALSE
    BY <1>7
  <2>2. \A j \in 1..Len(f.old) : FALSE
    BY <2>1
  <2> QED BY <1>6, <1>7, <2>2 DEF OldOwn
<1>13. Continued(f)
  BY <1>5, <1>6, <1>7, <1>10, <1>11, <1>12 DEF Continued, NextFrame, FrameOK, Continue
<1> QED BY <1>1, <1>9, <1>13, BodyKeeps DEF StackStep

LEMMA FloatKeeps ==
    ASSUME CodegenInductive, visitFloat
    PROVE  BodyKept
<1>1. At("float") /\ Quiet /\ Return("value")
  BY DEF visitFloat
<1>2. BodyStep /\ stack # <<>> /\ Returned
  BY <1>1, QuietStep DEF Return, Returned
<1> QED BY <1>2, BodyKeeps DEF StackStep

LEMMA VariableKeeps ==
    ASSUME CodegenInductive, visitVariable
    PROVE  BodyKept
<1>1. At("variable") /\ KeepScope /\ stack # <<>>
  BY DEF visitVariable, At
<1>2. ScopeStep
  BY <1>1, Stays
<1>3. \E instructions : Emit(instructions) /\ \E val \in {"null", "value"} : Return(val)
  BY DEF visitVariable
<1>4. BodyStep /\ Returned
  BY <1>1, <1>2, <1>3, EmitStep DEF Return, Returned
<1> QED BY <1>1, <1>4, BodyKeeps DEF StackStep

LEMMA CallOperatorKeeps ==
    ASSUME CodegenInductive, NEW at, At(at), NEW name, NEW args, CallOperator(name, args)
    PROVE  BodyKept
<1> DEFINE found == getFunction(functions, function_protos, name)
<1>1. stack # <<>>
  BY DEF At
<1>2. /\ functions \in Seq(FunctionType)
      /\ \A p \in DOMAIN function_protos : p \in FunctionNames /\ function_protos[p] \in ArgLists
      /\ result_func \in 0..Len(functions)
      /\ result_func # NoFunction => functions[result_func].live
  BY DEF CodegenInductive, TypeOK, ModuleSound
<1>3. /\ result_func' = found.fn
      /\ IF found.fn = NoFunction
         THEN /\ functions' = found.fs /\ emitted' = {} /\ KeepScope
              /\ UNCHANGED <<insert, tree>> /\ Return("null")
         ELSE CreateCall(found.fs, found.fn, name, args)
  BY DEF CallOperator
<1> HIDE DEF found
<1>4. /\ found.fs \in Seq(FunctionType)
      /\ ModuleGrows(functions, found.fs, current)
      /\ found.fn \in 0..Len(found.fs)
      /\ found.fn # NoFunction => found.fs[found.fn].live
  BY <1>2, LookedUp DEF found
<1>5. CASE found.fn = NoFunction
  <2>1. ModuleStep
    BY <1>3, <1>4, <1>5 DEF ModuleStep, CodegenInductive, TypeOK
  <2>2. TreeStep /\ ScopeStep /\ Returned /\ result_val' \in {"null", "value"}
    BY <1>1, <1>3, <1>5, Stays DEF Return, Returned
  <2> QED BY <1>1, <2>1, <2>2, StepOfBody, BodyKeeps DEF StackStep
<1>6. CASE found.fn # NoFunction
  <2>1. found.fn \in 1..Len(found.fs)
    BY <1>4, <1>6, LenProperties DEF NoFunction
  <2> QED BY <1>3, <1>4, <1>6, <2>1, CallCreated
<1> QED BY <1>5, <1>6

LEMMA UnaryKeeps ==
    ASSUME CodegenInductive, visitUnary
    PROVE  BodyKept
<1>1. CASE At("unary") /\ Quiet /\ VisitThen(1, "unary.operand")
  <2>1. BodyStep /\ stack # <<>> /\ Top.at = "unary"
    BY <1>1, QuietStep DEF VisitThen, Visit
  <2>2. Of("unary.operand", This.kind)
    BY <2>1, TopFrame DEF Of
  <2> QED BY <1>1, <2>1, <2>2, VisitedThen
<1>2. CASE PropagateNull("unary.operand")
  BY <1>2, NullPropagated
<1>3. CASE Succeeded("unary.operand") /\ CallOperator("unary", 1)
  BY <1>3, CallOperatorKeeps DEF Succeeded
<1> QED BY <1>1, <1>2, <1>3 DEF visitUnary

LEMMA BinaryKeeps ==
    ASSUME CodegenInductive, visitBinary
    PROVE  BodyKept
<1>1. CASE At("+") /\ Quiet /\ VisitThen(1, "binary.lhs")
  <2>1. BodyStep /\ stack # <<>> /\ Top.at = "+"
    BY <1>1, QuietStep DEF VisitThen, Visit
  <2>2. Of("binary.lhs", This.kind)
    BY <2>1, TopFrame DEF Of
  <2> QED BY <1>1, <2>1, <2>2, VisitedThen
<1>2. CASE At("=") /\ Quiet /\ VisitThen(2, "assign.rhs")
  <2>1. BodyStep /\ stack # <<>> /\ Top.at = "="
    BY <1>2, QuietStep DEF VisitThen, Visit
  <2>2. Of("assign.rhs", This.kind)
    BY <2>1, TopFrame DEF Of
  <2> QED BY <1>2, <2>1, <2>2, VisitedThen
<1>3. CASE PropagateNull("assign.rhs")
  BY <1>3, NullPropagated
<1>4. ASSUME Succeeded("assign.rhs"), KeepScope, KeepModule,
             NEW lhs \in NodesAt(Child(1)), tree' = With(tree, Child(1), lhs),
             \/ Return("null")
             \/ VisitThen(1, "binary.lhs")
      PROVE  BodyKept
  <2>1. At("assign.rhs") /\ stack # <<>> /\ Top.at = "assign.rhs"
    BY <1>4 DEF Succeeded, At
  <2>2. Child(1) \in Seq(Nat)
    BY <2>1, TopFrame, Pushed DEF Child, FrameType
  <2>3. TreeStep /\ ModuleStep /\ ScopeStep
    BY <1>4, <2>1, <2>2, TreeGrown, Stays
  <2>4. result_val' \in {"null", "value"}
    BY <1>4 DEF Return, VisitThen, Visit, CodegenInductive, TypeOK
  <2>5. BodyStep
    BY <2>1, <2>3, <2>4, StepOfBody
  <2>6. CASE Return("null")
    BY <2>1, <2>5, <2>6, BodyKeeps DEF StackStep, Return, Returned
  <2>7. CASE VisitThen(1, "binary.lhs")
    <3>1. Of("binary.lhs", This.kind)
      BY <2>1, TopFrame DEF Of
    <3> QED BY <2>1, <2>5, <2>7, <3>1, VisitedThen
  <2> QED BY <1>4, <2>6, <2>7
<1>5. CASE At("binary.lhs") /\ Quiet /\ Visit([Top EXCEPT !.at = "binary.rhs", !.lhs = result_val], 2)
  <2> DEFINE f == [Top EXCEPT !.at = "binary.rhs", !.lhs = result_val]
  <2>1. BodyStep /\ stack # <<>> /\ Top.at = "binary.lhs"
    BY <1>5, QuietStep DEF Visit
  <2>2. /\ Top \in FrameType /\ FrameOK(Top, tree, functions, current)
        /\ result_val \in {"null", "value"}
    BY <2>1, TopFrame DEF CodegenInductive, TypeOK
  <2>3. /\ f \in FrameType /\ f.at = "binary.rhs" /\ f.path = Top.path /\ f.old = Top.old
    BY <2>2 DEF FrameType, Waiting
  <2>4. Visit(f, 2)
    BY <1>5
  <2> HIDE DEF f
  <2>5. FrameOK(f, tree, functions, current)
    <3>1. Of("binary.rhs", tree[f.path].kind)
      BY <2>1, <2>3, TopFrame DEF Of, This
    <3> QED BY <2>1, <2>2, <2>3, <3>1 DEF FrameOK, Placed, CalleeFound, OldKept, OldOwn
  <2>6. Visited(f, 2)
    BY <2>1, <2>3, <2>4, <2>5, FrameKept DEF Visited, Visit, NextFrame, Waiting
  <2> QED BY <2>1, <2>6, BodyKeeps DEF StackStep
<1>6. CASE At("binary.rhs") /\ Quiet /\ Return("null")
  <2>1. BodyStep /\ stack # <<>> /\ Returned
    BY <1>6, QuietStep DEF Return, Returned
  <2> QED BY <2>1, BodyKeeps DEF StackStep
<1>7. CASE Succeeded("binary.rhs") /\ CallOperator("binary=", 2)
  BY <1>7, CallOperatorKeeps DEF Succeeded
<1>8. CASE Succeeded("binary.rhs") /\ KeepScope /\ Emit({Instruction("fadd")}) /\ Return("value")
  <2>1. At("binary.rhs") /\ stack # <<>>
    BY <1>8 DEF Succeeded, At
  <2>2. ScopeStep
    BY <1>8, <2>1, Stays
  <2>3. BodyStep /\ Returned
    BY <1>8, <2>1, <2>2, EmitStep DEF Return, Returned
  <2> QED BY <2>1, <2>3, BodyKeeps DEF StackStep
<1>9. visitBinary =>
         \/ At("+") /\ Quiet /\ VisitThen(1, "binary.lhs")
         \/ At("=") /\ Quiet /\ VisitThen(2, "assign.rhs")
         \/ PropagateNull("assign.rhs")
         \/ /\ Succeeded("assign.rhs") /\ KeepScope /\ KeepModule
            /\ \E lhs \in NodesAt(Child(1)) :
                  /\ tree' = With(tree, Child(1), lhs)
                  /\ Return("null") \/ VisitThen(1, "binary.lhs")
         \/ At("binary.lhs") /\ Quiet
              /\ Visit([Top EXCEPT !.at = "binary.rhs", !.lhs = result_val], 2)
         \/ At("binary.rhs") /\ Quiet /\ Return("null")
         \/ Succeeded("binary.rhs") /\ CallOperator("binary=", 2)
         \/ Succeeded("binary.rhs") /\ KeepScope /\ Emit({Instruction("fadd")}) /\ Return("value")
  BY Zenon DEF visitBinary
<1> QED BY <1>1, <1>2, <1>3, <1>4, <1>5, <1>6, <1>7, <1>8, <1>9

(* The blocks that each step of visitIf and of visitFor leaves.            *)
ThenBlocks(t) == Branch({t, t + 1}) \o <<Block(TRUE), Block(FALSE), Block(FALSE)>>
ElseBlocks == [Branch({Top.block + 2}) EXCEPT ![Top.block + 1].placed = TRUE]
MergeBlocks == [Branch({Top.block + 2}) EXCEPT ![Top.block + 2].placed = TRUE,
                                               ![Top.block + 2].phi = Incoming]
LoopBlocks(t) == Append(Branch({t}), Block(TRUE))
AfterBlocks(t) == Append(Branch({Top.block, t}), Block(TRUE))

LEMMA BlocksTyped ==
    ASSUME CodegenInductive, stack # <<>>, NEW t, t = Len(Body) + 1
    PROVE  /\ t \in Nat /\ Top.block \in Nat /\ Top.then \in Nat /\ insert \in Nat
           /\ Incoming \in SUBSET Nat
           /\ ThenBlocks(t) \in Seq(BlockType) /\ ElseBlocks \in Seq(BlockType)
           /\ MergeBlocks \in Seq(BlockType)
           /\ LoopBlocks(t) \in Seq(BlockType) /\ AfterBlocks(t) \in Seq(BlockType)
<1>1. Body \in Seq(BlockType) /\ Len(Body) \in Nat /\ insert \in Nat
  BY Branching
<1>2. Top.block \in Nat /\ Top.then \in Nat
  BY TopFrame DEF FrameType
<1>3. t \in Nat /\ {t, t + 1} \in SUBSET Nat /\ {t} \in SUBSET Nat
      /\ {Top.block + 2} \in SUBSET Nat /\ {Top.block, t} \in SUBSET Nat
      /\ Incoming \in SUBSET Nat
  BY <1>1, <1>2 DEF Incoming
<1>4. Block(TRUE) \in BlockType /\ Block(FALSE) \in BlockType
  BY NewBlock
<1>5. /\ Branch({t, t + 1}) \in Seq(BlockType) /\ Branch({Top.block + 2}) \in Seq(BlockType)
      /\ Branch({t}) \in Seq(BlockType) /\ Branch({Top.block, t}) \in Seq(BlockType)
  BY <1>3, Branching
<1>6. ThenBlocks(t) \in Seq(BlockType)
  BY <1>5, NewBlocks, ConcatProperties DEF ThenBlocks
<1>7. ElseBlocks \in Seq(BlockType)
  <2> DEFINE B == Branch({Top.block + 2})
             b == Top.block + 1
  <2>1. ElseBlocks = [B EXCEPT ![b].placed = TRUE]
    BY DEF ElseBlocks
  <2>2. B \in Seq(BlockType)
    BY <1>5
  <2> HIDE DEF B, b
  <2>3. CASE b \in 1..Len(B)
    <3>1. B[b] \in BlockType
      BY <2>2, <2>3, ElementOfSeq
    <3>2. B[b].phi \in SUBSET Nat
      BY <3>1 DEF BlockType
    <3>3. PlacedIn(ElseBlocks, B, b, B[b].phi)
      BY <2>1 DEF PlacedIn
    <3> QED BY <2>2, <3>2, <3>3, Placing
  <2>4. CASE b \notin 1..Len(B)
    <3> DEFINE d == [B[b] EXCEPT !.placed = TRUE]
    <3>1. ElseBlocks = [B EXCEPT ![b] = d]
      BY <2>1
    <3> HIDE DEF d
    <3> QED BY <2>2, <2>4, <3>1, Edited DEF Edit
  <2> QED BY <2>3, <2>4
<1>8. MergeBlocks \in Seq(BlockType)
  <2>1. PlacedIn(MergeBlocks, Branch({Top.block + 2}), Top.block + 2, Incoming)
    BY DEF MergeBlocks, PlacedIn
  <2> QED BY <1>3, <1>5, <2>1, Placing
<1>9. LoopBlocks(t) \in Seq(BlockType) /\ AfterBlocks(t) \in Seq(BlockType)
  BY <1>4, <1>5, Pushed DEF LoopBlocks, AfterBlocks
<1> QED BY <1>1, <1>2, <1>3, <1>6, <1>7, <1>8, <1>9

(* A step that sets the blocks.                                            *)
LEMMA BlocksStep ==
    ASSUME CodegenInductive, NEW at, Succeeded(at), NEW blocks \in Seq(BlockType),
           SetBlocks(blocks), insert' \in Nat, ScopeStep, UNCHANGED <<result_func, tree>>
    PROVE  /\ UNCHANGED result_val => BodyStep
           /\ \A val \in {"null", "value"} : Return(val) => BodyStep
           /\ At(at) /\ stack # <<>> /\ Top.at = at /\ functions'[current].blocks = blocks
<1>1. At(at) /\ stack # <<>> /\ Top.at = at
  BY DEF Succeeded, At
<1>2. TreeStep /\ ModuleStep /\ functions'[current].blocks = blocks
  BY <1>1, Stays, BlocksSet
<1>3. UNCHANGED result_val => result_val' \in {"null", "value"}
  BY DEF CodegenInductive, TypeOK
<1> QED BY <1>1, <1>2, <1>3, StepOfBody DEF Return

LEMMA IfKeeps ==
    ASSUME CodegenInductive, visitIf
    PROVE  BodyKept
<1> DEFINE t == Len(Body) + 1
<1>1. CASE At("if") /\ Quiet /\ VisitThen(1, "if.cond")
  <2>1. BodyStep /\ stack # <<>> /\ Top.at = "if"
    BY <1>1, QuietStep DEF VisitThen, Visit
  <2>2. Of("if.cond", This.kind)
    BY <2>1, TopFrame DEF Of
  <2> QED BY <1>1, <2>1, <2>2, VisitedThen
<1>2. CASE /\ Succeeded("if.cond") /\ KeepScope /\ SetBlocks(ThenBlocks(t)) /\ insert' = t
           /\ Visit([Top EXCEPT !.at = "if.then", !.block = t], 2)
           /\ UNCHANGED <<result_func, tree>>
  <2> DEFINE f == [Top EXCEPT !.at = "if.then", !.block = t]
  <2>1. stack # <<>>
    BY <1>2 DEF Succeeded, At
  <2>2. t \in Nat /\ ThenBlocks(t) \in Seq(BlockType) /\ ScopeStep
    BY <1>2, <2>1, BlocksTyped, Stays
  <2>3. Visit(f, 2)
    BY <1>2
  <2> HIDE DEF t
  <2>4. BodyStep /\ Top.at = "if.cond"
    BY <1>2, <2>2, BlocksStep DEF Visit
  <2>5. Of("if.then", This.kind)
    BY <2>1, <2>4, TopFrame DEF Of
  <2>6. f \in FrameType /\ f.at = "if.then" /\ f.path = Top.path /\ f.old = Top.old
    BY <2>1, <2>2, TopFrame DEF FrameType, Waiting
  <2> HIDE DEF f
  <2> QED BY <2>1, <2>3, <2>4, <2>5, <2>6, VisitedAs
<1>3. CASE /\ Succeeded("if.then") /\ KeepScope /\ SetBlocks(ElseBlocks) /\ insert' = Top.block + 1
           /\ Visit([Top EXCEPT !.at = "if.else", !.then = insert], 3)
           /\ UNCHANGED <<result_func, tree>>
  <2> DEFINE f == [Top EXCEPT !.at = "if.else", !.then = insert]
  <2>1. stack # <<>>
    BY <1>3 DEF Succeeded, At
  <2>2. /\ insert \in Nat /\ insert' \in Nat /\ ElseBlocks \in Seq(BlockType) /\ ScopeStep
    BY <1>3, <2>1, BlocksTyped, Stays
  <2>3. Visit(f, 3)
    BY <1>3
  <2>4. BodyStep /\ Top.at = "if.then"
    BY <1>3, <2>2, BlocksStep DEF Visit
  <2>5. Of("if.else", This.kind)
    BY <2>1, <2>4, TopFrame DEF Of
  <2>6. f \in FrameType /\ f.at = "if.else" /\ f.path = Top.path /\ f.old = Top.old
    BY <2>1, <2>2, TopFrame DEF FrameType, Waiting
  <2> HIDE DEF f
  <2> QED BY <2>1, <2>3, <2>4, <2>5, <2>6, VisitedAs
<1>4. CASE /\ Succeeded("if.else") /\ KeepScope /\ SetBlocks(MergeBlocks) /\ insert' = Top.block + 2
           /\ UNCHANGED <<result_func, tree>> /\ Return("value")
  <2>1. stack # <<>>
    BY <1>4 DEF Succeeded, At
  <2>2. insert' \in Nat /\ MergeBlocks \in Seq(BlockType) /\ ScopeStep
    BY <1>4, <2>1, BlocksTyped, Stays
  <2>3. BodyStep /\ Returned
    BY <1>4, <2>2, BlocksStep DEF Return, Returned
  <2> QED BY <2>1, <2>3, BodyKeeps DEF StackStep
<1>5. CASE \E at \in {"if.cond", "if.then", "if.else"} : PropagateNull(at)
  BY <1>5, NullPropagated
<1>6. visitIf =>
         \/ At("if") /\ Quiet /\ VisitThen(1, "if.cond")
         \/ /\ Succeeded("if.cond") /\ KeepScope /\ SetBlocks(ThenBlocks(t)) /\ insert' = t
            /\ Visit([Top EXCEPT !.at = "if.then", !.block = t], 2)
            /\ UNCHANGED <<result_func, tree>>
         \/ /\ Succeeded("if.then") /\ KeepScope /\ SetBlocks(ElseBlocks) /\ insert' = Top.block + 1
            /\ Visit([Top EXCEPT !.at = "if.else", !.then = insert], 3)
            /\ UNCHANGED <<result_func, tree>>
         \/ /\ Succeeded("if.else") /\ KeepScope /\ SetBlocks(MergeBlocks) /\ insert' = Top.block + 2
            /\ UNCHANGED <<result_func, tree>> /\ Return("value")
         \/ \E at \in {"if.cond", "if.then", "if.else"} : PropagateNull(at)
  BY Zenon DEF visitIf, ThenBlocks, ElseBlocks, MergeBlocks
<1> HIDE DEF t
<1> QED BY <1>1, <1>2, <1>3, <1>4, <1>5, <1>6

LEMMA CallKeeps ==
    ASSUME CodegenInductive, visitCall
    PROVE  BodyKept
<1>1. ASSUME At("call"), NEW found,
             found = getFunction(functions, function_protos, This.names[1]),
             result_func' = found.fn
      PROVE  /\ stack # <<>> /\ Top.at = "call" /\ This.kind = "call"
             /\ found.fs \in Seq(FunctionType)
             /\ ModuleGrows(functions, found.fs, current)
             /\ found.fn \in 0..Len(found.fs)
             /\ found.fn # NoFunction => found.fs[found.fn].live /\ found.fn \in 1..Len(found.fs)
             /\ functions' = found.fs /\ UNCHANGED insert => ModuleStep
  <2>1. stack # <<>> /\ Top.at = "call"
    BY <1>1 DEF At
  <2>2. This.kind = "call"
    BY <2>1, TopFrame DEF Of
  <2>3. /\ functions \in Seq(FunctionType)
        /\ \A p \in DOMAIN function_protos : p \in FunctionNames /\ function_protos[p] \in ArgLists
        /\ result_func \in 0..Len(functions)
        /\ result_func # NoFunction => functions[result_func].live
    BY DEF CodegenInductive, TypeOK, ModuleSound
  <2>4. /\ found.fs \in Seq(FunctionType)
        /\ ModuleGrows(functions, found.fs, current)
        /\ found.fn \in 0..Len(found.fs)
        /\ found.fn # NoFunction => found.fs[found.fn].live
    BY <1>1, <2>3, LookedUp
  <2>5. found.fn # NoFunction => found.fn \in 1..Len(found.fs)
    BY <2>4, LenProperties DEF NoFunction
  <2>6. functions' = found.fs /\ UNCHANGED insert => ModuleStep
    BY <1>1, <2>4 DEF ModuleStep, CodegenInductive, TypeOK
  <2> QED BY <2>1, <2>2, <2>4, <2>5, <2>6
<1>2. ASSUME At("call"), NEW found,
             found = getFunction(functions, function_protos, This.names[1]),
             result_func' = found.fn, found.fn # NoFunction,
             CreateCall(found.fs, found.fn, This.names[1], 0)
      PROVE  BodyKept
  <2>1. /\ found.fs \in Seq(FunctionType)
        /\ ModuleGrows(functions, found.fs, current)
        /\ found.fn \in 1..Len(found.fs) /\ found.fs[found.fn].live
        /\ result_func' \in 0..Len(found.fs) /\ found.fs[result_func'].live
    BY <1>1, <1>2
  <2> QED BY <1>2, <2>1, CallCreated
<1>3. ASSUME At("call"), NEW found,
             found = getFunction(functions, function_protos, This.names[1]),
             result_func' = found.fn, found.fn # NoFunction, Len(found.fs[found.fn].args) = This.n,
             functions' = found.fs, KeepScope, UNCHANGED <<insert, tree>>,
             Visit([Top EXCEPT !.at = "call.args", !.fn = found.fn, !.i = 1], 1)
      PROVE  BodyKept
  <2> DEFINE f == [Top EXCEPT !.at = "call.args", !.fn = found.fn, !.i = 1]
  <2>1. /\ stack # <<>> /\ Top.at = "call" /\ This.kind = "call" /\ ModuleStep
        /\ found.fn \in 1..Len(functions') /\ functions'[found.fn].live
        /\ functions' \in Seq(FunctionType)
    BY <1>1, <1>3
  <2>2. BodyStep
    BY <1>3, <2>1, Stays, StepOfBody DEF Visit, CodegenInductive, TypeOK
  <2>3. Top \in FrameType /\ FrameOK(Top, tree, functions, current) /\ found.fn \in Nat
    BY <2>1, TopFrame
  <2>4. /\ f \in FrameType /\ f.at = "call.args" /\ f.path = Top.path /\ f.old = Top.old
        /\ f.fn = found.fn
    BY <2>3 DEF FrameType, Waiting
  <2>5. Visit(f, 1)
    BY <1>3
  <2> HIDE DEF f
  <2>6. Placed(f, tree')
    BY <1>3, <2>1, <2>3, <2>4 DEF FrameOK, Placed, Of
  <2>7. CalleeFound(f, tree', functions')
    <3>1. DOMAIN functions' = 1..Len(functions')
      BY <2>1, LenProperties
    <3>2. This.n = tree[f.path].n /\ tree' = tree
      BY <1>3, <2>4 DEF This
    <3>3. Len(functions'[f.fn].args) = tree'[f.path].n
      BY <1>3, <2>4, <3>2
    <3> QED BY <2>1, <2>4, <3>1, <3>3 DEF CalleeFound
  <2>8. OldKept(f, tree') /\ OldOwn(f, current)
    BY <2>3, <2>4 DEF FrameOK, OldKept, OldOwn
  <2>9. Visited(f, 1)
    BY <2>4, <2>5, <2>6, <2>7, <2>8 DEF Visited, Visit, NextFrame, FrameOK, Waiting
  <2> QED BY <2>1, <2>2, <2>9, BodyKeeps DEF StackStep
<1>4. ASSUME At("call"), NEW found,
             found = getFunction(functions, function_protos, This.names[1]),
             result_func' = found.fn,
             functions' = found.fs, KeepScope, UNCHANGED <<insert, tree>>, Return("null")
      PROVE  BodyKept
  <2>1. stack # <<>> /\ ModuleStep
    BY <1>1, <1>4
  <2>2. BodyStep /\ Returned
    BY <1>4, <2>1, Stays, StepOfBody DEF Return, Returned
  <2> QED BY <2>1, <2>2, BodyKeeps DEF StackStep
<1>5. CASE PropagateNull("call.args")
  BY <1>5, NullPropagated
<1>6. CASE Succeeded("call.args") /\ Quiet /\ Visit([Top EXCEPT !.i = @ + 1], Top.i + 1)
  <2> DEFINE f == [Top EXCEPT !.i = @ + 1]
             i == Top.i + 1
  <2>1. BodyStep /\ stack # <<>> /\ Top.at = "call.args"
    BY <1>6, QuietStep DEF Visit, Succeeded
  <2>2. Top \in FrameType /\ FrameOK(Top, tree, functions, current)
    BY <2>1, TopFrame
  <2>3. i \in Nat
    BY <2>2 DEF FrameType
  <2>4. /\ f \in FrameType /\ f.at = "call.args" /\ f.path = Top.path /\ f.old = Top.old
        /\ f.fn = Top.fn
    BY <2>1, <2>2, <2>3 DEF FrameType
  <2>5. Visit(f, i)
    BY <1>6
  <2> HIDE DEF f, i
  <2>6. FrameOK(f, tree, functions, current)
    BY <2>1, <2>2, <2>4 DEF FrameOK, Placed, CalleeFound, OldKept, OldOwn
  <2>7. Visited(f, i)
    BY <2>1, <2>3, <2>4, <2>5, <2>6, FrameKept DEF Visited, Visit, NextFrame, Waiting
  <2> QED BY <2>1, <2>7, BodyKeeps DEF StackStep
<1>7. CASE Succeeded("call.args") /\ CreateCall(functions, CalleeF, This.names[1], This.n)
             /\ UNCHANGED result_func
  <2>1. At("call.args") /\ stack # <<>> /\ Top.at = "call.args"
    BY <1>7 DEF Succeeded, At
  <2>2. /\ FrameOK(Top, tree, functions, current)
        /\ functions \in Seq(FunctionType) /\ Len(functions) \in Nat
    BY <2>1, TopFrame
  <2>3. CalleeF \in 1..Len(functions) /\ functions[CalleeF].live
    BY <2>1, <2>2, LenProperties DEF FrameOK, CalleeFound, CalleeF
  <2>4. ModuleGrows(functions, functions, current)
    BY <2>2 DEF ModuleGrows
  <2>5. /\ result_func' \in 0..Len(functions)
        /\ result_func' # NoFunction => functions[result_func'].live
    BY <1>7 DEF CodegenInductive, TypeOK, ModuleSound
  <2> QED BY <1>7, <2>1, <2>2, <2>3, <2>4, <2>5, CallCreated
<1>8. visitCall =>
         \/ /\ At("call")
            /\ LET found == getFunction(functions, function_protos, This.names[1])
               IN /\ result_func' = found.fn
                  /\ \/ /\ found.fn # NoFunction
                        /\ CreateCall(found.fs, found.fn, This.names[1], 0)
                     \/ /\ found.fn # NoFunction /\ Len(found.fs[found.fn].args) = This.n
                        /\ functions' = found.fs /\ KeepScope /\ UNCHANGED <<insert, tree>>
                        /\ Visit([Top EXCEPT !.at = "call.args", !.fn = found.fn, !.i = 1], 1)
                     \/ functions' = found.fs /\ KeepScope /\ UNCHANGED <<insert, tree>> /\ Return("null")
         \/ PropagateNull("call.args")
         \/ Succeeded("call.args") /\ Quiet /\ Visit([Top EXCEPT !.i = @ + 1], Top.i + 1)
         \/ /\ Succeeded("call.args") /\ CreateCall(functions, CalleeF, This.names[1], This.n)
            /\ UNCHANGED result_func
  BY Zenon DEF visitCall
<1> QED BY <1>2, <1>3, <1>4, <1>5, <1>6, <1>7, <1>8, Zenon

LEMMA ForKeeps ==
    ASSUME CodegenInductive, visitFor
    PROVE  BodyKept
<1> DEFINE v == This.names[1]
           t == Len(Body) + 1
<1>1. CASE /\ At("for") /\ create_entry_block_alloca /\ KeepScope
           /\ UNCHANGED <<result_func, tree>>
           /\ Visit([Top EXCEPT !.at = "for.start", !.slot = NewAlloca], 1)
  <2> DEFINE f == [Top EXCEPT !.at = "for.start", !.slot = NewAlloca]
  <2>1. stack # <<>> /\ Top.at = "for"
    BY <1>1 DEF At
  <2>2. BodyStep
    BY <1>1, <2>1, Stays, AllocaCreated, StepOfBody DEF Visit, CodegenInductive, TypeOK
  <2>3. /\ Top \in FrameType /\ FrameOK(Top, tree, functions, current)
        /\ NewAlloca \in Alloca /\ NewAlloca.fn = current
    BY <2>1, TopFrame, AllocaCreated
  <2>4. /\ f \in FrameType /\ f.at = "for.start" /\ f.path = Top.path /\ f.old = Top.old
        /\ f.slot = NewAlloca
    BY <2>3 DEF FrameType, Waiting
  <2>5. Visit(f, 1)
    BY <1>1
  <2> HIDE DEF f
  <2>6. Of("for.start", tree[f.path].kind)
    BY <2>1, <2>4, TopFrame DEF Of, This
  <2>7. FrameOK(f, tree, functions, current)
    BY <2>1, <2>3, <2>4, <2>6 DEF FrameOK, Placed, CalleeFound, OldKept, OldOwn
  <2>8. Visited(f, 1)
    BY <2>2, <2>4, <2>5, <2>7, FrameKept DEF Visited, Visit, NextFrame, Waiting
  <2> QED BY <2>1, <2>2, <2>8, BodyKeeps DEF StackStep
<1>2. CASE /\ Succeeded("for.start") /\ Bind(v, Top.slot)
           /\ SetBlocks(LoopBlocks(t)) /\ insert' = t /\ UNCHANGED <<result_func, tree>>
           /\ Visit([Top EXCEPT !.at = "for.body", !.block = t, !.old = <<named_values[v]>>], 4)
  <2> DEFINE old == <<named_values[v]>>
             f == [Top EXCEPT !.at = "for.body", !.block = t, !.old = old]
  <2>1. At("for.start") /\ stack # <<>> /\ Top.at = "for.start"
    BY <1>2 DEF Succeeded, At
  <2>2. /\ Top \in FrameType /\ FrameOK(Top, tree, functions, current)
        /\ This \in Nodes /\ This.kind = "for"
        /\ named_values \in [Variables -> Alloca]
        /\ \A u \in Variables : Own(named_values[u], current)
    BY <2>1, TopFrame DEF Of
  <2>3. v \in Variables /\ Top.slot \in Alloca /\ Own(Top.slot, current)
    BY <2>1, <2>2, NodeFacts DEF FrameOK, OldOwn, Own, FrameType
  <2>4. t \in Nat /\ LoopBlocks(t) \in Seq(BlockType)
    BY <2>1, BlocksTyped
  <2>5. old \in Seq(Alloca) /\ Len(old) = 1 /\ \A j \in 1..1 : Own(old[j], current)
    BY <2>2, <2>3
  <2>6. Visit(f, 4)
    BY <1>2
  <2> HIDE DEF v, old, t
  <2>11. BodyStep
    <3>1. ScopeStep
      BY <1>2, <2>1, <2>3, Rebound
    <3> QED BY <1>2, <2>4, <3>1, BlocksStep DEF Visit
  <2>7. f \in FrameType /\ f.at = "for.body" /\ f.path = Top.path /\ f.old = old
    BY <2>2, <2>4, <2>5 DEF FrameType, Waiting
  <2> HIDE DEF f
  <2>8. Of("for.body", tree[f.path].kind)
    BY <2>2, <2>7 DEF Of, This
  <2>9. FrameOK(f, tree, functions, current)
    BY <2>1, <2>2, <2>5, <2>7, <2>8 DEF FrameOK, Placed, CalleeFound, OldKept, OldOwn
  <2>10. Visited(f, 4)
    BY <2>11, <2>6, <2>7, <2>9, FrameKept DEF Visited, Visit, NextFrame, Waiting
  <2> QED BY <2>1, <2>10, <2>11, BodyKeeps DEF StackStep
<1>3. ASSUME NEW from \in {"for.body", "for.step"}, Succeeded(from), Quiet,
             NEW at \in {"for.step", "for.end"}, NEW i \in Nat, VisitThen(i, at)
      PROVE  BodyKept
  <2> DEFINE f == [Top EXCEPT !.at = at]
  <2>1. BodyStep /\ stack # <<>> /\ Top.at = from
    BY <1>3, QuietStep DEF VisitThen, Visit, Succeeded
  <2>2. Top \in FrameType /\ FrameOK(Top, tree, functions, current) /\ This.kind = "for"
    BY <2>1, TopFrame DEF Of
  <2>3. at \in Waiting
    BY DEF Waiting
  <2>4. f \in FrameType /\ f.at = at /\ f.path = Top.path /\ f.old = Top.old
    BY <2>2, <2>3 DEF FrameType
  <2>5. Visit(f, i)
    BY <1>3 DEF VisitThen
  <2> HIDE DEF f
  <2>6. Of(at, tree[f.path].kind)
    BY <2>2, <2>4 DEF Of, This
  <2>7. FrameOK(f, tree, functions, current)
    BY <2>1, <2>2, <2>4, <2>6 DEF FrameOK, Placed, CalleeFound, OldKept, OldOwn
  <2>8. Visited(f, i)
    BY <2>1, <2>3, <2>4, <2>5, <2>7, FrameKept DEF Visited, Visit, NextFrame
  <2> QED BY <2>1, <2>8, BodyKeeps DEF StackStep
<1>4. CASE /\ Succeeded("for.end") /\ Bind(v, Top.old[1])
           /\ SetBlocks(AfterBlocks(t)) /\ insert' = t /\ UNCHANGED <<result_func, tree>>
           /\ Return("value")
  <2>1. At("for.end") /\ stack # <<>> /\ Top.at = "for.end"
    BY <1>4 DEF Succeeded, At
  <2>2. /\ Top \in FrameType /\ FrameOK(Top, tree, functions, current)
        /\ This \in Nodes /\ This.kind = "for"
    BY <2>1, TopFrame DEF Of
  <2>3. v \in Variables
    BY <2>2, NodeFacts
  <2>4. Len(Top.old) = 1 /\ Top.old \in Seq(Alloca) /\ \A j \in 1..Len(Top.old) : Own(Top.old[j], current)
    BY <2>1, <2>2 DEF FrameOK, OldKept, OldOwn, FrameType
  <2>5. Top.old[1] \in Alloca /\ Own(Top.old[1], current)
    BY <2>4, ElementOfSeq
  <2>7. t \in Nat /\ AfterBlocks(t) \in Seq(BlockType)
    BY <2>1, BlocksTyped
  <2>8. ScopeStep
    BY <1>4, <2>1, <2>3, <2>5, Rebound
  <2> HIDE DEF t, v
  <2>6. BodyStep /\ Returned
    BY <1>4, <2>7, <2>8, BlocksStep DEF Return, Returned
  <2> QED BY <2>1, <2>6, BodyKeeps DEF StackStep
<1>5. CASE \E at \in {"for.start", "for.body", "for.step", "for.end"} : PropagateNull(at)
  BY <1>5, NullPropagated
<1>6. visitFor =>
         \/ /\ At("for") /\ create_entry_block_alloca /\ KeepScope
            /\ UNCHANGED <<result_func, tree>>
            /\ Visit([Top EXCEPT !.at = "for.start", !.slot = NewAlloca], 1)
         \/ /\ Succeeded("for.start") /\ Bind(v, Top.slot)
            /\ SetBlocks(LoopBlocks(t)) /\ insert' = t /\ UNCHANGED <<result_func, tree>>
            /\ Visit([Top EXCEPT !.at = "for.body", !.block = t, !.old = <<named_values[v]>>], 4)
         \/ Succeeded("for.body") /\ Quiet /\ VisitThen(3, "for.step")
         \/ Succeeded("for.body") /\ Quiet /\ VisitThen(2, "for.end")
         \/ Succeeded("for.step") /\ Quiet /\ VisitThen(2, "for.end")
         \/ /\ Succeeded("for.end") /\ Bind(v, Top.old[1])
            /\ SetBlocks(AfterBlocks(t)) /\ insert' = t /\ UNCHANGED <<result_func, tree>>
            /\ Return("value")
         \/ \E at \in {"for.start", "for.body", "for.step", "for.end"} : PropagateNull(at)
  BY Zenon DEF visitFor, FallThrough, LoopBlocks, AfterBlocks
<1> HIDE DEF v, t
<1>7. /\ 2 \in Nat /\ 3 \in Nat
      /\ "for.body" \in {"for.body", "for.step"} /\ "for.step" \in {"for.body", "for.step"}
      /\ "for.step" \in {"for.step", "for.end"} /\ "for.end" \in {"for.step", "for.end"}
  OBVIOUS
<1>8. \/ Succeeded("for.body") /\ Quiet /\ VisitThen(3, "for.step")
      \/ Succeeded("for.body") /\ Quiet /\ VisitThen(2, "for.end")
      \/ Succeeded("for.step") /\ Quiet /\ VisitThen(2, "for.end")
      => BodyKept
  BY <1>3, <1>7
<1> QED BY <1>1, <1>2, <1>4, <1>5, <1>6, <1>8

(* What a list of bindings is restored to, and the arguments of a function *)
(* are bound to.                                                           *)
LEMMA PlacesOf ==
    ASSUME NEW S, NEW names \in Seq(S), NEW v, Places(names, v) # {}
    PROVE  /\ Max(Places(names, v)) \in 1..Len(names)
           /\ names[Max(Places(names, v))] = v
           /\ Min(Places(names, v)) \in 1..Len(names)
<1>1. Len(names) \in Nat /\ Places(names, v) \in SUBSET (1..Len(names))
  BY LenProperties DEF Places
<1>2. Max(Places(names, v)) \in Places(names, v)
  BY <1>1, Largest
<1>3. Min(Places(names, v)) \in Places(names, v)
  BY <1>1, Smallest
<1> QED BY <1>1, <1>2, <1>3 DEF Places

LEMMA RestoreStep ==
    ASSUME CodegenInductive, stack # <<>>, Top.at = "var.body",
           named_values' = Restored(This.names, Top.old)
    PROVE  /\ ScopeStep
           /\ This.names \in Seq(Variables)
           /\ \A v \in Variables :
                 \/ Places(This.names, v) = {} /\ named_values'[v] = named_values[v]
                 \/ \E j \in 1..Len(This.names) :
                       This.names[j] = v /\ named_values'[v] = Top.old[j]
<1> DEFINE names == This.names
           old == Top.old
<1>1. /\ Top \in FrameType /\ FrameOK(Top, tree, functions, current)
      /\ This \in Nodes /\ This.kind = "var"
      /\ named_values \in [Variables -> Alloca]
      /\ \A u \in Variables : Own(named_values[u], current)
  BY TopFrame DEF Of
<1>2. names \in Seq(Variables) /\ Len(names) \in Nat
  BY <1>1, NodeFacts
<1>3. Len(old) = Len(names) /\ old \in Seq(Alloca) /\ \A j \in 1..Len(old) : Own(old[j], current)
  BY <1>1 DEF FrameOK, OldKept, OldOwn, FrameType, This
<1>4. \A j \in 1..Len(names) : old[j] \in Alloca /\ Own(old[j], current)
  BY <1>3, ElementOfSeq
<1> HIDE DEF names, old
<1>5. named_values' = [v \in Variables |->
          IF Places(names, v) = {} THEN named_values[v] ELSE old[Max(Places(names, v))]]
  BY DEF Restored, names, old
<1>6. ASSUME NEW v \in Variables
      PROVE  /\ named_values'[v] \in Alloca /\ Own(named_values'[v], current)
             /\ \/ Places(names, v) = {} /\ named_values'[v] = named_values[v]
                \/ \E j \in 1..Len(names) : names[j] = v /\ named_values'[v] = old[j]
  <2>1. CASE Places(names, v) = {}
    BY <1>1, <1>5, <2>1
  <2>2. CASE Places(names, v) # {}
    <3> DEFINE j == Max(Places(names, v))
    <3>1. j \in 1..Len(names) /\ names[j] = v
      BY <1>2, <2>2, PlacesOf
    <3>2. named_values'[v] = old[j]
      BY <1>5, <2>2
    <3> HIDE DEF j
    <3> QED BY <1>4, <3>1, <3>2
  <2> QED BY <2>1, <2>2
<1>7. named_values' \in [Variables -> Alloca]
  BY <1>5, <1>6
<1> QED BY <1>2, <1>6, <1>7 DEF ScopeStep, names, old

LEMMA NextBound ==
    ASSUME CodegenInductive, NEW at \in {"var", "var.init"}, At(at), result_val' = result_val,
           Top.i < Len(This.names), BindNext
    PROVE  BodyKept
<1> DEFINE i == Top.i + 1
           name == This.names[i]
           old == Append(Top.old, named_values[name])
           f == [Top EXCEPT !.at = "var", !.i = i, !.old = old]
<1>1. stack # <<>> /\ Top.at = at
  BY DEF At
<1>2. /\ Top \in FrameType /\ FrameOK(Top, tree, functions, current)
      /\ This \in Nodes /\ This.kind = "var"
      /\ named_values \in [Variables -> Alloca]
      /\ \A u \in Variables : Own(named_values[u], current)
  BY <1>1, TopFrame DEF Of
<1>3. This.names \in Seq(Variables) /\ Len(This.names) \in Nat
  BY <1>2, NodeFacts
<1>4. Top.i \in Nat /\ Len(Top.old) = Top.i /\ Top.old \in Seq(Alloca)
  BY <1>1, <1>2 DEF FrameOK, OldKept, FrameType
<1>5. i \in Nat /\ i \in 1..Len(This.names) /\ i <= Len(This.names)
  BY <1>3, <1>4
<1>6. name \in Variables
  BY <1>3, <1>5, ElementOfSeq
<1>7. /\ create_entry_block_alloca /\ Bind(name, NewAlloca)
      /\ UNCHANGED <<result_func, tree>> /\ Continue(f)
  BY DEF BindNext
<1>8. named_values[name] \in Alloca /\ Own(named_values[name], current)
  BY <1>2, <1>6
<1> HIDE DEF name
<1>9. /\ old \in Seq(Alloca) /\ Len(old) = i
      /\ \A j \in 1..Len(old) : Own(old[j], current)
  <2>1. /\ old \in Seq(Alloca) /\ Len(old) = Top.i + 1
        /\ old[Top.i + 1] = named_values[name]
        /\ \A j \in 1..Top.i : old[j] = Top.old[j]
    BY <1>4, <1>8, Pushed
  <2>2. \A j \in 1..Top.i : Own(Top.old[j], current)
    BY <1>2, <1>4 DEF FrameOK, OldOwn
  <2>3. \A j \in 1..(Top.i + 1) : j = Top.i + 1 \/ j \in 1..Top.i
    BY <1>4
  <2> QED BY <1>8, <2>1, <2>2, <2>3
<1>10. BodyStep
  <2>1. NewAlloca \in Alloca /\ Own(NewAlloca, current) /\ ModuleStep
    BY <1>1, <1>7, AllocaCreated DEF Own
  <2>2. ScopeStep
    BY <1>1, <1>6, <1>7, <2>1, Rebound
  <2>3. TreeStep /\ result_val' \in {"null", "value"}
    BY <1>1, <1>7, Stays DEF CodegenInductive, TypeOK
  <2> QED BY <2>1, <2>2, <2>3, StepOfBody
<1> HIDE DEF i, old
<1>11. f \in FrameType /\ f.at = "var" /\ f.path = Top.path /\ f.i = i /\ f.old = old
  BY <1>2, <1>5, <1>9 DEF FrameType, Starting
<1> HIDE DEF f
<1>12. Placed(f, tree) /\ CalleeFound(f, tree, functions)
  BY <1>1, <1>2, <1>11 DEF FrameOK, Placed, Of, CalleeFound, This
<1>13. OldKept(f, tree) /\ OldOwn(f, current)
  BY <1>5, <1>9, <1>11 DEF OldKept, OldOwn, This
<1>14. Continued(f)
  BY <1>7, <1>10, <1>11, <1>12, <1>13, FrameKept DEF Continued, Continue, NextFrame, FrameOK
<1> QED BY <1>1, <1>10, <1>14, BodyKeeps DEF StackStep

LEMMA VarKeeps ==
    ASSUME CodegenInductive, visitVar
    PROVE  BodyKept
<1>1. ASSUME At("var"), Quiet, NEW i \in Nat, NEW at \in {"var.init", "var.body"}, VisitThen(i, at),
             at = "var.init" => Top.i < This.n,
             at = "var.body" => Top.i = Len(This.names)
      PROVE  BodyKept
  <2> DEFINE f == [Top EXCEPT !.at = at]
  <2>1. BodyStep /\ stack # <<>> /\ Top.at = "var"
    BY <1>1, QuietStep DEF VisitThen, Visit
  <2>2. Top \in FrameType /\ FrameOK(Top, tree, functions, current) /\ This.kind = "var"
    BY <2>1, TopFrame DEF Of
  <2>3. at \in Waiting
    BY DEF Waiting
  <2>4. f \in FrameType /\ f.at = at /\ f.path = Top.path /\ f.old = Top.old /\ f.i = Top.i
    BY <2>2, <2>3 DEF FrameType
  <2>5. Visit(f, i)
    BY <1>1 DEF VisitThen
  <2> HIDE DEF f
  <2>6. Placed(f, tree) /\ CalleeFound(f, tree, functions) /\ OldOwn(f, current)
    BY <2>1, <2>2, <2>4 DEF FrameOK, Placed, Of, CalleeFound, OldOwn, This
  <2>7. OldKept(f, tree)
    BY <1>1, <2>1, <2>2, <2>4 DEF FrameOK, OldKept, This
  <2>8. Visited(f, i)
    BY <2>1, <2>3, <2>4, <2>5, <2>6, <2>7, FrameKept DEF Visited, Visit, NextFrame, FrameOK
  <2> QED BY <2>1, <2>8, BodyKeeps DEF StackStep
<1>2. CASE At("var") /\ Top.i < This.n /\ Quiet /\ VisitThen(Top.i + 1, "var.init")
  <2>1. Top.i + 1 \in Nat
    BY <1>2, TopFrame DEF At, FrameType
  <2> DEFINE i == Top.i + 1
  <2>2. i \in Nat /\ VisitThen(i, "var.init")
    BY <1>2, <2>1
  <2> HIDE DEF i
  <2> QED BY <1>1, <1>2, <2>2
<1>3. CASE Succeeded("var.init") /\ BindNext
  <2>1. At("var.init") /\ stack # <<>> /\ Top.at = "var.init"
    BY <1>3 DEF Succeeded, At
  <2>2. /\ Top \in FrameType /\ FrameOK(Top, tree, functions, current)
        /\ This \in Nodes /\ This.kind = "var"
    BY <2>1, TopFrame DEF Of
  <2>3. Top.i \in Nat /\ Top.i < This.n
    BY <2>1, <2>2 DEF FrameOK, OldKept, This, FrameType
  <2>4. Len(This.names) \in Nat /\ This.n \in 0..Len(This.names)
    BY <2>2, NodeFacts
  <2>5. Top.i < Len(This.names)
    BY <2>3, <2>4
  <2>6. result_val' = result_val
    BY <1>3 DEF BindNext, Continue
  <2> QED BY <1>3, <2>1, <2>5, <2>6, NextBound
<1>4. CASE At("var") /\ Top.i < Len(This.names) /\ BindNext
  <2>1. result_val' = result_val
    BY <1>4 DEF BindNext, Continue
  <2> QED BY <1>4, <2>1, NextBound
<1>5. CASE At("var") /\ Top.i = Len(This.names) /\ Quiet /\ VisitThen(0, "var.body")
  BY <1>1, <1>5
<1>6. CASE /\ Succeeded("var.body") /\ named_values' = Restored(This.names, Top.old)
           /\ Emit({}) /\ Return("value")
  <2>1. At("var.body") /\ stack # <<>> /\ Top.at = "var.body"
    BY <1>6 DEF Succeeded, At
  <2>2. BodyStep /\ Returned
    BY <1>6, <2>1, RestoreStep, EmitStep DEF Return, Returned
  <2> QED BY <2>1, <2>2, BodyKeeps DEF StackStep
<1>7. CASE \E at \in {"var.init", "var.body"} : PropagateNull(at)
  BY <1>7, NullPropagated
<1> QED BY <1>2, <1>3, <1>4, <1>5, <1>6, <1>7, Zenon DEF visitVar

-----------------------------------------------------------------------------
(* So do the items of main_loop.                                           *)

(* Between two functions there is no visit.                                *)
LEMMA BetweenItems ==
    ASSUME CodegenInductive, current = NoFunction
    PROVE  /\ stack = <<>>
           /\ functions \in Seq(FunctionType) /\ Len(functions) \in Nat
           /\ DOMAIN functions = 1..Len(functions)
           /\ \A i \in 1..Len(functions) :
                 /\ functions[i] \in FunctionType
                 /\ \A c \in functions[i].calls :
                       c.fn \in 1..Len(functions) /\ c.item <= items /\ c.item \in Nat
           /\ items \in Nat
<1>1. functions \in Seq(FunctionType)
  BY DEF CodegenInductive, TypeOK
<1>2. /\ Len(functions) \in Nat /\ DOMAIN functions = 1..Len(functions)
      /\ \A i \in 1..Len(functions) : functions[i] \in FunctionType
  BY <1>1, LenProperties, ElementOfSeq
<1>3. \A i \in 1..Len(functions) : \A c \in functions[i].calls : c.item \in Nat
  BY <1>2 DEF FunctionType
<1>4. items \in Nat
  BY CodegenAssumption DEF CodegenInductive, TypeOK
<1> QED BY <1>1, <1>2, <1>3, <1>4 DEF CodegenInductive, Visits, ModuleSound

LEMMA NoVisits ==
    ASSUME stack' = <<>>
    PROVE  Visits' /\ stack' \in Seq(FrameType)
<1>1. Len(stack') = 0 /\ \A k : k \notin 1..0 /\ k \notin 1..(0 - 1)
  OBVIOUS
<1> QED BY <1>1 DEF Visits

LEMMA PrototypeKeeps ==
    ASSUME CodegenInductive, visitPrototype
    PROVE  CodegenInductive' /\ Lasting(functions, functions') /\ stack = <<>>
<1>1. /\ current = NoFunction /\ items < MaxItems /\ items' = items + 1
      /\ result_func' = Len(functions) + 1
      /\ UNCHANGED <<function_protos, named_values, insert, result_val, current, tree, stack, status>>
  BY DEF visitPrototype, NextItem
<1>2. PICK name \in FunctionNames, args \in ArgLists :
         functions' = Append(functions,
             Declaration(IF Found(functions, name) = {} THEN name ELSE "renamed", args))
  BY DEF visitPrototype
<1> DEFINE d == Declaration(IF Found(functions, name) = {} THEN name ELSE "renamed", args)
           n == Len(functions)
<1>3. d \in FunctionType /\ d.live /\ d.calls = {}
  BY DEF Declaration, FunctionType
<1>4. functions' = Append(functions, d)
  BY <1>2
<1> HIDE DEF d
<1>5. /\ stack = <<>> /\ functions \in Seq(FunctionType) /\ n \in Nat
      /\ DOMAIN functions = 1..n
      /\ \A i \in 1..n : \A c \in functions[i].calls :
            c.fn \in 1..n /\ c.item <= items /\ c.item \in Nat
      /\ items \in Nat
  BY <1>1, BetweenItems
<1>6. /\ functions' \in Seq(FunctionType) /\ Len(functions') = n + 1
      /\ functions'[n + 1] = d
      /\ \A i \in 1..n : functions'[i] = functions[i]
  BY <1>3, <1>4, <1>5, Pushed
<1> HIDE DEF n
<1>7. /\ DOMAIN functions' = 1..(n + 1) /\ 1..n \subseteq 1..(n + 1) /\ n + 1 \in 1..(n + 1)
      /\ \A i \in 1..(n + 1) : i = n + 1 \/ i \in 1..n
      /\ \A i \in 1..(n + 1) : i # current
      /\ n + 1 \in 0..(n + 1)
  BY <1>1, <1>5, <1>6, LenProperties DEF NoFunction
<1>8. ModuleSound'
  <2>1. \A i \in 1..(n + 1) : \A c \in functions'[i].calls :
           i \in 1..n /\ c \in functions[i].calls /\ c.fn \in 1..n
    BY <1>3, <1>5, <1>6, <1>7
  <2>2. \A i \in DOMAIN functions' : \A c \in functions'[i].calls :
           c.fn \in DOMAIN functions' /\ c.item <= items'
    BY <1>1, <1>5, <1>7, <2>1
  <2>3. CalleesLive'
    <3>1. \A i \in 1..n : functions[i].live =>
             \A c \in functions[i].calls : ~functions[c.fn].live => c.item < functions[c.fn].item
      BY <1>5 DEF CodegenInductive, ModuleSound, CalleesLive
    <3> QED BY <1>6, <1>7, <2>1, <3>1 DEF CalleesLive
  <2>4. functions'[result_func'].live
    BY <1>1, <1>3, <1>6 DEF n
  <2> QED BY <1>1, <2>2, <2>3, <2>4 DEF ModuleSound
<1>9. TypeOK'
  <2>1. items' \in 0..MaxItems
    BY <1>1, CodegenAssumption DEF CodegenInductive, TypeOK
  <2>2. result_func' \in 0..Len(functions')
    BY <1>1, <1>6, <1>7 DEF n
  <2>3. current' \in 0..Len(functions')
    BY <1>1, <1>5, <1>6 DEF NoFunction
  <2> QED BY <1>1, <1>6, <2>1, <2>2, <2>3 DEF CodegenInductive, TypeOK
<1>10. Visits' /\ ScopeOwn'
  BY <1>1, <1>5, NoVisits DEF ScopeOwn
<1>11. Lasting(functions, functions')
  <2>1. n <= Len(functions')
    BY <1>5, <1>6
  <2> QED BY <1>6, <2>1 DEF Lasting, n
<1> QED BY <1>5, <1>8, <1>9, <1>10, <1>11 DEF CodegenInductive

LEMMA BeginKeeps ==
    ASSUME CodegenInductive, beginFunction
    PROVE  /\ CodegenInductive'
           /\ Lasting(functions, functions')
           /\ current' \in 1..Len(functions')
           /\ \A i \in 1..Len(functions') :
                 \/ i \in 1..Len(functions) /\ i # current'
                       /\ functions'[i].blocks = functions[i].blocks
                 \/ i \notin 1..Len(functions) /\ i # current' /\ functions'[i].blocks = <<>>
                 \/ /\ i = current'
                    /\ \E blocks \in Seq(BlockType) :
                          /\ blocks = <<>> \/ (i \in 1..Len(functions) /\ blocks = functions[i].blocks)
                          /\ functions'[i].blocks = Append(blocks, Block(TRUE))
                          /\ insert' = Len(blocks) + 1
<1>1. /\ current = NoFunction /\ items < MaxItems /\ items' = items + 1
      /\ tree' = <<>> /\ stack' = <<Frame(<<>>)>>
      /\ UNCHANGED <<result_val, status>>
  BY DEF beginFunction, NextItem
<1> DEFINE Begun(name, args, found) ==
              /\ function_protos' = With(function_protos, name, args)
              /\ found = getFunction(functions, function_protos', name)
              /\ current' = found.fn
              /\ result_func' = found.fn
              /\ named_values' = Arguments(found.fn, found.fs[found.fn])
              /\ functions' = [found.fs EXCEPT ![found.fn] =
                    Define(found.fs[found.fn], items')]
              /\ insert' = Len(found.fs[found.fn].blocks) + 1
<1>2. \E name \in FunctionNames, args \in ArgLists : \E found : Begun(name, args, found)
  BY Zenon DEF beginFunction
<1>2a. PICK name \in FunctionNames, args \in ArgLists : \E found : Begun(name, args, found)
  BY <1>2
<1>3. PICK found : Begun(name, args, found)
  BY <1>2a
<1> DEFINE fs == found.fs
           fn == found.fn
           f == fs[fn]
           g == Define(f, items')
           n == Len(functions)
           m == Len(fs)
<1>4. /\ functions \in Seq(FunctionType) /\ n \in Nat
      /\ DOMAIN functions = 1..n
      /\ \A i \in 1..n : \A c \in functions[i].calls :
            c.fn \in 1..n /\ c.item <= items /\ c.item \in Nat
      /\ items \in Nat
  BY <1>1, BetweenItems
<1>5. /\ \A p \in DOMAIN function_protos' : p \in FunctionNames /\ function_protos'[p] \in ArgLists
      /\ name \in DOMAIN function_protos'
  BY <1>3 DEF With, CodegenInductive, TypeOK
<1>6. /\ fs \in Seq(FunctionType)
      /\ ModuleGrows(functions, fs, NoFunction)
      /\ fn \in 0..m /\ fn # NoFunction /\ f.live
      /\ fs = functions \/ (m = n + 1 /\ fn = n + 1)
  <2>1. result_func \in 0..Len(functions) /\ (result_func # NoFunction => functions[result_func].live)
    BY DEF CodegenInductive, TypeOK, ModuleSound
  <2> DEFINE protos == function_protos'
  <2>2. found = getFunction(functions, protos, name)
    BY <1>3
  <2>3. /\ \A p \in DOMAIN protos : p \in FunctionNames /\ protos[p] \in ArgLists
        /\ name \in DOMAIN protos
    BY <1>5
  <2> HIDE DEF protos
  <2>4. /\ found.fs \in Seq(FunctionType)
        /\ ModuleGrows(functions, found.fs, NoFunction)
        /\ found.fn \in 0..Len(found.fs)
        /\ found.fn # NoFunction => found.fs[found.fn].live
        /\ name \in DOMAIN protos => found.fn # NoFunction
        /\ \/ found.fs = functions
           \/ Len(found.fs) = Len(functions) + 1 /\ found.fn = Len(functions) + 1
    <3>1. functions \in Seq(FunctionType)
      BY <1>4
    <3>2. \A p \in DOMAIN protos : p \in FunctionNames /\ protos[p] \in ArgLists
      BY <2>3
    <3>3. /\ found.fs \in Seq(FunctionType)
          /\ ModuleGrows(functions, found.fs, NoFunction)
          /\ found.fn \in 0..Len(found.fs)
          /\ found.fn # NoFunction => found.fs[found.fn].live
      BY <2>1, <2>2, <3>1, <3>2, LookedUp
    <3>4. /\ name \in DOMAIN protos => found.fn # NoFunction
          /\ \/ found.fs = functions
             \/ Len(found.fs) = Len(functions) + 1 /\ found.fn = Len(functions) + 1
      BY <2>1, <2>2, <3>1, <3>2, <3>3, LookedUp
    <3> QED BY <3>3, <3>4
  <2> QED BY <2>3, <2>4
<1>7. /\ m \in Nat /\ n <= m /\ fn \in 1..m /\ f \in FunctionType
      /\ \A i \in 1..m : fs[i] \in FunctionType
  <2>1. m \in Nat /\ fn \in 1..m
    BY <1>6, LenProperties DEF NoFunction
  <2>2. n <= m
    BY <1>6 DEF ModuleGrows
  <2> QED BY <1>6, <2>1, <2>2, ElementOfSeq
<1>8. /\ \A i \in 1..m : i \in 1..n \/ (i \in (n + 1)..m /\ i \notin 1..n /\ fs[i].live
                                          /\ fs[i].blocks = <<>> /\ fs[i].calls = {})
      /\ \A i \in 1..n : /\ fs[i].live = functions[i].live /\ fs[i].item = functions[i].item
                         /\ fs[i].blocks = functions[i].blocks
                         /\ fs[i].calls \subseteq functions[i].calls
                         /\ i \in 1..m
  <2>1. \A i \in 1..m : i \in 1..n \/ (i \in (n + 1)..m /\ i \notin 1..n)
    BY <1>4, <1>7
  <2>2. \A i \in 1..n : i # NoFunction /\ i \in 1..m
    BY <1>4, <1>7 DEF NoFunction
  <2> QED BY <1>6, <2>1, <2>2 DEF ModuleGrows
<1>9. /\ g \in FunctionType /\ g.args = f.args /\ g.live = f.live
      /\ g.item = items' /\ g.calls = f.calls
      /\ g.blocks = Append(f.blocks, Block(TRUE))
      /\ f.blocks \in Seq(BlockType)
  <2>1. /\ f.args \in ArgLists /\ f.allocas \in Nat /\ f.blocks \in Seq(BlockType)
    BY <1>7 DEF FunctionType
  <2>2. Len(f.args) \in Nat
    BY SMTT(30), <2>1, ListOfArgs
  <2>3. items' \in Nat
    BY <1>1, <1>4
  <2> HIDE DEF f
  <2>4. /\ f.allocas + Len(f.args) \in Nat
        /\ Append(f.blocks, Block(TRUE)) \in Seq(BlockType)
    <3>1. f.allocas + Len(f.args) \in Nat
      BY <2>1, <2>2
    <3>2. Block(TRUE) \in BlockType
      BY NewBlock
    <3>3. Append(f.blocks, Block(TRUE)) \in Seq(BlockType)
      BY <2>1, <3>2, Pushed
    <3> QED BY <3>1, <3>3
  <2>5. g = [f EXCEPT !.item = items', !.blocks = Append(@, Block(TRUE)), !.allocas = @ + Len(f.args)]
    BY DEF Define
  <2> QED BY ZenonT(40), <1>7, <2>1, <2>3, <2>4, <2>5 DEF FunctionType
<1>10. functions' = [fs EXCEPT ![fn] = g] /\ current' = fn /\ result_func' = fn
  BY <1>3
<1> HIDE DEF g
<1>11. /\ functions' \in Seq(FunctionType) /\ Len(functions') = m /\ DOMAIN functions' = 1..m
       /\ functions'[fn] = g
       /\ \A i \in 1..m : i # fn => functions'[i] = fs[i]
  <2>1. /\ functions' \in Seq(FunctionType) /\ Len(functions') = Len(fs)
        /\ functions'[fn] = g
        /\ \A i \in 1..Len(fs) : i # fn => functions'[i] = fs[i]
    BY <1>6, <1>7, <1>9, <1>10, Touched
  <2> QED BY <2>1, LenProperties
<1>12. /\ named_values' \in [Variables -> Alloca]
       /\ \A v \in Variables : Own(named_values'[v], fn)
  <2>0. f.args \in ArgLists /\ f.allocas \in Nat
    BY <1>7 DEF FunctionType
  <2>1. f.args \in Seq(Variables) /\ Len(f.args) \in Nat
    BY <2>0, ListOfArgs
  <2>2. named_values' = [v \in Variables |->
            IF Places(f.args, v) = {} THEN NoAlloca
            ELSE [fn |-> fn, n |-> f.allocas + Min(Places(f.args, v))]]
    BY <1>3 DEF Arguments
  <2>3. \A v \in Variables : Places(f.args, v) # {} => f.allocas + Min(Places(f.args, v)) \in Nat
    BY <2>0, <2>1, PlacesOf
  <2>4. fn \in Nat /\ NoAlloca \in Alloca
    BY <1>7 DEF NoAlloca, NoFunction, Alloca
  <2> HIDE DEF f, fn
  <2>5. \A v \in Variables : named_values'[v] \in Alloca /\ Own(named_values'[v], fn)
    BY <2>2, <2>3, <2>4 DEF Alloca, Own
  <2> QED BY <2>2, <2>5
<1> HIDE DEF m, n, fs, fn, Begun
<1>13. ModuleSound'
  <2> USE <1>10, <1>11
  <2>1. /\ functions'[fn].live /\ functions'[fn].item = items'
        /\ \A i \in 1..m : /\ functions'[i].calls = fs[i].calls
                           /\ functions'[i].live = fs[i].live
    BY <1>6, <1>9
  <2>2. ASSUME NEW i \in 1..m, NEW c \in functions'[i].calls
        PROVE  i \in 1..n /\ c \in functions[i].calls /\ c.fn \in 1..n /\ c.fn \in 1..m /\ c.item < items'
    <3>1. i \in 1..n /\ c \in functions[i].calls
      BY <1>8, <2>1, <2>2
    <3>2. c.fn \in 1..n /\ c.item <= items /\ c.item \in Nat /\ items \in Nat
      BY <1>4, <3>1
    <3> QED BY <1>1, <1>8, <3>1, <3>2
  <2>3. \A i \in 1..m : \A c \in functions'[i].calls : c.fn \in 1..m /\ c.item <= items'
    <3>1. \A i \in 1..n : \A c \in functions[i].calls : c.item \in Nat
      BY <1>4
    <3> QED BY <1>1, <1>4, <2>2, <3>1
  <2>4. ASSUME NEW i \in 1..m, functions'[i].live, NEW c \in functions'[i].calls,
               ~functions'[c.fn].live
        PROVE  c.item < functions'[c.fn].item
    <3>1. i \in 1..n /\ functions[i].live /\ c \in functions[i].calls /\ c.fn \in 1..n
      BY <1>8, <2>1, <2>2, <2>4
    <3>2. ~functions[c.fn].live /\ c.fn # fn
      BY <1>6, <1>8, <2>1, <2>4, <3>1
    <3>3. c.item < functions[c.fn].item
      BY <1>4, <3>1, <3>2 DEF CodegenInductive, ModuleSound, CalleesLive
    <3> QED BY <1>8, <3>1, <3>2, <3>3
  <2> QED BY <2>1, <2>2, <2>3, <2>4 DEF ModuleSound, CalleesLive
<1>14. Visits' /\ stack' \in Seq(FrameType)
  <2>1. <<>> \in Seq(Nat)
    OBVIOUS
  <2> DEFINE h == Frame(<<>>)
  <2>2. h \in FrameType /\ FrameOK(h, tree', functions', current')
    BY <1>12, <2>1, NewFrame
  <2>3. stack' = <<h>>
    BY <1>1
  <2> HIDE DEF h
  <2>4. /\ stack' \in Seq(FrameType) /\ Len(stack') = 1 /\ stack'[1] = h
        /\ \A k \in 1..1 : k = 1
        /\ \A k : k \notin 1..(1 - 1)
    BY <2>2, <2>3
  <2> QED BY <1>6, <1>10, <2>2, <2>4 DEF Visits
<1>15. TypeOK'
  <2>1. items' \in 0..MaxItems
    BY <1>1, CodegenAssumption DEF CodegenInductive, TypeOK
  <2>2. fn \in 0..Len(functions')
    BY <1>6, <1>11
  <2>3. tree' = <<>> /\ \A path : path \notin DOMAIN tree'
    BY <1>1
  <2>4. insert' \in Nat
    <3>1. insert' = Len(f.blocks) + 1 /\ f.blocks \in Seq(BlockType)
      BY <1>3, <1>9 DEF Begun, fs, fn
    <3> QED BY <3>1, LenProperties
  <2> QED BY <1>1, <1>5, <1>10, <1>11, <1>12, <1>14, <2>1, <2>2, <2>3, <2>4 DEF CodegenInductive, TypeOK
<1>16. ScopeOwn'
  BY <1>10, <1>12 DEF ScopeOwn
<1>17. Lasting(functions, functions')
  BY <1>7, <1>11 DEF Lasting, n
<1>18. \A i \in 1..m :
          \/ i \in 1..n /\ i # fn /\ functions'[i].blocks = functions[i].blocks
          \/ i \notin 1..n /\ i # fn /\ functions'[i].blocks = <<>>
          \/ /\ i = fn
             /\ fs[i].blocks \in Seq(BlockType)
             /\ fs[i].blocks = <<>> \/ (i \in 1..n /\ fs[i].blocks = functions[i].blocks)
             /\ functions'[i].blocks = Append(fs[i].blocks, Block(TRUE))
             /\ insert' = Len(fs[i].blocks) + 1
  <2>1. insert' = Len(fs[fn].blocks) + 1
    BY <1>3 DEF Begun, fs, fn
  <2>2. /\ functions'[fn].blocks = Append(fs[fn].blocks, Block(TRUE))
        /\ fs[fn].blocks \in Seq(BlockType)
    BY <1>9, <1>11
  <2> SUFFICES ASSUME NEW i \in 1..m
               PROVE  \/ i \in 1..n /\ i # fn /\ functions'[i].blocks = functions[i].blocks
                      \/ i \notin 1..n /\ i # fn /\ functions'[i].blocks = <<>>
                      \/ /\ i = fn
                         /\ fs[i].blocks \in Seq(BlockType)
                         /\ fs[i].blocks = <<>> \/ (i \in 1..n /\ fs[i].blocks = functions[i].blocks)
                         /\ functions'[i].blocks = Append(fs[i].blocks, Block(TRUE))
                         /\ insert' = Len(fs[i].blocks) + 1
    OBVIOUS
  <2>3. \/ i \in 1..n /\ fs[i].blocks = functions[i].blocks
        \/ i \notin 1..n /\ fs[i].blocks = <<>>
    BY <1>8
  <2>4. CASE i # fn
    <3>1. functions'[i] = fs[i]
      BY <1>11, <2>4
    <3> QED BY <2>3, <2>4, <3>1
  <2>5. CASE i = fn
    <3> HIDE DEF n, fs, m, f, g
    <3> QED BY <2>1, <2>2, <2>3, <2>5
  <2> QED BY <2>4, <2>5
<1> QED BY <1>7, <1>10, <1>11, <1>13, <1>14, <1>15, <1>16, <1>17, <1>18 DEF CodegenInductive, n

LEMMA EndKeeps ==
    ASSUME CodegenInductive, endFunction
    PROVE  /\ CodegenInductive' /\ Lasting(functions, functions')
           /\ \A i \in 1..Len(functions) :
                 functions'[i].blocks =
                     IF i # current THEN functions[i].blocks
                     ELSE IF Failed THEN <<>> ELSE Branch({})
<1>1. /\ current # NoFunction /\ stack = <<>> /\ current' = NoFunction
      /\ UNCHANGED <<function_protos, named_values, insert, result_val, tree, stack, items, status>>
      /\ IF Failed
         THEN functions' = [functions EXCEPT ![current] = Erased(@)] /\ result_func' = NoFunction
         ELSE functions' = [functions EXCEPT ![current].blocks = Branch({})] /\ result_func' = current
  BY DEF endFunction, SetBlocks
<1> DEFINE f == functions[current]
           n == Len(functions)
           g == IF Failed THEN Erased(f) ELSE [f EXCEPT !.blocks = Branch({})]
<1>2. functions \in Seq(FunctionType) /\ current \in 0..n /\ ModuleSound
  BY DEF CodegenInductive, TypeOK
<1>3. n \in Nat /\ current \in 1..n /\ DOMAIN functions = 1..n
  BY <1>1, <1>2, LenProperties DEF NoFunction
<1>4. f \in FunctionType /\ f.live /\ f.item = items
  <2>1. f \in FunctionType
    BY <1>2, <1>3, ElementOfSeq
  <2> QED BY <1>1, <1>2, <1>3, <2>1 DEF ModuleSound
<1>5. /\ g \in FunctionType /\ g.item = items /\ g.calls \subseteq f.calls
      /\ Failed => ~g.live /\ g.calls = {} /\ g.blocks = <<>>
      /\ ~Failed => g.live /\ g.blocks = Branch({})
  <2>1. CASE Failed
    <3>1. g = [f EXCEPT !.live = FALSE, !.blocks = <<>>, !.allocas = 0, !.calls = {}]
      BY <2>1 DEF Erased
    <3>2. <<>> \in Seq(BlockType) /\ {} \in SUBSET [fn : Nat, item : Nat]
      OBVIOUS
    <3> HIDE DEF f, g
    <3> QED BY <1>4, <2>1, <3>1, <3>2 DEF FunctionType
  <2>2. CASE ~Failed
    <3>1. g = [f EXCEPT !.blocks = Branch({})]
      BY <2>2
    <3>2. Branch({}) \in Seq(BlockType)
      <4>1. f.blocks \in Seq(BlockType)
        BY <1>4 DEF FunctionType
      <4> DEFINE d == [Body[insert] EXCEPT !.ends = @ + 1, !.next = @ \cup {}]
      <4>2. ASSUME insert \in 1..Len(Body) PROVE d \in BlockType
        <5>1. Body[insert] \in BlockType
          BY <4>1, <4>2, ElementOfSeq DEF Body
        <5>2. Body[insert].ends \in Nat /\ Body[insert].next \in SUBSET Nat
          BY <5>1 DEF BlockType
        <5>3. Body[insert].ends + 1 \in Nat
          BY <5>2
        <5>4. Body[insert].next \cup {} \in SUBSET Nat
          BY <5>2
        <5> QED BY <5>1, <5>3, <5>4 DEF BlockType
      <4>3. Branch({}) = [Body EXCEPT ![insert] = d]
        BY DEF Branch
      <4> HIDE DEF d
      <4> QED BY <4>1, <4>2, <4>3, Edited DEF Body, Edit
    <3> HIDE DEF f, g
    <3> QED BY <1>4, <2>2, <3>1, <3>2 DEF FunctionType
  <2> QED BY <2>1, <2>2
<1>6. functions' = [functions EXCEPT ![current] = g]
  <2>1. CASE Failed
    BY <1>1, <2>1
  <2>2. CASE ~Failed
    BY <1>1, <2>2
  <2> QED BY <2>1, <2>2
<1> HIDE DEF g
<1>7. /\ functions' \in Seq(FunctionType) /\ Len(functions') = n
      /\ functions'[current] = g
      /\ \A j \in 1..n : j # current => functions'[j] = functions[j]
  BY <1>2, <1>3, <1>5, <1>6, Touched
<1>8. DOMAIN functions' = 1..n
  BY <1>7, LenProperties
<1>9. /\ \A i \in 1..n : /\ functions'[i].calls \subseteq functions[i].calls
                          /\ functions'[i].item = functions[i].item
      /\ \A i \in 1..n : functions'[i].live => functions[i].live
      /\ \A i \in 1..n : functions[i].live /\ ~functions'[i].live => i = current /\ Failed
  BY <1>4, <1>5, <1>7
<1>10. \A i \in 1..n : functions'[i].blocks =
                     IF i # current THEN functions[i].blocks
                     ELSE IF Failed THEN <<>> ELSE Branch({})
  BY <1>5, <1>7
<1>11. result_func' # NoFunction => functions'[result_func'].live
  BY <1>1, <1>5, <1>7
<1> HIDE DEF f, n
<1>12. ASSUME NEW i \in 1..n, functions'[i].live, NEW c \in functions'[i].calls,
              ~functions'[c.fn].live
       PROVE  c.item < functions'[c.fn].item
  <2>1. functions[i].live /\ c \in functions[i].calls /\ c.fn \in 1..n
    BY <1>2, <1>3, <1>9, <1>12 DEF ModuleSound
  <2>2. CASE ~functions[c.fn].live
    BY <1>2, <1>3, <1>9, <2>1, <2>2 DEF ModuleSound, CalleesLive
  <2>3. CASE functions[c.fn].live
    <3>1. c.fn = current /\ Failed
      BY <1>9, <1>12, <2>1, <2>3
    <3>2. i # current
      BY <1>12, <3>1
    <3>3. c.item < items
      BY <1>1, <1>2, <1>3, <2>1, <3>2 DEF ModuleSound
    <3> QED BY <1>5, <1>7, <3>1, <3>3
  <2> QED BY <2>2, <2>3
<1>13. \A i \in 1..n : \A c \in functions'[i].calls : c.fn \in 1..n /\ c.item <= items
  BY <1>2, <1>3, <1>9 DEF ModuleSound
<1>14. ModuleSound'
  BY <1>1, <1>8, <1>11, <1>12, <1>13 DEF ModuleSound, CalleesLive
<1>15. TypeOK'
  <2>1. 0 \in 0..n /\ result_func' \in 0..n
    BY <1>1, <1>3 DEF NoFunction
  <2> QED BY <1>1, <1>7, <2>1 DEF CodegenInductive, TypeOK, NoFunction
<1>16. Visits' /\ ScopeOwn'
  BY <1>1, NoVisits DEF ScopeOwn
<1>17. Lasting(functions, functions')
  BY <1>3, <1>7 DEF Lasting, n
<1> QED BY <1>10, <1>14, <1>15, <1>16, <1>17 DEF CodegenInductive, n

LEMMA LoopKeeps ==
    ASSUME CodegenInductive, main_loop
    PROVE  CodegenInductive'
<1>1. /\ status' \in {"running", "finished", "crashed"}
      /\ UNCHANGED <<functions, function_protos, named_values, insert, result_val, result_func,
                     current, tree, stack, items>>
  BY DEF main_loop
<1> QED BY <1>1 DEF CodegenInductive, TypeOK, Visits, FrameOK, Placed, CalleeFound, OldKept, OldOwn,
                    ScopeOwn, ModuleSound, CalleesLive

LEMMA Stutters ==
    ASSUME CodegenInductive, UNCHANGED vars
    PROVE  CodegenInductive'
BY DEF vars, CodegenInductive, TypeOK, Visits, FrameOK, Placed, CalleeFound, OldKept, OldOwn,
       ScopeOwn, ModuleSound, CalleesLive

LEMMA CodegenStarts ==
    ASSUME Init
    PROVE  CodegenInductive
<1>1. functions = <<>> /\ stack = <<>> /\ Len(functions) = 0 /\ Len(stack) = 0
  BY DEF Init
<1>2. /\ DOMAIN functions = {}
      /\ \A k : k \notin 1..0 /\ k \notin 1..(0 - 1)
  BY <1>1
<1>3. TypeOK
  <2>1. /\ \A name : name \notin DOMAIN function_protos /\ name \notin DOMAIN tree
        /\ functions \in Seq(FunctionType) /\ stack \in Seq(FrameType)
    BY DEF Init
  <2>2. named_values \in [Variables -> Alloca]
    BY DEF Init, NoAlloca, NoFunction, Alloca
  <2> QED BY <1>1, <2>1, <2>2, CodegenAssumption DEF Init, TypeOK, NoFunction
<1>4. Visits
  BY <1>1, <1>2 DEF Visits
<1>5. ScopeOwn /\ ModuleSound
  BY <1>2 DEF Init, ScopeOwn, ModuleSound, CalleesLive
<1> QED BY <1>3, <1>4, <1>5 DEF CodegenInductive

LEMMA CodegenKept ==
    ASSUME CodegenInductive, [Next]_vars
    PROVE  CodegenInductive'
<1>1. CASE accept
  BY <1>1, AcceptKeeps DEF BodyKept
<1>2. CASE visitFloat
  BY <1>2, FloatKeeps DEF BodyKept
<1>3. CASE visitVariable
  BY <1>3, VariableKeeps DEF BodyKept
<1>4. CASE visitUnary
  BY <1>4, UnaryKeeps DEF BodyKept
<1>5. CASE visitBinary
  BY <1>5, BinaryKeeps DEF BodyKept
<1>6. CASE visitCall
  BY <1>6, CallKeeps DEF BodyKept
<1>7. CASE visitIf
  BY <1>7, IfKeeps DEF BodyKept
<1>8. CASE visitFor
  BY <1>8, ForKeeps DEF BodyKept
<1>9. CASE visitVar
  BY <1>9, VarKeeps DEF BodyKept
<1>10. CASE visitPrototype
  BY <1>10, PrototypeKeeps
<1>11. CASE beginFunction
  BY <1>11, BeginKeeps
<1>12. CASE endFunction
  BY <1>12, EndKeeps
<1>13. CASE main_loop
  BY <1>13, LoopKeeps
<1>14. CASE UNCHANGED vars
  BY <1>14, Stutters
<1> QED BY <1>1, <1>2, <1>3, <1>4, <1>5, <1>6, <1>7, <1>8, <1>9, <1>10, <1>11, <1>12, <1>13,
           <1>14 DEF Next, Done

(* However the bodies are nested, fail or redefine a name, every visit     *)
(* below the innermost waits for a child, the scope and what is put aside  *)
(* are of the function being built, and the module stays sound.            *)
THEOREM CodegenInvariant == Spec => []CodegenInductive
BY CodegenStarts, CodegenKept, PTL DEF Spec

(* Every variable keeps its type.                                          *)
THEOREM TypeCorrect == Spec => []TypeOK
<1>1. CodegenInductive => TypeOK
  BY DEF CodegenInductive
<1> QED BY <1>1, CodegenInvariant, PTL

(* result_func never points to a function erased from the module, though   *)
(* getFunction leaves it as it was when it finds none.                     *)
THEOREM ResultIsLive == Spec => []ResultFuncLive
<1>1. CodegenInductive => ResultFuncLive
  BY DEF CodegenInductive, ModuleSound, ResultFuncLive
<1> QED BY <1>1, CodegenInvariant, PTL

(* What a name is bound to while a body is visited is an alloca of the     *)
(* function being built, whatever became of the functions before it.       *)
THEOREM ScopeOfFunction == Spec => []ScopeIsOwn
<1>1. CodegenInductive => ScopeIsOwn
  BY DEF CodegenInductive, ScopeOwn, Own, ScopeIsOwn
<1> QED BY <1>1, CodegenInvariant, PTL

(* A call made after a body has failed is never of the function that was   *)
(* erased for it: only a call older than the failed definition can be left *)
(* without its callee.                                                     *)
THEOREM NoDanglingCall == Spec => []CalleesLive
<1>1. CodegenInductive => CalleesLive
  BY DEF CodegenInductive, ModuleSound
<1> QED BY <1>1, CodegenInvariant, PTL

-----------------------------------------------------------------------------
(* The instructions.                                                       *)

Plain == \A e \in emitted' : e.op # "call"

LEMMA PlainSteps ==
    /\ Quiet => Plain
    /\ \A op \in {"load", "store", "fadd", "fcmp", "phi", "br"} : Instruction(op).op # "call"
    /\ emitted' = {} => Plain
    /\ Plain => CallsMatchParameters'
BY DEF Quiet, Plain, Instruction, CallsMatchParameters

LEMMA OperatorIsPlain ==
    ASSUME NEW name, NEW args, CallOperator(name, args), This.kind # "call"
    PROVE  Plain
<1>1. \/ emitted' = {}
      \/ \E fn : emitted' = {[op |-> This.kind, fn |-> fn, name |-> name, args |-> args]}
  BY Zenon DEF CallOperator, CreateCall
<1> QED BY <1>1 DEF Plain

LEMMA CallMatches ==
    ASSUME CodegenInductive, visitCall
    PROVE  CallsMatchParameters'
<1>1. ASSUME At("call"), NEW found,
             found = getFunction(functions, function_protos, This.names[1]),
             result_func' = found.fn, found.fn # NoFunction,
             Len(found.fs[found.fn].args) = This.n, This.n = 0,
             CreateCall(found.fs, found.fn, This.names[1], 0)
      PROVE  CallsMatchParameters'
  <2>1. /\ functions \in Seq(FunctionType)
        /\ \A p \in DOMAIN function_protos : p \in FunctionNames /\ function_protos[p] \in ArgLists
        /\ result_func \in 0..Len(functions)
        /\ result_func # NoFunction => functions[result_func].live
    BY DEF CodegenInductive, TypeOK, ModuleSound
  <2>2. /\ found.fs \in Seq(FunctionType)
        /\ ModuleGrows(functions, found.fs, current)
        /\ found.fn \in 0..Len(found.fs) /\ found.fs[found.fn].live
    BY <1>1, <2>1, LookedUp
  <2>3. found.fn \in 1..Len(found.fs)
    BY <1>1, <2>2, LenProperties DEF NoFunction
  <2>4. functions'[found.fn].args = found.fs[found.fn].args
    BY <1>1, <2>2, <2>3, CallCreated
  <2>5. emitted' = {[op |-> This.kind, fn |-> found.fn, name |-> This.names[1], args |-> 0]}
    BY <1>1 DEF CreateCall
  <2> QED BY <1>1, <2>4, <2>5 DEF CallsMatchParameters
<1>2. CASE Succeeded("call.args") /\ CreateCall(functions, CalleeF, This.names[1], This.n)
             /\ UNCHANGED result_func
  <2>1. At("call.args") /\ stack # <<>> /\ Top.at = "call.args"
    BY <1>2 DEF Succeeded, At
  <2>2. /\ FrameOK(Top, tree, functions, current)
        /\ functions \in Seq(FunctionType) /\ Len(functions) \in Nat
    BY <2>1, TopFrame
  <2>3. /\ CalleeF \in 1..Len(functions) /\ functions[CalleeF].live
        /\ Len(functions[CalleeF].args) = This.n
    BY <2>1, <2>2, LenProperties DEF FrameOK, CalleeFound, This, CalleeF
  <2>4. ModuleGrows(functions, functions, current)
    BY <2>2 DEF ModuleGrows
  <2>5. /\ result_func' \in 0..Len(functions)
        /\ result_func' # NoFunction => functions[result_func'].live
    BY <1>2 DEF CodegenInductive, TypeOK, ModuleSound
  <2>6. functions'[CalleeF].args = functions[CalleeF].args
    BY <1>2, <2>1, <2>2, <2>3, <2>4, <2>5, CallCreated
  <2>7. emitted' = {[op |-> This.kind, fn |-> CalleeF, name |-> This.names[1], args |-> This.n]}
    BY <1>2 DEF CreateCall
  <2> QED BY <2>3, <2>6, <2>7 DEF CallsMatchParameters
<1>3. visitCall =>
         \/ /\ At("call")
            /\ LET found == getFunction(functions, function_protos, This.names[1])
               IN /\ result_func' = found.fn
                  /\ found.fn # NoFunction /\ Len(found.fs[found.fn].args) = This.n /\ This.n = 0
                  /\ CreateCall(found.fs, found.fn, This.names[1], 0)
         \/ emitted' = {}
         \/ Quiet
         \/ /\ Succeeded("call.args") /\ CreateCall(functions, CalleeF, This.names[1], This.n)
            /\ UNCHANGED result_func
  BY Zenon DEF visitCall, PropagateNull
<1>4. CASE emitted' = {} \/ Quiet
  BY <1>4, PlainSteps
<1> QED BY <1>1, <1>2, <1>3, <1>4, Zenon

LEMMA InstructionsMatch ==
    ASSUME CodegenInductive, CallsMatchParameters, [Next]_vars
    PROVE  CallsMatchParameters'
<1>1. CASE visitVariable \/ visitIf \/ visitFor \/ visitVar
  <2>1. \/ emitted' = {}
        \/ Quiet
        \/ emitted' = {Instruction("load")}
        \/ emitted' = {Instruction("store")}
        \/ emitted' = {Instruction("br")}
        \/ emitted' = {Instruction("fcmp"), Instruction("br")}
        \/ emitted' = {Instruction("br"), Instruction("phi")}
        \/ emitted' = {Instruction("store"), Instruction("br")}
        \/ emitted' = {Instruction("fadd"), Instruction("fcmp"), Instruction("br")}
    BY <1>1, Zenon DEF visitVariable, visitIf, visitFor, visitVar, BindNext, PropagateNull, Emit
  <2>2. CASE emitted' = {} \/ Quiet
    BY <2>2, PlainSteps
  <2>3. \A op \in {"load", "store", "fadd", "fcmp", "phi", "br"} : Instruction(op).op # "call"
    BY PlainSteps
  <2>4. CASE emitted' = {} \/ ~Quiet
    BY <2>1, <2>3, <2>4, PlainSteps DEF Plain
  <2> QED BY <2>2, <2>4
<1>2. CASE visitUnary
  <2>1. CASE Succeeded("unary.operand") /\ CallOperator("unary", 1)
    <3>1. This.kind # "call"
      BY <2>1, TopFrame DEF Succeeded, At, Of
    <3> QED BY <2>1, <3>1, OperatorIsPlain, PlainSteps
  <2>2. CASE Quiet
    BY <2>2, PlainSteps
  <2> QED BY <1>2, <2>1, <2>2 DEF visitUnary, PropagateNull
<1>3. CASE visitBinary
  <2>1. CASE Succeeded("binary.rhs") /\ CallOperator("binary=", 2)
    <3>1. This.kind # "call"
      BY <2>1, TopFrame DEF Succeeded, At, Of
    <3> QED BY <2>1, <3>1, OperatorIsPlain, PlainSteps
  <2>2. CASE Quiet \/ emitted' = {}
    BY <2>2, PlainSteps
  <2>3. CASE \E op \in {"store", "fadd"} : emitted' = {Instruction(op)}
    BY <2>3, PlainSteps DEF Plain
  <2>4. \/ Succeeded("binary.rhs") /\ CallOperator("binary=", 2)
        \/ Quiet \/ emitted' = {}
        \/ emitted' = {Instruction("store")}
        \/ emitted' = {Instruction("fadd")}
    BY <1>3, Zenon DEF visitBinary, PropagateNull, Emit
  <2> QED BY <2>1, <2>2, <2>3, <2>4
<1>4. CASE visitCall
  BY <1>4, CallMatches
<1>5. CASE accept \/ visitFloat \/ visitPrototype \/ beginFunction \/ endFunction \/ main_loop
  <2>1. emitted' = {}
    BY <1>5, Zenon DEF accept, visitFloat, Quiet, visitPrototype, beginFunction, NextItem, endFunction,
                       main_loop
  <2> QED BY <2>1, PlainSteps
<1>6. CASE UNCHANGED vars
  BY <1>6 DEF vars, CallsMatchParameters
<1> QED BY <1>1, <1>2, <1>3, <1>4, <1>5, <1>6 DEF Next, Done

(* A call is of a function with as many parameters, though the function is *)
(* chosen before the arguments are visited, and they may declare others.   *)
THEOREM CallsMatch == Spec => []CallsMatchParameters
<1>1. Init => CallsMatchParameters
  BY DEF Init, CallsMatchParameters
<1> QED BY <1>1, InstructionsMatch, CodegenInvariant, PTL DEF Spec

-----------------------------------------------------------------------------
(* The scope.                                                              *)

RestoresScope == Len(stack') < Len(stack) /\ result_val' = "value" => named_values' = Top.scope

LEMMA Labels ==
    /\ \A at \in {"accept", "float", "variable", "unary", "=", "+", "call", "if", "for",
                  "unary.operand", "assign.rhs", "binary.lhs", "call.args",
                  "if.cond", "if.then", "if.else", "for.start"} :
          at \in Unbound /\ at \in Starting \cup Waiting /\ at \notin Looping \cup Binding
    /\ \A at \in {"unary.operand", "assign.rhs", "binary.lhs", "binary.rhs", "call.args",
                  "if.cond", "if.then", "if.else", "for.start", "for.body", "for.step", "for.end",
                  "var.init", "var.body"} : at \in Waiting
    /\ \A at \in {"accept", "float", "variable", "unary", "=", "+", "call", "if", "for", "var"} :
          at \in Starting /\ at \notin Waiting
    /\ "binary.rhs" \notin Unbound \cup Looping \cup Binding
    /\ \A at \in Looping \cup Binding : at \notin Unbound /\ at # "binary.rhs" /\ at # "accept"
    /\ \A at \in Looping : at \notin Binding /\ at \in Waiting
BY DEF Unbound, Starting, Waiting, Looping, Binding

LEMMA KeptGrows ==
    ASSUME NEW f \in FrameType, Placed(f, tree), Grows(tree, tree'), NEW s, Kept(f, tree, s)
    PROVE  Kept(f, tree', s)
<1>1. f.at # "accept" => tree'[f.path] = tree[f.path]
  BY DEF Placed, Grows
<1>2. f.at = "accept" => f.at \notin Looping \cup Binding
  BY Labels
<1> QED BY <1>1, <1>2 DEF Kept

LEMMA TopKept ==
    ASSUME ScopeKept, stack # <<>>, Top.at \notin Waiting \/ ~Failed
    PROVE  Kept(Top, tree, named_values)
BY DEF ScopeKept

(* The visits below the innermost, whatever the innermost does.            *)
LEMMA BelowKept ==
    ASSUME CodegenInductive, ScopeKept, stack # <<>>, Grows(tree, tree')
    PROVE  /\ Len(stack) \in Nat \ {0} /\ Top = stack[Len(stack)]
           /\ \A k \in 1..(Len(stack) - 1) : Kept(stack[k], tree', stack[k + 1].scope)
<1>1. stack \in Seq(FrameType) /\ Visits
  BY DEF CodegenInductive, TypeOK
<1>2. Len(stack) \in Nat \ {0} /\ Top = stack[Len(stack)]
  BY <1>1, Dropped DEF Top
<1>3. ASSUME NEW k \in 1..(Len(stack) - 1)
      PROVE  Kept(stack[k], tree', stack[k + 1].scope)
  <2>1. k \in 1..Len(stack)
    BY <1>2
  <2>2. stack[k] \in FrameType /\ Placed(stack[k], tree)
    BY <1>1, <2>1, ElementOfSeq DEF Visits, FrameOK
  <2>3. Kept(stack[k], tree, stack[k + 1].scope)
    BY DEF ScopeKept
  <2> QED BY <2>2, <2>3, KeptGrows
<1> QED BY <1>2, <1>3

LEMMA ScopeReturned ==
    ASSUME CodegenInductive, ScopeKept, stack # <<>>, Grows(tree, tree'),
           NEW val \in {"null", "value"}, Return(val),
           val = "value" => named_values' = Top.scope
    PROVE  ScopeKept' /\ RestoresScope
<1> DEFINE n == Len(stack)
<1>1. /\ n \in Nat \ {0} /\ Top = stack[n]
      /\ \A k \in 1..(n - 1) : Kept(stack[k], tree', stack[k + 1].scope)
  BY BelowKept
<1>2. stack \in Seq(FrameType) /\ stack' = Front(stack) /\ result_val' = val
  BY DEF CodegenInductive, TypeOK, Return
<1>3. /\ stack' \in Seq(FrameType)
      /\ Len(stack') = n - 1
      /\ \A i \in 1..(n - 1) : stack'[i] = stack[i]
      /\ stack' # <<>> => n > 1 /\ Last(stack') = stack[n - 1]
  BY <1>2, Dropped
<1> HIDE DEF n
<1>4. \A k \in 1..(Len(stack') - 1) : Kept(stack'[k], tree', stack'[k + 1].scope)
  <2>1. \A k \in 1..(n - 1 - 1) : k \in 1..(n - 1) /\ k + 1 \in 1..(n - 1)
    BY <1>1
  <2> QED BY <1>1, <1>3, <2>1
<1>5. ASSUME stack' # <<>>
      PROVE  Kept(Top', tree', named_values') \/ (Top'.at \in Waiting /\ result_val' = "null")
  <2>1. Top' = stack[n - 1] /\ n - 1 \in 1..(n - 1) /\ n - 1 + 1 = n
    BY <1>1, <1>3, <1>5 DEF Top
  <2>2. CASE val = "value"
    BY <1>1, <2>1, <2>2
  <2>3. CASE val = "null"
    BY <1>2, <2>1, <2>3 DEF CodegenInductive, Visits, n
  <2> QED BY <2>2, <2>3
<1> QED BY <1>2, <1>4, <1>5 DEF ScopeKept, Failed, RestoresScope

LEMMA ScopeContinued ==
    ASSUME CodegenInductive, ScopeKept, stack # <<>>, Grows(tree, tree'),
           NEW f \in FrameType, stack' = Append(Front(stack), f),
           f.scope = Top.scope, Kept(f, tree', named_values')
    PROVE  ScopeKept' /\ RestoresScope
<1> DEFINE n == Len(stack)
<1>1. /\ n \in Nat \ {0} /\ Top = stack[n]
      /\ \A k \in 1..(n - 1) : Kept(stack[k], tree', stack[k + 1].scope)
  BY BelowKept
<1>2. stack \in Seq(FrameType)
  BY DEF CodegenInductive, TypeOK
<1>3. /\ Len(stack') = n
      /\ stack'[n] = f
      /\ \A i \in 1..(n - 1) : stack'[i] = stack[i]
      /\ Last(stack') = f
  BY <1>2, Replaced
<1> HIDE DEF n
<1>4. ASSUME NEW k \in 1..(n - 1) PROVE Kept(stack'[k], tree', stack'[k + 1].scope)
  <2>1. k + 1 = n \/ k + 1 \in 1..(n - 1)
    BY <1>1
  <2>2. stack'[k + 1].scope = stack[k + 1].scope
    BY <1>1, <1>3, <2>1
  <2> QED BY <1>1, <1>3, <2>2
<1>5. ~(Len(stack') < Len(stack))
  BY <1>1, <1>3 DEF n
<1> QED BY <1>3, <1>4, <1>5 DEF ScopeKept, Top, RestoresScope

LEMMA ScopeVisited ==
    ASSUME CodegenInductive, ScopeKept, stack # <<>>, Grows(tree, tree'), CodegenInductive',
           NEW f \in FrameType, NEW i \in Nat, Visit(f, i),
           f.scope = Top.scope, Kept(f, tree', named_values')
    PROVE  ScopeKept' /\ RestoresScope
<1> DEFINE n == Len(stack)
           s == Append(Front(stack), f)
           g == Frame(Child(i))
<1>1. /\ n \in Nat \ {0} /\ Top = stack[n]
      /\ \A k \in 1..(n - 1) : Kept(stack[k], tree', stack[k + 1].scope)
  BY BelowKept
<1>2. stack \in Seq(FrameType) /\ named_values' \in [Variables -> Alloca] /\ stack' = Append(s, g)
  BY DEF CodegenInductive, TypeOK, Visit
<1>3. /\ s \in Seq(FrameType) /\ Len(s) = n
      /\ s[n] = f
      /\ \A k \in 1..(n - 1) : s[k] = stack[k]
  BY <1>2, Replaced
<1>4. g \in FrameType /\ g.at = "accept" /\ g.scope = named_values'
  <2>1. Child(i) \in Seq(Nat)
    BY TopFrame, Pushed DEF Child, FrameType
  <2> QED BY <1>2, <2>1, NewFrame
<1> HIDE DEF s, g
<1>5. /\ Len(stack') = n + 1 /\ Last(stack') = g
      /\ stack'[n + 1] = g
      /\ \A k \in 1..n : stack'[k] = s[k]
  BY <1>2, <1>3, <1>4, Pushed
<1> HIDE DEF n
<1>6. ASSUME NEW k \in 1..n PROVE Kept(stack'[k], tree', stack'[k + 1].scope)
  <2>1. \/ k = n
        \/ k \in 1..(n - 1) /\ k \in 1..n /\ k + 1 \in 1..n /\ (k + 1 = n \/ k + 1 \in 1..(n - 1))
    BY <1>1
  <2>2. CASE k = n
    <3>1. n \in 1..n
      BY <1>1
    <3> QED BY <1>3, <1>4, <1>5, <2>2, <3>1
  <2>3. CASE k \in 1..(n - 1) /\ k \in 1..n /\ k + 1 \in 1..n /\ (k + 1 = n \/ k + 1 \in 1..(n - 1))
    <3>1. stack'[k] = stack[k]
      BY <1>3, <1>5, <2>3
    <3>2. stack'[k + 1].scope = stack[k + 1].scope
      BY <1>1, <1>3, <1>5, <2>3
    <3> QED BY <1>1, <2>3, <3>1, <3>2
  <2> QED BY <2>1, <2>2, <2>3
<1>7. Kept(g, tree', named_values')
  BY <1>4, Labels DEF Kept
<1>8. ~(Len(stack') < Len(stack))
  BY <1>1, <1>5 DEF n
<1>9. \A k \in 1..(Len(stack') - 1) : Kept(stack'[k], tree', stack'[k + 1].scope)
  <2>1. Len(stack') - 1 = n
    BY <1>1, <1>5
  <2> QED BY <1>6, <2>1
<1>10. Top' = g
  BY <1>5 DEF Top
<1> QED BY <1>7, <1>8, <1>9, <1>10 DEF ScopeKept, RestoresScope

(* A visit that has bound nothing is in the scope it began with.           *)
LEMMA PlainScope ==
    ASSUME CodegenInductive, ScopeKept, NEW at, At(at)
    PROVE  /\ stack # <<>> /\ Top.at = at /\ Top \in FrameType
           /\ at \in Unbound /\ (at \notin Waiting \/ ~Failed) => named_values = Top.scope
           /\ at = "binary.rhs" /\ ~Failed /\ Top.lhs # "null" => named_values = Top.scope
<1>1. stack # <<>> /\ Top.at = at
  BY DEF At
<1>2. Top \in FrameType
  BY <1>1, TopFrame
<1>3. Top.lhs # "null" => Top.lhs = "value"
  BY <1>2 DEF FrameType
<1> QED BY <1>1, <1>2, <1>3, TopKept DEF Kept

LEMMA SameTree ==
    ASSUME UNCHANGED tree
    PROVE  Grows(tree, tree')
BY DEF Grows

LEMMA PlainVisitAs ==
    ASSUME CodegenInductive, CodegenInductive', ScopeKept,
           NEW from \in Unbound, At(from), from \notin Waiting \/ ~Failed,
           KeepScope, Grows(tree, tree'),
           NEW f \in FrameType, f.at \in Unbound, f.scope = Top.scope,
           NEW i \in Nat, Visit(f, i)
    PROVE  ScopeKept' /\ RestoresScope
<1>1. stack # <<>> /\ named_values = Top.scope
  BY PlainScope
<1>2. Kept(f, tree', named_values')
  BY <1>1 DEF Kept, KeepScope, Unbound
<1> QED BY <1>1, <1>2, ScopeVisited

LEMMA PlainVisit ==
    ASSUME CodegenInductive, CodegenInductive', ScopeKept,
           NEW from \in Unbound, At(from), from \notin Waiting \/ ~Failed,
           KeepScope, Grows(tree, tree'),
           NEW at \in Unbound, NEW i \in Nat, VisitThen(i, at)
    PROVE  ScopeKept' /\ RestoresScope
<1> DEFINE f == [Top EXCEPT !.at = at]
<1>1. stack # <<>> /\ Top \in FrameType
  BY PlainScope
<1>2. at \in Starting \cup Waiting
  BY DEF Unbound
<1>3. f \in FrameType /\ f.at = at /\ f.scope = Top.scope
  BY <1>1, <1>2 DEF FrameType
<1>4. Visit(f, i)
  BY DEF VisitThen
<1> HIDE DEF f
<1> QED BY <1>3, <1>4, PlainVisitAs

LEMMA PlainReturn ==
    ASSUME CodegenInductive, ScopeKept,
           NEW from, At(from),
           \/ from \in Unbound /\ (from \notin Waiting \/ ~Failed)
           \/ from = "binary.rhs" /\ ~Failed /\ Top.lhs # "null",
           KeepScope, Grows(tree, tree'), NEW val \in {"null", "value"}, Return(val)
    PROVE  ScopeKept' /\ RestoresScope
<1>1. stack # <<>> /\ named_values = Top.scope
  BY PlainScope
<1>2. named_values' = Top.scope
  BY <1>1 DEF KeepScope
<1> QED BY <1>1, <1>2, ScopeReturned

LEMMA NullReturn ==
    ASSUME CodegenInductive, ScopeKept, NEW from, At(from), Grows(tree, tree'), Return("null")
    PROVE  ScopeKept' /\ RestoresScope
<1>1. stack # <<>>
  BY DEF At
<1>2. "null" \in {"null", "value"} /\ "null" # "value"
  OBVIOUS
<1> QED BY <1>1, <1>2, ScopeReturned

LEMMA OperatorScope ==
    ASSUME CodegenInductive, ScopeKept,
           NEW from, At(from),
           \/ from \in Unbound /\ (from \notin Waiting \/ ~Failed)
           \/ from = "binary.rhs" /\ ~Failed /\ Top.lhs # "null",
           NEW name, NEW args, CallOperator(name, args)
    PROVE  ScopeKept' /\ RestoresScope
<1>1. KeepScope /\ UNCHANGED <<insert, tree>> /\ (Return("null") \/ Return("value"))
  BY Zenon DEF CallOperator, CreateCall
<1> QED BY <1>1, SameTree, PlainReturn

LEMMA UnboundScope ==
    ASSUME CodegenInductive, CodegenInductive', ScopeKept,
           visitFloat \/ visitVariable \/ visitUnary \/ visitCall \/ visitIf
    PROVE  ScopeKept' /\ RestoresScope
<1>1. ASSUME NEW at, PropagateNull(at)
      PROVE  ScopeKept' /\ RestoresScope
  BY <1>1, NullReturn, SameTree DEF PropagateNull, Quiet
<1>2. CASE visitFloat
  <2>1. At("float") /\ KeepScope /\ UNCHANGED tree /\ Return("value")
    BY <1>2 DEF visitFloat, Quiet
  <2> QED BY <2>1, Labels, SameTree, PlainReturn
<1>3. CASE visitVariable
  <2>1. At("variable") /\ KeepScope /\ UNCHANGED tree /\ (Return("null") \/ Return("value"))
    BY <1>3 DEF visitVariable, Emit
  <2> QED BY <2>1, Labels, SameTree, PlainReturn
<1>4. CASE visitUnary
  <2>1. CASE At("unary") /\ Quiet /\ VisitThen(1, "unary.operand")
    <3>1. KeepScope /\ Grows(tree, tree')
      BY <2>1, SameTree DEF Quiet
    <3> QED BY <2>1, <3>1, Labels, PlainVisit
  <2>2. CASE Succeeded("unary.operand") /\ CallOperator("unary", 1)
    BY <2>2, Labels, OperatorScope DEF Succeeded
  <2> QED BY <1>1, <1>4, <2>1, <2>2 DEF visitUnary
<1>5. CASE visitIf
  <2>1. CASE At("if") /\ KeepScope /\ UNCHANGED tree /\ VisitThen(1, "if.cond")
    BY <2>1, Labels, SameTree, PlainVisit
  <2>2. CASE /\ Succeeded("if.cond") /\ KeepScope /\ UNCHANGED <<result_func, tree>>
             /\ LET t == Len(Body) + 1
                IN Visit([Top EXCEPT !.at = "if.then", !.block = t], 2)
    <3> DEFINE t == Len(Body) + 1
               f == [Top EXCEPT !.at = "if.then", !.block = t]
    <3>1. At("if.cond") /\ ~Failed /\ stack # <<>> /\ Top \in FrameType
      BY <2>2, PlainScope DEF Succeeded
    <3>2. t \in Nat
      BY <3>1, BlocksTyped
    <3>3. f \in FrameType /\ f.at = "if.then" /\ f.scope = Top.scope
      BY <3>1, <3>2, Labels DEF FrameType
    <3>4. Visit(f, 2)
      BY <2>2
    <3> HIDE DEF f
    <3> QED BY <2>2, <3>1, <3>3, <3>4, Labels, SameTree, PlainVisitAs
  <2>3. CASE /\ Succeeded("if.then") /\ KeepScope /\ UNCHANGED <<result_func, tree>>
             /\ Visit([Top EXCEPT !.at = "if.else", !.then = insert], 3)
    <3> DEFINE f == [Top EXCEPT !.at = "if.else", !.then = insert]
    <3>1. At("if.then") /\ ~Failed /\ stack # <<>> /\ Top \in FrameType
      BY <2>3, PlainScope DEF Succeeded
    <3>2. insert \in Nat
      BY DEF CodegenInductive, TypeOK
    <3>3. f \in FrameType /\ f.at = "if.else" /\ f.scope = Top.scope
      BY <3>1, <3>2, Labels DEF FrameType
    <3>4. Visit(f, 3)
      BY <2>3
    <3> HIDE DEF f
    <3> QED BY <2>3, <3>1, <3>3, <3>4, Labels, SameTree, PlainVisitAs
  <2>4. CASE /\ Succeeded("if.else") /\ KeepScope /\ UNCHANGED <<result_func, tree>>
             /\ Return("value")
    BY <2>4, Labels, SameTree, PlainReturn DEF Succeeded
  <2>5. visitIf =>
           \/ At("if") /\ KeepScope /\ UNCHANGED tree /\ VisitThen(1, "if.cond")
           \/ /\ Succeeded("if.cond") /\ KeepScope /\ UNCHANGED <<result_func, tree>>
              /\ LET t == Len(Body) + 1
                 IN Visit([Top EXCEPT !.at = "if.then", !.block = t], 2)
           \/ /\ Succeeded("if.then") /\ KeepScope /\ UNCHANGED <<result_func, tree>>
              /\ Visit([Top EXCEPT !.at = "if.else", !.then = insert], 3)
           \/ Succeeded("if.else") /\ KeepScope /\ UNCHANGED <<result_func, tree>> /\ Return("value")
           \/ \E at \in {"if.cond", "if.then", "if.else"} : PropagateNull(at)
    BY Zenon DEF visitIf, Quiet
  <2> QED BY <1>1, <1>5, <2>1, <2>2, <2>3, <2>4, <2>5
<1>6. CASE visitCall
  <2>1. ASSUME NEW from \in {"call", "call.args"}, At(from), from = "call" \/ ~Failed,
               KeepScope, UNCHANGED tree, Return("null") \/ Return("value")
        PROVE  ScopeKept' /\ RestoresScope
    BY <2>1, Labels, SameTree, PlainReturn
  <2>2. ASSUME NEW from \in {"call", "call.args"}, At(from), from = "call" \/ ~Failed,
               KeepScope, UNCHANGED tree,
               NEW fn \in Nat, NEW m \in Nat, NEW i \in Nat,
               Visit([Top EXCEPT !.at = "call.args", !.fn = fn, !.i = m], i)
        PROVE  ScopeKept' /\ RestoresScope
    <3> DEFINE f == [Top EXCEPT !.at = "call.args", !.fn = fn, !.i = m]
    <3>1. stack # <<>> /\ Top \in FrameType /\ named_values = Top.scope
      BY <2>2, Labels, PlainScope
    <3>2. f \in FrameType /\ f.at = "call.args" /\ f.scope = Top.scope
      BY <3>1, Labels DEF FrameType
    <3>3. Visit(f, i)
      BY <2>2
    <3> HIDE DEF f
    <3>4. Kept(f, tree', named_values')
      BY <2>2, <3>1, <3>2, Labels DEF Kept, KeepScope
    <3> QED BY <2>2, <3>1, <3>2, <3>3, <3>4, SameTree, ScopeVisited
  <2>3. CASE At("call") /\ Visit([Top EXCEPT !.at = "call.args", !.fn = result_func', !.i = 1], 1)
               /\ KeepScope /\ UNCHANGED tree
    <3>1. result_func' \in Nat
      BY LenProperties DEF CodegenInductive, TypeOK
    <3> QED BY <2>2, <2>3, <3>1
  <2>4. CASE Succeeded("call.args") /\ Quiet /\ Visit([Top EXCEPT !.i = @ + 1], Top.i + 1)
    <3>1. At("call.args") /\ ~Failed /\ KeepScope /\ UNCHANGED tree
      BY <2>4 DEF Succeeded, Quiet
    <3>2. Top \in FrameType /\ Top.at = "call.args"
      BY <3>1, PlainScope
    <3> DEFINE i == Top.i + 1
    <3>3. Top.fn \in Nat /\ i \in Nat
      BY <3>2 DEF FrameType
    <3>4. [Top EXCEPT !.i = @ + 1] = [Top EXCEPT !.at = "call.args", !.fn = Top.fn, !.i = i]
      BY <3>2 DEF FrameType
    <3>5. Visit([Top EXCEPT !.at = "call.args", !.fn = Top.fn, !.i = i], i)
      BY <2>4, <3>4
    <3> HIDE DEF i
    <3> QED BY <2>2, <3>1, <3>3, <3>5
  <2>5. visitCall =>
           \/ At("call") /\ Visit([Top EXCEPT !.at = "call.args", !.fn = result_func', !.i = 1], 1)
                /\ KeepScope /\ UNCHANGED <<insert, tree>>
           \/ At("call") /\ KeepScope /\ UNCHANGED <<insert, tree>>
                /\ (Return("null") \/ Return("value"))
           \/ PropagateNull("call.args")
           \/ Succeeded("call.args") /\ Quiet /\ Visit([Top EXCEPT !.i = @ + 1], Top.i + 1)
           \/ At("call.args") /\ ~Failed /\ KeepScope /\ UNCHANGED <<insert, tree>>
                /\ Return("value")
    BY Zenon DEF visitCall, CreateCall, Succeeded
  <2> QED BY <1>1, <1>6, <2>1, <2>3, <2>4, <2>5
<1> QED BY <1>2, <1>3, <1>4, <1>5, <1>6

LEMMA AcceptScope ==
    ASSUME CodegenInductive, ScopeKept, accept
    PROVE  ScopeKept' /\ RestoresScope
<1>1. At("accept") /\ KeepScope
  BY DEF accept
<1>2. PICK node \in NodesAt(Top.path) :
         tree' = With(tree, Top.path, node) /\ Continue([Top EXCEPT !.at = node.kind])
  BY DEF accept
<1>3. /\ stack # <<>> /\ Top.at = "accept" /\ Top \in FrameType
      /\ named_values = Top.scope
  BY <1>1, Labels, PlainScope
<1>4. FrameOK(Top, tree, functions, current) /\ Top.path \in Seq(Nat) /\ Top.i = 0
  BY <1>3, TopFrame DEF FrameType, FrameOK, OldKept
<1>5. Grows(tree, tree') /\ node \in Nodes
  BY <1>2, <1>4, TreeGrown DEF TreeStep
<1> DEFINE f == [Top EXCEPT !.at = node.kind]
<1>6. stack' = Append(Front(stack), f)
  BY <1>2 DEF Continue
<1>7. node.kind \in {"float", "variable", "unary", "=", "+", "call", "if", "for", "var"}
  BY <1>5, NodeFacts
<1>8. f \in FrameType /\ f.at = node.kind /\ f.scope = Top.scope /\ f.i = 0
  BY <1>3, <1>4, <1>7, Labels DEF FrameType
<1> HIDE DEF f
<1>9. Kept(f, tree', named_values')
  <2>1. named_values' = f.scope
    BY <1>1, <1>3, <1>8 DEF KeepScope
  <2>2. \A j \in 1..f.i : FALSE
    BY <1>8
  <2>3. f.at \notin Looping /\ f.at # "binary.rhs"
    BY <1>7, <1>8 DEF Looping
  <2> QED BY <2>1, <2>2, <2>3 DEF Kept
<1> QED BY <1>3, <1>5, <1>6, <1>8, <1>9, ScopeContinued

LEMMA BinaryScope ==
    ASSUME CodegenInductive, CodegenInductive', ScopeKept, visitBinary
    PROVE  ScopeKept' /\ RestoresScope
<1>1. CASE At("+") /\ Quiet /\ VisitThen(1, "binary.lhs")
  <2>1. KeepScope /\ Grows(tree, tree')
    BY <1>1, SameTree DEF Quiet
  <2> QED BY <1>1, <2>1, Labels, PlainVisit
<1>2. CASE At("=") /\ Quiet /\ VisitThen(2, "assign.rhs")
  <2>1. KeepScope /\ Grows(tree, tree')
    BY <1>2, SameTree DEF Quiet
  <2> QED BY <1>2, <2>1, Labels, PlainVisit
<1>3. ASSUME NEW at, PropagateNull(at)
      PROVE  ScopeKept' /\ RestoresScope
  BY <1>3, NullReturn, SameTree DEF PropagateNull, Quiet
<1>4. ASSUME Succeeded("assign.rhs"), KeepScope,
             NEW lhs \in NodesAt(Child(1)), tree' = With(tree, Child(1), lhs),
             Return("null") \/ VisitThen(1, "binary.lhs")
      PROVE  ScopeKept' /\ RestoresScope
  <2>1. At("assign.rhs") /\ ~Failed /\ stack # <<>>
    BY <1>4 DEF Succeeded, At
  <2>2. Child(1) \in Seq(Nat)
    BY <2>1, TopFrame, Pushed DEF Child, FrameType
  <2>3. Grows(tree, tree')
    BY <1>4, <2>1, <2>2, TreeGrown DEF TreeStep
  <2>4. CASE Return("null")
    BY <2>1, <2>3, <2>4, NullReturn
  <2>5. CASE VisitThen(1, "binary.lhs")
    BY <1>4, <2>1, <2>3, <2>5, Labels, PlainVisit
  <2> QED BY <1>4, <2>4, <2>5
<1>5. CASE At("binary.lhs") /\ Quiet /\ Visit([Top EXCEPT !.at = "binary.rhs", !.lhs = result_val], 2)
  <2> DEFINE f == [Top EXCEPT !.at = "binary.rhs", !.lhs = result_val]
  <2>1. /\ stack # <<>> /\ Top \in FrameType /\ KeepScope /\ Grows(tree, tree')
        /\ result_val \in {"null", "value"}
        /\ result_val = "value" => named_values = Top.scope
    BY <1>5, Labels, PlainScope, SameTree DEF Quiet, Failed, CodegenInductive, TypeOK
  <2>2. f \in FrameType /\ f.at = "binary.rhs" /\ f.scope = Top.scope /\ f.lhs = result_val
    BY <2>1, Labels DEF FrameType
  <2>3. Visit(f, 2)
    BY <1>5
  <2> HIDE DEF f
  <2>4. Kept(f, tree', named_values')
    BY <2>1, <2>2, Labels DEF Kept, KeepScope
  <2> QED BY <2>1, <2>2, <2>3, <2>4, ScopeVisited
<1>6. CASE At("binary.rhs") /\ Quiet /\ Return("null")
  BY <1>6, NullReturn, SameTree DEF Quiet
<1>7. CASE Succeeded("binary.rhs") /\ Top.lhs # "null" /\ CallOperator("binary=", 2)
  BY <1>7, OperatorScope DEF Succeeded
<1>8. CASE /\ Succeeded("binary.rhs") /\ Top.lhs # "null" /\ KeepScope
           /\ Emit({Instruction("fadd")}) /\ Return("value")
  BY <1>8, SameTree, PlainReturn DEF Succeeded, Emit
<1>9. visitBinary =>
         \/ At("+") /\ Quiet /\ VisitThen(1, "binary.lhs")
         \/ At("=") /\ Quiet /\ VisitThen(2, "assign.rhs")
         \/ PropagateNull("assign.rhs")
         \/ /\ Succeeded("assign.rhs") /\ KeepScope
            /\ \E lhs \in NodesAt(Child(1)) :
                  /\ tree' = With(tree, Child(1), lhs)
                  /\ Return("null") \/ VisitThen(1, "binary.lhs")
         \/ At("binary.lhs") /\ Quiet
              /\ Visit([Top EXCEPT !.at = "binary.rhs", !.lhs = result_val], 2)
         \/ At("binary.rhs") /\ Quiet /\ Return("null")
         \/ Succeeded("binary.rhs") /\ Top.lhs # "null" /\ CallOperator("binary=", 2)
         \/ /\ Succeeded("binary.rhs") /\ Top.lhs # "null" /\ KeepScope
            /\ Emit({Instruction("fadd")}) /\ Return("value")
  BY Zenon DEF visitBinary
<1> QED BY <1>1, <1>2, <1>3, <1>4, <1>5, <1>6, <1>7, <1>8, <1>9

(* The scope of a loop differs from the one it began with in its variable. *)
LEMMA LoopScope ==
    ASSUME CodegenInductive, ScopeKept, NEW at \in Looping, At(at), ~Failed
    PROVE  /\ stack # <<>> /\ Top.at = at /\ Top \in FrameType /\ This.names[1] \in Variables
           /\ named_values \in [Variables -> Alloca] /\ Top.scope \in [Variables -> Alloca]
           /\ \A v \in Variables : v # This.names[1] => named_values[v] = Top.scope[v]
           /\ Top.old[1] = Top.scope[This.names[1]]
<1>1. /\ stack # <<>> /\ Top.at = at /\ Top \in FrameType
      /\ named_values \in [Variables -> Alloca]
  BY PlainScope, TopFrame
<1>2. Top.at \in {"for.body", "for.step", "for.end"} /\ Top.at # "accept"
  BY <1>1 DEF Looping
<1>3. This \in Nodes /\ This.kind = "for"
  BY <1>1, <1>2, TopFrame DEF Of
<1>4. This.names[1] \in Variables
  BY <1>3, NodeFacts
<1>5. Kept(Top, tree, named_values)
  BY <1>1, TopKept
<1> QED BY <1>1, <1>4, <1>5 DEF Kept, This, FrameType

LEMMA ForScope ==
    ASSUME CodegenInductive, CodegenInductive', ScopeKept, visitFor
    PROVE  ScopeKept' /\ RestoresScope
<1> DEFINE v == This.names[1]
<1>1. CASE /\ At("for") /\ KeepScope /\ UNCHANGED tree
           /\ Visit([Top EXCEPT !.at = "for.start", !.slot = NewAlloca], 1)
  <2> DEFINE f == [Top EXCEPT !.at = "for.start", !.slot = NewAlloca]
  <2>1. stack # <<>> /\ Top \in FrameType /\ named_values = Top.scope
    BY <1>1, Labels, PlainScope
  <2>2. NewAlloca \in Alloca
    BY <2>1, AllocaCreated
  <2>3. f \in FrameType /\ f.at = "for.start" /\ f.scope = Top.scope
    BY <2>1, <2>2, Labels DEF FrameType
  <2>4. Visit(f, 1)
    BY <1>1
  <2> HIDE DEF f
  <2>5. Kept(f, tree', named_values')
    BY <1>1, <2>1, <2>3, Labels DEF Kept, KeepScope
  <2> QED BY <1>1, <2>1, <2>3, <2>4, <2>5, SameTree, ScopeVisited
<1>2. CASE /\ Succeeded("for.start") /\ Bind(v, Top.slot) /\ UNCHANGED <<result_func, tree>>
           /\ LET t == Len(Body) + 1
              IN Visit([Top EXCEPT !.at = "for.body", !.block = t, !.old = <<named_values[v]>>], 4)
  <2> DEFINE old == <<named_values[v]>>
             t == Len(Body) + 1
             f == [Top EXCEPT !.at = "for.body", !.block = t, !.old = old]
  <2>1. /\ At("for.start") /\ ~Failed /\ stack # <<>> /\ Top.at = "for.start" /\ Top \in FrameType
        /\ named_values = Top.scope
    BY <1>2, Labels, PlainScope DEF Succeeded
  <2>2. /\ This \in Nodes /\ This.kind = "for" /\ named_values \in [Variables -> Alloca]
        /\ FrameOK(Top, tree, functions, current)
    BY <2>1, TopFrame DEF Of
  <2>3. v \in Variables /\ Top.slot \in Alloca /\ Own(Top.slot, current)
    BY <2>1, <2>2, NodeFacts DEF FrameOK, OldOwn, Own, FrameType
  <2>4. \A u \in Variables : u # v => named_values'[u] = named_values[u]
    BY <1>2, <2>1, <2>3, Rebound
  <2>5. old \in Seq(Alloca) /\ old[1] = named_values[v] /\ t \in Nat
    <3>1. t \in Nat
      BY <2>1, BlocksTyped
    <3> QED BY <2>2, <2>3, <3>1
  <2>6. Visit(f, 4)
    BY <1>2
  <2> HIDE DEF old, t
  <2>7. f \in FrameType /\ f.at = "for.body" /\ f.path = Top.path /\ f.old = old
        /\ f.scope = Top.scope
    BY <2>1, <2>5, Labels DEF FrameType
  <2> HIDE DEF f
  <2>8. tree'[f.path].names[1] = v
    BY <1>2, <2>7 DEF This
  <2> HIDE DEF v
  <2>9. f.at \in Looping /\ f.at \notin Unbound \cup Binding /\ f.at # "binary.rhs"
    BY <2>7, Labels DEF Looping
  <2>10. Kept(f, tree', named_values')
    BY <2>1, <2>4, <2>5, <2>7, <2>8, <2>9 DEF Kept
  <2> QED BY <1>2, <2>1, <2>6, <2>7, <2>10, SameTree, ScopeVisited
<1>3. ASSUME NEW from \in {"for.body", "for.step"}, At(from), ~Failed, KeepScope, UNCHANGED tree,
             NEW at \in {"for.step", "for.end"}, NEW i \in Nat, VisitThen(i, at)
      PROVE  ScopeKept' /\ RestoresScope
  <2> DEFINE f == [Top EXCEPT !.at = at]
  <2>1. from \in Looping /\ at \in Looping /\ at \in Starting \cup Waiting
    BY Labels DEF Looping
  <2>2. /\ stack # <<>> /\ Top.at = from /\ Top \in FrameType
        /\ \A u \in Variables : u # v => named_values[u] = Top.scope[u]
        /\ Top.old[1] = Top.scope[v]
    BY <1>3, <2>1, LoopScope
  <2>3. /\ f \in FrameType /\ f.at = at /\ f.path = Top.path /\ f.old = Top.old
        /\ f.scope = Top.scope
    BY <2>1, <2>2 DEF FrameType
  <2>4. Visit(f, i)
    BY <1>3 DEF VisitThen
  <2> HIDE DEF f
  <2>5. tree'[f.path].names[1] = v
    BY <1>3, <2>3 DEF This
  <2> HIDE DEF v
  <2>6. Kept(f, tree', named_values')
    BY <1>3, <2>1, <2>2, <2>3, <2>5, Labels DEF Kept, KeepScope
  <2> QED BY <1>3, <2>2, <2>3, <2>4, <2>6, SameTree, ScopeVisited
<1>4. CASE At("for.end") /\ ~Failed /\ Bind(v, Top.old[1]) /\ UNCHANGED tree /\ Return("value")
  <2>1. "for.end" \in Looping
    BY DEF Looping
  <2>2. /\ stack # <<>> /\ Top \in FrameType /\ v \in Variables
        /\ named_values \in [Variables -> Alloca] /\ Top.scope \in [Variables -> Alloca]
        /\ \A u \in Variables : u # v => named_values[u] = Top.scope[u]
        /\ Top.old[1] = Top.scope[v]
    BY <1>4, <2>1, LoopScope
  <2>3. named_values' = [named_values EXCEPT ![v] = Top.old[1]]
    BY <1>4 DEF Bind
  <2> HIDE DEF v
  <2>4. named_values' = Top.scope
    <3>1. /\ named_values' \in [Variables -> Alloca]
          /\ \A u \in Variables : named_values'[u] = Top.scope[u]
      BY <2>2, <2>3
    <3> QED BY <2>2, <3>1
  <2>5. "value" \in {"null", "value"}
    OBVIOUS
  <2> QED BY <1>4, <2>2, <2>4, <2>5, SameTree, ScopeReturned
<1>5. ASSUME NEW at, PropagateNull(at)
      PROVE  ScopeKept' /\ RestoresScope
  BY <1>5, NullReturn, SameTree DEF PropagateNull, Quiet
<1>6. visitFor =>
         \/ /\ At("for") /\ KeepScope /\ UNCHANGED <<result_func, tree>>
            /\ Visit([Top EXCEPT !.at = "for.start", !.slot = NewAlloca], 1)
         \/ /\ Succeeded("for.start") /\ Bind(v, Top.slot) /\ UNCHANGED <<result_func, tree>>
            /\ LET t == Len(Body) + 1
               IN Visit([Top EXCEPT !.at = "for.body", !.block = t, !.old = <<named_values[v]>>], 4)
         \/ At("for.body") /\ ~Failed /\ KeepScope /\ UNCHANGED tree /\ VisitThen(3, "for.step")
         \/ At("for.body") /\ ~Failed /\ KeepScope /\ UNCHANGED tree /\ VisitThen(2, "for.end")
         \/ At("for.step") /\ ~Failed /\ KeepScope /\ UNCHANGED tree /\ VisitThen(2, "for.end")
         \/ /\ At("for.end") /\ ~Failed /\ Bind(v, Top.old[1]) /\ UNCHANGED <<result_func, tree>>
            /\ Return("value")
         \/ \E at \in {"for.start", "for.body", "for.step", "for.end"} : PropagateNull(at)
  BY Zenon DEF visitFor, Quiet, Succeeded
<1>7. \/ At("for.body") /\ ~Failed /\ KeepScope /\ UNCHANGED tree /\ VisitThen(3, "for.step")
      \/ At("for.body") /\ ~Failed /\ KeepScope /\ UNCHANGED tree /\ VisitThen(2, "for.end")
      \/ At("for.step") /\ ~Failed /\ KeepScope /\ UNCHANGED tree /\ VisitThen(2, "for.end")
      => ScopeKept' /\ RestoresScope
  BY <1>3
<1> HIDE DEF v
<1> QED BY <1>1, <1>2, <1>4, <1>5, <1>6, <1>7

(* No `var` declares a name twice.                                         *)
DistinctNames == \A l \in VarLists : \A i, j \in 1..Len(l) : l[i] = l[j] => i = j

(* The scope of a `var` differs from the one it began with in the names it *)
(* has declared so far.                                                    *)
LEMMA BindingScope ==
    ASSUME CodegenInductive, ScopeKept, NEW at \in Binding, At(at), at = "var" \/ ~Failed
    PROVE  /\ stack # <<>> /\ Top.at = at /\ Top \in FrameType
           /\ This.names \in VarLists /\ This.names \in Seq(Variables) /\ Len(This.names) \in Nat
           /\ Top.i \in Nat /\ Top.i <= Len(This.names) /\ Len(Top.old) = Top.i
           /\ at = "var.init" => Top.i < Len(This.names)
           /\ at = "var.body" => Top.i = Len(This.names)
           /\ named_values \in [Variables -> Alloca] /\ Top.scope \in [Variables -> Alloca]
           /\ \A v \in Variables :
                 (\A j \in 1..Top.i : This.names[j] # v) => named_values[v] = Top.scope[v]
           /\ \A j \in 1..Top.i : Top.old[j] = Top.scope[This.names[j]]
<1>1. /\ stack # <<>> /\ Top.at = at /\ Top \in FrameType
      /\ named_values \in [Variables -> Alloca] /\ FrameOK(Top, tree, functions, current)
  BY PlainScope, TopFrame
<1>2. Top.at \in {"var", "var.init", "var.body"} /\ Top.at # "accept"
  BY <1>1 DEF Binding
<1>3. This \in Nodes /\ This.kind = "var"
  BY <1>1, <1>2, TopFrame DEF Of
<1>4. /\ This.names \in VarLists /\ This.names \in Seq(Variables) /\ Len(This.names) \in Nat
      /\ This.n \in 0..Len(This.names)
  BY <1>3, NodeFacts
<1>5. /\ Top.i <= Len(This.names) /\ Len(Top.old) = Top.i
      /\ at = "var.init" => Top.i < This.n
      /\ at = "var.body" => Top.i = Len(This.names)
  BY <1>1, <1>2 DEF FrameOK, OldKept, This
<1>6. Top.i \in Nat /\ Top.scope \in [Variables -> Alloca]
  BY <1>1 DEF FrameType
<1>7. Kept(Top, tree, named_values)
  BY <1>1, Labels, TopKept
<1> QED BY <1>1, <1>4, <1>5, <1>6, <1>7 DEF Kept, This

LEMMA NextScope ==
    ASSUME DistinctNames, CodegenInductive, ScopeKept,
           NEW at \in {"var", "var.init"}, At(at), at = "var" \/ ~Failed,
           Top.i < Len(This.names), BindNext
    PROVE  ScopeKept' /\ RestoresScope
<1> DEFINE names == This.names
           i == Top.i + 1
           name == names[i]
           old == Append(Top.old, named_values[name])
           f == [Top EXCEPT !.at = "var", !.i = i, !.old = old]
<1>1. /\ stack # <<>> /\ Top \in FrameType
      /\ names \in VarLists /\ names \in Seq(Variables) /\ Len(names) \in Nat
      /\ Top.i \in Nat /\ Len(Top.old) = Top.i
      /\ named_values \in [Variables -> Alloca]
      /\ \A v \in Variables : (\A j \in 1..Top.i : names[j] # v) => named_values[v] = Top.scope[v]
      /\ \A j \in 1..Top.i : Top.old[j] = Top.scope[names[j]]
  <2>1. at \in Binding
    BY DEF Binding
  <2> QED BY <2>1, BindingScope
<1>2. /\ Bind(name, NewAlloca) /\ UNCHANGED tree /\ Continue(f)
  BY DEF BindNext
<1>3. i \in Nat /\ i \in 1..Len(names) /\ \A j \in 1..Top.i : j \in 1..Len(names) /\ j # i
  BY <1>1
<1>4. name \in Variables
  BY <1>1, <1>3, ElementOfSeq
<1>5. \A j \in 1..Top.i : names[j] # name
  BY <1>1, <1>3 DEF DistinctNames
<1>6. named_values[name] = Top.scope[name] /\ named_values[name] \in Alloca
  BY <1>1, <1>4, <1>5
<1>7. \A v \in Variables : v # name => named_values'[v] = named_values[v]
  BY <1>1, <1>2, <1>4 DEF Bind
<1>8. \A j \in 1..i : j = i \/ j \in 1..Top.i
  BY <1>1
<1>9. Top.old \in Seq(Alloca)
  BY <1>1 DEF FrameType
<1>10. names[i] = name /\ names = This.names
  OBVIOUS
<1> HIDE DEF name
<1>11. old \in Seq(Alloca) /\ \A j \in 1..i : old[j] = Top.scope[names[j]]
  <2>1. /\ old \in Seq(Alloca)
        /\ old[Top.i + 1] = named_values[name]
        /\ \A j \in 1..Top.i : old[j] = Top.old[j]
    BY <1>1, <1>6, <1>9, Pushed
  <2> QED BY <1>1, <1>6, <1>8, <1>10, <2>1
<1> HIDE DEF old
<1>12. \A v \in Variables : (\A j \in 1..i : names[j] # v) => named_values'[v] = Top.scope[v]
  <2>1. i \in 1..i /\ \A j \in 1..Top.i : j \in 1..i
    BY <1>1
  <2> QED BY <1>1, <1>7, <1>10, <2>1
<1> HIDE DEF i, names
<1>13. /\ f \in FrameType /\ f.at = "var" /\ f.path = Top.path /\ f.i = i /\ f.old = old
       /\ f.scope = Top.scope
  BY <1>1, <1>3, <1>11 DEF FrameType, Starting
<1>14. stack' = Append(Front(stack), f)
  BY <1>2 DEF Continue
<1> HIDE DEF f
<1>15. tree'[f.path].names = names
  BY <1>2, <1>10, <1>13 DEF This
<1>16. Kept(f, tree', named_values')
  <2>1. f.at \in Binding /\ f.at \notin Looping /\ f.at \notin Unbound /\ f.at # "binary.rhs"
    BY <1>13 DEF Binding, Looping, Unbound
  <2> QED BY <1>11, <1>12, <1>13, <1>15, <2>1 DEF Kept
<1> QED BY <1>1, <1>2, <1>13, <1>14, <1>16, SameTree, ScopeContinued

LEMMA VarScope ==
    ASSUME DistinctNames, CodegenInductive, CodegenInductive', ScopeKept, visitVar
    PROVE  ScopeKept' /\ RestoresScope
<1>1. ASSUME At("var"), KeepScope, UNCHANGED tree, NEW i \in Nat,
             NEW at \in {"var.init", "var.body"}, VisitThen(i, at)
      PROVE  ScopeKept' /\ RestoresScope
  <2> DEFINE f == [Top EXCEPT !.at = at]
  <2>1. "var" \in Binding /\ at \in Binding /\ at \in Starting \cup Waiting
        /\ at \notin Looping /\ at \notin Unbound /\ at # "binary.rhs"
    BY DEF Binding, Looping, Unbound, Waiting
  <2>2. /\ stack # <<>> /\ Top.at = "var" /\ Top \in FrameType
        /\ \A v \in Variables :
              (\A j \in 1..Top.i : This.names[j] # v) => named_values[v] = Top.scope[v]
        /\ \A j \in 1..Top.i : Top.old[j] = Top.scope[This.names[j]]
    BY <1>1, <2>1, BindingScope
  <2>3. /\ f \in FrameType /\ f.at = at /\ f.path = Top.path /\ f.i = Top.i /\ f.old = Top.old
        /\ f.scope = Top.scope
    BY <2>1, <2>2 DEF FrameType
  <2>4. Visit(f, i)
    BY <1>1 DEF VisitThen
  <2> HIDE DEF f
  <2>5. tree'[f.path].names = This.names
    BY <1>1, <2>3 DEF This
  <2>6. Kept(f, tree', named_values')
    BY <1>1, <2>1, <2>2, <2>3, <2>5 DEF Kept, KeepScope
  <2> QED BY <1>1, <2>2, <2>3, <2>4, <2>6, SameTree, ScopeVisited
<1>2. CASE At("var") /\ Quiet /\ VisitThen(Top.i + 1, "var.init")
  <2> DEFINE i == Top.i + 1
  <2>1. i \in Nat
    BY <1>2, PlainScope DEF FrameType
  <2>2. VisitThen(i, "var.init")
    BY <1>2
  <2> HIDE DEF i
  <2> QED BY <1>1, <1>2, <2>1, <2>2 DEF Quiet
<1>3. CASE Succeeded("var.init") /\ BindNext
  <2>1. At("var.init") /\ ~Failed /\ "var.init" \in Binding
    BY <1>3 DEF Succeeded, Binding
  <2>2. Top.i < Len(This.names)
    BY <2>1, BindingScope
  <2> QED BY <1>3, <2>1, <2>2, NextScope
<1>4. CASE At("var") /\ Top.i < Len(This.names) /\ BindNext
  BY <1>4, NextScope
<1>5. CASE At("var") /\ Quiet /\ VisitThen(0, "var.body")
  BY <1>1, <1>5 DEF Quiet
<1>6. CASE /\ Succeeded("var.body") /\ named_values' = Restored(This.names, Top.old)
           /\ Emit({}) /\ Return("value")
  <2>1. At("var.body") /\ ~Failed /\ "var.body" \in Binding /\ UNCHANGED tree
    BY <1>6 DEF Succeeded, Binding, Emit
  <2>2. /\ stack # <<>> /\ Top.at = "var.body"
        /\ Top.i = Len(This.names) /\ Len(This.names) \in Nat /\ This.names \in Seq(Variables)
        /\ Top.scope \in [Variables -> Alloca]
        /\ \A v \in Variables :
              (\A j \in 1..Top.i : This.names[j] # v) => named_values[v] = Top.scope[v]
        /\ \A j \in 1..Top.i : Top.old[j] = Top.scope[This.names[j]]
    BY <2>1, BindingScope
  <2>3. /\ ScopeStep
        /\ \A v \in Variables :
              \/ Places(This.names, v) = {} /\ named_values'[v] = named_values[v]
              \/ \E j \in 1..Len(This.names) : This.names[j] = v /\ named_values'[v] = Top.old[j]
    BY <1>6, <2>2, RestoreStep
  <2>4. ASSUME NEW v \in Variables PROVE named_values'[v] = Top.scope[v]
    <3>1. CASE Places(This.names, v) = {} /\ named_values'[v] = named_values[v]
      <4>1. DOMAIN This.names = 1..Len(This.names)
        BY <2>2, LenProperties
      <4>2. \A j \in 1..Top.i : This.names[j] # v
        BY <2>2, <3>1, <4>1 DEF Places
      <4> QED BY <2>2, <3>1, <4>2
    <3>2. CASE \E j \in 1..Len(This.names) : This.names[j] = v /\ named_values'[v] = Top.old[j]
      BY <2>2, <3>2
    <3> QED BY <2>3, <3>1, <3>2
  <2>5. named_values' = Top.scope
    BY <2>2, <2>3, <2>4 DEF ScopeStep
  <2>6. "value" \in {"null", "value"}
    OBVIOUS
  <2> QED BY <1>6, <2>1, <2>2, <2>5, <2>6, SameTree, ScopeReturned
<1>7. ASSUME NEW at, PropagateNull(at)
      PROVE  ScopeKept' /\ RestoresScope
  BY <1>7, NullReturn, SameTree DEF PropagateNull, Quiet
<1>8. visitVar =>
         \/ At("var") /\ Quiet /\ VisitThen(Top.i + 1, "var.init")
         \/ Succeeded("var.init") /\ BindNext
         \/ At("var") /\ Top.i < Len(This.names) /\ BindNext
         \/ At("var") /\ Quiet /\ VisitThen(0, "var.body")
         \/ /\ Succeeded("var.body") /\ named_values' = Restored(This.names, Top.old)
            /\ Emit({}) /\ Return("value")
         \/ \E at \in {"var.init", "var.body"} : PropagateNull(at)
  BY Zenon DEF visitVar
<1> QED BY <1>2, <1>3, <1>4, <1>5, <1>6, <1>7, <1>8

LEMMA ScopeStarts ==
    ASSUME Init
    PROVE  ScopeKept
<1>1. stack = <<>> /\ \A k : k \notin 1..(0 - 1)
  BY DEF Init
<1>2. Len(stack) = 0
  BY <1>1
<1> QED BY <1>1, <1>2 DEF ScopeKept

LEMMA ScopeStays ==
    ASSUME DistinctNames, CodegenInductive, CodegenInductive', ScopeKept, [Next]_vars
    PROVE  ScopeKept' /\ RestoresScope
<1>1. CASE accept
  BY <1>1, AcceptScope
<1>2. CASE visitFloat \/ visitVariable \/ visitUnary \/ visitCall \/ visitIf
  BY <1>2, UnboundScope
<1>3. CASE visitBinary
  BY <1>3, BinaryScope
<1>4. CASE visitFor
  BY <1>4, ForScope
<1>5. CASE visitVar
  BY <1>5, VarScope
<1>6. CASE beginFunction
  <2>1. stack = <<>>
    BY <1>6, BetweenItems DEF beginFunction, NextItem
  <2> DEFINE h == Frame(<<>>)
  <2>2. h.at = "accept" /\ h.scope = named_values' /\ stack' = <<h>>
    BY <1>6 DEF beginFunction, Frame
  <2> HIDE DEF h
  <2>3. Len(stack') = 1 /\ Last(stack') = h /\ \A k : k \notin 1..(1 - 1)
    BY <2>2 DEF Last
  <2>4. Kept(h, tree', named_values')
    BY <2>2, Labels DEF Kept
  <2>5. ScopeKept'
    BY <2>3, <2>4 DEF ScopeKept, Top
  <2>6. Len(stack) = 0
    BY <2>1
  <2> QED BY <2>3, <2>5, <2>6 DEF RestoresScope
<1>7. CASE UNCHANGED <<stack, tree, named_values, result_val>>
  <2>1. Len(stack') = Len(stack) /\ Len(stack) \in Nat
    BY <1>7, LenProperties DEF CodegenInductive, TypeOK
  <2> QED BY <1>7, <2>1 DEF ScopeKept, Top, Failed, RestoresScope
<1>8. visitPrototype \/ endFunction \/ main_loop \/ UNCHANGED vars =>
         UNCHANGED <<stack, tree, named_values, result_val>>
  BY DEF visitPrototype, endFunction, main_loop, vars
<1> QED BY <1>1, <1>2, <1>3, <1>4, <1>5, <1>6, <1>7, <1>8 DEF Next, Done

(* Where no `var` declares a name twice, a visit that succeeds leaves the  *)
(* scope as it found it, at every depth: the two passes over an assignment *)
(* and the operands visited after a failed one included.                   *)
THEOREM ScopeIsRestored ==
    ASSUME DistinctNames
    PROVE  Spec => ScopeRestored
<1> DEFINE Inv == CodegenInductive /\ ScopeKept
<1>1. Init => Inv
  BY CodegenStarts, ScopeStarts
<1>2. Inv /\ [Next]_vars => Inv'
  BY CodegenKept, ScopeStays
<1>3. Inv /\ [Next]_vars =>
         [Len(stack') < Len(stack) /\ result_val' = "value" => named_values' = Top.scope]_vars
  BY CodegenKept, ScopeStays DEF RestoresScope
<1> HIDE DEF Inv
<1> QED BY <1>1, <1>2, <1>3, PTL DEF Spec, ScopeRestored
-----------------------------------------------------------------------------
(* The blocks.                                                             *)

(* The blocks that a visit of an `if` has created and not placed yet.      *)
Choosing == {"if.then", "if.else"}
Pending(f) ==
    IF f.at = "if.then" THEN {f.block + 1, f.block + 2}
    ELSE IF f.at = "if.else" THEN {f.block + 2}
    ELSE {}

PhiMatches(blocks) ==
    \A b \in DOMAIN blocks :
        blocks[b].phi # {} => blocks[b].phi = Predecessors(blocks, b)

(* The body is bound to fail: a visit has failed and its caller does not   *)
(* know yet, or is the addition or assignment that will notice later.      *)
NullOperand(f) == f.at = "binary.rhs" /\ f.lhs = "null"
Doomed ==
    \/ stack = <<>> /\ Failed
    \/ stack # <<>> /\ Top.at \in Waiting /\ Failed
    \/ \E k \in 1..Len(stack) : NullOperand(stack[k])

(* While a body is built, every block placed but the current one has its   *)
(* terminator, and those not placed are still empty.                       *)
BodyBuilt(blocks, b) ==
    /\ b \in DOMAIN blocks /\ blocks[b].placed /\ blocks[b].ends = 0
    /\ \A a \in DOMAIN blocks :
          /\ a # b /\ blocks[a].placed => blocks[a].ends = 1
          /\ ~blocks[a].placed => blocks[a].ends = 0 /\ blocks[a].phi = {}
          /\ blocks[a].next \subseteq DOMAIN blocks
    /\ PhiMatches(blocks)

(* Nothing but the visit of an `if` branches to its "ifcont", and no loop  *)
(* begins with a phi.                                                      *)
FrameBuilt(f, blocks) ==
    /\ \A b \in Pending(f) : b \in DOMAIN blocks /\ ~blocks[b].placed
    /\ f.at = "if.then" => Predecessors(blocks, f.block + 2) = {}
    /\ f.at = "if.else" => Predecessors(blocks, f.block + 2) = {f.then}
    /\ f.at \in Looping =>
           f.block \in DOMAIN blocks /\ blocks[f.block].placed /\ blocks[f.block].phi = {}

(* A block that is not placed waits for a visit that will place it, unless *)
(* the function is going to be erased.                                     *)
BlocksSound ==
    /\ \A i \in DOMAIN functions : i # current =>
          WellFormed(functions[i].blocks) /\ PhiMatches(functions[i].blocks)
    /\ current # NoFunction =>
          /\ BodyBuilt(Body, insert)
          /\ \A k \in 1..Len(stack) : FrameBuilt(stack[k], Body)
          /\ \A j, k \in 1..Len(stack) : j < k => Pending(stack[j]) \cap Pending(stack[k]) = {}
          /\ \A b \in DOMAIN Body : ~Body[b].placed =>
                Doomed \/ \E k \in 1..Len(stack) : b \in Pending(stack[k])

(* The blocks B after a terminator at the end of b that goes to T, c being *)
(* placed, and others perhaps created, for what comes next.                *)
Extended(B, C, b, c, T) ==
    /\ B \in Seq(BlockType) /\ C \in Seq(BlockType) /\ Len(B) <= Len(C)
    /\ b \in 1..Len(B) /\ c \in 1..Len(C) /\ T \subseteq 1..Len(C)
    /\ c \in 1..Len(B) => ~B[c].placed
    /\ C[b].ends = B[b].ends + 1 /\ C[b].next = B[b].next \cup T
    /\ \A a \in 1..Len(B) : a # b => C[a].ends = B[a].ends /\ C[a].next = B[a].next
    /\ C[c].placed
    /\ \A a \in 1..Len(B) : a # c => C[a].placed = B[a].placed /\ C[a].phi = B[a].phi
    /\ \A a \in (Len(B) + 1)..Len(C) :
          C[a].ends = 0 /\ C[a].next = {} /\ C[a].phi = {} /\ (C[a].placed <=> a = c)

LEMMA PredecessorsOf ==
    ASSUME NEW B, NEW C, NEW b, NEW c, NEW T, Extended(B, C, b, c, T), NEW x
    PROVE  Predecessors(C, x) = Predecessors(B, x) \cup (IF x \in T THEN {b} ELSE {})
<1>1. /\ Len(B) \in Nat /\ Len(C) \in Nat /\ Len(B) <= Len(C)
      /\ DOMAIN B = 1..Len(B) /\ DOMAIN C = 1..Len(C)
  BY LenProperties DEF Extended
<1>2. \A a \in 1..Len(C) : a \in 1..Len(B) \/ a \in (Len(B) + 1)..Len(C)
  BY <1>1
<1>3. \A a \in 1..Len(B) : a \in 1..Len(C)
  BY <1>1
<1>4. \A a \in DOMAIN C : x \in C[a].next <=> a \in Predecessors(B, x) \/ (a = b /\ x \in T)
  <2>1. ASSUME NEW a \in 1..Len(B)
        PROVE  x \in C[a].next <=> a \in Predecessors(B, x) \/ (a = b /\ x \in T)
    BY <1>1 DEF Extended, Predecessors
  <2>2. ASSUME NEW a \in (Len(B) + 1)..Len(C)
        PROVE  x \in C[a].next <=> a \in Predecessors(B, x) \/ (a = b /\ x \in T)
    <3>1. a \notin 1..Len(B)
      BY <1>1
    <3> QED BY <1>1, <3>1 DEF Extended, Predecessors
  <2> QED BY <1>1, <1>2, <2>1, <2>2
<1>5. b \in DOMAIN C /\ Predecessors(B, x) \subseteq DOMAIN C
  BY <1>1, <1>3 DEF Extended, Predecessors
<1> QED BY <1>4, <1>5 DEF Predecessors

LEMMA BodyExtends ==
    ASSUME NEW B, NEW C, NEW b, NEW c, NEW T, Extended(B, C, b, c, T), BodyBuilt(B, b),
           \A x \in T : x # c => C[x].phi = {},
           C[c].phi # {} => C[c].phi = Predecessors(C, c)
    PROVE  BodyBuilt(C, c)
<1>1. /\ Len(B) \in Nat /\ Len(C) \in Nat /\ Len(B) <= Len(C)
      /\ DOMAIN B = 1..Len(B) /\ DOMAIN C = 1..Len(C)
  BY LenProperties DEF Extended
<1>2. \A a \in 1..Len(C) : a \in 1..Len(B) \/ a \in (Len(B) + 1)..Len(C)
  BY <1>1
<1>3. b # c /\ B[b].ends = 0 /\ B[b].placed
  BY DEF Extended, BodyBuilt
<1>4. c \in DOMAIN C /\ C[c].placed /\ C[c].ends = 0
  <2>1. CASE c \in 1..Len(B)
    BY <1>1, <1>3, <2>1 DEF Extended, BodyBuilt
  <2>2. CASE c \in (Len(B) + 1)..Len(C)
    BY <1>1, <2>2 DEF Extended
  <2> QED BY <1>1, <1>2, <2>1, <2>2 DEF Extended
<1>5. ASSUME NEW a \in 1..Len(B)
      PROVE  /\ a # c /\ C[a].placed => C[a].ends = 1
             /\ ~C[a].placed => C[a].ends = 0 /\ C[a].phi = {}
             /\ C[a].next \subseteq DOMAIN C
  <2>1. CASE a = b
    <3>1. C[a].ends = 1 /\ C[a].placed
      BY <1>3, <2>1 DEF Extended
    <3>2. B[b].next \subseteq DOMAIN B /\ DOMAIN B \subseteq DOMAIN C
      BY <1>1 DEF BodyBuilt
    <3>3. C[b].next = B[b].next \cup T /\ T \subseteq DOMAIN C
      BY <1>1 DEF Extended
    <3> QED BY <2>1, <3>1, <3>2, <3>3
  <2>2. CASE a # b
    <3>1. C[a].ends = B[a].ends /\ C[a].next = B[a].next
      BY <2>2 DEF Extended
    <3>2. C[a].next \subseteq DOMAIN C
      BY <1>1, <3>1 DEF BodyBuilt
    <3>3. a # c => C[a].placed = B[a].placed /\ C[a].phi = B[a].phi
      BY DEF Extended
    <3>4. /\ B[a].placed => B[a].ends = 1
          /\ ~B[a].placed => B[a].ends = 0 /\ B[a].phi = {}
      BY <1>1, <2>2 DEF BodyBuilt
    <3> QED BY <1>4, <3>1, <3>2, <3>3, <3>4
  <2> QED BY <2>1, <2>2
<1>6. ASSUME NEW a \in (Len(B) + 1)..Len(C)
      PROVE  /\ a # c /\ C[a].placed => C[a].ends = 1
             /\ ~C[a].placed => C[a].ends = 0 /\ C[a].phi = {}
             /\ C[a].next \subseteq DOMAIN C
  BY DEF Extended
<1>7. ASSUME NEW x \in DOMAIN C, C[x].phi # {}
      PROVE  C[x].phi = Predecessors(C, x)
  <2>1. CASE x = c
    BY <1>7, <2>1
  <2>2. CASE x # c
    <3>1. x \notin T
      BY <1>7, <2>2
    <3>2. x \in 1..Len(B)
      BY <1>1, <1>2, <1>7 DEF Extended
    <3>3. C[x].phi = B[x].phi
      BY <2>2, <3>2 DEF Extended
    <3>4. B[x].phi = Predecessors(B, x)
      BY <1>1, <1>7, <3>2, <3>3 DEF BodyBuilt, PhiMatches
    <3>5. Predecessors(C, x) = Predecessors(B, x)
      BY <3>1, PredecessorsOf
    <3> QED BY <3>3, <3>4, <3>5
  <2> QED BY <2>1, <2>2
<1> QED BY <1>1, <1>2, <1>4, <1>5, <1>6, <1>7 DEF BodyBuilt, PhiMatches

LEMMA FrameExtends ==
    ASSUME NEW B, NEW C, NEW b, NEW c, NEW T, Extended(B, C, b, c, T),
           NEW f, FrameBuilt(f, B), Pending(f) \cap (T \cup {c}) = {}
    PROVE  FrameBuilt(f, C)
<1>1. /\ Len(B) \in Nat /\ Len(C) \in Nat /\ Len(B) <= Len(C)
      /\ DOMAIN B = 1..Len(B) /\ DOMAIN C = 1..Len(C)
  BY LenProperties DEF Extended
<1>2. \A a \in DOMAIN B : a \in DOMAIN C
  BY <1>1
<1>3. ASSUME NEW x \in Pending(f) PROVE x \in DOMAIN C /\ ~C[x].placed
  <2>1. x \in DOMAIN B /\ ~B[x].placed /\ x # c
    BY DEF FrameBuilt
  <2> QED BY <1>1, <1>2, <2>1 DEF Extended
<1>4. ASSUME NEW x \in Pending(f) PROVE Predecessors(C, x) = Predecessors(B, x)
  <2>1. x \notin T
    OBVIOUS
  <2> QED BY <2>1, PredecessorsOf
<1>5. f.at \in Choosing => f.block + 2 \in Pending(f)
  BY DEF Pending, Choosing
<1>6. ASSUME f.at \in Looping
      PROVE  f.block \in DOMAIN C /\ C[f.block].placed /\ C[f.block].phi = {}
  <2>1. f.block \in DOMAIN B /\ B[f.block].placed /\ B[f.block].phi = {}
    BY <1>6 DEF FrameBuilt
  <2>2. f.block # c
    BY <1>1, <2>1 DEF Extended
  <2> QED BY <1>1, <1>2, <2>1, <2>2 DEF Extended
<1>7. f.at = "if.then" => Predecessors(C, f.block + 2) = {}
  BY <1>4, <1>5 DEF FrameBuilt, Choosing
<1>8. f.at = "if.else" => Predecessors(C, f.block + 2) = {f.then}
  BY <1>4, <1>5 DEF FrameBuilt, Choosing
<1> QED BY <1>3, <1>6, <1>7, <1>8 DEF FrameBuilt

(* The stack after a step: the innermost visit has ended, or goes on as f, *)
(* perhaps in a child.                                                     *)
Onward(f) ==
    \/ stack' = Append(Front(stack), f)
    \/ \E g : g.at = "accept" /\ stack' = Append(Append(Front(stack), f), g)

LEMMA Appended ==
    ASSUME NEW S, NEW s \in Seq(S), NEW e
    PROVE  /\ Len(Append(s, e)) = Len(s) + 1
           /\ Append(s, e)[Len(s) + 1] = e
           /\ \A i \in 1..Len(s) : Append(s, e)[i] = s[i]
<1>1. s \in Seq(S \cup {e}) /\ e \in S \cup {e}
  OBVIOUS
<1> QED BY <1>1, AppendProperties

LEMMA Ways ==
    /\ \A f, i : Visit(f, i) => Onward(f) /\ UNCHANGED result_val
    /\ \A f : Continue(f) => Onward(f) /\ UNCHANGED result_val
<1>1. ASSUME NEW f, NEW i, Visit(f, i) PROVE Onward(f) /\ UNCHANGED result_val
  <2>1. Frame(Child(i)).at = "accept"
    BY DEF Frame
  <2> QED BY <1>1, <2>1 DEF Visit, Onward
<1> QED BY <1>1 DEF Continue, Onward

LEMMA After ==
    ASSUME CodegenInductive, stack # <<>>, NEW n, n = Len(stack)
    PROVE  /\ n \in Nat \ {0} /\ Top = stack[n]
           /\ \A k \in 1..(n - 1) : stack[k].at \in Waiting
           /\ stack' = Front(stack) =>
                 Len(stack') = n - 1 /\ \A k \in 1..(n - 1) : stack'[k] = stack[k]
           /\ \A f : Onward(f) =>
                 /\ Len(stack') \in {n, n + 1} /\ stack'[n] = f
                 /\ Len(stack') = n + 1 => stack'[n + 1].at = "accept"
                 /\ \A k \in 1..(n - 1) : stack'[k] = stack[k]
<1>1. stack \in Seq(FrameType) /\ Visits
  BY DEF CodegenInductive, TypeOK
<1>2. /\ n \in Nat \ {0} /\ Top = stack[n] /\ Front(stack) \in Seq(FrameType)
      /\ Len(Front(stack)) = n - 1
      /\ \A k \in 1..(n - 1) : Front(stack)[k] = stack[k]
  BY <1>1, Dropped DEF Top
<1>3. ASSUME NEW f, Onward(f)
      PROVE  /\ Len(stack') \in {n, n + 1} /\ stack'[n] = f
             /\ Len(stack') = n + 1 => stack'[n + 1].at = "accept"
             /\ \A k \in 1..(n - 1) : stack'[k] = stack[k]
  <2> DEFINE s == Append(Front(stack), f)
  <2>1. Len(s) = n /\ s[n] = f /\ \A k \in 1..(n - 1) : s[k] = stack[k]
    BY <1>2, Appended
  <2>2. s \in Seq(FrameType \cup {f})
    <3>1. Front(stack) \in Seq(FrameType \cup {f}) /\ f \in FrameType \cup {f}
      BY <1>2
    <3> QED BY <3>1, AppendProperties
  <2> HIDE DEF s
  <2>3. CASE stack' = s
    BY <1>2, <2>1, <2>3
  <2>4. ASSUME NEW g, g.at = "accept", stack' = Append(s, g)
        PROVE  /\ Len(stack') \in {n, n + 1} /\ stack'[n] = f
               /\ Len(stack') = n + 1 => stack'[n + 1].at = "accept"
               /\ \A k \in 1..(n - 1) : stack'[k] = stack[k]
    <3>1. Len(stack') = n + 1 /\ stack'[n + 1] = g /\ \A k \in 1..n : stack'[k] = s[k]
      BY <2>1, <2>2, <2>4, Appended
    <3>2. n \in 1..n /\ \A k \in 1..(n - 1) : k \in 1..n
      BY <1>2
    <3> QED BY <2>1, <2>4, <3>1, <3>2
  <2> QED BY <1>3, <2>3, <2>4 DEF Onward, s
<1> QED BY <1>1, <1>2, <1>3 DEF Visits

(* The innermost visit is not about to find that something has failed.     *)
Healthy == (Top.at \notin Waiting \/ ~Failed) /\ ~NullOperand(Top)

(* Once bound to fail, a body stays so.                                    *)
LEMMA StaysDoomed ==
    ASSUME CodegenInductive, stack # <<>>
    PROVE  /\ Return("null") => Doomed'
           /\ Return("value") /\ Healthy => (Doomed => Doomed')
           /\ \A f : Onward(f) /\ (Healthy \/ NullOperand(f)) => (Doomed => Doomed')
<1> DEFINE n == Len(stack)
<1>1. /\ n \in Nat \ {0} /\ Top = stack[n]
      /\ \A k \in 1..(n - 1) : stack[k].at \in Waiting
      /\ stack' = Front(stack) =>
            Len(stack') = n - 1 /\ \A k \in 1..(n - 1) : stack'[k] = stack[k]
      /\ \A f : Onward(f) =>
            /\ Len(stack') \in {n, n + 1} /\ stack'[n] = f
            /\ \A k \in 1..(n - 1) : stack'[k] = stack[k]
  BY After
<1> HIDE DEF n
<1>2. ASSUME Return("null") PROVE Doomed'
  <2>1. stack' = Front(stack) /\ result_val' = "null" /\ Len(stack') = n - 1
    BY <1>1, <1>2 DEF Return
  <2>2. CASE stack' # <<>>
    <3>1. /\ stack \in Seq(FrameType)
      BY DEF CodegenInductive, TypeOK
    <3>2. Len(stack) > 1 /\ Last(stack') = stack[n - 1]
      BY <2>1, <2>2, <3>1, Dropped DEF n
    <3>3. n - 1 \in 1..(n - 1)
      BY <1>1, <3>2 DEF n
    <3>4. Top'.at \in Waiting
      BY <1>1, <3>2, <3>3 DEF Top
    <3> QED BY <2>1, <2>2, <3>4 DEF Doomed, Failed
  <2> QED BY <2>1, <2>2 DEF Doomed, Failed
<1>3. ASSUME Healthy, Doomed PROVE \E k \in 1..(n - 1) : NullOperand(stack[k])
  <2>1. PICK k \in 1..n : NullOperand(stack[k])
    BY <1>3 DEF Healthy, Doomed, n
  <2>2. k # n
    BY <1>1, <1>3, <2>1 DEF Healthy
  <2> QED BY <1>1, <2>1, <2>2
<1>4. ASSUME Return("value"), Healthy, Doomed PROVE Doomed'
  <2>1. stack' = Front(stack)
    BY <1>4 DEF Return
  <2> QED BY <1>1, <1>3, <1>4, <2>1 DEF Doomed
<1>5. ASSUME NEW f, Onward(f), Healthy \/ NullOperand(f), Doomed PROVE Doomed'
  <2>1. /\ Len(stack') \in {n, n + 1} /\ stack'[n] = f
        /\ \A k \in 1..(n - 1) : stack'[k] = stack[k]
    BY <1>1, <1>5
  <2>2. n \in 1..Len(stack') /\ \A k \in 1..(n - 1) : k \in 1..Len(stack')
    BY <1>1, <2>1
  <2>3. CASE NullOperand(f)
    BY <2>1, <2>2, <2>3 DEF Doomed
  <2>4. CASE Healthy
    <3>1. PICK k \in 1..(n - 1) : NullOperand(stack[k])
      BY <1>3, <1>5, <2>4
    <3> QED BY <2>1, <2>2, <3>1 DEF Doomed
  <2> QED BY <1>5, <2>3, <2>4
<1> QED BY <1>2, <1>4, <1>5

(* What is left to show of a step of the body of a function: that its      *)
(* blocks are in order, that the visits below the innermost do not notice, *)
(* and what becomes of the blocks that are not placed.                     *)
Covered(n) ==
    \A x \in DOMAIN Body' : ~Body'[x].placed =>
        \/ Doomed'
        \/ n <= Len(stack') /\ x \in Pending(stack'[n])
        \/ x \in DOMAIN Body /\ ~Body[x].placed /\ x \notin Pending(Top)

LEMMA OthersKept ==
    ASSUME CodegenInductive, BodyStep, BlocksSound, stack # <<>>,
           NEW i \in DOMAIN functions', i # current'
    PROVE  WellFormed(functions'[i].blocks) /\ PhiMatches(functions'[i].blocks)
<1>1. /\ functions \in Seq(FunctionType) /\ functions' \in Seq(FunctionType) /\ current' = current
      /\ ModuleGrows(functions, functions', current)
  BY DEF CodegenInductive, TypeOK, BodyStep
<1>2. /\ Len(functions) \in Nat /\ Len(functions') \in Nat
      /\ DOMAIN functions = 1..Len(functions) /\ DOMAIN functions' = 1..Len(functions')
  BY <1>1, LenProperties
<1>3. CASE i \in 1..Len(functions)
  <2>1. functions'[i].blocks = functions[i].blocks
    BY <1>1, <1>3 DEF ModuleGrows
  <2> QED BY <1>1, <1>2, <1>3, <2>1 DEF BlocksSound
<1>4. CASE i \in (Len(functions) + 1)..Len(functions')
  <2>1. functions'[i].blocks = <<>>
    BY <1>1, <1>4 DEF ModuleGrows
  <2> QED BY <2>1 DEF WellFormed, PhiMatches
<1> QED BY <1>2, <1>3, <1>4

LEMMA NothingPending ==
    ASSUME NEW f, f.at \notin Choosing
    PROVE  /\ Pending(f) = {}
           /\ \A blocks : f.at \notin Looping => FrameBuilt(f, blocks)
BY DEF Pending, Choosing, FrameBuilt

LEMMA StackBuilt ==
    ASSUME CodegenInductive, BodyKept, BlocksSound, stack # <<>>,
           NEW n, n = Len(stack),
           \/ Len(stack') = n - 1
           \/ Len(stack') \in {n, n + 1} /\ (Len(stack') = n + 1 => stack'[n + 1].at = "accept"),
           \A k \in 1..(n - 1) : stack'[k] = stack[k] /\ FrameBuilt(stack[k], Body'),
           n <= Len(stack') =>
              /\ FrameBuilt(stack'[n], Body')
              /\ \A k \in 1..(n - 1) : Pending(stack[k]) \cap Pending(stack'[n]) = {},
           BodyBuilt(Body', insert'), Doomed => Doomed', Covered(n)
    PROVE  BlocksSound'
<1>1. n \in Nat \ {0} /\ Top = stack[n]
  BY After
<1>2. BodyStep /\ current # NoFunction /\ current' = current
  BY DEF BodyKept, BodyStep, CodegenInductive, Visits
<1> DEFINE m == Len(stack')
<1>3. /\ m \in Nat /\ m >= n - 1
      /\ \A k \in 1..m : k \in 1..(n - 1) \/ k = n \/ (k = n + 1 /\ m = n + 1)
      /\ \A k \in 1..m : k >= n => n <= m
      /\ \A k \in 1..(n - 1) : k \in 1..m
      /\ n <= m => n \in 1..m
  BY <1>1
<1>4. m = n + 1 => /\ Pending(stack'[n + 1]) = {}
                   /\ FrameBuilt(stack'[n + 1], Body')
  <2>1. "accept" \notin Choosing /\ "accept" \notin Looping
    BY DEF Choosing, Looping
  <2> QED BY <1>1, <2>1, NothingPending
<1>5. \A k \in 1..m : FrameBuilt(stack'[k], Body')
  <2>1. ASSUME NEW k \in 1..m PROVE FrameBuilt(stack'[k], Body')
    <3>1. CASE k \in 1..(n - 1)
      BY <3>1
    <3>2. CASE k = n
      BY <1>3, <3>2
    <3> QED BY <1>3, <1>4, <3>1, <3>2
  <2> QED BY <2>1
<1>6. ASSUME NEW j \in 1..m, NEW k \in 1..m, j < k
      PROVE  Pending(stack'[j]) \cap Pending(stack'[k]) = {}
  <2>1. CASE k = n + 1 /\ m = n + 1
    BY <1>4, <2>1
  <2>2. CASE k = n
    <3>1. j \in 1..(n - 1) /\ n <= m
      BY <1>1, <1>3, <1>6, <2>2
    <3> QED BY <2>2, <3>1
  <2>3. CASE k \in 1..(n - 1)
    <3>1. j \in 1..(n - 1) /\ j \in 1..n /\ k \in 1..n
      BY <1>1, <1>6, <2>3
    <3>2. Pending(stack[j]) \cap Pending(stack[k]) = {}
      BY <1>2, <1>6, <3>1 DEF BlocksSound
    <3> QED BY <2>3, <3>1, <3>2
  <2> QED BY <1>3, <2>1, <2>2, <2>3
<1>7. ASSUME NEW x \in DOMAIN Body', ~Body'[x].placed
      PROVE  Doomed' \/ \E k \in 1..m : x \in Pending(stack'[k])
  <2>1. CASE n <= m /\ x \in Pending(stack'[n])
    BY <1>3, <2>1
  <2>2. CASE x \in DOMAIN Body /\ ~Body[x].placed /\ x \notin Pending(Top)
    <3>1. CASE Doomed
      BY <3>1
    <3>2. CASE \E k \in 1..n : x \in Pending(stack[k])
      <4>1. PICK k \in 1..n : x \in Pending(stack[k])
        BY <3>2
      <4>2. k \in 1..(n - 1)
        BY <1>1, <2>2, <4>1
      <4> QED BY <1>3, <4>1, <4>2
    <3> QED BY <1>2, <2>2, <3>1, <3>2 DEF BlocksSound
  <2> QED BY <1>7, <2>1, <2>2 DEF Covered
<1>8. \A i \in DOMAIN functions' : i # current' =>
         WellFormed(functions'[i].blocks) /\ PhiMatches(functions'[i].blocks)
  BY <1>2, OthersKept
<1> HIDE DEF m
<1> QED BY <1>5, <1>6, <1>7, <1>8 DEF BlocksSound, m

(* The steps that leave the blocks alone.                                  *)
SameBody == Body' = Body /\ insert' = insert

GoesOn(f) ==
    /\ Onward(f)
    /\ Top.at \notin Choosing /\ f.at \notin Choosing
    /\ f.at \in Looping => Top.at \in Looping /\ f.block = Top.block
    /\ Healthy \/ NullOperand(f)

PlainStep ==
    /\ SameBody
    /\ \/ Return("null")
       \/ Return("value") /\ Top.at \notin Choosing /\ Healthy
       \/ \E f : GoesOn(f)

LEMMA PlainBuilds ==
    ASSUME CodegenInductive, BodyKept, BlocksSound, stack # <<>>, PlainStep
    PROVE  BlocksSound'
<1> DEFINE n == Len(stack)
<1>1. /\ n \in Nat \ {0} /\ Top = stack[n] /\ current # NoFunction
      /\ stack' = Front(stack) =>
            Len(stack') = n - 1 /\ \A k \in 1..(n - 1) : stack'[k] = stack[k]
      /\ \A f : Onward(f) =>
            /\ Len(stack') \in {n, n + 1} /\ stack'[n] = f
            /\ Len(stack') = n + 1 => stack'[n + 1].at = "accept"
            /\ \A k \in 1..(n - 1) : stack'[k] = stack[k]
  BY After DEF CodegenInductive, Visits
<1>2. /\ Body' = Body /\ insert' = insert
      /\ BodyBuilt(Body, insert)
      /\ \A k \in 1..n : FrameBuilt(stack[k], Body)
      /\ \A k \in 1..(n - 1) : k \in 1..n /\ k < n
      /\ n \in 1..n
  BY <1>1 DEF PlainStep, SameBody, BlocksSound
<1> HIDE DEF n
<1>3. BodyBuilt(Body', insert') /\ \A k \in 1..(n - 1) : FrameBuilt(stack[k], Body')
  BY <1>2
<1>4. ASSUME stack' = Front(stack), Doomed => Doomed', Doomed' \/ Pending(Top) = {}
      PROVE  BlocksSound'
  <2>1. Len(stack') = n - 1 /\ (\A k \in 1..(n - 1) : stack'[k] = stack[k]) /\ ~(n <= Len(stack'))
    BY <1>1, <1>4
  <2>2. Covered(n)
    BY <1>2, <1>4 DEF Covered
  <2> QED BY <1>3, <1>4, <2>1, <2>2, StackBuilt DEF n
<1>5. CASE Return("null")
  <2>1. stack' = Front(stack) /\ Doomed'
    BY <1>5, StaysDoomed DEF Return
  <2> QED BY <1>4, <2>1
<1>6. CASE Return("value") /\ Top.at \notin Choosing /\ Healthy
  <2>1. stack' = Front(stack) /\ (Doomed => Doomed') /\ Pending(Top) = {}
    BY <1>6, StaysDoomed, NothingPending DEF Return
  <2> QED BY <1>4, <2>1
<1>7. ASSUME NEW f, GoesOn(f) PROVE BlocksSound'
  <2>1. /\ Len(stack') \in {n, n + 1} /\ stack'[n] = f
        /\ Len(stack') = n + 1 => stack'[n + 1].at = "accept"
        /\ \A k \in 1..(n - 1) : stack'[k] = stack[k]
        /\ Doomed => Doomed'
    BY <1>1, <1>7, StaysDoomed DEF GoesOn
  <2>2. Pending(Top) = {} /\ Pending(f) = {}
    BY <1>7, NothingPending DEF GoesOn
  <2>3. FrameBuilt(f, Body')
    <3>1. CASE f.at \notin Looping
      BY <1>7, <3>1, NothingPending DEF GoesOn
    <3>2. CASE f.at \in Looping
      <4>1. Top.at \in Looping /\ f.block = Top.block /\ FrameBuilt(Top, Body) /\ f.at \notin Choosing
        BY <1>1, <1>2, <1>7, <3>2 DEF GoesOn
      <4> QED BY <1>2, <2>2, <4>1 DEF FrameBuilt, Choosing
    <3> QED BY <3>1, <3>2
  <2>4. Covered(n)
    BY <1>2, <2>2 DEF Covered
  <2>5. \A k \in 1..(n - 1) : Pending(stack[k]) \cap Pending(stack'[n]) = {}
    BY <2>1, <2>2
  <2> QED BY <1>3, <2>1, <2>3, <2>4, <2>5, StackBuilt DEF n
<1> QED BY <1>5, <1>6, <1>7 DEF PlainStep

(* The steps that end the current block.                                   *)
LEMMA Builds ==
    ASSUME CodegenInductive, BodyKept, BlocksSound, stack # <<>>, Healthy,
           NEW C, Body' = C, NEW c, insert' = c, NEW T, Extended(Body, C, insert, c, T),
           \A x \in T \cup {c} :
              x \in Pending(Top) \/ x \notin DOMAIN Body \/ (x \in DOMAIN Body /\ Body[x].placed),
           \A x \in T : x # c => C[x].phi = {},
           C[c].phi # {} => C[c].phi = Predecessors(C, c),
           \/ /\ Return("value") /\ Pending(Top) \subseteq {c}
              /\ \A x \in DOMAIN C : x \in DOMAIN Body \/ x = c
           \/ \E f : /\ Onward(f) /\ FrameBuilt(f, C)
                     /\ \A x \in Pending(f) : x \in Pending(Top) \/ x \notin DOMAIN Body
                     /\ Pending(Top) \subseteq Pending(f) \cup {c}
                     /\ \A x \in DOMAIN C : x \in DOMAIN Body \/ x \in Pending(f) \/ x = c
    PROVE  BlocksSound'
<1> DEFINE n == Len(stack)
<1>1. /\ n \in Nat \ {0} /\ Top = stack[n] /\ current # NoFunction
      /\ stack' = Front(stack) =>
            Len(stack') = n - 1 /\ \A k \in 1..(n - 1) : stack'[k] = stack[k]
      /\ \A f : Onward(f) =>
            /\ Len(stack') \in {n, n + 1} /\ stack'[n] = f
            /\ Len(stack') = n + 1 => stack'[n + 1].at = "accept"
            /\ \A k \in 1..(n - 1) : stack'[k] = stack[k]
  BY After DEF CodegenInductive, Visits
<1>2. /\ BodyBuilt(Body, insert)
      /\ \A k \in 1..n : FrameBuilt(stack[k], Body)
      /\ \A k \in 1..(n - 1) : k \in 1..n /\ Pending(stack[k]) \cap Pending(Top) = {}
  <2>1. n \in 1..n /\ \A k \in 1..(n - 1) : k \in 1..n /\ k < n
    BY <1>1
  <2> QED BY <1>1, <2>1 DEF BlocksSound
<1> HIDE DEF n
<1>3. BodyBuilt(Body', insert')
  <2>1. BodyBuilt(C, c)
    BY <1>2, BodyExtends
  <2> QED BY <2>1
<1>4. \A k \in 1..(n - 1) : \A x \in Pending(stack[k]) :
         x \in DOMAIN Body /\ ~Body[x].placed /\ x \notin Pending(Top)
  BY <1>2 DEF FrameBuilt
<1>5. ASSUME NEW k \in 1..(n - 1) PROVE FrameBuilt(stack[k], Body')
  <2>1. Pending(stack[k]) \cap (T \cup {c}) = {}
    BY <1>4
  <2>2. FrameBuilt(stack[k], C)
    BY <1>2, <2>1, FrameExtends
  <2> QED BY <2>2
<1>6. ASSUME NEW x \in DOMAIN Body, x \in DOMAIN C, ~C[x].placed
      PROVE  ~Body[x].placed /\ x # c
  <2>1. x # c /\ DOMAIN Body = 1..Len(Body)
    BY <1>6, LenProperties DEF Extended
  <2> QED BY <1>6, <2>1 DEF Extended
<1>7. C[c].placed
  BY DEF Extended
<1>8. CASE /\ Return("value") /\ Pending(Top) \subseteq {c}
           /\ \A x \in DOMAIN C : x \in DOMAIN Body \/ x = c
  <2>1. /\ stack' = Front(stack) /\ Len(stack') = n - 1 /\ ~(n <= Len(stack'))
        /\ \A k \in 1..(n - 1) : stack'[k] = stack[k]
        /\ Doomed => Doomed'
    BY <1>1, <1>8, StaysDoomed DEF Return
  <2>2. Covered(n)
    BY <1>6, <1>7, <1>8 DEF Covered
  <2> QED BY <1>3, <1>5, <2>1, <2>2, StackBuilt DEF n
<1>9. ASSUME NEW f, Onward(f), FrameBuilt(f, C),
             \A x \in Pending(f) : x \in Pending(Top) \/ x \notin DOMAIN Body,
             Pending(Top) \subseteq Pending(f) \cup {c},
             \A x \in DOMAIN C : x \in DOMAIN Body \/ x \in Pending(f) \/ x = c
      PROVE  BlocksSound'
  <2>1. /\ Len(stack') \in {n, n + 1} /\ stack'[n] = f /\ n <= Len(stack')
        /\ Len(stack') = n + 1 => stack'[n + 1].at = "accept"
        /\ \A k \in 1..(n - 1) : stack'[k] = stack[k]
        /\ Doomed => Doomed'
    BY <1>1, <1>9, StaysDoomed
  <2>2. Covered(n)
    BY <1>6, <1>7, <1>9, <2>1 DEF Covered
  <2>3. FrameBuilt(stack'[n], Body')
    BY <1>9, <2>1
  <2>4. \A k \in 1..(n - 1) : Pending(stack[k]) \cap Pending(stack'[n]) = {}
    BY <1>4, <1>9, <2>1
  <2> QED BY <1>3, <1>5, <2>1, <2>2, <2>3, <2>4, StackBuilt DEF n
<1> QED BY <1>8, <1>9

LEMMA SameModule ==
    ASSUME CodegenInductive, NEW at, At(at)
    PROVE  /\ stack # <<>> /\ Top.at = at /\ Top \in FrameType
           /\ KeepModule => SameBody
           /\ create_entry_block_alloca /\ UNCHANGED result_func => SameBody
<1>1. stack # <<>> /\ Top.at = at /\ current' = current
  BY DEF At
<1>2. KeepModule => SameBody
  BY <1>1 DEF KeepModule, SameBody, Body
<1>3. create_entry_block_alloca /\ UNCHANGED result_func =>
         functions'[current].blocks = Body /\ insert' = insert
  BY <1>1, AllocaCreated DEF create_entry_block_alloca
<1> QED BY <1>1, <1>2, <1>3, TopFrame DEF SameBody, Body

LEMMA SameCalled ==
    ASSUME CodegenInductive, NEW at, At(at), NEW name,
           NEW found, found = getFunction(functions, function_protos, name),
           result_func' = found.fn,
           \/ functions' = found.fs /\ UNCHANGED insert
           \/ found.fn # NoFunction /\ \E args : CreateCall(found.fs, found.fn, name, args)
    PROVE  SameBody
<1>1. stack # <<>> /\ current' = current
  BY DEF At
<1>2. /\ functions \in Seq(FunctionType) /\ current \in 1..Len(functions)
      /\ \A p \in DOMAIN function_protos : p \in FunctionNames /\ function_protos[p] \in ArgLists
      /\ result_func \in 0..Len(functions)
      /\ result_func # NoFunction => functions[result_func].live
  BY <1>1, TopFrame DEF CodegenInductive, TypeOK, ModuleSound
<1>3. /\ found.fs \in Seq(FunctionType)
      /\ ModuleGrows(functions, found.fs, NoFunction)
      /\ ModuleGrows(functions, found.fs, current)
      /\ found.fn \in 0..Len(found.fs)
      /\ found.fn # NoFunction => found.fs[found.fn].live
  BY <1>2, LookedUp
<1>4. found.fs[current].blocks = Body
  <2>1. current # NoFunction
    BY <1>2, LenProperties DEF NoFunction
  <2> QED BY <1>2, <1>3, <2>1 DEF ModuleGrows, Body
<1>5. CASE functions' = found.fs /\ UNCHANGED insert
  BY <1>1, <1>4, <1>5 DEF SameBody, Body
<1>6. ASSUME found.fn # NoFunction, NEW args, CreateCall(found.fs, found.fn, name, args)
      PROVE  SameBody
  <2>1. found.fn \in 1..Len(found.fs)
    BY <1>3, <1>6, LenProperties DEF NoFunction
  <2>2. functions'[current].blocks = found.fs[current].blocks
    BY <1>3, <1>6, <2>1, CallCreated
  <2>3. insert' = insert
    BY <1>6 DEF CreateCall
  <2> QED BY <1>1, <1>4, <2>2, <2>3 DEF SameBody, Body
<1> QED BY <1>5, <1>6

(* The labels a visit leaves without touching the blocks.                  *)
Idle(at) == at \notin Choosing /\ (at \notin Waiting \/ ~Failed) /\ at # "binary.rhs"

LEMMA PlainOn ==
    ASSUME CodegenInductive, NEW at, At(at), SameBody, Idle(at),
           NEW f, f.at \notin Choosing, f.at \in Looping => at \in Looping /\ f.block = Top.block,
           Onward(f)
    PROVE  PlainStep
<1>1. Top.at = at
  BY DEF At
<1> QED BY <1>1 DEF Idle, PlainStep, GoesOn, Healthy, NullOperand

LEMMA PlainThen ==
    ASSUME CodegenInductive, NEW at, At(at), SameBody, Idle(at),
           NEW to, to \notin Choosing, to \in Looping => at \in Looping,
           NEW i, VisitThen(i, to)
    PROVE  PlainStep
<1> DEFINE f == [Top EXCEPT !.at = to]
<1>1. f.at = to /\ f.block = Top.block
  BY SameModule DEF FrameType
<1>2. Onward(f)
  BY Ways DEF VisitThen
<1> HIDE DEF f
<1> QED BY <1>1, <1>2, PlainOn

LEMMA PlainBack ==
    ASSUME CodegenInductive, NEW at, At(at), SameBody,
           \/ Return("null")
           \/ Return("value") /\ Idle(at)
           \/ Return("value") /\ at = "binary.rhs" /\ ~Failed /\ Top.lhs # "null"
    PROVE  PlainStep
<1>1. Top.at = at
  BY DEF At
<1>2. "binary.rhs" \notin Choosing
  BY DEF Choosing
<1> QED BY <1>1, <1>2 DEF Idle, PlainStep, Healthy, NullOperand

LEMMA PlainNull ==
    ASSUME CodegenInductive, NEW at, PropagateNull(at)
    PROVE  PlainStep
<1>1. At(at) /\ KeepModule /\ Return("null")
  BY DEF PropagateNull, Quiet
<1> QED BY <1>1, SameModule, PlainBack

LEMMA PlainOperator ==
    ASSUME CodegenInductive, NEW at, At(at), NEW name, NEW args, CallOperator(name, args),
           Idle(at) \/ (at = "binary.rhs" /\ ~Failed /\ Top.lhs # "null")
    PROVE  PlainStep
<1> DEFINE found == getFunction(functions, function_protos, name)
<1>1. /\ result_func' = found.fn
      /\ IF found.fn = NoFunction
         THEN /\ functions' = found.fs /\ emitted' = {} /\ KeepScope
              /\ UNCHANGED <<insert, tree>> /\ Return("null")
         ELSE CreateCall(found.fs, found.fn, name, args)
  BY DEF CallOperator
<1> HIDE DEF found
<1>2. SameBody
  BY <1>1, SameCalled DEF found
<1>3. Return("null") \/ Return("value")
  BY <1>1 DEF CreateCall
<1> QED BY <1>2, <1>3, PlainBack

LEMMA IdleLabels ==
    /\ \A at \in {"accept", "float", "variable", "unary", "=", "+", "call", "if", "for", "var"} :
          Idle(at) /\ at \notin Looping /\ at \notin Choosing
    /\ \A at \in {"unary.operand", "assign.rhs", "binary.lhs", "call.args", "if.cond", "for.start",
                  "for.body", "for.step", "for.end", "var.init", "var.body"} :
          (~Failed => Idle(at)) /\ at \notin Choosing
    /\ \A at \in {"unary.operand", "assign.rhs", "binary.lhs", "binary.rhs", "call.args", "if.cond",
                  "for.start", "var.init", "var.body"} : at \notin Looping
    /\ "for.body" \in Looping /\ "for.step" \in Looping /\ "for.end" \in Looping
    /\ "binary.rhs" \notin Choosing
BY Labels DEF Idle, Looping, Choosing

LEMMA LeavesArePlain ==
    ASSUME CodegenInductive, accept \/ visitFloat \/ visitVariable \/ visitUnary
    PROVE  PlainStep
<1>1. CASE accept
  <2>1. At("accept") /\ KeepModule
    BY <1>1 DEF accept
  <2>2. PICK node \in NodesAt(Top.path) :
           tree' = With(tree, Top.path, node) /\ Continue([Top EXCEPT !.at = node.kind])
    BY <1>1 DEF accept
  <2> DEFINE f == [Top EXCEPT !.at = node.kind]
  <2>3. /\ Top \in FrameType /\ FrameOK(Top, tree, functions, current) /\ SameBody
        /\ stack # <<>> /\ Top.at = "accept"
    BY <2>1, SameModule, TopFrame
  <2>4. node \in Nodes
    <3>1. Top.path \in Seq(Nat)
      BY <2>3 DEF FrameType
    <3> QED BY <2>2, <2>3, <3>1, TreeGrown
  <2>5. node.kind \in {"float", "variable", "unary", "=", "+", "call", "if", "for", "var"}
    BY <2>4, NodeFacts
  <2>6. f.at = node.kind
    BY <2>3 DEF FrameType
  <2>7. Onward(f)
    BY <2>2, Ways
  <2> HIDE DEF f
  <2> QED BY <2>1, <2>3, <2>5, <2>6, <2>7, IdleLabels, PlainOn
<1>2. CASE visitFloat
  <2>1. At("float") /\ KeepModule /\ Return("value")
    BY <1>2 DEF visitFloat, Quiet
  <2> QED BY <2>1, SameModule, IdleLabels, PlainBack
<1>3. CASE visitVariable
  <2>1. At("variable") /\ KeepModule /\ (Return("null") \/ Return("value"))
    BY <1>3 DEF visitVariable, Emit
  <2> QED BY <2>1, SameModule, IdleLabels, PlainBack
<1>4. CASE visitUnary
  <2>1. CASE At("unary") /\ Quiet /\ VisitThen(1, "unary.operand")
    BY <2>1, SameModule, IdleLabels, PlainThen DEF Quiet
  <2>2. CASE PropagateNull("unary.operand")
    BY <2>2, PlainNull
  <2>3. CASE Succeeded("unary.operand") /\ CallOperator("unary", 1)
    BY <2>3, IdleLabels, PlainOperator DEF Succeeded
  <2> QED BY <1>4, <2>1, <2>2, <2>3 DEF visitUnary
<1> QED BY <1>1, <1>2, <1>3, <1>4

LEMMA BinaryIsPlain ==
    ASSUME CodegenInductive, visitBinary
    PROVE  PlainStep
<1>1. CASE \/ At("+") /\ Quiet /\ VisitThen(1, "binary.lhs")
           \/ At("=") /\ Quiet /\ VisitThen(2, "assign.rhs")
  BY <1>1, SameModule, IdleLabels, PlainThen DEF Quiet
<1>2. CASE PropagateNull("assign.rhs")
  BY <1>2, PlainNull
<1>3. CASE /\ Succeeded("assign.rhs") /\ KeepModule
           /\ Return("null") \/ VisitThen(1, "binary.lhs")
  <2>1. At("assign.rhs") /\ ~Failed /\ SameBody
    BY <1>3, SameModule DEF Succeeded
  <2> QED BY <1>3, <2>1, IdleLabels, PlainThen, PlainBack
<1>4. CASE At("binary.lhs") /\ Quiet /\ Visit([Top EXCEPT !.at = "binary.rhs", !.lhs = result_val], 2)
  <2> DEFINE f == [Top EXCEPT !.at = "binary.rhs", !.lhs = result_val]
  <2>1. Top \in FrameType /\ Top.at = "binary.lhs" /\ SameBody
    BY <1>4, SameModule DEF Quiet
  <2>2. f.at = "binary.rhs" /\ f.lhs = result_val
    BY <2>1 DEF FrameType
  <2>3. Onward(f)
    BY <1>4, Ways
  <2> HIDE DEF f
  <2>4. Healthy \/ NullOperand(f)
    BY <2>1, <2>2 DEF Healthy, NullOperand, Failed
  <2> QED BY <2>1, <2>2, <2>3, <2>4, IdleLabels DEF PlainStep, GoesOn
<1>5. CASE At("binary.rhs") /\ Quiet /\ Return("null")
  BY <1>5, SameModule, PlainBack DEF Quiet
<1>6. CASE Succeeded("binary.rhs") /\ Top.lhs # "null" /\ CallOperator("binary=", 2)
  BY <1>6, PlainOperator DEF Succeeded
<1>7. CASE /\ Succeeded("binary.rhs") /\ Top.lhs # "null" /\ KeepScope
           /\ Emit({Instruction("fadd")}) /\ Return("value")
  BY <1>7, SameModule, PlainBack DEF Succeeded, Emit
<1>8. visitBinary =>
         \/ At("+") /\ Quiet /\ VisitThen(1, "binary.lhs")
         \/ At("=") /\ Quiet /\ VisitThen(2, "assign.rhs")
         \/ PropagateNull("assign.rhs")
         \/ Succeeded("assign.rhs") /\ KeepModule /\ (Return("null") \/ VisitThen(1, "binary.lhs"))
         \/ At("binary.lhs") /\ Quiet
              /\ Visit([Top EXCEPT !.at = "binary.rhs", !.lhs = result_val], 2)
         \/ At("binary.rhs") /\ Quiet /\ Return("null")
         \/ Succeeded("binary.rhs") /\ Top.lhs # "null" /\ CallOperator("binary=", 2)
         \/ /\ Succeeded("binary.rhs") /\ Top.lhs # "null" /\ KeepScope
            /\ Emit({Instruction("fadd")}) /\ Return("value")
  BY Zenon DEF visitBinary
<1> QED BY <1>1, <1>2, <1>3, <1>4, <1>5, <1>6, <1>7, <1>8

LEMMA CallIsPlain ==
    ASSUME CodegenInductive, visitCall
    PROVE  PlainStep
<1> DEFINE found == getFunction(functions, function_protos, This.names[1])
<1>1. CASE /\ At("call") /\ result_func' = found.fn
           /\ \/ functions' = found.fs /\ UNCHANGED <<insert, tree>>
              \/ found.fn # NoFunction /\ CreateCall(found.fs, found.fn, This.names[1], 0)
           /\ \/ Return("null") \/ Return("value")
              \/ Visit([Top EXCEPT !.at = "call.args", !.fn = found.fn, !.i = 1], 1)
  <2>1. Top \in FrameType
    BY <1>1, SameModule
  <2>2. SameBody
    BY <1>1, SameCalled
  <2> HIDE DEF found
  <2>3. CASE Return("null") \/ Return("value")
    BY <1>1, <2>2, <2>3, IdleLabels, PlainBack
  <2>4. CASE Visit([Top EXCEPT !.at = "call.args", !.fn = found.fn, !.i = 1], 1)
    <3> DEFINE f == [Top EXCEPT !.at = "call.args", !.fn = found.fn, !.i = 1]
    <3>1. f.at = "call.args"
      BY <2>1 DEF FrameType
    <3>2. Onward(f)
      BY <2>4, Ways
    <3> HIDE DEF f
    <3> QED BY <1>1, <2>2, <3>1, <3>2, IdleLabels, PlainOn
  <2> QED BY <1>1, <2>3, <2>4
<1>2. CASE PropagateNull("call.args")
  BY <1>2, PlainNull
<1>3. CASE Succeeded("call.args") /\ Quiet /\ Visit([Top EXCEPT !.i = @ + 1], Top.i + 1)
  <2> DEFINE f == [Top EXCEPT !.i = @ + 1]
  <2>1. At("call.args") /\ ~Failed /\ Top \in FrameType /\ Top.at = "call.args" /\ SameBody
    BY <1>3, SameModule DEF Succeeded, Quiet
  <2>2. f.at = "call.args"
    BY <2>1 DEF FrameType
  <2>3. Onward(f)
    BY <1>3, Ways
  <2> HIDE DEF f
  <2> QED BY <2>1, <2>2, <2>3, IdleLabels, PlainOn
<1>4. CASE /\ Succeeded("call.args") /\ CreateCall(functions, CalleeF, This.names[1], This.n)
           /\ UNCHANGED result_func
  <2>1. At("call.args") /\ ~Failed /\ stack # <<>> /\ Top.at = "call.args" /\ current' = current
    BY <1>4 DEF Succeeded, At
  <2>2. /\ FrameOK(Top, tree, functions, current)
        /\ functions \in Seq(FunctionType) /\ Len(functions) \in Nat
    BY <2>1, TopFrame
  <2>3. CalleeF \in 1..Len(functions) /\ functions[CalleeF].live
    BY <2>1, <2>2, LenProperties DEF FrameOK, CalleeFound, CalleeF
  <2>4. ModuleGrows(functions, functions, current)
    BY <2>2 DEF ModuleGrows
  <2>5. /\ result_func' \in 0..Len(functions)
        /\ result_func' # NoFunction => functions[result_func'].live
    BY <1>4 DEF CodegenInductive, TypeOK, ModuleSound
  <2>6. functions'[current].blocks = functions[current].blocks
    BY <1>4, <2>1, <2>2, <2>3, <2>4, <2>5, CallCreated
  <2>7. SameBody /\ Return("value")
    BY <1>4, <2>1, <2>6 DEF CreateCall, SameBody, Body
  <2> QED BY <2>1, <2>7, IdleLabels, PlainBack
<1>5. visitCall =>
         \/ /\ At("call") /\ result_func' = found.fn
            /\ \/ functions' = found.fs /\ UNCHANGED <<insert, tree>>
               \/ found.fn # NoFunction /\ CreateCall(found.fs, found.fn, This.names[1], 0)
            /\ \/ Return("null") \/ Return("value")
               \/ Visit([Top EXCEPT !.at = "call.args", !.fn = found.fn, !.i = 1], 1)
         \/ PropagateNull("call.args")
         \/ Succeeded("call.args") /\ Quiet /\ Visit([Top EXCEPT !.i = @ + 1], Top.i + 1)
         \/ /\ Succeeded("call.args") /\ CreateCall(functions, CalleeF, This.names[1], This.n)
            /\ UNCHANGED result_func
  BY Zenon DEF visitCall, CreateCall
<1> QED BY <1>1, <1>2, <1>3, <1>4, <1>5

LEMMA VarIsPlain ==
    ASSUME CodegenInductive, visitVar
    PROVE  PlainStep
<1>1. ASSUME NEW to \in {"var.init", "var.body"}, NEW i, At("var"), Quiet, VisitThen(i, to)
      PROVE  PlainStep
  BY <1>1, SameModule, IdleLabels, PlainThen DEF Quiet
<1>2. ASSUME NEW at, At(at), Idle(at), BindNext
      PROVE  PlainStep
  <2> DEFINE name == This.names[Top.i + 1]
             f == [Top EXCEPT !.at = "var", !.i = @ + 1, !.old = Append(@, named_values[name])]
  <2>1. Top \in FrameType /\ SameBody
    BY <1>2, SameModule DEF BindNext
  <2>2. f.at = "var"
    BY <2>1 DEF FrameType
  <2>3. Onward(f)
    BY <1>2, Ways DEF BindNext
  <2> HIDE DEF f
  <2> QED BY <1>2, <2>1, <2>2, <2>3, IdleLabels, PlainOn
<1>3. CASE Succeeded("var.init") /\ BindNext
  BY <1>2, <1>3, IdleLabels DEF Succeeded
<1>4. CASE At("var") /\ BindNext
  BY <1>2, <1>4, IdleLabels
<1>5. CASE Succeeded("var.body") /\ Emit({}) /\ Return("value")
  BY <1>5, SameModule, IdleLabels, PlainBack DEF Succeeded, Emit
<1>6. CASE \E at \in {"var.init", "var.body"} : PropagateNull(at)
  BY <1>6, PlainNull
<1>7. visitVar =>
         \/ At("var") /\ Quiet /\ VisitThen(Top.i + 1, "var.init")
         \/ Succeeded("var.init") /\ BindNext
         \/ At("var") /\ BindNext
         \/ At("var") /\ Quiet /\ VisitThen(0, "var.body")
         \/ Succeeded("var.body") /\ Emit({}) /\ Return("value")
         \/ \E at \in {"var.init", "var.body"} : PropagateNull(at)
  BY Zenon DEF visitVar
<1> QED BY <1>1, <1>3, <1>4, <1>5, <1>6, <1>7

(* What the steps that end a block do to the blocks.                       *)
LEMMA BodyFacts ==
    ASSUME CodegenInductive, BlocksSound, stack # <<>>
    PROVE  /\ Body \in Seq(BlockType) /\ Len(Body) \in Nat /\ DOMAIN Body = 1..Len(Body)
           /\ BodyBuilt(Body, insert) /\ insert \in 1..Len(Body)
           /\ FrameBuilt(Top, Body)
           /\ Top \in FrameType /\ Top.block \in Nat
           /\ \A x : x \notin 1..Len(Body) => Predecessors(Body, x) = {}
<1>1. Body \in Seq(BlockType) /\ Len(Body) \in Nat /\ DOMAIN Body = 1..Len(Body)
  BY Branching, LenProperties
<1>2. current # NoFunction
  BY DEF CodegenInductive, Visits
<1>3. BodyBuilt(Body, insert) /\ \A k \in 1..Len(stack) : FrameBuilt(stack[k], Body)
  BY <1>2 DEF BlocksSound
<1>4. Top = stack[Len(stack)] /\ Len(stack) \in 1..Len(stack)
  BY After
<1>5. Top \in FrameType /\ Top.block \in Nat
  BY TopFrame DEF FrameType
<1>6. ASSUME NEW x, x \notin 1..Len(Body) PROVE Predecessors(Body, x) = {}
  BY <1>1, <1>3, <1>6 DEF BodyBuilt, Predecessors
<1> QED BY <1>1, <1>3, <1>4, <1>5, <1>6 DEF BodyBuilt

(* The blocks C after the blocks D: c is placed, and others may be created. *)
Follows(C, D, c) ==
    /\ C \in Seq(BlockType) /\ Len(D) <= Len(C) /\ c \in 1..Len(C) /\ C[c].placed
    /\ c \in 1..Len(D) => ~D[c].placed
    /\ \A a \in 1..Len(D) : C[a].ends = D[a].ends /\ C[a].next = D[a].next
    /\ \A a \in 1..Len(D) : a # c => C[a].placed = D[a].placed /\ C[a].phi = D[a].phi
    /\ \A a \in (Len(D) + 1)..Len(C) :
          C[a].ends = 0 /\ C[a].next = {} /\ C[a].phi = {} /\ (C[a].placed <=> a = c)

(* What a branch leaves.                                                   *)
LEMMA BranchLeaves ==
    ASSUME CodegenInductive, BlocksSound, stack # <<>>,
           NEW T \in SUBSET Nat, NEW D, D = Branch(T)
    PROVE  /\ D \in Seq(BlockType) /\ Len(D) = Len(Body)
           /\ insert \in 1..Len(Body)
           /\ D[insert].ends = Body[insert].ends + 1 /\ D[insert].next = Body[insert].next \cup T
           /\ \A a \in 1..Len(Body) : D[a].placed = Body[a].placed /\ D[a].phi = Body[a].phi
           /\ \A a \in 1..Len(Body) : a # insert => D[a] = Body[a]
<1>1. insert \in 1..Len(Body)
  BY BodyFacts
<1>2. /\ D \in Seq(BlockType) /\ Len(D) = Len(Body)
      /\ D[insert].ends = Body[insert].ends + 1 /\ D[insert].next = Body[insert].next \cup T
      /\ D[insert].placed = Body[insert].placed /\ D[insert].phi = Body[insert].phi
      /\ \A a \in 1..Len(Body) : a # insert => D[a] = Body[a]
  BY <1>1, Branching
<1> QED BY <1>1, <1>2

LEMMA BranchExtends ==
    ASSUME CodegenInductive, BlocksSound, stack # <<>>,
           NEW T \in SUBSET Nat, NEW D, D = Branch(T),
           NEW C, NEW c, Follows(C, D, c), T \subseteq 1..Len(C)
    PROVE  Extended(Body, C, insert, c, T)
<1> DEFINE B == Body
           b == insert
<1>1. B \in Seq(BlockType) /\ b \in 1..Len(B)
  BY BodyFacts
<1>2. /\ Len(D) = Len(B)
      /\ D[b].ends = B[b].ends + 1 /\ D[b].next = B[b].next \cup T
      /\ \A a \in 1..Len(B) : D[a].placed = B[a].placed /\ D[a].phi = B[a].phi
      /\ \A a \in 1..Len(B) : a # b => D[a] = B[a]
  BY BranchLeaves
<1> HIDE DEF B, b
<1>3. /\ C \in Seq(BlockType) /\ Len(B) <= Len(C) /\ c \in 1..Len(C) /\ C[c].placed
      /\ c \in 1..Len(B) => ~B[c].placed
      /\ \A a \in 1..Len(B) : C[a].ends = D[a].ends /\ C[a].next = D[a].next
      /\ \A a \in 1..Len(B) : a # c => C[a].placed = D[a].placed /\ C[a].phi = D[a].phi
      /\ \A a \in (Len(B) + 1)..Len(C) :
            C[a].ends = 0 /\ C[a].next = {} /\ C[a].phi = {} /\ (C[a].placed <=> a = c)
  BY <1>2 DEF Follows
<1>4. C[b].ends = B[b].ends + 1 /\ C[b].next = B[b].next \cup T
  BY <1>1, <1>2, <1>3
<1>5. \A a \in 1..Len(B) : a # b => C[a].ends = B[a].ends /\ C[a].next = B[a].next
  BY <1>2, <1>3
<1>6. \A a \in 1..Len(B) : a # c => C[a].placed = B[a].placed /\ C[a].phi = B[a].phi
  BY <1>2, <1>3
<1>7. Extended(B, C, b, c, T)
  BY <1>1, <1>3, <1>4, <1>5, <1>6 DEF Extended
<1> QED BY <1>7 DEF B, b

LEMMA ThreeAdded ==
    ASSUME NEW B \in Seq(BlockType), NEW C,
           C = B \o <<Block(TRUE), Block(FALSE), Block(FALSE)>>
    PROVE  /\ Len(B) \in Nat /\ Len(C) = Len(B) + 3
           /\ \A a \in 1..Len(B) : C[a] = B[a]
           /\ C[Len(B) + 1] = Block(TRUE) /\ C[Len(B) + 2] = Block(FALSE)
           /\ C[Len(B) + 3] = Block(FALSE)
<1> DEFINE m == Len(B)
           N == <<Block(TRUE), Block(FALSE), Block(FALSE)>>
<1>1. /\ N \in Seq(BlockType) /\ Len(N) = 3
      /\ N[1] = Block(TRUE) /\ N[2] = Block(FALSE) /\ N[3] = Block(FALSE)
  BY NewBlocks
<1> HIDE DEF N
<1>2. m \in Nat
  BY LenProperties
<1>3. /\ Len(B \o N) = Len(B) + Len(N)
      /\ \A i \in 1..(Len(B) + Len(N)) : (B \o N)[i] = IF i <= Len(B) THEN B[i] ELSE N[i - Len(B)]
  BY <1>1, ConcatProperties
<1>4. C = B \o N /\ Len(C) = m + 3
  BY <1>1, <1>3 DEF N
<1>5. \A i \in 1..(m + 3) : C[i] = IF i <= m THEN B[i] ELSE N[i - m]
  BY <1>1, <1>3, <1>4
<1>6. ASSUME NEW a \in 1..m PROVE C[a] = B[a]
  <2>1. a \in 1..(m + 3) /\ a <= m
    BY <1>2
  <2> QED BY <1>5, <2>1
<1>7. ASSUME NEW k \in {1, 2, 3} PROVE C[m + k] = N[k]
  <2> DEFINE i == m + k
  <2>1. i \in 1..(m + 3) /\ ~(i <= m) /\ i - m = k
    BY <1>2
  <2> HIDE DEF i
  <2>2. C[i] = N[k]
    BY <1>5, <2>1
  <2> QED BY <2>2 DEF i
<1> QED BY <1>1, <1>2, <1>4, <1>6, <1>7

LEMMA ThenExtends ==
    ASSUME CodegenInductive, BlocksSound, stack # <<>>, NEW t, t = Len(Body) + 1
    PROVE  /\ Extended(Body, ThenBlocks(t), insert, t, {t, t + 1})
           /\ Len(ThenBlocks(t)) = t + 2 /\ t \in Nat
<1> DEFINE T == {t, t + 1}
           D == Branch(T)
           C == ThenBlocks(t)
<1>1. T \in SUBSET Nat
  BY BodyFacts
<1>2. D \in Seq(BlockType) /\ Len(D) = Len(Body)
  <2> HIDE DEF D, T
  <2> QED BY <1>1, BranchLeaves DEF D
<1>3. C = D \o <<Block(TRUE), Block(FALSE), Block(FALSE)>>
  BY DEF ThenBlocks
<1>4. C \in Seq(BlockType)
  BY BlocksTyped
<1> HIDE DEF D, C
<1> DEFINE m == Len(D)
<1>5. /\ m \in Nat /\ Len(C) = m + 3
      /\ \A a \in 1..m : C[a] = D[a]
      /\ C[m + 1] = Block(TRUE) /\ C[m + 2] = Block(FALSE) /\ C[m + 3] = Block(FALSE)
  BY <1>2, <1>3, ThreeAdded, Zenon
<1> HIDE DEF m
<1>6. t = m + 1
  BY <1>2 DEF m
<1>7. \A a \in (m + 1)..Len(C) : a \in {m + 1, m + 2, m + 3}
  BY <1>5
<1>8. \A a \in (m + 1)..Len(C) :
         C[a].ends = 0 /\ C[a].next = {} /\ C[a].phi = {} /\ (C[a].placed <=> a = t)
  <2>1. m + 2 # m + 1 /\ m + 3 # m + 1
    BY <1>5
  <2> QED BY <1>5, <1>6, <1>7, <2>1, NewBlock
<1>9. C[t].placed
  BY <1>5, <1>6, NewBlock
<1>10. m <= Len(C) /\ T \subseteq 1..Len(C) /\ t \in 1..Len(C) /\ t \notin 1..m
  BY <1>5, <1>6
<1>11. Follows(C, D, t)
  BY <1>4, <1>5, <1>8, <1>9, <1>10 DEF Follows, m
<1>12. Extended(Body, C, insert, t, T)
  <2> HIDE DEF T
  <2> QED BY <1>1, <1>10, <1>11, BranchExtends DEF D
<1> QED BY <1>5, <1>6, <1>12 DEF C

(* A block is added for what comes next, and the branch may go there.      *)
LEMMA AddedExtends ==
    ASSUME CodegenInductive, BlocksSound, stack # <<>>, NEW t, t = Len(Body) + 1,
           NEW T \in SUBSET Nat, T \subseteq 1..t,
           NEW C, C = Append(Branch(T), Block(TRUE))
    PROVE  /\ Extended(Body, C, insert, t, T)
           /\ Len(C) = t /\ t \in Nat
           /\ C[t].phi = {} /\ C[t].placed
<1> DEFINE D == Branch(T)
           e == Block(TRUE)
<1>1. /\ D \in Seq(BlockType) /\ Len(D) = Len(Body)
      /\ \A a \in 1..Len(Body) : D[a].placed = Body[a].placed /\ D[a].phi = Body[a].phi
  <2> HIDE DEF D
  <2> QED BY BranchLeaves DEF D
<1>2. e \in BlockType /\ e.placed /\ e.ends = 0 /\ e.next = {} /\ e.phi = {}
  BY NewBlock
<1>3. C = Append(D, e)
  OBVIOUS
<1> HIDE DEF D, e
<1> DEFINE m == Len(D)
<1>4. /\ m \in Nat /\ C \in Seq(BlockType) /\ Len(C) = m + 1 /\ C[m + 1] = e
      /\ \A a \in 1..m : C[a] = D[a]
  <2>1. /\ Append(D, e) \in Seq(BlockType) /\ Len(D) \in Nat
        /\ Len(Append(D, e)) = Len(D) + 1 /\ Append(D, e)[Len(D) + 1] = e
        /\ \A i \in 1..Len(D) : Append(D, e)[i] = D[i]
    <3>1. D \in Seq(BlockType) /\ e \in BlockType
      BY <1>1, <1>2
    <3> QED BY <3>1, Pushed
  <2> QED BY <1>3, <2>1
<1> HIDE DEF m
<1>5. t = m + 1 /\ m = Len(Body)
  BY <1>1 DEF m
<1>6. \A a \in (m + 1)..Len(C) : a = t
  BY <1>4, <1>5
<1>7. \A a \in (m + 1)..Len(C) :
         C[a].ends = 0 /\ C[a].next = {} /\ C[a].phi = {} /\ (C[a].placed <=> a = t)
  <2>1. C[t] = e
    BY <1>4, <1>5
  <2>2. C[t].ends = 0 /\ C[t].next = {} /\ C[t].phi = {} /\ C[t].placed
    BY <1>2, <2>1
  <2> TAKE a \in (m + 1)..Len(C)
  <2>3. a = t
    BY <1>6
  <2> QED BY <2>2, <2>3, Zenon
<1>8. m <= Len(C) /\ T \subseteq 1..Len(C) /\ t \in 1..Len(C) /\ t \notin 1..m
  BY <1>4, <1>5
<1>9. C[t].placed /\ C[t].phi = {}
  BY <1>2, <1>4, <1>5
<1>10. Follows(C, D, t)
  BY <1>4, <1>7, <1>8, <1>9 DEF Follows, m
<1>11. Extended(Body, C, insert, t, T)
  BY <1>8, <1>10, BranchExtends DEF D
<1>12. Len(C) = t /\ t \in Nat
  BY <1>4, <1>5
<1> QED BY <1>9, <1>11, <1>12

(* A block that was waiting for it is placed.                              *)
LEMMA PlacedExtends ==
    ASSUME CodegenInductive, BlocksSound, stack # <<>>,
           NEW T \in SUBSET Nat, T \subseteq 1..Len(Body),
           NEW c \in 1..Len(Body), ~Body[c].placed, NEW P \in SUBSET Nat,
           NEW D, D = Branch(T),
           NEW C, PlacedIn(C, D, c, P)
    PROVE  /\ Extended(Body, C, insert, c, T)
           /\ Len(C) = Len(Body)
           /\ C[c].phi = P
<1>1. /\ D \in Seq(BlockType) /\ Len(D) = Len(Body)
      /\ \A a \in 1..Len(Body) : D[a].placed = Body[a].placed /\ D[a].phi = Body[a].phi
  BY BranchLeaves
<1>2. /\ C \in Seq(BlockType) /\ Len(C) = Len(D)
      /\ c \in 1..Len(D) => /\ C[c].placed /\ C[c].phi = P
                             /\ C[c].ends = D[c].ends /\ C[c].next = D[c].next
      /\ \A a \in 1..Len(D) : a # c => C[a] = D[a]
  BY <1>1, Placing
<1>3. Len(D) \in Nat /\ ~\E a \in (Len(D) + 1)..Len(C) : TRUE
  BY <1>1, <1>2, LenProperties
<1>4. C[c].placed /\ C[c].phi = P /\ C[c].ends = D[c].ends /\ C[c].next = D[c].next
  BY <1>1, <1>2
<1>5. \A a \in 1..Len(D) : C[a].ends = D[a].ends /\ C[a].next = D[a].next
  BY <1>2, <1>4
<1>6. Follows(C, D, c)
  BY <1>1, <1>2, <1>3, <1>4, <1>5 DEF Follows
<1>7. Extended(Body, C, insert, c, T)
  BY <1>1, <1>2, <1>6, BranchExtends
<1> QED BY <1>1, <1>2, <1>4, <1>7

LEMMA ElseExtends ==
    ASSUME CodegenInductive, BlocksSound, stack # <<>>, Top.at = "if.then",
           NEW c, c = Top.block + 1
    PROVE  /\ Extended(Body, ElseBlocks, insert, c, {c + 1})
           /\ DOMAIN ElseBlocks = DOMAIN Body
           /\ ElseBlocks[c].phi = {}
           /\ c \in DOMAIN Body /\ c + 1 \in DOMAIN Body
           /\ ~Body[c].placed /\ ~Body[c + 1].placed /\ Pending(Top) = {c, c + 1}
           /\ Top.block + 2 = c + 1 /\ c # c + 1
           /\ Predecessors(Body, c + 1) = {}
<1> DEFINE D == Branch({c + 1})
<1>1. Top.block + 2 = c + 1 /\ c \in Nat /\ c # c + 1
  BY BodyFacts
<1>2. Pending(Top) = {c, c + 1}
  BY <1>1 DEF Pending
<1>3. FrameBuilt(Top, Body) /\ DOMAIN Body = 1..Len(Body) /\ BodyBuilt(Body, insert)
  BY BodyFacts
<1>4. /\ c \in DOMAIN Body /\ c + 1 \in DOMAIN Body
      /\ ~Body[c].placed /\ ~Body[c + 1].placed
      /\ Predecessors(Body, c + 1) = {}
  BY <1>1, <1>2, <1>3 DEF FrameBuilt
<1>5. Body[c].phi = {}
  BY <1>3, <1>4 DEF BodyBuilt
<1>6. {c + 1} \in SUBSET Nat /\ {c + 1} \subseteq 1..Len(Body)
  BY <1>1, <1>3, <1>4
<1>7. ElseBlocks = [D EXCEPT ![c].placed = TRUE]
  BY <1>1 DEF ElseBlocks
<1>8. /\ D \in Seq(BlockType) /\ Len(D) = Len(Body)
      /\ \A a \in 1..Len(Body) : D[a].placed = Body[a].placed /\ D[a].phi = Body[a].phi
  <2> HIDE DEF D
  <2> QED BY <1>6, BranchLeaves DEF D
<1>9. ElseBlocks \in Seq(BlockType)
  BY BlocksTyped
<1>10. D[c].phi = {}
  BY <1>3, <1>4, <1>5, <1>8
<1> DEFINE C == ElseBlocks
<1> HIDE DEF C
<1>11. /\ Extended(Body, C, insert, c, {c + 1}) /\ Len(C) = Len(Body) /\ C[c].phi = {}
  <2>1. PlacedIn(C, D, c, {}) /\ D = Branch({c + 1})
    BY <1>7, <1>10 DEF C, PlacedIn
  <2> HIDE DEF D
  <2>2. c \in 1..Len(Body) /\ {} \in SUBSET Nat
    BY <1>3, <1>4
  <2> QED BY <1>4, <1>6, <1>10, <2>1, <2>2, PlacedExtends
<1>12. DOMAIN ElseBlocks = DOMAIN Body
  BY <1>3, <1>9, <1>11, LenProperties DEF C
<1> QED BY <1>1, <1>2, <1>4, <1>11, <1>12 DEF C

LEMMA MergeExtends ==
    ASSUME CodegenInductive, BlocksSound, stack # <<>>, Top.at = "if.else",
           NEW c, c = Top.block + 2
    PROVE  /\ Extended(Body, MergeBlocks, insert, c, {c})
           /\ DOMAIN MergeBlocks = DOMAIN Body
           /\ MergeBlocks[c].phi = Predecessors(MergeBlocks, c)
           /\ c \in DOMAIN Body /\ ~Body[c].placed /\ Pending(Top) = {c}
<1> DEFINE D == Branch({c})
<1>1. c \in Nat /\ DOMAIN Body = 1..Len(Body)
  BY BodyFacts
<1>2. Pending(Top) = {c}
  BY DEF Pending
<1>3. FrameBuilt(Top, Body)
  BY BodyFacts
<1>4. c \in DOMAIN Body /\ ~Body[c].placed /\ Predecessors(Body, c) = {Top.then}
  BY <1>2, <1>3 DEF FrameBuilt
<1>5. {c} \in SUBSET Nat /\ {c} \subseteq 1..Len(Body) /\ c \in 1..Len(Body)
  BY <1>1, <1>4
<1>6. MergeBlocks \in Seq(BlockType) /\ Incoming \in SUBSET Nat
  BY BlocksTyped
<1> DEFINE C == MergeBlocks
<1>7. PlacedIn(C, D, c, Incoming) /\ D = Branch({c})
  BY DEF MergeBlocks, PlacedIn
<1> HIDE DEF C, D
<1>8. Extended(Body, C, insert, c, {c}) /\ Len(C) = Len(Body) /\ C[c].phi = Incoming
  BY <1>4, <1>5, <1>6, <1>7, PlacedExtends
<1>9. Predecessors(C, c) = {Top.then} \cup {insert}
  BY <1>4, <1>8, PredecessorsOf
<1>10. DOMAIN C = DOMAIN Body
  BY <1>1, <1>6, <1>8, LenProperties DEF C
<1> QED BY <1>2, <1>4, <1>8, <1>9, <1>10 DEF C, Incoming

(* A step that sets the blocks, on its way to the next visit.              *)
LEMMA NewBody ==
    ASSUME CodegenInductive, NEW at, Succeeded(at), at \in Waiting, at # "binary.rhs",
           NEW C \in Seq(BlockType), SetBlocks(C), insert' \in Nat, UNCHANGED result_func
    PROVE  stack # <<>> /\ Top.at = at /\ Body' = C /\ Healthy
<1>1. At(at) /\ ~Failed /\ stack # <<>> /\ Top.at = at /\ current' = current
  BY DEF Succeeded, At
<1>2. functions'[current].blocks = C
  BY <1>1, BlocksSet
<1> QED BY <1>1, <1>2 DEF Body, Healthy, NullOperand

LEMMA ThenBuilds ==
    ASSUME CodegenInductive, BodyKept, BlocksSound, stack # <<>>, Top.at = "if.cond", Healthy,
           NEW t, t = Len(Body) + 1, Body' = ThenBlocks(t), insert' = t,
           NEW f, f.at = "if.then", f.block = t, Onward(f)
    PROVE  BlocksSound'
<1> DEFINE C == ThenBlocks(t)
           T == {t, t + 1}
<1>1. Extended(Body, C, insert, t, T) /\ Len(C) = t + 2 /\ t \in Nat
  BY ThenExtends
<1>2. /\ Len(Body) \in Nat /\ DOMAIN Body = 1..Len(Body)
      /\ \A x : x \notin 1..Len(Body) => Predecessors(Body, x) = {}
  BY BodyFacts
<1>3. DOMAIN C = 1..Len(C)
  BY <1>1, LenProperties DEF Extended
<1>4. Body' = C
  OBVIOUS
<1> HIDE DEF C
<1>5. /\ t \notin DOMAIN Body /\ t + 1 \notin DOMAIN Body /\ t + 2 \notin DOMAIN Body
      /\ t + 1 # t /\ t + 2 # t /\ t + 2 # t + 1
      /\ \A x \in {t, t + 1, t + 2} : x \in (Len(Body) + 1)..Len(C)
      /\ \A x \in DOMAIN C : x \in DOMAIN Body \/ x \in {t, t + 1, t + 2}
  BY <1>1, <1>2, <1>3
<1>6. \A x \in {t, t + 1, t + 2} :
         x \in DOMAIN C /\ C[x].phi = {} /\ (C[x].placed <=> x = t)
  <2>1. \A x \in {t, t + 1, t + 2} : x \in DOMAIN C
    BY <1>1, <1>3
  <2>2. \A a \in (Len(Body) + 1)..Len(C) : C[a].phi = {} /\ (C[a].placed <=> a = t)
    BY <1>1 DEF Extended
  <2> QED BY <1>5, <2>1, <2>2
<1>7. Pending(f) = {t + 1, t + 2} /\ Pending(Top) = {}
  BY DEF Pending
<1>8. Predecessors(C, t + 2) = {}
  <2>1. Predecessors(C, t + 2) = Predecessors(Body, t + 2) \cup (IF t + 2 \in T THEN {insert} ELSE {})
    <3> HIDE DEF T
    <3> QED BY <1>1, PredecessorsOf
  <2> QED BY <1>2, <1>5, <2>1
<1>9. FrameBuilt(f, C)
  <2>1. f.block + 2 = t + 2 /\ "if.then" \notin Looping
    BY DEF Looping
  <2> QED BY <1>5, <1>6, <1>7, <1>8, <2>1 DEF FrameBuilt
<1>10. \A x \in T \cup {t} : x \notin DOMAIN Body /\ C[x].phi = {}
  BY <1>5, <1>6
<1>11. \A x \in DOMAIN C : x \in DOMAIN Body \/ x \in Pending(f) \/ x = t
  BY <1>5, <1>7
<1>12. \A x \in Pending(f) : x \notin DOMAIN Body
  BY <1>5, <1>7
<1>13. t \in T \cup {t} /\ Pending(Top) \subseteq Pending(f) \cup {t}
  BY <1>7
<1> HIDE DEF T
<1> QED BY <1>1, <1>4, <1>9, <1>10, <1>11, <1>12, <1>13, Builds

LEMMA ElseBuilds ==
    ASSUME CodegenInductive, BodyKept, BlocksSound, stack # <<>>, Top.at = "if.then", Healthy,
           Body' = ElseBlocks, insert' = Top.block + 1,
           NEW f, f.at = "if.else", f.block = Top.block, f.then = insert, Onward(f)
    PROVE  BlocksSound'
<1> DEFINE c == Top.block + 1
           T == {c + 1}
           C == ElseBlocks
<1>1. /\ Extended(Body, C, insert, c, T)
      /\ DOMAIN C = DOMAIN Body
      /\ C[c].phi = {}
      /\ c \in DOMAIN Body /\ c + 1 \in DOMAIN Body
      /\ ~Body[c].placed /\ ~Body[c + 1].placed /\ Pending(Top) = {c, c + 1}
      /\ Top.block + 2 = c + 1 /\ c # c + 1
      /\ Predecessors(Body, c + 1) = {}
  <2> HIDE DEF c, C
  <2> QED BY ElseExtends DEF c, C
<1>2. Body' = C /\ insert' = c
  OBVIOUS
<1>3. /\ DOMAIN Body = 1..Len(Body) /\ BodyBuilt(Body, insert)
  BY BodyFacts
<1>4. Pending(f) = {c + 1} /\ f.block + 2 = c + 1
  BY <1>1 DEF Pending
<1> HIDE DEF c, C
<1>5. ~C[c + 1].placed /\ C[c + 1].phi = {}
  <2>1. Body[c + 1].phi = {}
    BY <1>1, <1>3 DEF BodyBuilt
  <2> QED BY <1>1, <1>3, <2>1 DEF Extended
<1>6. Predecessors(C, c + 1) = {insert}
  <2>1. Predecessors(C, c + 1) = Predecessors(Body, c + 1) \cup (IF c + 1 \in T THEN {insert} ELSE {})
    <3> HIDE DEF T
    <3> QED BY <1>1, PredecessorsOf
  <2> QED BY <1>1, <2>1
<1>7. FrameBuilt(f, C)
  <2>1. "if.else" \notin Looping
    BY DEF Looping
  <2> QED BY <1>1, <1>4, <1>5, <1>6, <2>1 DEF FrameBuilt
<1>8. \A x \in T \cup {c} : x \in Pending(Top) /\ C[x].phi = {}
  BY <1>1, <1>5
<1>9. \A x \in Pending(f) : x \in Pending(Top)
  BY <1>1, <1>4
<1>10. Pending(Top) \subseteq Pending(f) \cup {c} /\ c \in T \cup {c}
  BY <1>1, <1>4
<1>11. \A x \in DOMAIN C : x \in DOMAIN Body
  BY <1>1
<1> HIDE DEF T
<1> QED BY <1>1, <1>2, <1>7, <1>8, <1>9, <1>10, <1>11, Builds

LEMMA MergeBuilds ==
    ASSUME CodegenInductive, BodyKept, BlocksSound, stack # <<>>, Top.at = "if.else", Healthy,
           Body' = MergeBlocks, insert' = Top.block + 2, Return("value")
    PROVE  BlocksSound'
<1> DEFINE c == Top.block + 2
           T == {c}
           C == MergeBlocks
<1>1. /\ Extended(Body, C, insert, c, T)
      /\ DOMAIN C = DOMAIN Body
      /\ C[c].phi = Predecessors(C, c)
      /\ Pending(Top) = {c}
  <2> HIDE DEF c, C
  <2> QED BY MergeExtends DEF c, C
<1>2. Body' = C /\ insert' = c
  OBVIOUS
<1> HIDE DEF c, C
<1>3. \A x \in T \cup {c} : x \in Pending(Top) /\ x = c
  BY <1>1
<1>4. \A x \in DOMAIN C : x \in DOMAIN Body
  BY <1>1
<1>5. Pending(Top) \subseteq {c}
  BY <1>1
<1> HIDE DEF T
<1> QED BY <1>1, <1>2, <1>3, <1>4, <1>5, Builds

LEMMA IfBuilds ==
    ASSUME CodegenInductive, BodyKept, BlocksSound, visitIf
    PROVE  BlocksSound'
<1> DEFINE t == Len(Body) + 1
<1>1. CASE At("if") /\ Quiet /\ VisitThen(1, "if.cond")
  <2>1. PlainStep /\ stack # <<>>
    BY <1>1, SameModule, IdleLabels, PlainThen DEF Quiet
  <2> QED BY <2>1, PlainBuilds
<1>2. CASE /\ Succeeded("if.cond") /\ SetBlocks(ThenBlocks(t)) /\ insert' = t
           /\ Visit([Top EXCEPT !.at = "if.then", !.block = t], 2) /\ UNCHANGED result_func
  <2> DEFINE f == [Top EXCEPT !.at = "if.then", !.block = t]
  <2>1. stack # <<>>
    BY <1>2 DEF Succeeded, At
  <2>2. t \in Nat /\ ThenBlocks(t) \in Seq(BlockType) /\ Top \in FrameType
    BY <2>1, BlocksTyped, TopFrame
  <2>3. f.at = "if.then" /\ f.block = t
    BY <2>2 DEF FrameType
  <2>4. Onward(f)
    BY <1>2, Ways
  <2> HIDE DEF f
  <2>5. t = Len(Body) + 1
    OBVIOUS
  <2> HIDE DEF t
  <2>6. Body' = ThenBlocks(t) /\ Top.at = "if.cond" /\ Healthy
    BY <1>2, <2>2, NewBody DEF Waiting
  <2> QED BY <1>2, <2>1, <2>3, <2>4, <2>5, <2>6, ThenBuilds
<1>3. CASE /\ Succeeded("if.then") /\ SetBlocks(ElseBlocks) /\ insert' = Top.block + 1
           /\ Visit([Top EXCEPT !.at = "if.else", !.then = insert], 3) /\ UNCHANGED result_func
  <2> DEFINE f == [Top EXCEPT !.at = "if.else", !.then = insert]
  <2>1. stack # <<>>
    BY <1>3 DEF Succeeded, At
  <2>2. Top.block + 1 \in Nat /\ ElseBlocks \in Seq(BlockType) /\ Top \in FrameType
    BY <2>1, BlocksTyped, TopFrame
  <2>3. f.at = "if.else" /\ f.block = Top.block /\ f.then = insert
    BY <2>2 DEF FrameType
  <2>4. Onward(f)
    BY <1>3, Ways
  <2> HIDE DEF f
  <2>5. Body' = ElseBlocks /\ Top.at = "if.then" /\ Healthy
    BY <1>3, <2>2, NewBody DEF Waiting
  <2> QED BY <1>3, <2>1, <2>3, <2>4, <2>5, ElseBuilds
<1>4. CASE /\ Succeeded("if.else") /\ SetBlocks(MergeBlocks) /\ insert' = Top.block + 2
           /\ Return("value") /\ UNCHANGED result_func
  <2>1. stack # <<>>
    BY <1>4 DEF Succeeded, At
  <2>2. Top.block + 2 \in Nat /\ MergeBlocks \in Seq(BlockType)
    BY <2>1, BlocksTyped
  <2>3. Body' = MergeBlocks /\ Top.at = "if.else" /\ Healthy
    BY <1>4, <2>2, NewBody DEF Waiting
  <2> QED BY <1>4, <2>1, <2>3, MergeBuilds
<1>5. CASE \E at \in {"if.cond", "if.then", "if.else"} : PropagateNull(at)
  <2>1. PlainStep /\ stack # <<>>
    BY <1>5, PlainNull, SameModule DEF PropagateNull
  <2> QED BY <2>1, PlainBuilds
<1>6. visitIf =>
         \/ At("if") /\ Quiet /\ VisitThen(1, "if.cond")
         \/ /\ Succeeded("if.cond") /\ SetBlocks(ThenBlocks(t)) /\ insert' = t
            /\ Visit([Top EXCEPT !.at = "if.then", !.block = t], 2)
            /\ UNCHANGED <<result_func, tree>>
         \/ /\ Succeeded("if.then") /\ SetBlocks(ElseBlocks) /\ insert' = Top.block + 1
            /\ Visit([Top EXCEPT !.at = "if.else", !.then = insert], 3)
            /\ UNCHANGED <<result_func, tree>>
         \/ /\ Succeeded("if.else") /\ SetBlocks(MergeBlocks) /\ insert' = Top.block + 2
            /\ UNCHANGED <<result_func, tree>> /\ Return("value")
         \/ \E at \in {"if.cond", "if.then", "if.else"} : PropagateNull(at)
  BY Zenon DEF visitIf, ThenBlocks, ElseBlocks, MergeBlocks
<1>7. UNCHANGED <<result_func, tree>> => UNCHANGED result_func
  OBVIOUS
<1> HIDE DEF t
<1> QED BY <1>1, <1>2, <1>3, <1>4, <1>5, <1>6, <1>7

LEMMA LoopBuilds ==
    ASSUME CodegenInductive, BodyKept, BlocksSound, stack # <<>>, Top.at = "for.start", Healthy,
           NEW t, t = Len(Body) + 1, Body' = LoopBlocks(t), insert' = t,
           NEW f, f.at = "for.body", f.block = t, Onward(f)
    PROVE  BlocksSound'
<1> DEFINE C == LoopBlocks(t)
           T == {t}
<1>1. t \in Nat /\ DOMAIN Body = 1..Len(Body) /\ t \notin DOMAIN Body /\ t \in 1..t
  BY BodyFacts
<1>2. T \in SUBSET Nat /\ T \subseteq 1..t /\ C = Append(Branch(T), Block(TRUE))
  BY <1>1 DEF LoopBlocks
<1>3. Body' = C
  OBVIOUS
<1> HIDE DEF C
<1>4. T = {t}
  OBVIOUS
<1> HIDE DEF T
<1>5. Extended(Body, C, insert, t, T) /\ Len(C) = t /\ C[t].phi = {} /\ C[t].placed
  BY <1>2, AddedExtends
<1>6. DOMAIN C = 1..t
  BY <1>5, LenProperties DEF Extended
<1>7. \A x \in DOMAIN C : x \in DOMAIN Body \/ x = t
  BY <1>1, <1>6, BodyFacts
<1>8. Pending(f) = {} /\ Pending(Top) = {}
  BY DEF Pending
<1>9. FrameBuilt(f, C)
  BY <1>1, <1>5, <1>6, <1>8 DEF FrameBuilt
<1>10. \A x \in T \cup {t} : x \notin DOMAIN Body /\ x = t
  BY <1>1, <1>4
<1> QED BY <1>3, <1>5, <1>7, <1>8, <1>9, <1>10, Builds

LEMMA AfterBuilds ==
    ASSUME CodegenInductive, BodyKept, BlocksSound, stack # <<>>, Top.at = "for.end", Healthy,
           NEW t, t = Len(Body) + 1, Body' = AfterBlocks(t), insert' = t, Return("value")
    PROVE  BlocksSound'
<1> DEFINE C == AfterBlocks(t)
           T == {Top.block, t}
<1>1. /\ t \in Nat /\ DOMAIN Body = 1..Len(Body) /\ t \notin DOMAIN Body /\ t \in 1..t
      /\ \A x \in DOMAIN Body : x \in 1..t
  BY BodyFacts
<1>2. Top.block \in DOMAIN Body /\ Body[Top.block].placed /\ Body[Top.block].phi = {}
  BY BodyFacts DEF FrameBuilt, Looping
<1>3. T \in SUBSET Nat /\ T \subseteq 1..t /\ C = Append(Branch(T), Block(TRUE))
  BY <1>1, <1>2 DEF AfterBlocks
<1>4. Body' = C
  OBVIOUS
<1> HIDE DEF C
<1>5. T = {Top.block, t}
  OBVIOUS
<1> HIDE DEF T
<1>6. /\ Extended(Body, C, insert, t, T)
      /\ Len(C) = t /\ C[t].phi = {}
      /\ \A a \in 1..Len(Body) : C[a].phi = Body[a].phi
  <2>1. Extended(Body, C, insert, t, T) /\ Len(C) = t /\ C[t].phi = {} /\ C[t].placed
    BY <1>3, AddedExtends
  <2>2. \A a \in 1..Len(Body) : a # t
    BY <1>1
  <2> QED BY <1>1, <2>1, <2>2 DEF Extended
<1>7. DOMAIN C = 1..t
  BY <1>6, LenProperties DEF Extended
<1>8. \A x \in DOMAIN C : x \in DOMAIN Body \/ x = t
  BY <1>1, <1>7, BodyFacts
<1>9. Pending(Top) = {}
  BY DEF Pending
<1>10. \A x \in T \cup {t} :
          /\ x \notin DOMAIN Body \/ (x \in DOMAIN Body /\ Body[x].placed)
          /\ C[x].phi = {}
  BY <1>1, <1>2, <1>5, <1>6
<1> QED BY <1>4, <1>6, <1>8, <1>9, <1>10, Builds

LEMMA ForBuilds ==
    ASSUME CodegenInductive, BodyKept, BlocksSound, visitFor
    PROVE  BlocksSound'
<1> DEFINE v == This.names[1]
           t == Len(Body) + 1
<1>1. CASE /\ At("for") /\ create_entry_block_alloca /\ UNCHANGED result_func
           /\ Visit([Top EXCEPT !.at = "for.start", !.slot = NewAlloca], 1)
  <2> DEFINE f == [Top EXCEPT !.at = "for.start", !.slot = NewAlloca]
  <2>1. stack # <<>> /\ Top \in FrameType /\ SameBody
    BY <1>1, SameModule
  <2>2. f.at = "for.start"
    BY <2>1 DEF FrameType
  <2>3. Onward(f)
    BY <1>1, Ways
  <2> HIDE DEF f
  <2>4. PlainStep
    BY <1>1, <2>1, <2>2, <2>3, IdleLabels, PlainOn
  <2> QED BY <2>1, <2>4, PlainBuilds
<1>2. CASE /\ Succeeded("for.start") /\ SetBlocks(LoopBlocks(t)) /\ insert' = t
           /\ UNCHANGED result_func
           /\ Visit([Top EXCEPT !.at = "for.body", !.block = t, !.old = <<named_values[v]>>], 4)
  <2> DEFINE old == <<named_values[v]>>
             f == [Top EXCEPT !.at = "for.body", !.block = t, !.old = old]
  <2>1. stack # <<>>
    BY <1>2 DEF Succeeded, At
  <2>2. t \in Nat /\ LoopBlocks(t) \in Seq(BlockType) /\ Top \in FrameType
    BY <2>1, BlocksTyped, TopFrame
  <2>3. f.at = "for.body" /\ f.block = t
    <3> HIDE DEF old
    <3> QED BY <2>2 DEF FrameType
  <2>4. Onward(f)
    BY <1>2, Ways
  <2> HIDE DEF f
  <2>5. t = Len(Body) + 1
    OBVIOUS
  <2> HIDE DEF t
  <2>6. Body' = LoopBlocks(t) /\ Top.at = "for.start" /\ Healthy
    BY <1>2, <2>2, NewBody DEF Waiting
  <2> QED BY <1>2, <2>1, <2>3, <2>4, <2>5, <2>6, LoopBuilds
<1>3. ASSUME NEW from \in {"for.body", "for.step"}, NEW i, NEW to \in {"for.step", "for.end"},
             Succeeded(from), Quiet, VisitThen(i, to)
      PROVE  BlocksSound'
  <2>1. At(from) /\ ~Failed /\ KeepModule
    BY <1>3 DEF Succeeded, Quiet
  <2>2. PlainStep /\ stack # <<>>
    BY <1>3, <2>1, SameModule, IdleLabels, PlainThen
  <2> QED BY <2>2, PlainBuilds
<1>4. CASE /\ Succeeded("for.end") /\ SetBlocks(AfterBlocks(t)) /\ insert' = t
           /\ UNCHANGED result_func /\ Return("value")
  <2>1. stack # <<>>
    BY <1>4 DEF Succeeded, At
  <2>2. t \in Nat /\ AfterBlocks(t) \in Seq(BlockType)
    BY <2>1, BlocksTyped
  <2>3. t = Len(Body) + 1
    OBVIOUS
  <2> HIDE DEF t
  <2>4. Body' = AfterBlocks(t) /\ Top.at = "for.end" /\ Healthy
    BY <1>4, <2>2, NewBody DEF Waiting
  <2> QED BY <1>4, <2>1, <2>3, <2>4, AfterBuilds
<1>5. CASE \E at \in {"for.start", "for.body", "for.step", "for.end"} : PropagateNull(at)
  <2>1. PlainStep /\ stack # <<>>
    BY <1>5, PlainNull, SameModule DEF PropagateNull
  <2> QED BY <2>1, PlainBuilds
<1>6. visitFor =>
         \/ /\ At("for") /\ create_entry_block_alloca /\ UNCHANGED <<result_func, tree>>
            /\ Visit([Top EXCEPT !.at = "for.start", !.slot = NewAlloca], 1)
         \/ /\ Succeeded("for.start")
            /\ SetBlocks(LoopBlocks(t)) /\ insert' = t /\ UNCHANGED <<result_func, tree>>
            /\ Visit([Top EXCEPT !.at = "for.body", !.block = t, !.old = <<named_values[v]>>], 4)
         \/ Succeeded("for.body") /\ Quiet /\ VisitThen(3, "for.step")
         \/ Succeeded("for.body") /\ Quiet /\ VisitThen(2, "for.end")
         \/ Succeeded("for.step") /\ Quiet /\ VisitThen(2, "for.end")
         \/ /\ Succeeded("for.end")
            /\ SetBlocks(AfterBlocks(t)) /\ insert' = t /\ UNCHANGED <<result_func, tree>>
            /\ Return("value")
         \/ \E at \in {"for.start", "for.body", "for.step", "for.end"} : PropagateNull(at)
  BY Zenon DEF visitFor, FallThrough, LoopBlocks, AfterBlocks
<1>7. UNCHANGED <<result_func, tree>> => UNCHANGED result_func
  OBVIOUS
<1> HIDE DEF v, t
<1>8. /\ "for.body" \in {"for.body", "for.step"} /\ "for.step" \in {"for.body", "for.step"}
      /\ "for.step" \in {"for.step", "for.end"} /\ "for.end" \in {"for.step", "for.end"}
  OBVIOUS
<1>9. \/ Succeeded("for.body") /\ Quiet /\ VisitThen(3, "for.step")
      \/ Succeeded("for.body") /\ Quiet /\ VisitThen(2, "for.end")
      \/ Succeeded("for.step") /\ Quiet /\ VisitThen(2, "for.end")
      => BlocksSound'
  BY <1>3, <1>8
<1> QED BY <1>1, <1>2, <1>4, <1>5, <1>6, <1>7, <1>9

(* Between two items.                                                      *)
LEMMA FreshBody ==
    ASSUME NEW B \in Seq(BlockType), WellFormed(B), PhiMatches(B),
           NEW C, C = Append(B, Block(TRUE)), NEW c, c = Len(B) + 1
    PROVE  BodyBuilt(C, c) /\ \A b \in DOMAIN C : C[b].placed
<1> DEFINE e == Block(TRUE)
<1>1. e \in BlockType /\ e.placed /\ e.ends = 0 /\ e.next = {} /\ e.phi = {}
  BY NewBlock
<1>2. C = Append(B, e)
  OBVIOUS
<1> HIDE DEF e
<1>3. /\ C \in Seq(BlockType) /\ Len(B) \in Nat /\ Len(C) = c /\ C[c] = e
      /\ \A b \in 1..Len(B) : C[b] = B[b]
  <2>1. B \in Seq(BlockType) /\ e \in BlockType
    BY <1>1
  <2>2. /\ Append(B, e) \in Seq(BlockType) /\ Len(B) \in Nat
        /\ Len(Append(B, e)) = Len(B) + 1 /\ Append(B, e)[Len(B) + 1] = e
        /\ \A b \in 1..Len(B) : Append(B, e)[b] = B[b]
    BY <2>1, Pushed
  <2> QED BY <1>2, <2>2
<1>4. /\ DOMAIN B = 1..Len(B) /\ DOMAIN C = 1..c /\ c \in DOMAIN C
      /\ \A b \in DOMAIN C : b = c \/ (b # c /\ b \in DOMAIN B)
      /\ \A b \in DOMAIN B : b \in DOMAIN C /\ b # c
  BY <1>3, LenProperties
<1>5. \A b \in DOMAIN B : C[b].placed /\ C[b].ends = 1 /\ C[b].next \subseteq DOMAIN C
  BY <1>3, <1>4 DEF WellFormed
<1>6. ASSUME NEW b \in DOMAIN C, C[b].phi # {} PROVE C[b].phi = Predecessors(C, b)
  <2>1. b \in DOMAIN B /\ C[b] = B[b]
    BY <1>1, <1>3, <1>4, <1>6
  <2>2. B[b].phi = Predecessors(B, b)
    BY <1>6, <2>1 DEF PhiMatches
  <2>3. Predecessors(C, b) = Predecessors(B, b)
    <3>1. \A a \in DOMAIN C : b \in C[a].next <=> a \in DOMAIN B /\ b \in B[a].next
      BY <1>1, <1>3, <1>4
    <3> QED BY <1>4, <3>1 DEF Predecessors
  <2> QED BY <2>1, <2>2, <2>3
<1> QED BY <1>1, <1>3, <1>4, <1>5, <1>6 DEF BodyBuilt, PhiMatches

LEMMA FinishedBody ==
    ASSUME NEW B \in Seq(BlockType), NEW b, BodyBuilt(B, b), \A a \in DOMAIN B : B[a].placed,
           NEW C, C = [B EXCEPT ![b].ends = @ + 1, ![b].next = @ \cup {}]
    PROVE  WellFormed(C) /\ PhiMatches(C)
<1> DEFINE d == [B[b] EXCEPT !.ends = @ + 1, !.next = @ \cup {}]
<1>1. b \in DOMAIN B /\ B[b].placed /\ B[b].ends = 0 /\ B[b] \in BlockType
  BY LenProperties, ElementOfSeq DEF BodyBuilt
<1>2. d.placed /\ d.ends = 1 /\ d.next = B[b].next /\ d.phi = B[b].phi
  <2>1. B[b].next \cup {} = B[b].next /\ B[b].ends + 1 = 1
    BY <1>1
  <2> QED BY <1>1, <2>1 DEF BlockType
<1>3. C = [B EXCEPT ![b] = d]
  OBVIOUS
<1> HIDE DEF d
<1>4. DOMAIN C = DOMAIN B /\ C[b] = d /\ \A a \in DOMAIN B : a # b => C[a] = B[a]
  BY <1>1, <1>3
<1>5. \A a \in DOMAIN B : C[a].placed /\ C[a].ends = 1 /\ C[a].next = B[a].next /\ C[a].phi = B[a].phi
  BY <1>2, <1>4 DEF BodyBuilt
<1>6. \A a \in DOMAIN B : B[a].next \subseteq DOMAIN B
  BY DEF BodyBuilt
<1>7. \A x : Predecessors(C, x) = Predecessors(B, x)
  BY <1>4, <1>5 DEF Predecessors
<1>8. PhiMatches(B)
  BY DEF BodyBuilt
<1>9. WellFormed(C)
  BY <1>4, <1>5, <1>6 DEF WellFormed
<1>10. PhiMatches(C)
  <2> SUFFICES ASSUME NEW a \in DOMAIN B, C[a].phi # {} PROVE C[a].phi = Predecessors(C, a)
    BY <1>4 DEF PhiMatches
  <2>1. C[a].phi = B[a].phi
    BY <1>5
  <2>2. B[a].phi = Predecessors(B, a)
    BY <1>8, <2>1 DEF PhiMatches
  <2> QED BY <1>7, <2>1, <2>2
<1> QED BY <1>9, <1>10

LEMMA NoBlocks == WellFormed(<<>>) /\ PhiMatches(<<>>)
BY DEF WellFormed, PhiMatches

LEMMA FinishedFunctions ==
    ASSUME CodegenInductive, BlocksSound, current = NoFunction, NEW i \in 1..Len(functions)
    PROVE  WellFormed(functions[i].blocks) /\ PhiMatches(functions[i].blocks)
<1>1. i \in DOMAIN functions /\ i # current
  BY BetweenItems DEF NoFunction
<1> QED BY <1>1 DEF BlocksSound

LEMMA PrototypeBuilds ==
    ASSUME CodegenInductive, BlocksSound, visitPrototype
    PROVE  BlocksSound'
<1>1. current = NoFunction /\ current' = NoFunction
  BY DEF visitPrototype, NextItem
<1>2. PICK name \in FunctionNames, args \in ArgLists :
         functions' = Append(functions,
             Declaration(IF Found(functions, name) = {} THEN name ELSE "renamed", args))
  BY DEF visitPrototype
<1> DEFINE d == Declaration(IF Found(functions, name) = {} THEN name ELSE "renamed", args)
<1>3. d \in FunctionType /\ d.blocks = <<>>
  BY DEF Declaration, FunctionType
<1>4. functions' = Append(functions, d)
  BY <1>2
<1> HIDE DEF d
<1>5. functions \in Seq(FunctionType) /\ Len(functions) \in Nat
  BY <1>1, BetweenItems
<1>6. /\ functions' \in Seq(FunctionType) /\ Len(functions') = Len(functions) + 1
      /\ functions'[Len(functions) + 1] = d
      /\ \A i \in 1..Len(functions) : functions'[i] = functions[i]
  BY <1>3, <1>4, <1>5, Pushed
<1>7. \A i \in DOMAIN functions' : i \in 1..Len(functions) \/ i = Len(functions) + 1
  BY <1>5, <1>6, LenProperties
<1>8. \A i \in DOMAIN functions' : WellFormed(functions'[i].blocks) /\ PhiMatches(functions'[i].blocks)
  BY <1>1, <1>3, <1>6, <1>7, FinishedFunctions, NoBlocks
<1> QED BY <1>1, <1>8 DEF BlocksSound

LEMMA BeginBuilds ==
    ASSUME CodegenInductive, BlocksSound, beginFunction
    PROVE  BlocksSound'
<1>1. current = NoFunction /\ stack' = <<Frame(<<>>)>>
  BY DEF beginFunction, NextItem
<1>2. /\ CodegenInductive'
      /\ current' \in 1..Len(functions')
      /\ \A i \in 1..Len(functions') :
            \/ i \in 1..Len(functions) /\ i # current'
                  /\ functions'[i].blocks = functions[i].blocks
            \/ i \notin 1..Len(functions) /\ i # current' /\ functions'[i].blocks = <<>>
            \/ /\ i = current'
               /\ \E blocks \in Seq(BlockType) :
                     /\ blocks = <<>> \/ (i \in 1..Len(functions) /\ blocks = functions[i].blocks)
                     /\ functions'[i].blocks = Append(blocks, Block(TRUE))
                     /\ insert' = Len(blocks) + 1
  BY BeginKeeps
<1>3. DOMAIN functions' = 1..Len(functions')
  BY <1>2, LenProperties DEF CodegenInductive, TypeOK
<1>4. \A i \in DOMAIN functions' : i # current' =>
         WellFormed(functions'[i].blocks) /\ PhiMatches(functions'[i].blocks)
  BY <1>1, <1>2, <1>3, FinishedFunctions, NoBlocks
<1>5. PICK B \in Seq(BlockType) :
         /\ B = <<>> \/ (current' \in 1..Len(functions) /\ B = functions[current'].blocks)
         /\ Body' = Append(B, Block(TRUE))
         /\ insert' = Len(B) + 1
  BY <1>2 DEF Body
<1>6. WellFormed(B) /\ PhiMatches(B)
  BY <1>1, <1>5, FinishedFunctions, NoBlocks
<1>7. BodyBuilt(Body', insert') /\ \A b \in DOMAIN Body' : Body'[b].placed
  BY <1>5, <1>6, FreshBody
<1> DEFINE f == Frame(<<>>)
<1>8. f.at = "accept"
  BY DEF Frame
<1>9. Pending(f) = {} /\ FrameBuilt(f, Body')
  BY <1>8 DEF Pending, FrameBuilt, Looping
<1>10. stack' = <<f>>
  BY <1>1
<1> HIDE DEF f
<1>11. /\ \A k \in 1..Len(stack') : stack'[k] = f
       /\ \A j, k \in 1..Len(stack') : ~(j < k)
  BY <1>10
<1> QED BY <1>4, <1>7, <1>9, <1>11 DEF BlocksSound

LEMMA EndBuilds ==
    ASSUME CodegenInductive, BlocksSound, endFunction
    PROVE  BlocksSound'
<1>1. current # NoFunction /\ stack = <<>> /\ current' = NoFunction
  BY DEF endFunction
<1>2. \A i \in 1..Len(functions) :
         functions'[i].blocks =
             IF i # current THEN functions[i].blocks ELSE IF Failed THEN <<>> ELSE Branch({})
  BY EndKeeps
<1>3. DOMAIN functions' = DOMAIN functions /\ DOMAIN functions = 1..Len(functions)
  <2>1. DOMAIN functions' = DOMAIN functions
    BY DEF endFunction, SetBlocks
  <2>2. DOMAIN functions = 1..Len(functions)
    BY LenProperties DEF CodegenInductive, TypeOK
  <2> QED BY <2>1, <2>2
<1>4. ASSUME ~Failed PROVE WellFormed(Branch({})) /\ PhiMatches(Branch({}))
  <2>1. ~Doomed /\ ~\E k \in 1..Len(stack) : TRUE
    <3>1. Len(stack) = 0
      BY <1>1
    <3> QED BY <1>1, <1>4, <3>1 DEF Doomed
  <2>2. BodyBuilt(Body, insert) /\ \A b \in DOMAIN Body : Body[b].placed
    BY <1>1, <2>1 DEF BlocksSound
  <2>3. Body \in Seq(BlockType)
    <3>1. current \in 1..Len(functions)
      BY <1>1, LenProperties DEF CodegenInductive, TypeOK, NoFunction
    <3>2. functions[current] \in FunctionType
      BY <3>1, ElementOfSeq DEF CodegenInductive, TypeOK
    <3> QED BY <3>2 DEF Body, FunctionType
  <2>4. Branch({}) = [Body EXCEPT ![insert].ends = @ + 1, ![insert].next = @ \cup {}]
    BY DEF Branch
  <2> HIDE DEF Body
  <2> QED BY <2>2, <2>3, <2>4, FinishedBody
<1>5. ASSUME NEW i \in DOMAIN functions'
      PROVE  WellFormed(functions'[i].blocks) /\ PhiMatches(functions'[i].blocks)
  <2>1. CASE i # current
    BY <1>2, <1>3, <2>1 DEF BlocksSound
  <2>2. CASE i = current /\ Failed
    BY <1>2, <1>3, <2>2, NoBlocks
  <2>3. CASE i = current /\ ~Failed
    BY <1>2, <1>3, <1>4, <2>3
  <2> QED BY <2>1, <2>2, <2>3
<1> QED BY <1>1, <1>5 DEF BlocksSound

LEMMA BlocksStutter ==
    ASSUME BlocksSound, UNCHANGED <<functions, insert, result_val, current, stack>>
    PROVE  BlocksSound'
BY DEF BlocksSound, Body, Doomed, Top, Failed

LEMMA BlocksStart ==
    ASSUME Init
    PROVE  BlocksSound
<1>1. DOMAIN functions = {} /\ current = NoFunction
  BY DEF Init
<1> QED BY <1>1 DEF BlocksSound

LEMMA BlocksStay ==
    ASSUME CodegenInductive, BlocksSound, [Next]_vars
    PROVE  BlocksSound'
<1>1. ASSUME PlainStep, BodyKept, stack # <<>> PROVE BlocksSound'
  BY <1>1, PlainBuilds
<1>2. CASE accept \/ visitFloat \/ visitVariable \/ visitUnary
  <2>1. stack # <<>>
    BY <1>2 DEF accept, visitFloat, visitVariable, visitUnary, PropagateNull, Succeeded, At
  <2>2. PlainStep
    BY <1>2, LeavesArePlain
  <2> QED BY <1>1, <1>2, <2>1, <2>2, AcceptKeeps, FloatKeeps, VariableKeeps, UnaryKeeps
<1>3. CASE visitBinary
  <2>1. stack # <<>>
    BY <1>3 DEF visitBinary, PropagateNull, Succeeded, At
  <2> QED BY <1>1, <1>3, <2>1, BinaryIsPlain, BinaryKeeps
<1>4. CASE visitCall
  <2>1. stack # <<>>
    BY <1>4 DEF visitCall, PropagateNull, Succeeded, At
  <2> QED BY <1>1, <1>4, <2>1, CallIsPlain, CallKeeps
<1>5. CASE visitVar
  <2>1. stack # <<>>
    BY <1>5 DEF visitVar, PropagateNull, Succeeded, At
  <2> QED BY <1>1, <1>5, <2>1, VarIsPlain, VarKeeps
<1>6. CASE visitIf
  BY <1>6, IfKeeps, IfBuilds
<1>7. CASE visitFor
  BY <1>7, ForKeeps, ForBuilds
<1>8. CASE visitPrototype \/ beginFunction \/ endFunction
  BY <1>8, PrototypeBuilds, BeginBuilds, EndBuilds
<1>9. CASE main_loop
  BY <1>9, BlocksStutter DEF main_loop
<1>10. CASE Done \/ UNCHANGED vars
  BY <1>10, BlocksStutter DEF Done, vars
<1> QED BY <1>2, <1>3, <1>4, <1>5, <1>6, <1>7, <1>8, <1>9, <1>10 DEF Next

LEMMA BlocksInvariant == Spec => [](CodegenInductive /\ BlocksSound)
<1> DEFINE Inv == CodegenInductive /\ BlocksSound
<1>1. Init => Inv
  BY CodegenStarts, BlocksStart
<1>2. Inv /\ [Next]_vars => Inv'
  BY CodegenKept, BlocksStay
<1> HIDE DEF Inv
<1>3. Spec => []Inv
  BY <1>1, <1>2, PTL DEF Spec
<1> QED BY <1>3 DEF Inv

(* Between two items every block of every function of the module is in its *)
(* function, ends in one terminator and branches within it: however `if`   *)
(* and `for` are nested, no block is left open and none is written to      *)
(* after it has ended.                                                     *)
THEOREM BodiesComplete == Spec => []NoHalfBuiltFunction
<1>1. CodegenInductive /\ BlocksSound => NoHalfBuiltFunction
  BY BetweenItems, FinishedFunctions DEF NoHalfBuiltFunction
<1> QED BY <1>1, BlocksInvariant, PTL

(* The phi of an `if` has a value for each block that branches to it and   *)
(* for no other, in whatever block its two branches end.                   *)
THEOREM PhisMatch == Spec => []PhiMatchesPredecessors
<1>1. CodegenInductive /\ BlocksSound => PhiMatchesPredecessors
  <2> SUFFICES ASSUME CodegenInductive, BlocksSound, NEW i \in DOMAIN functions
               PROVE  PhiMatches(functions[i].blocks)
    BY DEF PhiMatchesPredecessors, PhiMatches
  <2>1. CASE i # current
    BY <2>1 DEF BlocksSound
  <2>2. CASE i = current
    <3>1. current # NoFunction
      BY <2>2, LenProperties DEF CodegenInductive, TypeOK, NoFunction
    <3> QED BY <2>2, <3>1 DEF BlocksSound, BodyBuilt, Body
  <2> QED BY <2>1, <2>2
<1> QED BY <1>1, BlocksInvariant, PTL
=============================================================================
