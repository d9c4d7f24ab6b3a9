-------------------------- MODULE DebugInfoProofs --------------------------
(***************************************************************************)
(* Proofs about DebugInfo: the visitor with debug information is still the *)
(* visitor of ObjectCodegen, and every instruction is located inside the   *)
(* node and in the subprogram it belongs to.                               *)
(***************************************************************************)
EXTENDS DebugInfo, ObjectCodegenProofs

(* Every location is in a subprogram made for the function that its        *)
(* instruction is in.                                                      *)
Attached ==
    /\ subprograms \in Seq(Nat)
    /\ \A i \in 1..Len(subprograms) : subprograms[i] \in 1..Len(functions)
    /\ \A l \in locations :
          /\ l \in (1..Len(functions)) \X (1..Len(subprograms))
          /\ subprograms[l[2]] = l[1]

(* The one block pushed, the current location and the function being built *)
(* belong together.                                                        *)
Blocks ==
    /\ llvm_di_lexical_blocks = IF current = NoFunction THEN <<>> ELSE <<Len(subprograms)>>
    /\ location.scope \in 0..Len(subprograms)
    /\ current # NoFunction =>
          /\ subprograms # <<>>
          /\ location.scope = Len(subprograms)
          /\ subprograms[Len(subprograms)] = current

Begins(s, t) == Len(s) <= Len(t) /\ \A i \in 1..Len(s) : s[i] = t[i]

(* Each visit is of a node inside its caller's, and the current location   *)
(* is inside every node whose visit has set it.                            *)
Paths ==
    /\ location \in [node : Seq(Nat), scope : Nat]
    /\ \A k \in 1..Len(stack) : \A m \in k..Len(stack) : Begins(stack[k].path, stack[m].path)
    /\ \A k \in 1..Len(stack) : stack[k].at # "accept" => Begins(stack[k].path, location.node)

IRInductive == CodegenInductive /\ Attached /\ Blocks /\ Paths

-----------------------------------------------------------------------------
(* The visitor overridden.                                                 *)

(* Whatever the overrides add, a step of theirs is a step of the visitor   *)
(* they override, or one it takes no notice of.                            *)
LEMMA StepsOfVisitor ==
    ASSUME [IRNext]_<<vars, debug>>
    PROVE  [Next]_vars
<1>2. CASE acceptLocated
  BY <1>2 DEF acceptLocated, Next
<1>3. CASE visitLocated
  BY <1>3 DEF visitLocated, Next
<1>4. CASE declarePrototype
  BY <1>4 DEF declarePrototype, Next
<1>5. CASE beginSubprogram
  BY <1>5 DEF beginSubprogram, Next
<1>6. CASE endSubprogram
  BY <1>6 DEF endSubprogram, Next
<1>7. CASE finalize
  BY <1>7 DEF finalize, Next
<1>8. CASE IRDone
  BY <1>8 DEF IRDone, Next
<1>9. CASE UNCHANGED <<vars, debug>>
  BY <1>9
<1> QED BY <1>2, <1>3, <1>4, <1>5, <1>6, <1>7, <1>8, <1>9 DEF IRNext

(* The visitor with debug information implements the one it overrides.     *)
THEOREM RefinesObjectCodegen == IRSpec => Spec
<1>1. IRInit => Init
  BY DEF IRInit
<1>2. [IRNext]_<<vars, debug>> => [Next]_vars
  BY StepsOfVisitor
<1> QED BY <1>1, <1>2, PTL DEF IRSpec, Spec

(* ... so that its module and its scope are sound for the same reasons.    *)
THEOREM IRCodegenInvariant == IRSpec => []CodegenInductive
BY RefinesObjectCodegen, CodegenInvariant, PTL

(* A visit with debug information restores the scope as well.              *)
THEOREM IRScopeIsRestored ==
    ASSUME DistinctNames
    PROVE  IRSpec => ScopeRestored
BY RefinesObjectCodegen, ScopeIsRestored, PTL

-----------------------------------------------------------------------------
(* A visit within a body.                                                  *)

LEMMA BeginsTransitively ==
    ASSUME NEW s \in Seq(Nat), NEW t \in Seq(Nat), NEW u \in Seq(Nat), Begins(s, t), Begins(t, u)
    PROVE  Begins(s, u)
<1>1. Len(s) \in Nat /\ Len(t) \in Nat /\ Len(u) \in Nat
  BY LenProperties
<1>2. \A i \in 1..Len(s) : i \in 1..Len(t)
  BY <1>1 DEF Begins
<1> QED BY <1>1, <1>2 DEF Begins

LEMMA BeginsIsPrefix ==
    ASSUME NEW s \in Seq(Nat), NEW t \in Seq(Nat), Begins(s, t)
    PROVE  IsPrefix(s, t)
<1>1. Len(s) \in Nat /\ Len(t) \in Nat /\ Len(s) <= Len(t)
  BY LenProperties DEF Begins
<1> DEFINE n == Len(s)
           a == SubSeq(s, 1, n)
           b == SubSeq(t, 1, n)
<1>2. n \in 0..Len(s) /\ n \in 0..Len(t)
  BY <1>1
<1> HIDE DEF n
<1>3. /\ a \in Seq(Nat) /\ Len(a) = n /\ \A i \in 1..n : a[i] = s[i]
      /\ b \in Seq(Nat) /\ Len(b) = n /\ \A i \in 1..n : b[i] = t[i]
  BY <1>2, Prefix
<1>4. \A i \in 1..n : s[i] = t[i]
  BY DEF Begins, n
<1> HIDE DEF a, b
<1>5. a = b
  BY <1>3, <1>4, SeqEqual
<1> QED BY <1>1, <1>5 DEF a, b, n, IsPrefix

(* The paths of the visits after a step of a body: those before it, one    *)
(* less, or one more that is inside the innermost.                         *)
LEMMA PathsOfStep ==
    ASSUME CodegenInductive, CodegenInductive', stack # <<>>, StackStep
    PROVE  /\ Len(stack) \in Nat \ {0}
           /\ Len(stack') \in {Len(stack) - 1, Len(stack), Len(stack) + 1}
           /\ \A k \in 1..Len(stack) : k \in 1..Len(stack') => stack'[k].path = stack[k].path
           /\ Len(stack') = Len(stack) + 1 =>
                 /\ stack'[Len(stack')].at = "accept"
                 /\ Begins(Top.path, stack'[Len(stack')].path)
           /\ Top = stack[Len(stack)]
           /\ \A k \in 1..(Len(stack) - 1) : stack[k].at # "accept"
<1>1. stack \in Seq(FrameType)
  BY DEF CodegenInductive, TypeOK
<1>2. /\ Len(stack) \in Nat \ {0}
      /\ Front(stack) \in Seq(FrameType)
      /\ Len(Front(stack)) = Len(stack) - 1
      /\ \A k \in 1..(Len(stack) - 1) : Front(stack)[k] = stack[k]
      /\ Top \in FrameType /\ Top = stack[Len(stack)]
  BY <1>1, Dropped DEF Top
<1>0. \A k \in 1..(Len(stack) - 1) : stack[k].at # "accept"
  BY DEF CodegenInductive, Visits, Waiting
<1> DEFINE n == Len(stack)
           Goal == /\ Len(stack') \in {n - 1, n, n + 1}
                   /\ \A k \in 1..n : k \in 1..Len(stack') => stack'[k].path = stack[k].path
                   /\ Len(stack') = n + 1 =>
                         /\ stack'[Len(stack')].at = "accept"
                         /\ Begins(Top.path, stack'[Len(stack')].path)
<1>3. \A k \in 1..n : k = n \/ k \in 1..(n - 1)
  BY <1>2
<1>4. n - 1 # n + 1 /\ n # n + 1 /\ n \in Nat
  BY <1>2
<1> HIDE DEF n
<1>5. ASSUME Returned PROVE Goal
  <2>1. Len(stack') = n - 1 /\ \A k \in 1..(n - 1) : stack'[k] = stack[k]
    BY <1>2, <1>5 DEF Returned, n
  <2> QED BY <1>4, <2>1
<1>6. ASSUME NEW f, Continued(f) PROVE Goal
  <2>1. f \in FrameType /\ f.path = Top.path /\ stack' = Append(Front(stack), f)
    BY <1>6 DEF Continued, NextFrame
  <2>2. /\ Len(stack') = n /\ stack'[n] = f
        /\ \A k \in 1..(n - 1) : stack'[k] = stack[k]
    BY <1>1, <1>2, <2>1, Replaced DEF n
  <2>3. \A k \in 1..n : stack'[k].path = stack[k].path
    BY <1>2, <1>3, <2>1, <2>2 DEF n
  <2> QED BY <1>4, <2>2, <2>3
<1>7. ASSUME NEW f, NEW i, Visited(f, i) PROVE Goal
  <2> DEFINE s == Append(Front(stack), f)
             g == Frame(Child(i))
  <2>1. f \in FrameType /\ f.path = Top.path /\ i \in Nat /\ stack' = Append(s, g)
    BY <1>7 DEF Visited, NextFrame
  <2>2. /\ s \in Seq(FrameType) /\ Len(s) = n /\ s[n] = f
        /\ \A k \in 1..(n - 1) : s[k] = stack[k]
    BY <1>1, <1>2, <2>1, Replaced DEF n
  <2>3. /\ \A k \in 1..n : s[k].path = stack[k].path
    BY <1>2, <1>3, <2>1, <2>2 DEF n
  <2>4. Top.path \in Seq(Nat)
    BY <1>2 DEF FrameType
  <2>5. /\ Len(Top.path) \in Nat /\ Len(Child(i)) = Len(Top.path) + 1
        /\ \A k \in 1..Len(Top.path) : Child(i)[k] = Top.path[k]
    BY <2>1, <2>4, Pushed DEF Child
  <2>6. Begins(Top.path, Child(i))
    BY <2>5 DEF Begins
  <2>7. g.at = "accept" /\ g.path = Child(i)
    BY DEF Frame
  <2>8. g \in FrameType
    BY <2>1, <2>4, Pushed, NewFrame DEF Child, CodegenInductive, TypeOK
  <2> HIDE DEF s, g
  <2>9. Len(stack') = n + 1 /\ stack'[n + 1] = g /\ \A k \in 1..n : stack'[k] = s[k]
    BY <2>1, <2>2, <2>8, Pushed
  <2> QED BY <2>3, <2>6, <2>7, <2>9
<1>8. Goal
  BY <1>5, <1>6, <1>7 DEF StackStep
<1> QED BY <1>0, <1>2, <1>8 DEF n

LEMMA PathsKept ==
    ASSUME CodegenInductive, CodegenInductive', stack # <<>>, StackStep, Paths,
           location' \in [node : Seq(Nat), scope : Nat],
           location'.node = Top.path \/ (UNCHANGED location /\ Top.at # "accept")
    PROVE  Paths'
<1> DEFINE n == Len(stack)
           m == Len(stack')
<1>1. /\ n \in Nat \ {0} /\ m \in {n - 1, n, n + 1}
      /\ \A k \in 1..n : k \in 1..m => stack'[k].path = stack[k].path
      /\ m = n + 1 => stack'[m].at = "accept" /\ Begins(Top.path, stack'[m].path)
      /\ Top = stack[n]
      /\ \A k \in 1..(n - 1) : stack[k].at # "accept"
  BY PathsOfStep
<1>2. /\ \A k \in 1..n : stack[k].path \in Seq(Nat)
      /\ \A k \in 1..m : stack'[k].path \in Seq(Nat)
  <2>1. stack \in Seq(FrameType) /\ stack' \in Seq(FrameType)
    BY DEF CodegenInductive, TypeOK
  <2>2. /\ \A k \in 1..n : stack[k] \in FrameType
        /\ \A k \in 1..m : stack'[k] \in FrameType
    <3> DEFINE s == stack'
    <3>1. s \in Seq(FrameType)
      BY <2>1
    <3> HIDE DEF s
    <3>2. \A k \in 1..Len(s) : s[k] \in FrameType
      BY <3>1, ElementOfSeq
    <3> QED BY <2>1, <3>2, ElementOfSeq DEF s
  <2> QED BY <2>2 DEF FrameType
<1>3. /\ \A k \in 1..n : \A j \in k..n : Begins(stack[k].path, stack[j].path)
      /\ \A k \in 1..n : stack[k].at # "accept" => Begins(stack[k].path, location.node)
  BY DEF Paths
<1> HIDE DEF n, m
<1>4. /\ \A k \in 1..m : k \in 1..n \/ (k = m /\ m = n + 1)
      /\ \A k \in 1..n : k = n \/ k \in 1..(n - 1)
      /\ \A k \in 1..n : n \in k..n
      /\ n \in 1..n
      /\ m = n + 1 => \A k \in 1..n : k \in 1..m
  BY <1>1
<1>5. \A k \in 1..n : Begins(stack[k].path, Top.path)
  BY <1>1, <1>3, <1>4
<1>6. \A s \in Seq(Nat) : Begins(s, s)
  BY LenProperties DEF Begins
<1>7. ASSUME NEW k \in 1..m, NEW j \in k..m
      PROVE  Begins(stack'[k].path, stack'[j].path)
  <2>1. j \in 1..m /\ j >= k
    BY <1>1
  <2>2. CASE j \in 1..n
    <3>1. k \in 1..n /\ j \in k..n
      BY <1>1, <2>1, <2>2
    <3> QED BY <1>1, <1>3, <2>1, <2>2, <3>1
  <2>3. CASE j = m /\ m = n + 1 /\ k = m
    BY <1>2, <1>6, <2>3
  <2>4. CASE j = m /\ m = n + 1 /\ k \in 1..n
    <3>1. stack'[k].path = stack[k].path /\ Begins(stack[k].path, Top.path)
      BY <1>1, <1>5, <2>4
    <3>2. /\ stack[k].path \in Seq(Nat) /\ Top.path \in Seq(Nat)
          /\ stack'[m].path \in Seq(Nat) /\ Begins(Top.path, stack'[m].path)
      BY <1>1, <1>2, <1>4, <2>1, <2>4
    <3> QED BY <2>4, <3>1, <3>2, BeginsTransitively
  <2> QED BY <1>4, <2>1, <2>2, <2>3, <2>4
<1>8. ASSUME NEW k \in 1..m, stack'[k].at # "accept"
      PROVE  Begins(stack'[k].path, location'.node)
  <2>1. k \in 1..n
    BY <1>1, <1>4, <1>8
  <2>2. stack'[k].path = stack[k].path
    BY <1>1, <2>1
  <2>3. CASE location'.node = Top.path
    BY <1>5, <2>1, <2>2, <2>3
  <2>4. CASE UNCHANGED location /\ Top.at # "accept"
    <3>1. stack[k].at # "accept"
      BY <1>1, <1>4, <2>1, <2>4
    <3> QED BY <1>3, <2>1, <2>2, <2>4, <3>1
  <2> QED BY <2>3, <2>4
<1> QED BY <1>7, <1>8 DEF Paths, m

(* The locations of a step in the function being built.                    *)
LEMMA AttachedKept ==
    ASSUME CodegenInductive, CodegenInductive', Lasting(functions, functions'), Attached, Blocks,
           UNCHANGED subprograms,
           \A l \in locations' :
               l \in locations \/ (current # NoFunction /\ l = <<current, location.scope>>)
    PROVE  Attached'
<1> DEFINE n == Len(functions)
           m == Len(functions')
           p == Len(subprograms)
<1>1. n \in Nat /\ m \in Nat /\ n <= m /\ p \in Nat /\ current \in 0..n
  BY LenProperties DEF CodegenInductive, TypeOK, Lasting, Attached
<1>2. /\ \A i \in 1..p : subprograms[i] \in 1..n
      /\ \A l \in locations : l \in (1..n) \X (1..p) /\ subprograms[l[2]] = l[1]
  BY DEF Attached
<1>3. current # NoFunction => location.scope \in 1..p /\ subprograms[location.scope] = current
  BY <1>1, EmptySeq DEF Blocks, Attached
<1>4. \A i \in 1..n : i \in 1..m
  BY <1>1
<1> HIDE DEF n, m, p
<1>5. ASSUME NEW l \in locations'
      PROVE  l \in (1..m) \X (1..p) /\ subprograms[l[2]] = l[1]
  <2>1. CASE l \in locations
    BY <1>2, <1>4, <2>1
  <2>2. CASE current # NoFunction /\ l = <<current, location.scope>>
    <3>1. current \in 1..n
      BY <1>1, <2>2 DEF NoFunction
    <3> QED BY <1>3, <1>4, <2>2, <3>1
  <2> QED BY <2>1, <2>2
<1> QED BY <1>2, <1>4, <1>5 DEF Attached, m, p

LEMMA BodyLocated ==
    ASSUME IRInductive, BodyKept, stack # <<>>,
           UNCHANGED <<subprograms, llvm_di_lexical_blocks>>,
           location'.scope = location.scope, location' \in [node : Seq(Nat), scope : Nat],
           location'.node = Top.path \/ (UNCHANGED location /\ Top.at # "accept"),
           \A l \in locations' : l \in locations \/ l = <<current, location.scope>>
    PROVE  IRInductive'
<1>1. CodegenInductive /\ CodegenInductive' /\ BodyStep /\ StackStep
  BY DEF IRInductive, BodyKept
<1>2. Paths'
  BY <1>1, PathsKept DEF IRInductive
<1>3. Lasting(functions, functions')
  BY <1>1, BodyLasts
<1>4. current # NoFunction /\ current' = current /\ status' = status
  BY <1>1 DEF CodegenInductive, Visits, BodyStep
<1>5. Attached'
  BY <1>1, <1>3, <1>4, AttachedKept DEF IRInductive
<1>6. Blocks'
  BY <1>4 DEF IRInductive, Blocks
<1> QED BY <1>1, <1>2, <1>5, <1>6 DEF IRInductive

LEMMA AcceptLocatedKeeps ==
    ASSUME IRInductive, acceptLocated
    PROVE  IRInductive'
<1>1. /\ accept /\ emitLocation(Top.path, llvm_di_lexical_blocks)
      /\ UNCHANGED <<subprograms, llvm_di_lexical_blocks, locations>>
  BY DEF acceptLocated
<1>2. BodyKept /\ stack # <<>>
  BY <1>1, AcceptKeeps DEF IRInductive, accept, At
<1>3. location' = [node |-> Top.path, scope |-> Scope(llvm_di_lexical_blocks)]
  BY <1>1 DEF emitLocation
<1>4. Scope(llvm_di_lexical_blocks) = location.scope /\ location.scope \in Nat
  <2>1. current # NoFunction
    BY <1>2 DEF IRInductive, CodegenInductive, Visits
  <2>2. llvm_di_lexical_blocks = <<location.scope>>
    BY <2>1 DEF IRInductive, Blocks
  <2>3. Len(<<location.scope>>) = 1
    OBVIOUS
  <2> QED BY <2>2, <2>3 DEF Scope, Last, IRInductive, Paths
<1>5. Top.path \in Seq(Nat)
  BY <1>2, TopFrame DEF IRInductive, FrameType
<1>6. location' \in [node : Seq(Nat), scope : Nat] /\ location'.scope = location.scope /\ location'.node = Top.path
  BY <1>3, <1>4, <1>5
<1> QED BY <1>1, <1>2, <1>6, BodyLocated

(* A visit method that is called has set the current location already.     *)
LEMMA VisitIsOfBody ==
    ASSUME CodegenInductive,
           visitFloat \/ visitVariable \/ visitUnary \/ visitBinary \/ visitCall \/ visitIf
              \/ visitFor \/ visitVar
    PROVE  BodyKept /\ stack # <<>> /\ Top.at # "accept"
<1>1. BodyKept
  BY FloatKeeps, VariableKeeps, UnaryKeeps, BinaryKeeps, CallKeeps, IfKeeps, ForKeeps, VarKeeps
<1>2. \E at : at # "accept" /\ At(at)
  BY DEF visitFloat, visitVariable, visitUnary, visitBinary, visitCall, visitIf, visitFor, visitVar,
         PropagateNull, Succeeded
<1> QED BY <1>1, <1>2 DEF At

LEMMA VisitLocatedKeeps ==
    ASSUME IRInductive, visitLocated
    PROVE  IRInductive' /\ stack # <<>> /\ Top.at # "accept"
<1>1. /\ Locate
      /\ UNCHANGED <<subprograms, llvm_di_lexical_blocks, location>>
  BY DEF visitLocated
<1>2. BodyKept /\ stack # <<>> /\ Top.at # "accept"
  BY VisitIsOfBody DEF visitLocated, IRInductive
<1>3. \A l \in locations' : l \in locations \/ l = <<current, location.scope>>
  BY <1>1 DEF Locate
<1> QED BY <1>1, <1>2, <1>3, BodyLocated DEF IRInductive, Paths

-----------------------------------------------------------------------------
(* The items of the walk, and what surrounds it.                           *)

LEMMA NoPaths ==
    ASSUME stack' = <<>>, UNCHANGED location, Paths
    PROVE  Paths'
<1>1. Len(stack') = 0 /\ \A k : k \notin 1..0
  OBVIOUS
<1> QED BY <1>1 DEF Paths

LEMMA DeclareKeeps ==
    ASSUME IRInductive, declarePrototype
    PROVE  IRInductive'
<1>1. visitPrototype /\ UNCHANGED debug
  BY DEF declarePrototype
<1>2. CodegenInductive' /\ Lasting(functions, functions') /\ stack = <<>>
  BY <1>1, PrototypeKeeps DEF IRInductive
<1>3. UNCHANGED <<stack, current, status>>
  BY <1>1 DEF visitPrototype
<1>4. Attached'
  BY <1>1, <1>2, AttachedKept DEF IRInductive, debug
<1>5. Paths'
  BY <1>1, <1>2, <1>3, NoPaths DEF IRInductive, debug
<1>6. Blocks'
  BY <1>1, <1>3 DEF IRInductive, Blocks, debug
<1> QED BY <1>2, <1>4, <1>5, <1>6 DEF IRInductive

LEMMA BeginSubprogramKeeps ==
    ASSUME IRInductive, beginSubprogram
    PROVE  IRInductive'
<1>1. /\ beginFunction
      /\ subprograms' = Append(subprograms, current')
      /\ llvm_di_lexical_blocks' = Append(llvm_di_lexical_blocks, Len(subprograms'))
      /\ locations' = locations \cup Prologue(functions'[current'], Scope(llvm_di_lexical_blocks'))
      /\ emitLocation(<<>>, llvm_di_lexical_blocks')
  BY DEF beginSubprogram
<1>2. /\ CodegenInductive' /\ Lasting(functions, functions')
      /\ current' \in 1..Len(functions')
  BY <1>1, BeginKeeps DEF IRInductive
<1>3. current = NoFunction /\ current' # NoFunction /\ UNCHANGED status /\ stack' = <<Frame(<<>>)>>
  BY SMTT(30), <1>1, <1>2 DEF beginFunction, NextItem, NoFunction
<1> DEFINE n == Len(functions)
           m == Len(functions')
           p == Len(subprograms)
<1>4. subprograms \in Seq(Nat) /\ p \in Nat /\ n \in Nat /\ m \in Nat /\ n <= m
  BY <1>2, LenProperties DEF IRInductive, Attached, CodegenInductive, TypeOK, Lasting
<1>5. current' \in 1..m /\ current' \in Nat
  BY <1>2, <1>4
<1>6. /\ subprograms' \in Seq(Nat) /\ Len(subprograms') = p + 1
      /\ subprograms'[p + 1] = current'
      /\ \A i \in 1..p : subprograms'[i] = subprograms[i]
      /\ subprograms' # <<>>
  BY <1>1, <1>4, <1>5, Pushed
<1>7. llvm_di_lexical_blocks' = <<p + 1>>
  BY <1>1, <1>3, <1>6 DEF IRInductive, Blocks
<1>8. Scope(llvm_di_lexical_blocks') = p + 1
  <2>1. Len(<<p + 1>>) = 1 /\ <<p + 1>> # <<>>
    OBVIOUS
  <2> QED BY <1>7, <2>1 DEF Scope, Last
<1>9. location' = [node |-> <<>>, scope |-> p + 1]
  BY <1>1, <1>8 DEF emitLocation
<1>10. \A l \in locations' : l \in locations \/ l = <<current', p + 1>>
  BY <1>1, <1>8 DEF Prologue
<1>11. /\ \A i \in 1..p : subprograms[i] \in 1..n
       /\ \A l \in locations : l \in (1..n) \X (1..p) /\ subprograms[l[2]] = l[1]
  BY DEF IRInductive, Attached
<1>12. /\ \A i \in 1..(p + 1) : i = p + 1 \/ i \in 1..p
       /\ \A i \in 1..p : i \in 1..(p + 1)
       /\ \A i \in 1..n : i \in 1..m
       /\ p + 1 \in 1..(p + 1) /\ p + 1 \in 0..(p + 1) /\ p + 1 \in Nat
  BY <1>4
<1>15. Blocks'
  BY <1>3, <1>5, <1>6, <1>7, <1>9, <1>12 DEF Blocks
<1> HIDE DEF n, m, p
<1>16. Attached'
  <2>1. \A i \in 1..(p + 1) : subprograms'[i] \in 1..m
    BY <1>5, <1>6, <1>11, <1>12
  <2>2. ASSUME NEW l \in locations'
        PROVE  l \in (1..m) \X (1..(p + 1)) /\ subprograms'[l[2]] = l[1]
    <3>1. CASE l \in locations
      BY <1>6, <1>11, <1>12, <3>1
    <3>2. CASE l = <<current', p + 1>>
      BY <1>5, <1>6, <1>12, <3>2
    <3> QED BY <1>10, <3>1, <3>2
  <2> QED BY <1>6, <2>1, <2>2 DEF Attached, m
<1>17. Paths'
  <2>1. Frame(<<>>).at = "accept" /\ Frame(<<>>).path = <<>>
    BY DEF Frame
  <2> DEFINE h == Frame(<<>>)
  <2> HIDE DEF h
  <2>2. /\ Len(stack') = 1 /\ stack'[1] = h
        /\ \A k \in 1..1 : k = 1 /\ \A j \in k..1 : j = 1
    BY <1>3 DEF h
  <2>3. Begins(h.path, h.path)
    BY <2>1 DEF Begins, h
  <2>4. h.at = "accept"
    BY <2>1 DEF h
  <2>5. location' \in [node : Seq(Nat), scope : Nat]
    BY <1>9, <1>12
  <2> QED BY <2>2, <2>3, <2>4, <2>5 DEF Paths
<1> QED BY <1>2, <1>15, <1>16, <1>17 DEF IRInductive

LEMMA EndSubprogramKeeps ==
    ASSUME IRInductive, endSubprogram
    PROVE  IRInductive'
<1>1. /\ endFunction
      /\ locations' = IF Failed THEN locations ELSE locations \cup {<<current, location.scope>>}
      /\ llvm_di_lexical_blocks' = Front(llvm_di_lexical_blocks)
      /\ UNCHANGED <<subprograms, location>>
  BY DEF endSubprogram
<1>2. CodegenInductive' /\ Lasting(functions, functions')
  BY <1>1, EndKeeps DEF IRInductive
<1>3. /\ current # NoFunction /\ current' = NoFunction
      /\ stack' = <<>> /\ UNCHANGED status
  BY <1>1 DEF endFunction
<1>4. \A l \in locations' : l \in locations \/ l = <<current, location.scope>>
  BY <1>1
<1>5. Attached'
  BY <1>1, <1>2, <1>3, <1>4, AttachedKept DEF IRInductive
<1>6. Paths'
  BY <1>1, <1>3, NoPaths DEF IRInductive
<1>7. Blocks'
  <2>1. llvm_di_lexical_blocks = <<Len(subprograms)>>
    BY <1>3 DEF IRInductive, Blocks
  <2>2. Front(<<Len(subprograms)>>) = <<>>
    BY DEF Front
  <2> QED BY <1>1, <1>3, <2>1, <2>2 DEF IRInductive, Blocks
<1> QED BY <1>2, <1>5, <1>6, <1>7 DEF IRInductive

(* Steps that leave the module, the tree and the locations alone.          *)
LEMMA RestKept ==
    ASSUME IRInductive, CodegenInductive',
           UNCHANGED <<functions, current, stack>>, UNCHANGED debug
    PROVE  Attached' /\ Blocks' /\ Paths'
BY DEF IRInductive, Attached, Blocks, Paths, debug

LEMMA FinalizeKeeps ==
    ASSUME IRInductive, finalize
    PROVE  IRInductive'
<1>1. main_loop /\ UNCHANGED debug
  BY DEF finalize
<1>2. CodegenInductive'
  BY <1>1, LoopKeeps DEF IRInductive
<1>3. UNCHANGED <<functions, current, stack>>
  BY <1>1 DEF main_loop
<1> QED BY <1>1, <1>2, <1>3, RestKept DEF IRInductive

LEMMA IRStutters ==
    ASSUME IRInductive, UNCHANGED <<vars, debug>>
    PROVE  IRInductive'
<1>1. CodegenInductive'
  BY Stutters DEF IRInductive
<1>2. UNCHANGED <<functions, current, stack, status>>
  BY DEF vars
<1> QED BY <1>1, <1>2, RestKept DEF IRInductive

LEMMA IRStarts ==
    ASSUME IRInit
    PROVE  IRInductive
<1>1. /\ CodegenInductive /\ current = NoFunction /\ status = "running"
      /\ stack = <<>> /\ subprograms = <<>> /\ locations = {}
  BY CodegenStarts DEF IRInit, Init
<1>2. Len(stack) = 0 /\ Len(subprograms) = 0 /\ \A k : k \notin 1..0
  BY <1>1
<1>3. location = [node |-> <<0, 0>>, scope |-> 0] /\ <<0, 0>> \in Seq(Nat) /\ 0 \in 0..0
  BY DEF IRInit, Fresh, Unit
<1>4. Attached
  <2>1. subprograms \in Seq(Nat)
    BY <1>1
  <2> QED BY <1>1, <1>2, <2>1 DEF Attached
<1>5. Blocks
  BY <1>1, <1>2, <1>3 DEF Blocks, IRInit
<1>6. Paths
  <2>1. location \in [node : Seq(Nat), scope : Nat]
    BY <1>3
  <2> QED BY <1>2, <2>1 DEF Paths
<1> QED BY <1>1, <1>4, <1>5, <1>6 DEF IRInductive

LEMMA IRKept ==
    ASSUME IRInductive, [IRNext]_<<vars, debug>>
    PROVE  IRInductive'
<1>1. CASE IRDone
  BY <1>1, IRStutters DEF IRDone, Done
<1> QED BY <1>1, AcceptLocatedKeeps, VisitLocatedKeeps, DeclareKeeps,
           BeginSubprogramKeeps, EndSubprogramKeeps, FinalizeKeeps, IRStutters DEF IRNext

(* However the functions end, fail or redefine each other, one block at    *)
(* most is pushed, every location is in a subprogram of its own function,  *)
(* and the current one is inside every node being visited.                 *)
THEOREM IRInvariant == IRSpec => []IRInductive
BY IRStarts, IRKept, PTL DEF IRSpec

-----------------------------------------------------------------------------
(* Every variable keeps its type.                                          *)
THEOREM IRTypeCorrect == IRSpec => []IRTypeOK
<1> SUFFICES ASSUME IRInductive PROVE IRTypeOK
  BY IRInvariant, PTL
<1> DEFINE p == Len(subprograms)
           T == DOMAIN functions
<1>1. /\ subprograms \in Seq(Nat) /\ p \in Nat /\ DOMAIN subprograms = 1..p
      /\ T = 1..Len(functions)
  BY LenProperties DEF IRInductive, Attached, CodegenInductive, TypeOK
<1>2. subprograms \in Seq(T)
  <2>1. subprograms = [i \in 1..p |-> subprograms[i]] /\ \A i \in 1..p : subprograms[i] \in T
    BY <1>1, LenProperties DEF IRInductive, Attached
  <2> HIDE DEF p, T
  <2>2. subprograms \in UNION {[1..n -> T] : n \in Nat}
    BY <1>1, <2>1
  <2>3. Seq(T) = UNION {[1..n -> T] : n \in Nat}
    BY SeqDef
  <2> QED BY <2>2, <2>3, Zenon
<1>3. location \in [node : Seq(Nat), scope : {Unit} \cup DOMAIN subprograms]
  BY <1>1 DEF IRInductive, Blocks, Paths, Unit
<1>4. current # NoFunction => location.scope # Unit
  BY <1>1, EmptySeq DEF IRInductive, Blocks, Unit
<1>5. llvm_di_lexical_blocks \in Seq(DOMAIN subprograms)
  <2>1. CASE current = NoFunction
    BY <2>1 DEF IRInductive, Blocks
  <2>2. CASE current # NoFunction
    <3>1. p \in DOMAIN subprograms /\ llvm_di_lexical_blocks = <<p>>
      BY <1>1, <2>2, EmptySeq DEF IRInductive, Blocks
    <3> QED BY <3>1
  <2> QED BY <2>1, <2>2
<1>6. locations \subseteq (DOMAIN functions) \X ({Unit} \cup DOMAIN subprograms)
  <2>1. \A l \in locations : l \in (DOMAIN functions) \X (DOMAIN subprograms)
    BY <1>1 DEF IRInductive, Attached
  <2> QED BY <2>1
<1> QED BY <1>2, <1>3, <1>4, <1>5, <1>6 DEF IRTypeOK, IRInductive, CodegenInductive

(* A function that fails pops its lexical block like one that succeeds.    *)
THEOREM BlocksBalanced == IRSpec => []LexicalBlocksBalanced
<1>1. IRInductive => LexicalBlocksBalanced
  BY DEF IRInductive, Blocks, LexicalBlocksBalanced
<1> QED BY <1>1, IRInvariant, PTL

(* Every instruction of a function, those that store its arguments         *)
(* included, is located in a subprogram made for that function.            *)
THEOREM InstructionsLocated == IRSpec => []LocatedInItsFunction
<1>1. IRInductive => LocatedInItsFunction
  <2> SUFFICES ASSUME IRInductive, NEW l \in locations
               PROVE  l[2] # Unit /\ subprograms[l[2]] = l[1]
    BY DEF LocatedInItsFunction
  <2>1. /\ l \in (1..Len(functions)) \X (1..Len(subprograms)) /\ subprograms[l[2]] = l[1]
        /\ Len(subprograms) \in Nat
    BY LenProperties DEF IRInductive, Attached
  <2> QED BY <2>1 DEF Unit
<1> QED BY <1>1, IRInvariant, PTL

(* An instruction is located at the node it is made for or at one inside   *)
(* it, though a node's visits of its children each set the location.       *)
THEOREM InstructionsInTheirNode == IRSpec => LocatedInItsNode
<1>1. ASSUME IRInductive, visitLocated
      PROVE  IsPrefix(Top.path, location.node)
  <2>1. stack # <<>> /\ Top.at # "accept"
    BY <1>1, VisitLocatedKeeps
  <2>2. /\ Len(stack) \in 1..Len(stack) /\ Top = stack[Len(stack)] /\ Top \in FrameType
    <3>1. stack \in Seq(FrameType)
      BY <1>1 DEF IRInductive, CodegenInductive, TypeOK
    <3>2. Len(stack) \in Nat \ {0} /\ Last(stack) = stack[Len(stack)] /\ Last(stack) \in FrameType
      BY <2>1, <3>1, Dropped
    <3> QED BY <3>2 DEF Top
  <2>3. Begins(Top.path, location.node)
    BY <1>1, <2>1, <2>2 DEF IRInductive, Paths
  <2> QED BY <1>1, <2>2, <2>3, BeginsIsPrefix DEF FrameType, IRInductive, Paths
<1>2. IRInductive /\ [IRNext]_<<vars, debug>> =>
         [visitLocated /\ emitted' # {} => IsPrefix(Top.path, location.node)]_<<vars, debug>>
  BY <1>1
<1> QED BY <1>2, IRInvariant, PTL DEF IRSpec, LocatedInItsNode
=============================================================================
