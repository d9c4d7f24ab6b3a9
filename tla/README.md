# A TLA+ model of the Arx compiler

Arx is a compiler for a small language in the tradition of Kaleidoscope. A text
is copied into a buffer, the lexer cuts it into tokens, the parser builds a tree
of nodes, and one of three visitors walks the tree: to an object file, to LLVM
IR with debug information, or to a printed form. Everything runs in one thread
and communicates through static members and globals: `Lexer::cur_tok`,
`Lexer::cur_loc`, the buffer, `ArxLLVM::named_values`, `ArxLLVM::module` and the
visitor's `result_val` and `result_func`. A function reports failure by
returning `nullptr` or by leaving a global as it was. That is what makes the
program hard to test: a value is read many steps after it was written, by code
that assumes nothing else has written it in between, and every error path has to
undo, report or propagate something.

All paths below are relative to `src/` of the repository.

## Inventory

**Input buffer** (`io.cpp`). State: the string stream behind `get_char`.
Operations: `get_char`, `string_to_buffer`, `file_to_buffer`,
`load_input_to_buffer`. Called by the lexer, one character at a time, and by
`main()` and the tests, which load a text. Hard: a load may happen while the
lexer is in the middle of the old text, and each way of loading treats the old
content, the last line and white space differently. Correct when the characters
delivered after a load are those of the text loaded.

**Lexer** (`lexer.cpp`). State: `cur_tok`, `cur_loc`, `lex_loc`,
`identifier_str`, `num_float`, and the look-ahead `last_char`, static inside
`gettok`. Operations: `gettok`, `advance`, `get_next_token`. Hard: the look-ahead
outlives both the call and the text, `cur_loc` has to be taken at the one moment
between skipping and reading, and a comment restarts the function. Correct when
each token is the longest one its characters spell, carries the line and column
of its first character, nothing but white space and comments lies between two
tokens, and the end is reported at the end.

**Parser** (`parser.cpp`). State: the lexer's, `bin_op_precedence`, and the C++
stack. Operations: `parse` and some fifteen mutually recursive functions. It
calls the lexer for the next token, and nothing calls back. Hard: each function
must test every result for `nullptr`, consume at least one token on every cycle
of calls, not ask for a token after the last, pass on the location it saved and
not the current one, and the loop and the recursion of `parse_bin_op_rhs` must
agree on who takes an operator. Correct when failures are reported exactly once,
trees follow the precedences, locations are those of the node, the recursion is
paid for by tokens, and `parse` returns.

**AST** (`parser.h`). Node classes without behaviour of their own besides
`accept`, the dispatch to a visitor, and `dump`, which prints.

**Object code generation** (`codegen/ast-to-object.cpp`). State: `result_val`,
`result_func`, and the globals below. Operations: a `visit` method per class,
`getFunction`, `main_loop`, `compile_object`, `open_shell_object`. Hard: a visit
that fails half way leaves bindings and blocks behind; the visit of a child can
change the block its parent is about to end; functions are declared, defined,
defined again and erased while others refer to them; `getFunction` reports
failure by not assigning. Correct when names are bound in their scope only,
every block is ended once and every phi fits the branches to it, nothing half
built stays in the module, and every call is of the function it names, with the
arguments that function takes.

**LLVM globals** (`codegen/arx-llvm.cpp`). State: `context`, `module`,
`ir_builder`, `named_values`, `function_protos`, the types. Shared by both code
generators. `initialize` sets them up.

**LLVM IR and debug information** (`codegen/ast-to-llvm-ir.cpp`). A subclass of
the object visitor with a stack of lexical blocks and a current debug location.
Hard: every block pushed must be popped on every path, and the location outlives
the visit that set it. Correct when the stack is empty between functions and every
instruction of a body has a location in the subprogram of its function, at the
node it was made for.

**AST printer** (`codegen/ast-to-stdout.cpp`). State: indentation and a pending
annotation. Hard: optional children, and each method restores by hand what it
changed. Correct when each bracket is closed in its column, an annotation is
printed at its child, and no missing child is dereferenced.

**Driver** (`main.cpp`, `compile_object`, `ArxFile` in `io.cpp`). Parses options,
loads, parses, dispatches; writes the object file, then a temporary C++ file,
compiles and deletes it. Hard: several compilers share `/tmp`, `mkstemp` is
followed by `rename`, each step can fail, the process can die between two.
Correct when every compiler compiles its own file, nothing stays behind, and the
exit code says whether it worked.

**JIT, errors, utilities** (`codegen/jit.h`, `error.cpp`, `utils.cpp`). The JIT is
created for its data layout and never used; the rest prints or joins strings.

## Modules

| module | models | state |
|---|---|---|
| `Parser` | `parser.cpp`, all of `Parser`, over any token stream | current token and its place, call stack, returned value, tree, diagnostics |
| `ParserProofs`, `ParserPlacesProofs` | theorems about `Parser`: its trees and diagnostics; the places it is at | |
| `LexerSpec` | what a call of the lexer promises, in one step per token | input, how much of it has been taken, token and location |
| `Lexer` | `lexer.cpp` and the loading functions of `io.cpp`, byte by byte | buffer, look-ahead, locations, token, and a history of the characters delivered |
| `ObjectCodegen` | the visit methods and `main_loop` of `ast-to-object.cpp` with the globals of `arx-llvm.cpp` | module with the basic blocks of its functions, insertion point, prototypes, scope, results, call stack |
| `DebugInfo` | `ast-to-llvm-ir.cpp`, extends `ObjectCodegen` | that of `ObjectCodegen`, subprograms, lexical blocks, current location |
| `AstPrinter` | `ast-to-stdout.cpp` | indentation, annotation, call stack, open brackets |
| `Driver` | `main.cpp`, `compile_object`, `ArxFile`, in several processes | a record per process, the files |
| `LexerProofs`, `ObjectCodegenProofs`, `DebugInfoProofs`, `AstPrinterProofs`, `DriverProofs` | theorems about the module each is named after | |
| `StackLemmas` | lemmas on sequences that the proofs share | |
| `MCObjectCodegen`, `MCDriver` | lists and command lines a configuration cannot write down | |

**Call stacks.** `Parser`, `ObjectCodegen`, `DebugInfo` and `AstPrinter` represent
the C++ call stack by a variable `stack`. A frame has a field `at`: `"for.start"` is
`parse_for_expr` waiting for the start expression. An action carries the function
from one call to the next, or to its return, so a caller sees what its callees did
to the shared state in between. There is one definition per function, named after
it, with one disjunct per path; the tests for `nullptr` after the calls of a
function are its `PropagateNull` disjunct (in the parser, `At` states that the
result a caller goes on with is not null). The parser's tokens are chosen as they
are read; the trees of the visitors as they are visited, and the code generator's
are remembered, because an assignment visits its operands twice.

**Data.** `Parser` does not hold the text of names or the values of numbers. Every
token has a place in the input, and a node records whether its location lies between
its first token and its last, which is all that the location properties need.
A binary node keeps the precedence of its operator and of its operands'.
`Lexer` has bytes, since words, numbers, comments and line ends are made of
them; a byte becomes a signed `char` exactly where the code stores one.
`ObjectCodegen` has functions with their allocas, callees and basic blocks;
instructions are the records `emitted` by a step. A block records whether the
function's list has it (`else` and `ifcont` are created before they are inserted),
how many terminators it has, which blocks they go to, and from which blocks its phi
takes values; `insert` is where the next instruction goes. A call records the item
it was made in, a function the item that defined it last, so that a call older than
a failed definition can be told from a later one.
`AstPrinter` has the columns of the brackets that stand on lines of their own, and
for whom an annotation was set.

**`LexerSpec` and `Lexer`.** `LexerSpec` has the whole input at once: a call returns
the longest token there is after blanks and comments, and its place, or `tok_eof`
when only blanks and comments are left. `Lexer` shows that it implements this by the
mapping `Promised`: `input` is what has been delivered and what is still buffered,
`consumed` leaves out the look-ahead, `busy` is a call in progress. Nothing is
promised of `cur_loc` while a call runs nor of the place of the end of the input,
because the code has no use for either. The promise is for one text: a string that
replaces another is what `reload` is about.

**`DebugInfo`.** `ASTToLLVMIRVisitor` derives from the object visitor; its methods
set the location and call the method they override. An action of `DebugInfo` is, in
the same way, an action of `ObjectCodegen` in conjunction with what the override
adds: `acceptLocated` is `accept` and `emitLocation`, `beginSubprogram` is
`beginFunction` and the push, and so on. `FunctionAST`, which the derived class
writes out again with the same steps, is modelled that way too.

**`Driver`.** A process is a record with a program counter, and its steps are those
after which another process may see a difference or this one may stop: `open`,
`emit`, `mkstemp`, `write`, `rename`, `system`, `delete_file`, the two tests and the
return. `Die` is a signal at any point, and also stands for a visitor that
dereferences a null item. Parsing and the walk are one step, since they touch no
file. `files` maps a path to who wrote it, whose object is in it and whether it is
complete.

Taken for granted: `Parser::setup()` has run, `char` is signed, `isascii` of the
platform is the one in the C locale. LLVM is external: `getFunction`, `Create`,
`CreateCall` and `eraseFromParent` are modelled by what the visitor relies on. For
`Driver`: who starts compilers does not let two that write the same object or
executable run at once (`Start`; the code does nothing about it), `clang++` reads
and writes in one step, needs the whole C++ file and does not outlive a compiler
that is killed while it waits for it, `unlink` does not fail (its result is ignored,
so that the file would stay), and a `raw_fd_ostream` whose write failed ends the
process in its destructor, as LLVM documents; and nobody names an output like a
temporary file (`DriverAssumption`).

## Runs

Every run explores all states of its instance. Deadlock is checked everywhere;
a program that ends stutters (`Done`).

| run | instance | shows |
|---|---|---|
| `operators` | 7 tokens: an operand, parentheses, operators of three precedences | `BindsByPrecedence`: trees follow the precedences, equals to the left. `Inductive`: the invariant of the proofs |
| `items` | 6 tokens of `fn`, `extern`, prototypes, calls and `;` | `OneDiagnosticPerFailure`: no failure is silent or reported twice. `RecursionConsumesTokens`: no cycle of calls without a token. `NeverReadsPastEnd`: nor is `tok_eof`, of which there is no end, taken for one. `StallsOnlyOnOrphans`, `Terminates`: only the items listed under *Divergences* are not consumed. `ExplicitLocationsOwned` for numbers, variables, calls. `TypeOK` |
| `expressions` | 8 tokens of `if`, `for`, `var` and assignments | `OneDiagnosticPerFailure` and `RecursionConsumesTokens` where functions have most error paths, `ExplicitLocationsOwned` for `if` and operators |
| `text` | files of 4 characters out of 9 | a token is its text (`TokenIsItsText`), at its place (`LocationIsTokenStart`), all of the file is read (`LoadsWholeText`); `KeepsPromise`: `Lexer` implements `LexerSpec`, including that every call returns |
| `reload` | two loads of 3 characters, each from any source | `OneCharacterCarriedOver`: the look-ahead is all that survives when a string replaces the text. `NothingFollowsEof`: the end, once reported, is reported for ever, which `compile_object` relies on and a later load suffers from |
| `bodies` | two items over one name, two inner nodes of any kind | `NoHalfBuiltFunction`: a finished body has no block without a terminator or with two, a failed one is gone. `PhiMatchesPredecessors`: phis under nested branches and loops. `ScopeIsOwn`, `ScopeRestored`: what is in scope after a visit, after a failed body, and of variables that shadow each other. `TypeOK` |
| `debug_info` | three items over two names, two inner nodes out of calls, unary operators and assignments | `ResultFuncLive`, `CalleesLive` across declarations, redefinitions and bodies that fail. `CallsMatchParameters`: a call among the arguments, which changes `result_func`, does not change what is called. `LexicalBlocksBalanced`: nothing stays pushed, however a body ends. `LocatedInItsFunction`, `LocatedInItsNode`: where an instruction is located. `IRTypeOK` |
| `printer` | two items, three inner nodes, two arguments | `BracketsAlign`: a bracket is closed in the column it was opened in. `StrayOnlyFromUnprinted`: who else's annotation a node may print. `CrashesOnMissing`: which null pointers are dereferenced |
| `driver` | two compilers, eight command lines, two temporary names | `NothingLeftBehind`: which files stay in `/tmp`. `SuccessMeansBuilt`: what exit code 0 says of the object and the executable. `Ends`: a compiler with its input ends |
| `null_nodes`, `unknown_callee`, `tmp_names` | small | what a comment promises and the code does not do, see below |

Bounds. `MaxTokens` 7 is enough for `a + b * c = d`, in which operators are decided
against neighbours of either side at two depths, and for a parenthesis around an
operation; 8 for a `for` without step and its body, and for an `if` with both
branches; 6 for a definition without a parameter, a prototype with one, and for
calls and all their prefixes that end in an error. `MaxNodes` is `MaxTokens + 1`: a
tree whose items consume tokens never reaches it, so `exhausted`, the state of a
program out of memory, is reached only by the endless loop described under
*Divergences*. `MaxText` 4 holds a comment, either line end and a token after it, or
a keyword (`if`) or a number with neighbours. `MaxLoads` 2 is one replacement, at
every point of the old text. `MaxBranches` 2 is one construct inside another, hence
shadowing, an `if` whose branch ends in another block than it began with, and a call
in an argument, or two side by side, hence a location left by a neighbour.
`MaxItems` 3 in `debug_info` is a definition, a caller and a redefinition; 2 in
`bodies` is a body and what it leaves to the next, or a definition and a second one
behind it. `MaxArgs` 1 gives functions that differ in their number of parameters;
the parser cannot read a call with two arguments (*Divergences*). `debug_info` also
checks what is called, which is the base class's business: `IRSpec` implements
`Spec` (`RefinesObjectCodegen`), and the calls of interest need few kinds and many
items, the blocks many kinds and few items. The theorems are for every number of any
of these. The printer's 3 inner nodes are a node in a node and a sibling. Two
compilers are all that a temporary file, or any property of `Driver`, is about; each
may be at any step, or gone, when the other takes one. The alphabets and the command
lines hold one member of every class the code distinguishes for the run at hand.

What the properties leave out. `bodies` uses lists of distinct names; with a
repeated name `ScopeRestored` does not hold (*Divergences*). `CalleesLive` excepts a
call that is older than the definition that failed, because the code does leave
such a call without its callee (*Divergences*); a call made afterwards has no excuse.
`CallsMatchParameters` is about call expressions; an operator passes its operands to
whatever `getFunction` has left (*Divergences*). `LocatedInItsFunction` has no
exception: a function defined twice has two subprograms, and either is its own.
`LoadsWholeText` is about the first file loaded, `OneCharacterCarriedOver` about a
string that replaces a text. `Ends` is about compilers whose input has been typed:
that `--version` waits for it is recorded under *Divergences*, not caught.

Fairness. `Terminates` is checked under `WF_vars(Next)`: the parser is one thread
and no step of it waits for anything but its next character, so it runs until it
returns. `Lexer` has `WF_vars(gettok)`: a call goes on until it returns, the text is
in memory; nobody has to call. `Driver` has `WF_vars(Compile(c))` for each process:
the operating system runs every process that can go on, and each step of one is its
only next step. Nobody has to start a compiler, type at it or kill it, so `Ends` is
about running compilers that have what they read. `system` is taken to return. No
strong fairness is assumed. `ObjectCodegen`, `DebugInfo` and `AstPrinter` state
safety only; their trees are finite.

## Proofs

Every safety property of the runs that pass is also a theorem, for every value of
the constants: any set of tokens, bytes, names, kinds of expression and command
lines, any length of an input, any size of a tree and any number of compilers. The
assumptions are those the modules state of their constants (`ParserAssumption`,
`LexerAssumption`, `CodegenAssumption`, `DriverAssumption`, all evaluated by TLC), and
four hypotheses that are part of the theorems they are needed for:

* `DistinctNames` in `ScopeIsRestored` and `IRScopeIsRestored`: no `var` declares a
  name twice. Without it the theorem is false: TLC finds `var x, x in 1` when `VarLists` is
  `{<<"x", "x">>}` (*Divergences*).
* `Ascii` in `TokenIsText`: no byte above 127. Such a byte is returned as a negative
  number, which is not the character it stands for (*Divergences*).
* `Ascii` and `MaxLoads = 1` in `Implements`: the promise of `LexerSpec` is for one text.
* `WholeTexts` in `TextIsWhole`: nothing is read from the standard input, of which
  only a word is taken (*Divergences*), and a file is loaded once, since a second one
  is added behind what is left of the first and not put in its place.

| module | theorem | property |
|---|---|---|
| `ParserProofs` | `TypeCorrect`, `Diagnostics`, `Precedence` | `TypeOK`, `OneDiagnosticPerFailure`, `BindsByPrecedence` |
| `ParserPlacesProofs` | `Recursion`, `Locations`, `Stalls`, `EndOfInput` | `RecursionConsumesTokens`, `ExplicitLocationsOwned`, `StallsOnlyOnOrphans`, `NeverReadsPastEnd` |
| `LexerProofs` | `TypeCorrect`, `TokenLocated`, `TokenIsText`, `TextIsWhole`, `CarriedOver`, `EofIsFinal`, `Implements` | `TypeOK`, `LocationIsTokenStart`, `TokenIsItsText`, `LoadsWholeText`, `OneCharacterCarriedOver`, `NothingFollowsEof`, `Promised!Safety` |
| `ObjectCodegenProofs` | `TypeCorrect`, `ResultIsLive`, `ScopeOfFunction`, `NoDanglingCall`, `CallsMatch`, `ScopeIsRestored`, `BodiesComplete`, `PhisMatch` | `TypeOK`, `ResultFuncLive`, `ScopeIsOwn`, `CalleesLive`, `CallsMatchParameters`, `ScopeRestored`, `NoHalfBuiltFunction`, `PhiMatchesPredecessors` |
| `DebugInfoProofs` | `RefinesObjectCodegen`, `IRTypeCorrect`, `BlocksBalanced`, `InstructionsLocated`, `InstructionsInTheirNode`, `IRScopeIsRestored` | `IRSpec => Spec`, `IRTypeOK`, `LexicalBlocksBalanced`, `LocatedInItsFunction`, `LocatedInItsNode`, `ScopeRestored` |
| `AstPrinterProofs` | `TypeCorrect`, `Alignment`, `Stray`, `Crashes` | `TypeOK`, `BracketsAlign`, `StrayOnlyFromUnprinted`, `CrashesOnMissing` |
| `DriverProofs` | `TypeCorrect`, `NothingLeft`, `Success` | `TypeOK`, `NothingLeftBehind`, `SuccessMeansBuilt` |

None of the properties is inductive. Each module has an inductive invariant, with a
theorem of its own, that says why the property holds.

**`Inductive` (trees and diagnostics).** `BindsByPrecedence` speaks of trees that
exist, and a tree is built from a left operand saved when the loop was entered and a
right operand returned by a call made in between. Each frame of a loop keeps a left
operand that binds at least as tightly as its pending operator, which is not looser
than the loop allows (`OperatorsInOrder`); a frame that waits for an operand has called
a function that parses one, and the loop that waits for tighter operators has called a
loop whose minimum is one more than its operator (`Waits`); what the innermost frame has
been given suits it, and the token that follows it is no tighter than the operator that
takes it (`Suits`). `GotoStep`, `EnterStep` and `ReturnStep` show once what a jump, a
call and a return have to satisfy; `ContinueStep`, `CallStep`, `AnswerStep` and others
specialise them to the steps the parse functions share. Then there is a lemma per parse
function with a step per disjunct, and `StepInductive` puts them together. The
`operators` run checks `Inductive`.

**`Positions` (places).** Every point of a parse function either has consumed a token
of its own (`Eaten`) or has not yet. `Placed` relates that to where the function began
and to the locations it has saved; `Linked` says that a function begins where its
caller has come to; what a function returns has consumed a token unless it is `nullptr`
(`Given`); so the i-th frame has been paid for by tokens (`Deep`): of the three
functions between an operand and the next one inside it, one has consumed something.
`Begun` says that a function that eats its first token unconditionally was chosen by
that token, which is why it never eats the end of the input. `Items` distinguishes the
item that is stuck at an orphan, the one that has consumed a token and the one that
will; the last one cannot return. The steps of the fifteen functions are first shown to be of
six kinds (`Moves`), so that the arithmetic is done once per kind.

**`LexerInductive`.** The look-ahead is the last character delivered and the only one
that may look like the end (`LooksAhead`); it is where `lex_loc` says, and `cur_loc` is
where the token begins (`Places`); and a word that is being read is what has been
delivered since (`Reads`). `Whole` and `Carried` add where in the buffer and among the
characters delivered the loaded text is; `PlainText` that all are ASCII. For the
refinement of `LexerSpec`, `Passed` says what lies between the last token and the
look-ahead: only blanks and comments, every comment among them closed, or one that is
still open, or one token that begins where `LexerSpec` lets one begin. `StepPromised`
maps each step: those inside a call to stutters, those that return to `ReturnToken` or
`ReturnEof`.

**`CodegenInductive`.** Every active visit is of a node it suits, has looked up a callee
that is still there and takes the arguments it is given, and has put aside bindings of
the function under construction (`Visits`, `ScopeOwn`); a call of an erased function is
older than the function's last definition, and what other functions call they have
called in earlier items than that of the body under construction, which may yet be
erased (`ModuleSound`).
`ScopeKept` says what each label has bound so far and
that what it has put aside is what the scope held there; the failed visits are the
exception, and their results tell.

**`BlocksSound`.** `NoHalfBuiltFunction` is about finished bodies, and a body under
construction violates it all the time: its current block has no terminator, and `else`
and `ifcont` are branched to before they are in the function. The invariant says how far
each visit has come. Every block but the current one that is placed has been ended, once
(`BodyBuilt`); every block not yet placed is owed by exactly one active `if`
(`Pending`), unless a visit has failed and the function
is doomed (`Doomed`); a branch saved by an `if` ends in the block that goes to its
`ifcont`, and no other block does (`FrameBuilt`). `BranchExtends` shows once what a
terminator followed by a new current block does to all of this (`Extended`);
`IfBuilds` and `ForBuilds` apply it to the disjuncts of `visitIf` and `visitFor`, and the
other visits leave the blocks alone.

**`IRInductive`.** A step of the derived class is a step of the class it derives from
(`StepsOfVisitor`), so all of the above holds of it. What is added: locations belong to a subprogram of their function
(`Attached`), one block is pushed while a function is built (`Blocks`), and the location
set last is inside every node whose visit has set one (`Paths`).

**`PrinterInductive`.** The open brackets are exactly those of the methods on the stack,
in that order, and the indentation is that of the next one (`Aligned`; its witness, the
number of brackets open when each method was called, is a function that grows and shrinks
with the stack). A pending annotation is the next node's or one that is not printed by
its node (`PendingAnnotation`).

**`DriverInductive`.** A temporary name is in one process's hands until the `rename`, a
file that has the name was put there by a process that still has it, and one with
`.cpp` may have been overwritten but is removed by each of its makers (`TmpFilesOwned`);
what a process has built is under its name until it has ended, because two with the same
outputs do not run at once (`OutputsOwned`).

TLC has checked each of these invariants on instances like those of the runs.

Only model-checked: `Terminates`, `Ends` and the part of `KeepsPromise` that every
call returns, which are liveness under fairness; and the divergences, which are
existence claims. What a recursive definition computes is out of the prover's reach;
no property depends on one.

## Divergences

Three runs check what a comment says and find the code doing something else.

* `null_nodes`: `parse()` appends what `parse_top_level_expr` returns, `nullptr`
  included (`parser.cpp:687`), and `main_loop` dereferences it. An item that begins
  with `,`, `else`, `in`, `return`, `binary`, `unary` or a byte that is not ASCII
  consumes nothing and is appended again and again (`StallsOnlyOnOrphans`).
* `unknown_callee`: `getFunction` leaves `result_func` alone when it knows no such
  function (`ast-to-object.cpp:83`); the function visited last is called.
* `tmp_names`: `mkstemp` reserves `/tmp/arx_XXXXXX`, and `rename` to
  `/tmp/arx_XXXXXX.cpp` gives the reserved name up (`io.cpp:93`). Another compiler can
  be given it, put its own C++ file in the place of the first one's, and delete it
  before the first has compiled it. The exit code says so (`SuccessMeansBuilt`).

Seen while modelling; the model behaves like the code and no run is devoted to them:

* The `get_next_token()` for the `,` between two arguments stands after a `return`
  (`parser.cpp:173`); no call can have two arguments.
* `parse_unary` takes any ASCII character but `(` and `,` for an operator, `;` and `)`
  included (`parser.cpp:407`; its comment has `!` only).
* A prototype may not begin with `binary` or `unary`, though the comment above
  `parse_prototype` has both (`parser.cpp:552`).
* `UnaryExprAST`, `ForExprAST` and `VarExprAST` get no location and take that of the
  token after them (`parser.cpp:416`); so do `FunctionAST`, and `PrototypeAST`, which is
  given one and keeps the line of it only (`parser.h:363`). `ExplicitLocationsOwned` is
  about the others.
* `parse_if_expr` wants `:` where its comment and its diagnostics have `then`.
* A byte above 127 is negative as a `char`: 254 is the code of `tok_function`, 255 that
  of `tok_eof` (`lexer.cpp:179`).
* `string_to_buffer` writes `EOF` in decimal, so that each string is followed by the
  tokens `-` and `1` (`io.cpp:52`).
* The look-ahead of a replaced string can become the first token of the new one
  (`lexer.cpp:101`; the tests work around it with a `;`, `test-parser.cpp:88`).
* The look-ahead at the end of a text is `EOF` and is not eaten (`lexer.cpp:174`): once
  `tok_eof` has been returned, a text loaded later is never read.
* Of the standard input only the first word is read (`io.cpp:65`).
* The left side of an assignment is cast to a variable whatever it is
  (`ast-to-object.cpp:178`); the test for `nullptr` after the cast cannot fail. The
  model reads an arbitrary variable's name from any other node.
* `var` puts the bindings it has put aside back first to last
  (`ast-to-object.cpp:517`), so that after a name declared twice, which
  `parser.cpp:329` accepts, its first variable stays in scope although the comment
  has "Pop all our variables from scope."
* The branch for `=` falls through (`ast-to-object.cpp:202`), so the right side is emitted
  twice and the result is a call of `binary=` or of the function visited last.
* `APFloat(0.0)` is a `double` and is compared with a `float` (`ast-to-object.cpp:293`),
  and the verifier's answer is ignored (`ast-to-object.cpp:599`).
* A definition that fails erases the function of its name, also when an earlier item has
  declared or defined it and others call it already: their calls are left without a
  callee (`ast-to-object.cpp:606`), which LLVM does not allow. Since no run is devoted to
  it, `CalleesLive` excepts just these calls.
* The errors of a text do not reach the exit code; the object is written without the
  functions that failed (`ast-to-object.cpp:625`). An input file that does not exist
  compiles like an empty one, with exit code 0 (`io.cpp:36`).
* The executable is named after the input, whatever `--output` says
  (`ast-to-object.cpp:744`).
* `--version` loads the input before it prints, and waits for the standard input when
  there is none (`main.cpp:45`).
* `visit(FunctionAST&)` means to unset the location for the prologue, by a test for
  `nullptr` of the address of a reference (`ast-to-llvm-ir.cpp:208`); the location it sets
  is that of a fresh `ExprAST`, where the lexer stopped.
* The first `DIBuilder` and its compile unit are replaced and never finalized
  (`ast-to-llvm-ir.cpp:307`); that is straight-line code before the walk and is not
  in the model.
* A name defined twice has two subprograms, and the instructions of its first body
  stay located in the one replaced (`ast-to-llvm-ir.cpp:200`).
* The printer dereferences the missing step of a `for` (`ast-to-stdout.cpp:166`) and the
  missing initializer of a `var` (`ast-to-stdout.cpp:189`). It prints neither the body of
  a `var` nor the operand of a unary operator, and the annotation of either is printed
  by a later node.

## Not modelled

* The operands of instructions and their order within a block, and the arithmetic of the
  generated code: LLVM's business, not the visitor's.
* The set-up in `compile_llvm_ir`: two `DIBuilder`s and compile units made in turn before
  the walk begins. The unit the visitor keeps gives subprograms their file name only.
* The value of a number (`strtod` reads a prefix of what was collected).
* `get_char` at a terminal (`--shell` only, where one token is read and dropped).
* The types of operands and allocas, and the answers of the verifier.
* `open_shell_llvm_ir`, which nobody calls; it is `compile_llvm_ir` of an empty tree.
* The columns and lines of debug locations (`Parser` is about those of nodes), and the
  descriptions of parameters and types.
* `dump()`, the words the printer prints, logging, the wording of diagnostics,
  `utils.cpp`, `error.cpp`: no state.
* The JIT: created for its data layout, never used.

## Plan

Modelled, checked and proved: all components listed as such above. Still to do: the
composition of `Lexer` and `Parser` on short texts, `cur_loc` as the parser reads it.
