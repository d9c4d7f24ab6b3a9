------------------------------- MODULE Driver -------------------------------
(***************************************************************************)
(* Several processes that run the arx compiler on one file system: main()  *)
(* of main.cpp, load_input_to_buffer and ArxFile of io.cpp, and            *)
(* compile_object of codegen/ast-to-object.cpp with the files it writes.   *)
(* Each process is a record with a program counter; between two steps of   *)
(* one any other may run, and any may be killed.  Parsing and the visits   *)
(* are one step here (Parser, ObjectCodegen, DebugInfo and AstPrinter      *)
(* model what happens in it).                                              *)
(***************************************************************************)
EXTENDS FiniteSets, Sequences

CONSTANTS
    Compilers,  \* the processes
    Requests,   \* their possible command lines
    Names       \* the names mkstemp can make of the template /tmp/arx_XXXXXX

NoPath == <<>>
NoName == "none"
NoInput == ""

Modes == {"shell", "ast", "llvm_ir", "version", "compile"}

VARIABLES
    request,  \* the command line of each process
    process,  \* the state of each process
    files     \* path -> content; a path is a name and an extension

vars == <<request, process, files>>

(* `tmp` is the name mkstemp gave, `linked` the result of system(), `good` *)
(* FALSE once a write to the stream `dest` has failed, `typed` TRUE once   *)
(* the standard input has a word or an end.                                *)
NewProcess ==
    [pc |-> "main", outcome |-> "waiting", tmp |-> NoName, linked |-> FALSE,
     good |-> TRUE, typed |-> FALSE]

Running(c) == process[c].outcome = "running"

-----------------------------------------------------------------------------
(* Files. *)

Object(r) == IF r.output # NoPath THEN r.output ELSE <<r.input, ".o">>

(* The executable is named after the input, whatever --output says. *)
Executable(r) == <<r.input, "c">>

Outputs(r) == {Object(r), Executable(r)}

(* Nobody asks for an output that is named like a temporary file. *)
ASSUME DriverAssumption ==
    /\ NoName \notin Names
    /\ \A r \in Requests :
          /\ r.mode \in Modes
          /\ r.lib \in BOOLEAN
          /\ \A path \in Outputs(r) : path[1] \notin Names

(* `by` is the process that wrote the file, `of` the one whose object or   *)
(* text is in it, `whole` FALSE when not all of it reached the disk.       *)
Content(by, of, whole) == [by |-> by, of |-> of, whole |-> whole]

Put(path, content) ==
    [p \in DOMAIN files \cup {path} |-> IF p = path THEN content ELSE files[p]]
Without(path) == [p \in DOMAIN files \ {path} |-> files[p]]
Present(path) == path \in DOMAIN files

-----------------------------------------------------------------------------
(* Steps. *)

At(c, pc) == Running(c) /\ process[c].pc = pc /\ UNCHANGED request

Become(c, state) == process' = [process EXCEPT ![c] = state]

Goto(c, pc) == Become(c, [process[c] EXCEPT !.pc = pc])

Exit(c, outcome) == Become(c, [process[c] EXCEPT !.outcome = outcome]) /\ UNCHANGED files

(* One who starts a compiler waits for another that writes the same files. *)
Start(c) ==
    /\ process[c].outcome = "waiting"
    /\ \A d \in Compilers : Running(d) => Outputs(request[d]) \cap Outputs(request[c]) = {}
    /\ Become(c, [process[c] EXCEPT !.outcome = "running"])
    /\ UNCHANGED <<request, files>>

ReadsStandardInput(r) == r.mode = "shell" \/ r.input = NoInput

Type(c) ==
    /\ Running(c)
    /\ ReadsStandardInput(request[c])
    /\ ~process[c].typed
    /\ Become(c, [process[c] EXCEPT !.typed = TRUE])
    /\ UNCHANGED <<request, files>>

(* A signal, or a visitor that dereferences the null pointer of an item    *)
(* the parser could not read.                                              *)
Die(c) ==
    /\ Running(c)
    /\ Exit(c, "died")
    /\ UNCHANGED request

main(c) ==
    /\ At(c, "main")
    /\ Goto(c, IF request[c].mode = "shell" THEN "get_next_token" ELSE "load")
    /\ UNCHANGED files

(* Mutant: the standard input is read although there is a file. *)
load_input_to_buffer_waiting(c) ==
    /\ At(c, "load")
    /\ process[c].typed
    /\ IF request[c].mode = "version"
       THEN Exit(c, "success")
       ELSE Goto(c, "parse") /\ UNCHANGED files

load_input_to_buffer(c) ==
    /\ At(c, "load")
    /\ request[c].input = NoInput => process[c].typed
    /\ IF request[c].mode = "version"
       THEN Exit(c, "success")
       ELSE Goto(c, "parse") /\ UNCHANGED files

(* The errors of the text do not reach the exit code: print_ast and        *)
(* compile_llvm_ir return 0, and compile_object emits what is left.        *)
parse(c) ==
    /\ At(c, "parse")
    /\ IF request[c].mode = "compile"
       THEN Goto(c, "get_next_token") /\ UNCHANGED files
       ELSE Exit(c, "success")

(* compile_object asks for one more token.  After a parse that is the end  *)
(* of input again (NothingFollowsEof of Lexer); in the shell it is read.   *)
get_next_token(c) ==
    /\ At(c, "get_next_token")
    /\ request[c].mode = "shell" => process[c].typed
    /\ Goto(c, "lookupTarget")
    /\ UNCHANGED files

lookupTarget(c) ==
    /\ At(c, "lookupTarget")
    /\ \/ Exit(c, "failure")
       \/ Goto(c, "open") /\ UNCHANGED files

open(c) ==
    /\ At(c, "open")
    /\ \/ Exit(c, "failure")
       \/ Goto(c, "emit") /\ files' = Put(Object(request[c]), Content(c, c, FALSE))

(* pass.run and dest.flush: the stream keeps a failure to itself. *)
emit(c) ==
    /\ At(c, "emit")
    /\ \/ Exit(c, "failure")
       \/ \E whole \in BOOLEAN :
             /\ Become(c, [process[c] EXCEPT
                    !.pc = IF request[c].lib THEN "return" ELSE "mkstemp",
                    !.good = whole])
             /\ files' = Put(Object(request[c]), Content(c, c, whole))

(* create_tmp_file: mkstemp makes a file that was not there, ... *)
mkstemp(c) ==
    /\ At(c, "mkstemp")
    /\ \/ Exit(c, "failure")
       \/ \E n \in Names :
             /\ ~Present(<<n, "">>)
             /\ Become(c, [process[c] EXCEPT !.pc = "write", !.tmp = n])
             /\ files' = Put(<<n, "">>, Content(c, c, FALSE))

(* ... the result of write is not looked at, ... *)
write(c) ==
    /\ At(c, "write")
    /\ \E whole \in BOOLEAN : files' = Put(<<process[c].tmp, "">>, Content(c, c, whole))
    /\ Goto(c, "rename")

(* Mutant: the empty string create_tmp_file reports a failure by is taken  *)
(* for a path.                                                             *)
rename_unchecked(c) ==
    LET n == process[c].tmp
    IN /\ At(c, "rename")
       /\ \/ Become(c, [process[c] EXCEPT !.pc = "system", !.tmp = ""]) /\ UNCHANGED files
          \/ /\ files' = [p \in (DOMAIN files \cup {<<n, ".cpp">>}) \ {<<n, "">>} |->
                              IF p = <<n, ".cpp">> THEN files[<<n, "">>] ELSE files[p]]
             /\ Goto(c, "system")

(* ... and rename replaces what has the new name.  When it fails the file  *)
(* keeps the old one, and stays.                                           *)
rename(c) ==
    LET n == process[c].tmp
    IN /\ At(c, "rename")
       /\ \/ Exit(c, "failure")
          \/ /\ files' = [p \in (DOMAIN files \cup {<<n, ".cpp">>}) \ {<<n, "">>} |->
                              IF p = <<n, ".cpp">> THEN files[<<n, "">>] ELSE files[p]]
             /\ Goto(c, "system")

(* clang++ needs the whole C++ text.  What it makes of an object that is   *)
(* not whole is up to the linker.                                          *)
system(c) ==
    LET cpp == <<process[c].tmp, ".cpp">>
        object == Object(request[c])
    IN /\ At(c, "system")
       /\ \/ /\ Become(c, [process[c] EXCEPT !.pc = "delete_file", !.linked = FALSE])
             /\ UNCHANGED files
          \/ /\ Present(cpp) /\ files[cpp].whole /\ Present(object)
             /\ Become(c, [process[c] EXCEPT !.pc = "delete_file", !.linked = TRUE])
             /\ files' = Put(Executable(request[c]),
                             Content(c, files[object].of, files[object].whole))

(* Mutant: the C++ file is deleted only when the program was built. *)
delete_file_if_linked(c) ==
    /\ At(c, "delete_file")
    /\ Become(c, [process[c] EXCEPT !.pc = "check", !.tmp = NoName])
    /\ files' = IF process[c].linked THEN Without(<<process[c].tmp, ".cpp">>) ELSE files

delete_file(c) ==
    /\ At(c, "delete_file")
    /\ Become(c, [process[c] EXCEPT !.pc = "check", !.tmp = NoName])
    /\ files' = Without(<<process[c].tmp, ".cpp">>)

(* Mutant: the result of system() is not looked at. *)
check_ignored(c) ==
    /\ At(c, "check")
    /\ Goto(c, "return")
    /\ UNCHANGED files

check(c) ==
    /\ At(c, "check")
    /\ IF process[c].linked
       THEN Goto(c, "return") /\ UNCHANGED files
       ELSE Exit(c, "failure")

(* The destructor of `dest` ends the program if a write has failed. *)
return(c) ==
    /\ At(c, "return")
    /\ Exit(c, IF process[c].good THEN "success" ELSE "failure")

-----------------------------------------------------------------------------
Init ==
    /\ request \in [Compilers -> Requests]
    /\ process = [c \in Compilers |-> NewProcess]
    /\ files = <<>>

compile_object(c) ==
    \/ get_next_token(c) \/ lookupTarget(c) \/ open(c) \/ emit(c)
    \/ mkstemp(c) \/ write(c) \/ rename(c)
    \/ system(c) \/ delete_file(c) \/ check(c) \/ return(c)

Compile(c) == main(c) \/ load_input_to_buffer(c) \/ parse(c) \/ compile_object(c)

Ended(c) == process[c].outcome \in {"success", "failure", "died"}

Done == (\A c \in Compilers : Ended(c)) /\ UNCHANGED vars

Next ==
    \/ \E c \in Compilers : Start(c) \/ Type(c) \/ Die(c) \/ Compile(c)
    \/ Done

(* The steps of a process are the processor's and the system's to take;    *)
(* nobody has to start a compiler, to type, or to kill one.                *)
Spec == Init /\ [][Next]_vars /\ \A c \in Compilers : WF_vars(Compile(c))

-----------------------------------------------------------------------------
(* Properties. *)

Steps ==
    {"main", "load", "parse", "get_next_token", "lookupTarget", "open", "emit",
     "mkstemp", "write", "rename", "system", "delete_file", "check", "return"}

ProcessType ==
    [pc : Steps, outcome : {"waiting", "running", "success", "failure", "died"},
     tmp : Names \cup {NoName}, linked : BOOLEAN, good : BOOLEAN, typed : BOOLEAN]
ContentType == [by : Compilers, of : Compilers, whole : BOOLEAN]

(* Every variable has its type, and the C++ file of a compiler is known by *)
(* the name mkstemp made of the template.                                  *)
TypeOK ==
    /\ request \in [Compilers -> Requests]
    /\ process \in [Compilers -> ProcessType]
    /\ \A path \in DOMAIN files : files[path] \in ContentType

(* A temporary file in /tmp belongs to a compiler that is still at work,   *)
(* to one that was killed, or to one whose rename failed (the file has no  *)
(* extension then): every other way out of compile_object removes it, also *)
(* when another compiler has been given the same name meanwhile.           *)
NothingLeftBehind ==
    \A path \in DOMAIN files : path[1] \in Names =>
        \E c \in Compilers :
            /\ process[c].tmp = path[1]
            /\ process[c].outcome = "failure" => path[2] = ""

(* The exit code 0 of a compilation means that the object is this run's    *)
(* and complete and, unless a library was asked for, that the executable   *)
(* has been linked from it; not from what an earlier run left under the    *)
(* same names.                                                             *)
SuccessMeansBuilt ==
    [][\A c \in Compilers :
          LET object == Object(request[c])
              executable == Executable(request[c])
          IN /\ process[c].outcome = "running"
             /\ process'[c].outcome = "success"
             /\ request[c].mode \in {"compile", "shell"}
             => /\ Present(object) /\ files[object] = Content(c, c, TRUE)
                /\ request[c].lib \/ (Present(executable) /\ files[executable] = Content(c, c, TRUE))
      ]_vars

(* A compiler that has been given a file, or what it reads from the        *)
(* standard input, comes to an end, whatever fails and whatever the others *)
(* do.                                                                     *)
Ends ==
    \A c \in Compilers :
        Running(c) /\ (ReadsStandardInput(request[c]) => process[c].typed) ~> Ended(c)

(* io.cpp:78 "Xs are replaced with a unique number.": no two compilers at  *)
(* work have one C++ file.                                                 *)
UniqueTmpFile ==
    \A c, d \in Compilers :
        (c # d /\ Running(c) /\ Running(d) /\ process[c].tmp # NoName) =>
            process[c].tmp # process[d].tmp
=============================================================================
