---------------------------- MODULE DriverProofs ----------------------------
(***************************************************************************)
(* Proofs about the driver, for any number of compilers with any command   *)
(* lines and any set of names mkstemp can make: what is left in /tmp, and  *)
(* what the exit code 0 means.                                             *)
(***************************************************************************)
EXTENDS Driver, TLAPS

Holding == {"write", "rename"}        \* at these points a process has <<tmp, "">>,
Linking == {"system", "delete_file"}  \* at these it has made <<tmp, ".cpp">>

(* Of all processes that hold a name without an extension, mkstemp has     *)
(* given it to one; a file in /tmp is that of a process which holds its    *)
(* name, or has renamed it.                                                *)
TmpFilesOwned ==
    /\ \A c \in Compilers : process[c].pc \in Holding =>
          /\ process[c].tmp \in Names
          /\ Present(<<process[c].tmp, "">>)
          /\ \A d \in Compilers : process[d].pc \in Holding /\ process[d].tmp = process[c].tmp => d = c
    /\ \A c \in Compilers : process[c].pc \in Linking =>
          process[c].tmp \in Names /\ process[c].outcome # "failure"
    /\ \A path \in DOMAIN files : path[1] \in Names =>
          \/ path = <<path[1], "">>
             /\ \E c \in Compilers : process[c].pc \in Holding /\ process[c].tmp = path[1]
          \/ path = <<path[1], ".cpp">>
             /\ \E c \in Compilers : process[c].pc \in Linking /\ process[c].tmp = path[1]

Emitted == {"mkstemp", "write", "rename", "system", "delete_file", "check", "return"}
Final == {"delete_file", "check", "return"}

(* What a process at work has built is where it put it: the outputs of two *)
(* running processes are different files, and none is a temporary one.     *)
OutputsOwned ==
    /\ \A c, d \in Compilers : c # d /\ Running(c) /\ Running(d) =>
          Outputs(request[c]) \cap Outputs(request[d]) = {}
    /\ \A c \in Compilers : Running(c) /\ process[c].pc \in Emitted =>
          LET object == Object(request[c])
          IN Present(object) /\ files[object] = Content(c, c, process[c].good)
    /\ \A c \in Compilers : Running(c) /\ process[c].linked =>
          LET executable == Executable(request[c])
          IN Present(executable) /\ files[executable] = Content(c, c, process[c].good)
    /\ \A c \in Compilers : process[c].linked => process[c].pc \in Final
    /\ \A c \in Compilers : process[c].pc = "return" => request[c].lib \/ process[c].linked
    /\ \A c \in Compilers : process[c].pc \in {"load", "parse"} => request[c].mode # "shell"
    /\ \A c \in Compilers : process[c].outcome = "waiting" => process[c].pc = "main"

(* The inductive invariant. *)
DriverInductive == TypeOK /\ TmpFilesOwned /\ OutputsOwned

-----------------------------------------------------------------------------
(* One process changes, and only within its record. *)
LEMMA OneProcess ==
    ASSUME TypeOK, NEW c \in Compilers, NEW state \in ProcessType, Become(c, state)
    PROVE  /\ process' \in [Compilers -> ProcessType]
           /\ process'[c] = state
           /\ \A d \in Compilers : d # c => process'[d] = process[d]
BY DEF TypeOK, Become

(* What a file operation leaves. *)
LEMMA PutFacts ==
    ASSUME NEW path, NEW content, files' = Put(path, content)
    PROVE  /\ DOMAIN files' = DOMAIN files \cup {path}
           /\ files'[path] = content
           /\ \A p \in DOMAIN files : p # path => files'[p] = files[p]
BY DEF Put

LEMMA WithoutFacts ==
    ASSUME NEW path, files' = Without(path)
    PROVE  /\ DOMAIN files' = DOMAIN files \ {path}
           /\ \A p \in DOMAIN files : p # path => files'[p] = files[p]
BY DEF Without

(* The fields a step of a process may set. *)
LEMMA States ==
    ASSUME TypeOK, NEW c \in Compilers
    PROVE  /\ \A pc \in Steps : [process[c] EXCEPT !.pc = pc] \in ProcessType
           /\ \A outcome \in {"running", "success", "failure", "died"} :
                 [process[c] EXCEPT !.outcome = outcome] \in ProcessType
           /\ [process[c] EXCEPT !.typed = TRUE] \in ProcessType
           /\ \A pc \in Steps, good \in BOOLEAN :
                 [process[c] EXCEPT !.pc = pc, !.good = good] \in ProcessType
           /\ \A pc \in Steps, tmp \in Names \cup {NoName} :
                 [process[c] EXCEPT !.pc = pc, !.tmp = tmp] \in ProcessType
           /\ \A pc \in Steps, linked \in BOOLEAN :
                 [process[c] EXCEPT !.pc = pc, !.linked = linked] \in ProcessType
BY DEF TypeOK, ProcessType

(* A step that leaves the files alone. *)
LEMMA QuietStep ==
    ASSUME DriverInductive, NEW c \in Compilers, NEW state \in ProcessType,
           Become(c, state), UNCHANGED <<request, files>>,
           state.tmp = process[c].tmp,
           state.pc \in Holding <=> process[c].pc \in Holding,
           state.pc \in Linking <=> process[c].pc \in Linking,
           state.pc \in Linking => state.outcome # "failure",
           state.outcome # "waiting",
           state.outcome = "running" /\ ~Running(c) =>
              /\ state.pc = "main"
              /\ \A d \in Compilers : Running(d) => Outputs(request[d]) \cap Outputs(request[c]) = {},
           state.outcome = "running" /\ state.pc \in Emitted =>
              process[c].pc \in Emitted /\ state.good = process[c].good,
           state.linked => process[c].linked /\ state.pc \in Final,
           state.pc = "return" => request[c].lib \/ state.linked,
           state.pc \in {"load", "parse"} => request[c].mode # "shell"
    PROVE  DriverInductive'
<1> USE DEF DriverInductive
<1>1. /\ process' \in [Compilers -> ProcessType]
      /\ process'[c] = state
      /\ \A d \in Compilers : d # c => process'[d] = process[d]
  BY OneProcess
<1>2. TypeOK'
  BY <1>1 DEF TypeOK
<1>3. TmpFilesOwned'
  <2>1. \A d \in Compilers :
           /\ process'[d].tmp = process[d].tmp
           /\ process'[d].pc \in Holding <=> process[d].pc \in Holding
           /\ process'[d].pc \in Linking <=> process[d].pc \in Linking
    BY <1>1
  <2>2. \A d \in Compilers : process'[d].pc \in Linking =>
           process'[d].tmp \in Names /\ process'[d].outcome # "failure"
    BY ZenonT(40), <1>1, <2>1 DEF TmpFilesOwned
  <2>3. \A d \in Compilers : process'[d].pc \in Holding =>
           /\ process'[d].tmp \in Names
           /\ Present(<<process'[d].tmp, "">>)
           /\ \A e \in Compilers :
                 process'[e].pc \in Holding /\ process'[e].tmp = process'[d].tmp => e = d
    <3> TAKE d \in Compilers
    <3> HAVE process'[d].pc \in Holding
    <3>1. process[d].pc \in Holding /\ process'[d].tmp = process[d].tmp
      BY <2>1
    <3>2. process[d].tmp \in Names /\ Present(<<process[d].tmp, "">>)
      BY <3>1 DEF TmpFilesOwned
    <3>3. \A e \in Compilers : process[e].pc \in Holding /\ process[e].tmp = process[d].tmp => e = d
      BY <3>1 DEF TmpFilesOwned
    <3> QED BY <2>1, <3>1, <3>2, <3>3
  <2>4. \A path \in DOMAIN files : path[1] \in Names =>
           \/ path = <<path[1], "">>
              /\ \E d \in Compilers : process'[d].pc \in Holding /\ process'[d].tmp = path[1]
           \/ path = <<path[1], ".cpp">>
              /\ \E d \in Compilers : process'[d].pc \in Linking /\ process'[d].tmp = path[1]
    <3> TAKE path \in DOMAIN files
    <3> HAVE path[1] \in Names
    <3>1. CASE path = <<path[1], "">>
               /\ \E d \in Compilers : process[d].pc \in Holding /\ process[d].tmp = path[1]
      BY <2>1, <3>1
    <3>2. CASE path = <<path[1], ".cpp">>
               /\ \E d \in Compilers : process[d].pc \in Linking /\ process[d].tmp = path[1]
      BY <2>1, <3>2
    <3> QED BY <3>1, <3>2 DEF TmpFilesOwned
  <2> QED BY <2>2, <2>3, <2>4 DEF TmpFilesOwned, Present
<1>4. OutputsOwned'
  <2> USE DEF OutputsOwned, Running, Present
  <2>1. \A d, e \in Compilers : d # e /\ Running(d)' /\ Running(e)' =>
           Outputs(request[d]) \cap Outputs(request[e]) = {}
    <3> SUFFICES ASSUME NEW d \in Compilers, NEW e \in Compilers, d # e, Running(d)', Running(e)'
                 PROVE  Outputs(request[d]) \cap Outputs(request[e]) = {}
      OBVIOUS
    <3>1. CASE Running(d) /\ Running(e)
      BY <3>1
    <3>2. CASE ~Running(d)
      BY <1>1, <3>2
    <3>3. CASE ~Running(e)
      BY <1>1, <3>3
    <3> QED BY <3>1, <3>2, <3>3
  <2>2. \A d \in Compilers : Running(d)' /\ process'[d].pc \in Emitted =>
           /\ Present(Object(request[d]))
           /\ files[Object(request[d])] = Content(d, d, process'[d].good)
    BY <1>1 DEF Emitted
  <2>3. ASSUME NEW d \in Compilers, Running(d)', process'[d].linked
        PROVE  /\ Present(Executable(request[d]))
               /\ files[Executable(request[d])] = Content(d, d, process'[d].good)
    <3>1. CASE d # c
      BY <1>1, <2>3, <3>1
    <3>2. CASE d = c
      <4>1. process[c].linked /\ state.pc \in Final /\ state.outcome = "running"
        BY <1>1, <2>3, <3>2
      <4>2. Running(c) /\ state.pc \in Emitted
        BY <4>1 DEF Final, Emitted
      <4> QED BY <1>1, <3>2, <4>1, <4>2
    <3> QED BY <3>1, <3>2
  <2> QED BY ZenonT(40), <1>1, <2>1, <2>2, <2>3
<1> QED BY <1>2, <1>3, <1>4

(* A process ends; one that is killed may do so at any point. *)
LEMMA Leaving ==
    ASSUME DriverInductive, NEW c \in Compilers, Running(c),
           NEW outcome \in {"success", "failure", "died"},
           process[c].pc \in Linking => outcome = "died",
           Exit(c, outcome), UNCHANGED request
    PROVE  DriverInductive'
<1> DEFINE state == [process[c] EXCEPT !.outcome = outcome]
<1>1. state \in ProcessType
  BY States DEF DriverInductive
<1>2. /\ state.outcome = outcome
      /\ state.tmp = process[c].tmp
      /\ state.pc = process[c].pc
      /\ state.linked = process[c].linked
      /\ state.good = process[c].good
  BY DEF DriverInductive, TypeOK, ProcessType
<1>3. Become(c, state) /\ UNCHANGED <<request, files>>
  BY DEF Exit
<1> HIDE DEF state
<1>4. /\ state.linked => state.pc \in Final
      /\ state.pc = "return" => request[c].lib \/ state.linked
      /\ state.pc \in {"load", "parse"} => request[c].mode # "shell"
  BY <1>2 DEF DriverInductive, OutputsOwned
<1> QED BY <1>1, <1>2, <1>3, <1>4, QuietStep

(* A process goes on and leaves the files alone. *)
LEMMA Going ==
    ASSUME DriverInductive, NEW c \in Compilers, Running(c), NEW pc \in Steps,
           Goto(c, pc), UNCHANGED <<request, files>>,
           process[c].pc \notin Holding \cup Linking,
           pc \notin Holding \cup Linking,
           pc \in Emitted => process[c].pc \in Emitted,
           process[c].pc \in Final => pc \in Final,
           pc = "return" => request[c].lib \/ process[c].linked,
           pc \in {"load", "parse"} => request[c].mode # "shell"
    PROVE  DriverInductive'
<1> DEFINE state == [process[c] EXCEPT !.pc = pc]
<1>1. state \in ProcessType
  BY States DEF DriverInductive
<1>2. /\ state.outcome = process[c].outcome
      /\ state.tmp = process[c].tmp
      /\ state.pc = pc
      /\ state.linked = process[c].linked
      /\ state.good = process[c].good
  BY DEF DriverInductive, TypeOK, ProcessType
<1>3. Become(c, state)
  BY DEF Goto
<1> HIDE DEF state
<1>4. process[c].linked => process[c].pc \in Final
  BY DEF DriverInductive, OutputsOwned
<1> QED BY <1>1, <1>2, <1>3, <1>4, QuietStep DEF Running

LEMMA StartStep ==
    ASSUME DriverInductive, NEW c \in Compilers, Start(c)
    PROVE  DriverInductive'
<1> DEFINE state == [process[c] EXCEPT !.outcome = "running"]
<1>1. state \in ProcessType
  BY States DEF DriverInductive
<1>2. /\ state.outcome = "running"
      /\ state.tmp = process[c].tmp
      /\ state.pc = process[c].pc
      /\ state.linked = process[c].linked
      /\ process[c].pc = "main"
      /\ process[c].linked => process[c].pc \in Final
  BY DEF Start, DriverInductive, TypeOK, ProcessType, OutputsOwned
<1>3. Become(c, state) /\ UNCHANGED <<request, files>>
  BY DEF Start
<1>4. \A d \in Compilers : Running(d) => Outputs(request[d]) \cap Outputs(request[c]) = {}
  BY DEF Start
<1> HIDE DEF state
<1> QED BY <1>1, <1>2, <1>3, <1>4, QuietStep DEF Holding, Linking, Emitted, Final

LEMMA TypeStep ==
    ASSUME DriverInductive, NEW c \in Compilers, Type(c)
    PROVE  DriverInductive'
<1> DEFINE state == [process[c] EXCEPT !.typed = TRUE]
<1>1. state \in ProcessType
  BY States DEF DriverInductive
<1>2. /\ state.outcome = process[c].outcome
      /\ state.tmp = process[c].tmp
      /\ state.pc = process[c].pc
      /\ state.linked = process[c].linked
      /\ state.good = process[c].good
  BY DEF DriverInductive, TypeOK, ProcessType
<1>3. Become(c, state) /\ UNCHANGED <<request, files>> /\ Running(c)
  BY DEF Type
<1> HIDE DEF state
<1>4. /\ state.linked => state.pc \in Final
      /\ state.pc = "return" => request[c].lib \/ state.linked
      /\ state.pc \in {"load", "parse"} => request[c].mode # "shell"
  BY <1>2 DEF DriverInductive, OutputsOwned
<1> QED BY <1>1, <1>2, <1>3, <1>4, QuietStep DEF Running

(* A step that writes one of the outputs. *)
LEMMA BuildStep ==
    ASSUME DriverInductive, NEW c \in Compilers, Running(c),
           NEW path \in Outputs(request[c]), NEW content \in ContentType,
           files' = Put(path, content), UNCHANGED request,
           NEW state \in ProcessType, Become(c, state),
           state.outcome = "running",
           state.tmp = process[c].tmp,
           state.pc \notin Holding, process[c].pc \notin Holding,
           state.pc \in Linking <=> process[c].pc \in Linking,
           state.pc \in Emitted =>
              /\ Object(request[c]) \in DOMAIN files'
              /\ files'[Object(request[c])] = Content(c, c, state.good),
           state.linked =>
              /\ state.pc \in Final
              /\ Executable(request[c]) \in DOMAIN files'
              /\ files'[Executable(request[c])] = Content(c, c, state.good),
           state.pc = "return" => request[c].lib \/ state.linked,
           state.pc \notin {"load", "parse"}
    PROVE  DriverInductive'
<1> USE DEF DriverInductive
<1>1. /\ process' \in [Compilers -> ProcessType]
      /\ process'[c] = state
      /\ \A d \in Compilers : d # c => process'[d] = process[d]
  BY OneProcess
<1>2. /\ DOMAIN files' = DOMAIN files \cup {path}
      /\ files'[path] = content
      /\ \A p \in DOMAIN files : p # path => files'[p] = files[p]
  BY PutFacts
<1>3. path[1] \notin Names
  BY DriverAssumption DEF TypeOK
<1>4. TypeOK'
  <2>1. \A p \in DOMAIN files' : files'[p] \in ContentType
    BY <1>2 DEF TypeOK
  <2> QED BY <1>1, <2>1 DEF TypeOK, ContentType
<1>5. TmpFilesOwned'
  <2>1. \A d \in Compilers :
           /\ process'[d].tmp = process[d].tmp
           /\ process'[d].pc \in Holding <=> process[d].pc \in Holding
           /\ process'[d].pc \in Linking <=> process[d].pc \in Linking
    BY <1>1
  <2>2. \A d \in Compilers : process'[d].pc \in Linking =>
           process'[d].tmp \in Names /\ process'[d].outcome # "failure"
    BY ZenonT(40), <1>1, <2>1 DEF TmpFilesOwned
  <2>3. ASSUME NEW d \in Compilers, process'[d].pc \in Holding
        PROVE  /\ process'[d].tmp \in Names
               /\ <<process'[d].tmp, "">> \in DOMAIN files'
               /\ \A e \in Compilers :
                     process'[e].pc \in Holding /\ process'[e].tmp = process'[d].tmp => e = d
    <3>1. process[d].pc \in Holding /\ process'[d].tmp = process[d].tmp
      BY <2>1, <2>3
    <3>2. process[d].tmp \in Names /\ <<process[d].tmp, "">> \in DOMAIN files
      BY <3>1 DEF TmpFilesOwned, Present
    <3>3. \A e \in Compilers : process[e].pc \in Holding /\ process[e].tmp = process[d].tmp => e = d
      BY <3>1 DEF TmpFilesOwned
    <3> QED BY <1>2, <2>1, <3>1, <3>2, <3>3
  <2>4. ASSUME NEW p \in DOMAIN files', p[1] \in Names
        PROVE  \/ p = <<p[1], "">>
                  /\ \E d \in Compilers : process'[d].pc \in Holding /\ process'[d].tmp = p[1]
               \/ p = <<p[1], ".cpp">>
                  /\ \E d \in Compilers : process'[d].pc \in Linking /\ process'[d].tmp = p[1]
    <3>0. p \in DOMAIN files
      BY <1>2, <1>3, <2>4
    <3>1. CASE p = <<p[1], "">>
               /\ \E d \in Compilers : process[d].pc \in Holding /\ process[d].tmp = p[1]
      BY <2>1, <3>1
    <3>2. CASE p = <<p[1], ".cpp">>
               /\ \E d \in Compilers : process[d].pc \in Linking /\ process[d].tmp = p[1]
      BY <2>1, <3>2
    <3> QED BY <2>4, <3>0, <3>1, <3>2 DEF TmpFilesOwned
  <2> QED BY <2>2, <2>3, <2>4 DEF TmpFilesOwned, Present
<1>6. OutputsOwned'
  <2>1. \A d \in Compilers : d # c /\ Running(d) => path \notin Outputs(request[d])
    BY DEF OutputsOwned
  <2>2. \A d \in Compilers : d # c /\ Running(d) =>
           path # Object(request[d]) /\ path # Executable(request[d])
    BY <2>1 DEF Outputs
  <2> USE DEF OutputsOwned, Running, Present
  <2>3. \A d, e \in Compilers : d # e /\ Running(d)' /\ Running(e)' =>
           Outputs(request[d]) \cap Outputs(request[e]) = {}
    BY <1>1
  <2>4. \A d \in Compilers : Running(d)' /\ process'[d].pc \in Emitted =>
           /\ Object(request[d]) \in DOMAIN files'
           /\ files'[Object(request[d])] = Content(d, d, process'[d].good)
    BY <1>1, <1>2, <2>2
  <2>5. \A d \in Compilers : Running(d)' /\ process'[d].linked =>
           /\ Executable(request[d]) \in DOMAIN files'
           /\ files'[Executable(request[d])] = Content(d, d, process'[d].good)
    BY <1>1, <1>2, <2>2
  <2> QED BY ZenonT(40), <1>1, <2>3, <2>4, <2>5
<1> QED BY <1>4, <1>5, <1>6

(* A step that touches temporary files only. *)
LEMMA TmpStep ==
    ASSUME DriverInductive, NEW c \in Compilers, Running(c), UNCHANGED request,
           NEW state \in ProcessType, Become(c, state),
           state.outcome = "running",
           state.linked = process[c].linked,
           state.good = process[c].good,
           process[c].pc \in Emitted,
           state.pc \in {"write", "rename", "system", "check"},
           state.linked => state.pc \in Final,
           \A path \in DOMAIN files' : files'[path] \in ContentType,
           \A path \in DOMAIN files : path[1] \notin Names =>
              path \in DOMAIN files' /\ files'[path] = files[path],
           TmpFilesOwned'
    PROVE  DriverInductive'
<1> USE DEF DriverInductive
<1>1. /\ process' \in [Compilers -> ProcessType]
      /\ process'[c] = state
      /\ \A d \in Compilers : d # c => process'[d] = process[d]
  BY OneProcess
<1>2. TypeOK'
  BY <1>1 DEF TypeOK, ContentType
<1>3. \A d \in Compilers :
         Object(request[d])[1] \notin Names /\ Executable(request[d])[1] \notin Names
  BY DriverAssumption DEF TypeOK, Outputs
<1>4. OutputsOwned'
  <2> USE DEF OutputsOwned, Running, Present
  <2>1. \A d, e \in Compilers : d # e /\ Running(d)' /\ Running(e)' =>
           Outputs(request[d]) \cap Outputs(request[e]) = {}
    BY ZenonT(40), <1>1
  <2>2. \A d \in Compilers : Running(d)' /\ process'[d].pc \in Emitted =>
           /\ Object(request[d]) \in DOMAIN files'
           /\ files'[Object(request[d])] = Content(d, d, process'[d].good)
    BY <1>1, <1>3
  <2>3. \A d \in Compilers : Running(d)' /\ process'[d].linked =>
           /\ Executable(request[d]) \in DOMAIN files'
           /\ files'[Executable(request[d])] = Content(d, d, process'[d].good)
    BY <1>1, <1>3
  <2> QED BY ZenonT(40), <1>1, <2>1, <2>2, <2>3
<1> QED BY <1>2, <1>4

-----------------------------------------------------------------------------
(* The steps of main() and compile_object. *)

LEMMA MainStep ==
    ASSUME DriverInductive, NEW c \in Compilers, main(c) \/ load_input_to_buffer(c) \/ parse(c)
    PROVE  DriverInductive'
<1>1. Running(c) /\ UNCHANGED <<request, files>>
  BY DEF main, load_input_to_buffer, parse, At, Exit
<1>2. process[c].pc \notin Holding \cup Linking \cup Emitted
  BY DEF main, load_input_to_buffer, parse, At, Holding, Linking, Emitted
<1>3. CASE \E outcome \in {"success", "failure"} : Exit(c, outcome)
  BY <1>1, <1>2, <1>3, Leaving
<1>4. CASE main(c) /\ request[c].mode = "shell" /\ Goto(c, "get_next_token")
  BY <1>1, <1>2, <1>4, Going DEF Steps, Holding, Linking, Emitted, Final
<1>5. CASE main(c) /\ request[c].mode # "shell" /\ Goto(c, "load")
  BY <1>1, <1>2, <1>5, Going DEF Steps, Holding, Linking, Emitted, Final
<1>6. CASE load_input_to_buffer(c) /\ Goto(c, "parse")
  <2>1. request[c].mode # "shell"
    BY <1>6 DEF DriverInductive, OutputsOwned, load_input_to_buffer, At
  <2> QED BY <1>1, <1>2, <1>6, <2>1, Going DEF Steps, Holding, Linking, Emitted, Final
<1>7. CASE parse(c) /\ Goto(c, "get_next_token")
  BY <1>1, <1>2, <1>7, Going DEF Steps, Holding, Linking, Emitted, Final
<1> QED
  BY <1>3, <1>4, <1>5, <1>6, <1>7 DEF main, load_input_to_buffer, parse

LEMMA PrepareStep ==
    ASSUME DriverInductive, NEW c \in Compilers, get_next_token(c) \/ lookupTarget(c)
    PROVE  DriverInductive'
<1>1. Running(c) /\ UNCHANGED <<request, files>>
  BY DEF get_next_token, lookupTarget, At, Exit
<1>2. process[c].pc \notin Holding \cup Linking \cup Emitted
  BY DEF get_next_token, lookupTarget, At, Holding, Linking, Emitted
<1>3. CASE Exit(c, "failure")
  BY <1>1, <1>2, <1>3, Leaving
<1>4. CASE \E pc \in {"lookupTarget", "open"} : Goto(c, pc)
  BY <1>1, <1>2, <1>4, Going DEF Steps, Holding, Linking, Emitted, Final
<1> QED
  BY <1>3, <1>4 DEF get_next_token, lookupTarget

LEMMA ContentFacts ==
    ASSUME NEW by \in Compilers, NEW of \in Compilers, NEW whole \in BOOLEAN
    PROVE  Content(by, of, whole) \in ContentType
BY DEF Content, ContentType

LEMMA OpenStep ==
    ASSUME DriverInductive, NEW c \in Compilers, open(c)
    PROVE  DriverInductive'
<1>1. Running(c) /\ UNCHANGED request /\ process[c].pc = "open"
  BY DEF open, At
<1>2. CASE Exit(c, "failure")
  BY <1>1, <1>2, Leaving DEF Exit, Linking
<1>3. CASE Goto(c, "emit") /\ files' = Put(Object(request[c]), Content(c, c, FALSE))
  <2> DEFINE state == [process[c] EXCEPT !.pc = "emit"]
  <2>1. state \in ProcessType
    BY States DEF DriverInductive, Steps
  <2>2. /\ state.outcome = "running"
        /\ state.tmp = process[c].tmp
        /\ state.pc = "emit"
        /\ ~state.linked
    BY <1>1 DEF DriverInductive, TypeOK, ProcessType, Running, OutputsOwned, Final
  <2>3. Become(c, state)
    BY <1>3 DEF Goto
  <2>4. Object(request[c]) \in Outputs(request[c])
    BY DEF Outputs
  <2> HIDE DEF state
  <2> QED BY <1>1, <1>3, <2>1, <2>2, <2>3, <2>4, ContentFacts, BuildStep
          DEF Holding, Linking, Emitted, Final
<1> QED BY <1>2, <1>3 DEF open

LEMMA EmitStep ==
    ASSUME DriverInductive, NEW c \in Compilers, emit(c)
    PROVE  DriverInductive'
<1>1. Running(c) /\ UNCHANGED request /\ process[c].pc = "emit"
  BY DEF emit, At
<1>2. CASE Exit(c, "failure")
  BY <1>1, <1>2, Leaving DEF Exit, Linking
<1>3. ASSUME NEW whole \in BOOLEAN,
             Become(c, [process[c] EXCEPT
                    !.pc = IF request[c].lib THEN "return" ELSE "mkstemp", !.good = whole]),
             files' = Put(Object(request[c]), Content(c, c, whole))
      PROVE  DriverInductive'
  <2> DEFINE pc == IF request[c].lib THEN "return" ELSE "mkstemp"
             state == [process[c] EXCEPT !.pc = pc, !.good = whole]
  <2>1. state \in ProcessType
    BY States DEF DriverInductive, Steps
  <2>2. /\ state.outcome = "running"
        /\ state.tmp = process[c].tmp
        /\ state.pc = pc
        /\ state.good = whole
        /\ state.linked = process[c].linked
    BY <1>1 DEF DriverInductive, TypeOK, ProcessType, Running
  <2>3. Object(request[c]) \in Outputs(request[c])
    BY DEF Outputs
  <2>4. /\ Object(request[c]) \in DOMAIN files'
        /\ files'[Object(request[c])] = Content(c, c, state.good)
    <3> DEFINE content == Content(c, c, whole)
    <3>1. files' = Put(Object(request[c]), content)
      BY <1>3
    <3> HIDE DEF state, pc, content
    <3>2. Object(request[c]) \in DOMAIN files' /\ files'[Object(request[c])] = content
      BY ZenonT(40), <3>1, PutFacts
    <3>3. Object(request[c]) \in DOMAIN files' /\ files'[Object(request[c])] = Content(c, c, whole)
      BY <3>2 DEF content
    <3> QED BY <2>2, <3>3
  <2>5. ~process[c].linked
    BY <1>1 DEF DriverInductive, OutputsOwned, Final
  <2>6. Become(c, state)
    BY <1>3
  <2> HIDE DEF state
  <2> QED BY <1>1, <1>3, <2>1, <2>2, <2>3, <2>4, <2>5, <2>6, ContentFacts, BuildStep
          DEF Holding, Linking, Emitted, Final
<1> QED BY <1>2, <1>3 DEF emit

LEMMA MkstempStep ==
    ASSUME DriverInductive, NEW c \in Compilers, mkstemp(c)
    PROVE  DriverInductive'
<1>1. Running(c) /\ UNCHANGED request /\ process[c].pc = "mkstemp"
  BY DEF mkstemp, At
<1>2. CASE Exit(c, "failure")
  BY <1>1, <1>2, Leaving DEF Exit, Linking
<1>3. ASSUME NEW n \in Names, ~Present(<<n, "">>),
             Become(c, [process[c] EXCEPT !.pc = "write", !.tmp = n]),
             files' = Put(<<n, "">>, Content(c, c, FALSE))
      PROVE  DriverInductive'
  <2> DEFINE state == [process[c] EXCEPT !.pc = "write", !.tmp = n]
  <2>1. state \in ProcessType
    BY States DEF DriverInductive, Steps
  <2>2. /\ state.outcome = "running"
        /\ state.tmp = n
        /\ state.pc = "write"
        /\ state.good = process[c].good
        /\ state.linked = process[c].linked
        /\ ~process[c].linked
    BY <1>1 DEF DriverInductive, TypeOK, ProcessType, Running, OutputsOwned, Final
  <2>3. Become(c, state)
    BY <1>3
  <2> HIDE DEF state
  <2>4. /\ process'[c] = state
        /\ \A d \in Compilers : d # c => process'[d] = process[d]
    BY <2>1, <2>3, OneProcess DEF DriverInductive
  <2>5. /\ DOMAIN files' = DOMAIN files \cup {<<n, "">>}
        /\ files'[<<n, "">>] \in ContentType
        /\ \A p \in DOMAIN files : files'[p] = files[p]
    BY <1>3, PutFacts, ContentFacts DEF Present
  <2>6. TmpFilesOwned'
    <3>1. \A d \in Compilers : process'[d].pc \in Linking =>
             process'[d].tmp \in Names /\ process'[d].outcome # "failure"
      BY <2>2, <2>4 DEF DriverInductive, TmpFilesOwned, Linking
    <3>2. \A d \in Compilers : process[d].pc \in Holding =>
             process[d].tmp # n /\ <<process[d].tmp, "">> \in DOMAIN files
      BY <1>3 DEF DriverInductive, TmpFilesOwned, Present
    <3>3. \A d \in Compilers : process'[d].pc \in Holding =>
             /\ process'[d].tmp \in Names
             /\ <<process'[d].tmp, "">> \in DOMAIN files'
      BY <2>2, <2>4, <2>5, <3>2 DEF DriverInductive, TmpFilesOwned
    <3>4. \A d, e \in Compilers :
             process'[d].pc \in Holding /\ process'[e].pc \in Holding
             /\ process'[e].tmp = process'[d].tmp => e = d
      <4> SUFFICES ASSUME NEW d \in Compilers, NEW e \in Compilers,
                          process'[d].pc \in Holding, process'[e].pc \in Holding,
                          process'[e].tmp = process'[d].tmp
                   PROVE  e = d
        OBVIOUS
      <4>1. CASE d # c /\ e # c
        BY <2>4, <4>1 DEF DriverInductive, TmpFilesOwned
      <4>2. CASE d # c /\ e = c
        BY <2>2, <2>4, <3>2, <4>2
      <4>3. CASE d = c /\ e # c
        BY <2>2, <2>4, <3>2, <4>3
      <4> QED BY <4>1, <4>2, <4>3
    <3>5. ASSUME NEW p \in DOMAIN files', p[1] \in Names
          PROVE  \/ p = <<p[1], "">>
                    /\ \E d \in Compilers : process'[d].pc \in Holding /\ process'[d].tmp = p[1]
                 \/ p = <<p[1], ".cpp">>
                    /\ \E d \in Compilers : process'[d].pc \in Linking /\ process'[d].tmp = p[1]
      <4>1. CASE p = <<n, "">>
        BY <2>2, <2>4, <4>1 DEF Holding
      <4>2. CASE p \in DOMAIN files
        <5>1. process[c].pc \notin Holding \cup Linking
          BY <1>1 DEF Holding, Linking
        <5>2. CASE p = <<p[1], "">>
                   /\ \E d \in Compilers : process[d].pc \in Holding /\ process[d].tmp = p[1]
          BY <2>4, <5>1, <5>2
        <5>3. CASE p = <<p[1], ".cpp">>
                   /\ \E d \in Compilers : process[d].pc \in Linking /\ process[d].tmp = p[1]
          BY <2>4, <5>1, <5>3
        <5> QED BY <3>5, <4>2, <5>2, <5>3 DEF DriverInductive, TmpFilesOwned
      <4> QED BY <2>5, <4>1, <4>2
    <3> QED BY <3>1, <3>3, <3>4, <3>5 DEF TmpFilesOwned, Present
  <2>7. \A p \in DOMAIN files' : files'[p] \in ContentType
    BY <2>5 DEF DriverInductive, TypeOK
  <2> QED BY <1>1, <2>1, <2>2, <2>3, <2>5, <2>6, <2>7, TmpStep DEF Emitted
<1> QED BY <1>2, <1>3 DEF mkstemp

LEMMA WriteStep ==
    ASSUME DriverInductive, NEW c \in Compilers, write(c)
    PROVE  DriverInductive'
<1>1. Running(c) /\ UNCHANGED request /\ process[c].pc = "write"
  BY DEF write, At
<1> DEFINE state == [process[c] EXCEPT !.pc = "rename"]
           path == <<process[c].tmp, "">>
<1>2. state \in ProcessType
  BY States DEF DriverInductive, Steps
<1>3. /\ state.outcome = "running"
      /\ state.tmp = process[c].tmp
      /\ state.pc = "rename"
      /\ state.good = process[c].good
      /\ state.linked = process[c].linked
      /\ ~process[c].linked
  BY <1>1 DEF DriverInductive, TypeOK, ProcessType, Running, OutputsOwned, Final
<1>4. Become(c, state)
  BY DEF write, Goto
<1>5. /\ process'[c] = state
      /\ \A d \in Compilers : d # c => process'[d] = process[d]
  BY <1>2, <1>4, OneProcess DEF DriverInductive
<1> HIDE DEF state
<1>6. path \in DOMAIN files /\ path[1] \in Names
  BY <1>1 DEF DriverInductive, TmpFilesOwned, Holding, Present
<1>7. /\ DOMAIN files' = DOMAIN files
      /\ files'[path] \in ContentType
      /\ \A p \in DOMAIN files : p # path => files'[p] = files[p]
  <2>1. PICK whole \in BOOLEAN : files' = Put(path, Content(c, c, whole))
    BY DEF write
  <2>2. Content(c, c, whole) \in ContentType
    BY ContentFacts
  <2>3. /\ DOMAIN files' = DOMAIN files \cup {path}
        /\ files'[path] = Content(c, c, whole)
        /\ \A p \in DOMAIN files : p # path => files'[p] = files[p]
    BY <2>1, PutFacts
  <2> QED BY <1>6, <2>2, <2>3
<1> HIDE DEF path
<1>8. \A d \in Compilers :
         /\ process'[d].tmp = process[d].tmp
         /\ process'[d].pc \in Holding <=> process[d].pc \in Holding
         /\ process'[d].pc \in Linking <=> process[d].pc \in Linking
  BY <1>1, <1>3, <1>5 DEF Holding, Linking
<1>9. TmpFilesOwned'
  <2>1. \A d \in Compilers : process'[d].pc \in Linking =>
           process'[d].tmp \in Names /\ process'[d].outcome # "failure"
    BY <1>1, <1>3, <1>5 DEF DriverInductive, TmpFilesOwned, Linking
  <2>2. ASSUME NEW d \in Compilers, process'[d].pc \in Holding
        PROVE  /\ process'[d].tmp \in Names
               /\ <<process'[d].tmp, "">> \in DOMAIN files'
               /\ \A e \in Compilers :
                     process'[e].pc \in Holding /\ process'[e].tmp = process'[d].tmp => e = d
    <3>1. process[d].pc \in Holding /\ process'[d].tmp = process[d].tmp
      BY <1>8, <2>2
    <3>2. process[d].tmp \in Names /\ <<process[d].tmp, "">> \in DOMAIN files
      BY <3>1 DEF DriverInductive, TmpFilesOwned, Present
    <3>3. \A e \in Compilers : process[e].pc \in Holding /\ process[e].tmp = process[d].tmp => e = d
      BY <3>1 DEF DriverInductive, TmpFilesOwned
    <3> QED BY <1>7, <1>8, <3>1, <3>2, <3>3
  <2>3. ASSUME NEW p \in DOMAIN files, p[1] \in Names
        PROVE  \/ p = <<p[1], "">>
                  /\ \E d \in Compilers : process'[d].pc \in Holding /\ process'[d].tmp = p[1]
               \/ p = <<p[1], ".cpp">>
                  /\ \E d \in Compilers : process'[d].pc \in Linking /\ process'[d].tmp = p[1]
    <3>1. CASE p = <<p[1], "">>
               /\ \E d \in Compilers : process[d].pc \in Holding /\ process[d].tmp = p[1]
      BY <1>8, <3>1
    <3>2. CASE p = <<p[1], ".cpp">>
               /\ \E d \in Compilers : process[d].pc \in Linking /\ process[d].tmp = p[1]
      BY <1>8, <3>2
    <3> QED BY <2>3, <3>1, <3>2 DEF DriverInductive, TmpFilesOwned
  <2> QED BY <1>7, <2>1, <2>2, <2>3 DEF TmpFilesOwned, Present
<1>10. \A p \in DOMAIN files' : files'[p] \in ContentType
  BY <1>7 DEF DriverInductive, TypeOK
<1>11. \A p \in DOMAIN files : p[1] \notin Names => p \in DOMAIN files' /\ files'[p] = files[p]
  BY <1>6, <1>7
<1> QED BY <1>1, <1>2, <1>3, <1>4, <1>9, <1>10, <1>11, TmpStep DEF Emitted

(* The file without an extension becomes one with: no other process holds  *)
(* its name, though another may have made a C++ file of that name before.  *)
LEMMA RenameStep ==
    ASSUME DriverInductive, NEW c \in Compilers, rename(c)
    PROVE  DriverInductive'
<1>1. Running(c) /\ UNCHANGED request /\ process[c].pc = "rename"
  BY DEF rename, At
<1>2. CASE Exit(c, "failure")
  BY <1>1, <1>2, Leaving DEF Exit, Linking
<1> DEFINE old == <<process[c].tmp, "">>
           new == <<process[c].tmp, ".cpp">>
           state == [process[c] EXCEPT !.pc = "system"]
<1>3. ASSUME Goto(c, "system"),
             files' = [p \in (DOMAIN files \cup {new}) \ {old} |-> IF p = new THEN files[old] ELSE files[p]]
      PROVE  DriverInductive'
  <2>1. state \in ProcessType
    BY States DEF DriverInductive, Steps
  <2>2. /\ state.outcome = "running"
        /\ state.tmp = process[c].tmp
        /\ state.pc = "system"
        /\ state.good = process[c].good
        /\ state.linked = process[c].linked
        /\ ~process[c].linked
    BY <1>1 DEF DriverInductive, TypeOK, ProcessType, Running, OutputsOwned, Final
  <2>3. Become(c, state)
    BY <1>3 DEF Goto
  <2>4. /\ process'[c] = state
        /\ \A d \in Compilers : d # c => process'[d] = process[d]
    BY <2>1, <2>3, OneProcess DEF DriverInductive
  <2>5. old \in DOMAIN files /\ process[c].tmp \in Names
    BY <1>1 DEF DriverInductive, TmpFilesOwned, Holding, Present
  <2>6. /\ DOMAIN files' = (DOMAIN files \cup {new}) \ {old}
        /\ files'[new] = files[old]
        /\ \A p \in DOMAIN files : p \notin {old, new} => files'[p] = files[p]
    BY <1>3
  <2>7. /\ old # new
        /\ old[1] = process[c].tmp
        /\ new[1] = process[c].tmp
    OBVIOUS
  <2> HIDE DEF state
  <2>8. process[c].pc \in Holding /\ process'[c].pc \in Linking
        /\ process[c].pc \notin Linking /\ process'[c].pc \notin Holding
    BY <1>1, <2>2, <2>4 DEF Holding, Linking
  <2>9. TmpFilesOwned'
    <3>1. \A d \in Compilers : process'[d].pc \in Linking =>
             process'[d].tmp \in Names /\ process'[d].outcome # "failure"
      BY <2>2, <2>4, <2>5 DEF DriverInductive, TmpFilesOwned
    <3>2. ASSUME NEW d \in Compilers, process'[d].pc \in Holding
          PROVE  /\ process'[d].tmp \in Names
                 /\ <<process'[d].tmp, "">> \in DOMAIN files'
                 /\ \A e \in Compilers :
                       process'[e].pc \in Holding /\ process'[e].tmp = process'[d].tmp => e = d
      <4>1. d # c /\ process[d].pc \in Holding /\ process'[d] = process[d]
        BY <2>4, <2>8, <3>2
      <4>2. process[d].tmp \in Names /\ <<process[d].tmp, "">> \in DOMAIN files
        BY <4>1 DEF DriverInductive, TmpFilesOwned, Present
      <4>3. \A e \in Compilers : process[e].pc \in Holding /\ process[e].tmp = process[d].tmp => e = d
        BY <4>1 DEF DriverInductive, TmpFilesOwned
      <4>4. <<process[d].tmp, "">> # old
        BY <2>8, <4>1, <4>3
      <4>5. \A e \in Compilers :
               process'[e].pc \in Holding /\ process'[e].tmp = process'[d].tmp => e = d
        BY <2>4, <2>8, <4>1, <4>3
      <4> QED BY <2>6, <4>1, <4>2, <4>4, <4>5
    <3>3. ASSUME NEW p \in DOMAIN files', p[1] \in Names
          PROVE  \/ p = <<p[1], "">>
                    /\ \E d \in Compilers : process'[d].pc \in Holding /\ process'[d].tmp = p[1]
                 \/ p = <<p[1], ".cpp">>
                    /\ \E d \in Compilers : process'[d].pc \in Linking /\ process'[d].tmp = p[1]
      <4>1. CASE p = new
        BY <2>2, <2>4, <2>8, <4>1
      <4>2. CASE p \in DOMAIN files /\ p # old
        <5>1. CASE /\ p = <<p[1], "">>
                   /\ \E d \in Compilers : process[d].pc \in Holding /\ process[d].tmp = p[1]
          <6>1. PICK d \in Compilers : process[d].pc \in Holding /\ process[d].tmp = p[1]
            BY <5>1
          <6>2. d # c
            BY <4>2, <5>1, <6>1
          <6> QED BY <2>4, <5>1, <6>1, <6>2
        <5>2. CASE /\ p = <<p[1], ".cpp">>
                   /\ \E d \in Compilers : process[d].pc \in Linking /\ process[d].tmp = p[1]
          BY <2>4, <2>8, <5>2
        <5> QED BY <3>3, <4>2, <5>1, <5>2 DEF DriverInductive, TmpFilesOwned
      <4> QED BY <2>6, <4>1, <4>2
    <3> QED BY <3>1, <3>2, <3>3 DEF TmpFilesOwned, Present
  <2>10. \A p \in DOMAIN files' : files'[p] \in ContentType
    BY <2>5, <2>6 DEF DriverInductive, TypeOK
  <2>11. \A p \in DOMAIN files : p[1] \notin Names => p \in DOMAIN files' /\ files'[p] = files[p]
    BY <2>5, <2>6, <2>7
  <2> QED BY <1>1, <2>1, <2>2, <2>3, <2>9, <2>10, <2>11, TmpStep DEF Emitted
<1> QED BY <1>2, <1>3 DEF rename

LEMMA SystemStep ==
    ASSUME DriverInductive, NEW c \in Compilers, system(c)
    PROVE  DriverInductive'
<1>1. Running(c) /\ UNCHANGED request /\ process[c].pc = "system"
  BY DEF system, At
<1> DEFINE state(linked) == [process[c] EXCEPT !.pc = "delete_file", !.linked = linked]
<1>2. ASSUME NEW linked \in BOOLEAN
      PROVE  /\ state(linked) \in ProcessType
             /\ state(linked).outcome = "running"
             /\ state(linked).tmp = process[c].tmp
             /\ state(linked).pc = "delete_file"
             /\ state(linked).good = process[c].good
             /\ state(linked).linked = linked
  <2>1. state(linked) \in ProcessType
    BY States DEF DriverInductive, Steps
  <2> QED BY <1>1, <2>1 DEF DriverInductive, TypeOK, ProcessType, Running
<1>3. process[c].pc \in Linking \ Holding /\ "delete_file" \in (Linking \cap Final \cap Emitted) \ Holding
      /\ process[c].pc \in Emitted
  BY <1>1 DEF Linking, Final, Emitted, Holding
<1>4. CASE Become(c, state(FALSE)) /\ UNCHANGED files
  <2> HIDE DEF state
  <2> QED BY <1>1, <1>2, <1>3, <1>4, QuietStep
<1>5. CASE /\ Present(Object(request[c]))
           /\ Become(c, state(TRUE))
           /\ files' = Put(Executable(request[c]),
                           Content(c, files[Object(request[c])].of, files[Object(request[c])].whole))
  <2> HIDE DEF state
  <2>1. files[Object(request[c])] = Content(c, c, process[c].good)
    BY <1>1, <1>3 DEF DriverInductive, OutputsOwned
  <2>2. files' = Put(Executable(request[c]), Content(c, c, process[c].good))
    BY <1>5, <2>1 DEF Content
  <2>3. process[c].good \in BOOLEAN
    BY DEF DriverInductive, TypeOK, ProcessType
  <2>4. Executable(request[c]) \in Outputs(request[c])
    BY DEF Outputs
  <2>5. /\ DOMAIN files' = DOMAIN files \cup {Executable(request[c])}
        /\ files'[Executable(request[c])] = Content(c, c, process[c].good)
        /\ \A p \in DOMAIN files : p # Executable(request[c]) => files'[p] = files[p]
    BY <2>2, PutFacts
  <2>6. /\ Object(request[c]) \in DOMAIN files'
        /\ files'[Object(request[c])] = Content(c, c, process[c].good)
    BY <1>5, <2>1, <2>5 DEF Present
  <2>7. Content(c, c, process[c].good) \in ContentType
    BY <2>3, ContentFacts
  <2>8. /\ state(TRUE) \in ProcessType
        /\ state(TRUE).outcome = "running"
        /\ state(TRUE).tmp = process[c].tmp
        /\ state(TRUE).pc = "delete_file"
        /\ state(TRUE).good = process[c].good
        /\ state(TRUE).linked
    BY <1>2
  <2> QED BY <1>1, <1>3, <1>5, <2>2, <2>4, <2>5, <2>6, <2>7, <2>8, BuildStep
<1> QED BY <1>4, <1>5 DEF system

LEMMA DeleteStep ==
    ASSUME DriverInductive, NEW c \in Compilers, delete_file(c)
    PROVE  DriverInductive'
<1>1. Running(c) /\ UNCHANGED request /\ process[c].pc = "delete_file"
  BY DEF delete_file, At
<1> DEFINE state == [process[c] EXCEPT !.pc = "check", !.tmp = NoName]
           path == <<process[c].tmp, ".cpp">>
<1>2. state \in ProcessType
  BY States DEF DriverInductive, Steps
<1>3. /\ state.outcome = "running"
      /\ state.pc = "check"
      /\ state.good = process[c].good
      /\ state.linked = process[c].linked
  BY <1>1 DEF DriverInductive, TypeOK, ProcessType, Running
<1>4. Become(c, state)
  BY DEF delete_file
<1> HIDE DEF state
<1>5. /\ process'[c] = state
      /\ \A d \in Compilers : d # c => process'[d] = process[d]
  BY <1>2, <1>4, OneProcess DEF DriverInductive
<1>6. path[1] \in Names
  BY <1>1 DEF DriverInductive, TmpFilesOwned, Linking
<1>7. /\ DOMAIN files' = DOMAIN files \ {path}
      /\ \A p \in DOMAIN files : p # path => files'[p] = files[p]
  <2>1. files' = Without(path)
    BY DEF delete_file
  <2> HIDE DEF path
  <2> QED BY <2>1, WithoutFacts
<1>8. process[c].pc \notin Holding /\ process'[c].pc \notin Holding /\ process'[c].pc \notin Linking
  BY <1>1, <1>3, <1>5 DEF Holding, Linking
<1>9. TmpFilesOwned'
  <2>1. \A d \in Compilers : process'[d].pc \in Linking =>
           process'[d].tmp \in Names /\ process'[d].outcome # "failure"
    BY <1>5, <1>8 DEF DriverInductive, TmpFilesOwned
  <2>2. ASSUME NEW d \in Compilers, process'[d].pc \in Holding
        PROVE  /\ process'[d].tmp \in Names
               /\ <<process'[d].tmp, "">> \in DOMAIN files'
               /\ \A e \in Compilers :
                     process'[e].pc \in Holding /\ process'[e].tmp = process'[d].tmp => e = d
    <3>1. d # c /\ process[d].pc \in Holding /\ process'[d] = process[d]
      BY <1>5, <1>8, <2>2
    <3>2. process[d].tmp \in Names /\ <<process[d].tmp, "">> \in DOMAIN files
      BY <3>1 DEF DriverInductive, TmpFilesOwned, Present
    <3>3. \A e \in Compilers : process[e].pc \in Holding /\ process[e].tmp = process[d].tmp => e = d
      BY <3>1 DEF DriverInductive, TmpFilesOwned
    <3>4. <<process[d].tmp, "">> # path
      OBVIOUS
    <3>5. \A e \in Compilers :
             process'[e].pc \in Holding /\ process'[e].tmp = process'[d].tmp => e = d
      BY <1>5, <1>8, <3>1, <3>3
    <3> QED BY <1>7, <3>1, <3>2, <3>4, <3>5
  <2>3. ASSUME NEW p \in DOMAIN files, p # path, p[1] \in Names
        PROVE  \/ p = <<p[1], "">>
                  /\ \E d \in Compilers : process'[d].pc \in Holding /\ process'[d].tmp = p[1]
               \/ p = <<p[1], ".cpp">>
                  /\ \E d \in Compilers : process'[d].pc \in Linking /\ process'[d].tmp = p[1]
    <3>1. CASE p = <<p[1], "">>
               /\ \E d \in Compilers : process[d].pc \in Holding /\ process[d].tmp = p[1]
      BY <1>5, <1>8, <3>1
    <3>2. CASE p = <<p[1], ".cpp">>
               /\ \E d \in Compilers : process[d].pc \in Linking /\ process[d].tmp = p[1]
      <4>1. PICK d \in Compilers : process[d].pc \in Linking /\ process[d].tmp = p[1]
        BY <3>2
      <4>2. d # c
        BY <2>3, <3>2, <4>1
      <4> QED BY <1>5, <3>2, <4>1, <4>2
    <3> QED BY <2>3, <3>1, <3>2 DEF DriverInductive, TmpFilesOwned
  <2> QED BY <1>7, <2>1, <2>2, <2>3 DEF TmpFilesOwned, Present
<1>10. \A p \in DOMAIN files' : files'[p] \in ContentType
  BY <1>7 DEF DriverInductive, TypeOK
<1>11. \A p \in DOMAIN files : p[1] \notin Names => p \in DOMAIN files' /\ files'[p] = files[p]
  BY <1>6, <1>7
<1> QED BY <1>1, <1>2, <1>3, <1>4, <1>9, <1>10, <1>11, TmpStep DEF Emitted, Final

LEMMA ReturnStep ==
    ASSUME DriverInductive, NEW c \in Compilers, check(c) \/ return(c)
    PROVE  DriverInductive'
<1>1. Running(c) /\ UNCHANGED <<request, files>>
  BY DEF check, return, At, Exit
<1>2. process[c].pc \notin Holding \cup Linking /\ process[c].pc \in Emitted \cap Final
  BY DEF check, return, At, Holding, Linking, Emitted, Final
<1>3. CASE \E outcome \in {"success", "failure"} : Exit(c, outcome)
  BY <1>1, <1>2, <1>3, Leaving
<1>4. CASE process[c].linked /\ Goto(c, "return")
  BY <1>1, <1>2, <1>4, Going DEF Steps, Holding, Linking, Emitted, Final
<1> QED BY <1>3, <1>4 DEF check, return

LEMMA DieStep ==
    ASSUME DriverInductive, NEW c \in Compilers, Die(c)
    PROVE  DriverInductive'
BY Leaving DEF Die

(* Whatever nobody changes stays what it is. *)
LEMMA StutterStep ==
    ASSUME DriverInductive, UNCHANGED vars
    PROVE  DriverInductive'
<1>1. TypeOK'
  BY DEF vars, DriverInductive, TypeOK
<1>2. TmpFilesOwned'
  BY DEF vars, DriverInductive, TmpFilesOwned, Present
<1>3. OutputsOwned'
  BY DEF vars, DriverInductive, OutputsOwned, Running, Present
<1> QED BY <1>1, <1>2, <1>3 DEF DriverInductive

LEMMA StepInductive ==
    ASSUME DriverInductive, [Next]_vars
    PROVE  DriverInductive'
<1>1. ASSUME NEW c \in Compilers, Compile(c)
      PROVE  DriverInductive'
  BY <1>1, MainStep, PrepareStep, OpenStep, EmitStep, MkstempStep, WriteStep, RenameStep,
     SystemStep, DeleteStep, ReturnStep DEF Compile, compile_object
<1> QED
  BY <1>1, StartStep, TypeStep, DieStep, StutterStep DEF Next, Done

LEMMA InitInductive == Init => DriverInductive
<1> SUFFICES ASSUME Init
             PROVE  DriverInductive
  OBVIOUS
<1>1. \A c \in Compilers :
         /\ process[c] = NewProcess
         /\ process[c].pc = "main"
         /\ process[c].outcome = "waiting"
         /\ ~process[c].linked
  BY DEF Init, NewProcess
<1>2. NewProcess \in ProcessType
  BY DEF NewProcess, ProcessType, Steps
<1>3. DOMAIN files = {}
  BY DEF Init
<1>4. TypeOK
  BY <1>2, <1>3 DEF Init, TypeOK
<1>5. TmpFilesOwned
  BY <1>1, <1>3 DEF TmpFilesOwned, Holding, Linking
<1>6. OutputsOwned
  BY <1>1 DEF OutputsOwned, Running, Final
<1> QED BY <1>4, <1>5, <1>6 DEF DriverInductive

-----------------------------------------------------------------------------
(* Who holds a temporary file, and who wrote an output, is an invariant of *)
(* any number of compilers that start, are killed and fail at any point.   *)
THEOREM InductiveInvariant == Spec => []DriverInductive
BY InitInductive, StepInductive, PTL DEF Spec

(* TypeOK: the state of a process is one main() and compile_object can be  *)
(* in, and a file was written by one of the compilers.                     *)
THEOREM TypeCorrect == Spec => []TypeOK
<1>1. DriverInductive => TypeOK
  BY DEF DriverInductive
<1> QED BY <1>1, InductiveInvariant, PTL

(* NothingLeftBehind: a file in /tmp is that of a compiler at work, of one *)
(* that was killed, or of one whose rename in create_tmp_file failed.      *)
THEOREM NothingLeft == Spec => []NothingLeftBehind
<1>1. ASSUME DriverInductive
      PROVE  NothingLeftBehind
  <2> SUFFICES ASSUME NEW path \in DOMAIN files, path[1] \in Names
               PROVE  \E c \in Compilers :
                         /\ process[c].tmp = path[1]
                         /\ process[c].outcome = "failure" => path[2] = ""
    BY DEF NothingLeftBehind
  <2>1. CASE path = <<path[1], "">>
             /\ \E c \in Compilers : process[c].pc \in Holding /\ process[c].tmp = path[1]
    <3>1. \A n : <<n, "">>[2] = ""
      OBVIOUS
    <3>2. path[2] = ""
      BY <2>1, <3>1
    <3> QED BY <2>1, <3>2
  <2>2. CASE path = <<path[1], ".cpp">>
             /\ \E c \in Compilers : process[c].pc \in Linking /\ process[c].tmp = path[1]
    BY <1>1, <2>2 DEF DriverInductive, TmpFilesOwned
  <2> QED BY <1>1, <2>1, <2>2 DEF DriverInductive, TmpFilesOwned
<1> QED BY <1>1, InductiveInvariant, PTL

(* A step is one process's. *)
LEMMA OneMoves ==
    ASSUME TypeOK, NEW c \in Compilers, Start(c) \/ Type(c) \/ Die(c) \/ Compile(c)
    PROVE  \A d \in Compilers : d # c => process'[d] = process[d]
<1>1. \E state : Become(c, state)
  <2> USE DEF Goto, Exit
  <2>1. CASE Start(c) \/ Type(c) \/ Die(c)
    BY <2>1 DEF Start, Type, Die
  <2>2. CASE main(c) \/ load_input_to_buffer(c) \/ parse(c)
    BY <2>2 DEF main, load_input_to_buffer, parse
  <2>3. CASE get_next_token(c) \/ lookupTarget(c) \/ open(c)
    BY <2>3 DEF get_next_token, lookupTarget, open
  <2>4. CASE emit(c)
    BY <2>4 DEF emit
  <2>5. CASE mkstemp(c) \/ write(c) \/ rename(c)
    BY <2>5 DEF mkstemp, write, rename
  <2>6. CASE system(c) \/ delete_file(c)
    BY <2>6 DEF system, delete_file
  <2>7. CASE check(c) \/ return(c)
    BY <2>7 DEF check, return
  <2> QED BY <2>1, <2>2, <2>3, <2>4, <2>5, <2>6, <2>7 DEF Compile, compile_object
<1> QED BY <1>1 DEF TypeOK, Become

(* Of a compilation, only the last statement of compile_object succeeds.   *)
LEMMA OnlyReturnSucceeds ==
    ASSUME DriverInductive, NEW c \in Compilers, Running(c),
           request[c].mode \in {"compile", "shell"},
           Start(c) \/ Type(c) \/ Die(c) \/ Compile(c),
           process'[c].outcome = "success"
    PROVE  UNCHANGED files /\ process[c].pc = "return" /\ process[c].good
<1> USE DEF Running, At, Become, Goto, Exit
<1>0. /\ process \in [Compilers -> ProcessType]
      /\ process[c].pc = "parse" => request[c].mode # "shell"
  BY DEF DriverInductive, TypeOK, OutputsOwned
<1> HIDE DEF DriverInductive
<1> USE DEF ProcessType
<1>1. ~(Start(c) \/ Type(c) \/ Die(c))
  BY <1>0 DEF Start, Type, Die
<1>2. ~(main(c) \/ load_input_to_buffer(c) \/ parse(c))
  BY <1>0 DEF main, load_input_to_buffer, parse
<1>3. ~(get_next_token(c) \/ lookupTarget(c) \/ open(c))
  BY <1>0 DEF get_next_token, lookupTarget, open
<1>4. ~emit(c)
  BY <1>0 DEF emit
<1>5. ~(mkstemp(c) \/ write(c) \/ rename(c))
  BY <1>0 DEF mkstemp, write, rename
<1>6. ~(system(c) \/ delete_file(c))
  BY <1>0 DEF system, delete_file
<1>7. ~check(c)
  BY <1>0 DEF check
<1>8. return(c)
  BY <1>1, <1>2, <1>3, <1>4, <1>5, <1>6, <1>7 DEF Compile, compile_object
<1> QED BY <1>0, <1>8 DEF return

(* SuccessMeansBuilt: when compile_object returns 0 the object is whole    *)
(* and this run's and, if no library was asked for, so is the executable.  *)
THEOREM Success == Spec => SuccessMeansBuilt
<1> DEFINE Built(c) ==
      LET object == Object(request[c])
          executable == Executable(request[c])
      IN /\ process[c].outcome = "running"
         /\ process'[c].outcome = "success"
         /\ request[c].mode \in {"compile", "shell"}
         => /\ Present(object) /\ files[object] = Content(c, c, TRUE)
            /\ request[c].lib \/ (Present(executable) /\ files[executable] = Content(c, c, TRUE))
<1>1. ASSUME DriverInductive, [Next]_vars
      PROVE  [\A c \in Compilers : Built(c)]_vars
  <2> SUFFICES ASSUME Next, NEW c \in Compilers, Running(c), process'[c].outcome = "success",
                      request[c].mode \in {"compile", "shell"}
               PROVE  LET object == Object(request[c])
                          executable == Executable(request[c])
                      IN /\ Present(object) /\ files[object] = Content(c, c, TRUE)
                         /\ \/ request[c].lib
                            \/ Present(executable) /\ files[executable] = Content(c, c, TRUE)
    BY <1>1 DEF Running
  <2>1. ~Done
    BY DEF Done, vars, Running
  <2>2. PICK d \in Compilers : Start(d) \/ Type(d) \/ Die(d) \/ Compile(d)
    BY <2>1 DEF Next
  <2>3. d = c
    BY <1>1, <2>2, OneMoves DEF DriverInductive, Running
  <2>4. process[c].pc = "return" /\ process[c].good = TRUE
    BY <1>1, <2>2, <2>3, OnlyReturnSucceeds DEF DriverInductive, TypeOK, ProcessType
  <2>5. OutputsOwned
    BY <1>1 DEF DriverInductive
  <2> QED BY <2>4, <2>5 DEF OutputsOwned, Emitted
<1> QED BY <1>1, InductiveInvariant, PTL DEF Spec, SuccessMeansBuilt
=============================================================================
