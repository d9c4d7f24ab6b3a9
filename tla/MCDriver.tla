------------------------------ MODULE MCDriver ------------------------------
(* Command lines, which a configuration cannot write down. *)
EXTENDS Driver

Request(mode, input, output, lib) ==
    [mode |-> mode, input |-> input, output |-> output, lib |-> lib]

(* Every mode, with and without a file, and two requests for each of the   *)
(* names a compilation writes by itself.                                   *)
CommandLines ==
    {Request("compile", "a", NoPath, FALSE),
     Request("compile", "b", <<"a", ".o">>, FALSE),
     Request("compile", "b", <<"b", ".lib">>, TRUE),
     Request("compile", NoInput, NoPath, FALSE),
     Request("shell", NoInput, NoPath, FALSE),
     Request("version", NoInput, NoPath, FALSE),
     Request("ast", "a", NoPath, FALSE),
     Request("llvm_ir", "b", NoPath, FALSE)}

TwoFiles ==
    {Request("compile", "a", NoPath, FALSE), Request("compile", "b", NoPath, FALSE)}
=============================================================================
