--------------------------- MODULE MCObjectCodegen ---------------------------
(* Lists of variables for `var`, which a configuration cannot write down. *)
EXTENDS ObjectCodegen

OneName == {<<"x">>}
=============================================================================
