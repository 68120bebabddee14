------------------------------ MODULE MCWorks -------------------------------
(***************************************************************************)
(* Works for TLC: the paths a plan may spell.                              *)
(***************************************************************************)
EXTENDS Works, TLC

MCPaths == {<<"src">>, <<".", "SRC", "api">>}
MCUpper == {"SRC"}
MCLower == "SRC" :> "src"

=============================================================================
