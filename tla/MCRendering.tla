------------------------------ MODULE MCRendering -----------------------------
(***************************************************************************)
(* Rendering for TLC.  Up to three items, of which two strings, or a string*)
(* and a table, reach LMax in most modes.                                  *)
(***************************************************************************)
EXTENDS RenderingProps, TLC

CONSTANTS str, num

MCStrings == {str}
MCPlain == {num}
MCWidth == (str :> 5 @@ num :> 2)
===============================================================================
