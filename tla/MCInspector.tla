----------------------------- MODULE MCInspector -----------------------------
(* The inspector with one page: two files, of which one declares the       *)
(* symbol, batches of one and of two files, and a file the host lacks.     *)
EXTENDS InspectorPage

CONSTANTS lib, util, added

Both(x, y) == (lib :> x) @@ (util :> y)
MCWorkspaces == {Both(1, 1), Both(2, 2)}
MCDeclaring == {Both(1, 1), Both(1, 2)}
MCBatches == {util :> 2, Both(2, 2), added :> 1}
=============================================================================
