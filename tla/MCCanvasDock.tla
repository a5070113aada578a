----------------------------- MODULE MCCanvasDock -----------------------------
(***************************************************************************)
(* CanvasDock for TLC: two roles that share an application.                *)
(***************************************************************************)
EXTENDS CanvasDock

CONSTANTS editor, viewer, firefox, word
MCRoleList == <<editor, viewer>>
MCAppsOf == [r \in {editor, viewer} |-> IF r = editor THEN <<word, firefox>> ELSE <<firefox>>]
=============================================================================
