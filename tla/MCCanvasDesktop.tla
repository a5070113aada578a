--------------------------- MODULE MCCanvasDesktop ---------------------------
(***************************************************************************)
(* CanvasDesktop for TLC: two applications of a role with a drawer, and    *)
(* the two icons of the maximise button with the widths they have in the   *)
(* pack of regular icons.                                                  *)
(***************************************************************************)
EXTENDS CanvasDesktop

CONSTANTS firefox, word, editor
MCId == {<<firefox, editor>>, <<word, editor>>}

MCPlace == 0..MaxWindows
MCPack == [i \in {"far"} \X {"square", "clone"} |-> IF i[2] = "square" THEN 14 ELSE 16]
MCPage == <<Class("style", "far"), IconClass("square"), Class("page", "win-ctrl")>>
=============================================================================
