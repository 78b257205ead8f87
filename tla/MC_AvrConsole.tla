--------------------------- MODULE MC_AvrConsole ---------------------------
(* A small console for TLC; the text of main scrolls it once or not at all. *)
EXTENDS AvrConsole

Texts == {<<>>, <<"a", "newline", "b", "a">>}
=============================================================================
