--------------------------- MODULE MCRichDocument ---------------------------
(* Three blocks in document order, and a viewport that scrolls between the *)
(* first two and the last two.                                             *)
EXTENDS RichDocument

CONSTANTS a, b, c

MCBlocks == {a, b, c}
MCRemote == {a}
MCViews == {{a, b}, {b, c}}

=============================================================================
