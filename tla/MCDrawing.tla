-------------------------------- MODULE MCDrawing --------------------------------
(* An atlas with two frames of one name, a looping and a fast animation,   *)
(* and two of one name, of which the second counts; a font with a page     *)
(* that is replaced, one that is missing and one that skips a number.      *)
EXTENDS Drawing

CONSTANTS idle, walk, jump, none, noframe, x, y, z

MCFrames == <<idle, walk, idle>>

Anim(n, rows, cols, fps, looping) ==
  [name |-> n, rows |-> rows, cols |-> cols, fps |-> fps, looping |-> looping]

MCAnims == <<Anim(idle, 1, 1, 1, FALSE), Anim(walk, 2, 2, 2, TRUE),
             Anim(jump, 1, 3, 5, FALSE), Anim(idle, 1, 3, 2, FALSE)>>

Page(n, valid) == [index |-> n, valid |-> valid]
Glyph(c, p, w) == [name |-> c, page |-> p, width |-> w]

MCFonts == {[pages |-> <<Page(1, TRUE), Page(0, TRUE), Page(3, TRUE), Page(1, TRUE)>>,
             glyphs |-> <<Glyph(x, 3, 1), Glyph(y, 1, 2), Glyph(x, 1, 3), Glyph(y, 4, 5)>>],
            [pages |-> <<Page(1, FALSE)>>, glyphs |-> <<Glyph(x, 1, 1)>>]}

MCStrings == {<<>>, <<x, y, x>>, <<z, x, z, y>>}

MCBounds == {[origin |-> <<1, 1>>, width |-> 8]}

MCPoints == {<<0, 0>>, <<1, 0>>}
================================================================================
