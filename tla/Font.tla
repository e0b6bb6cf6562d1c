---------------------------------- MODULE Font ----------------------------------
(***************************************************************************)
(* Font.m: the pages and glyphs of a font, loaded element by element from  *)
(* its document, and the drawing of a string.                              *)
(*                                                                         *)
(* A page is a texture, which numbers its frames in the order they are     *)
(* added (Atlas.tla); the array of pages has holes where the document      *)
(* skips a number.  A glyph keeps the number of its page and of its frame  *)
(* there.  Elements with an attribute missing are skipped by the code and  *)
(* are not in Fonts.  A glyph on a hole sends addFrame: to an NSNull, which*)
(* raises an exception; such documents are left out.                       *)
(***************************************************************************)
EXTENDS Integers, Sequences, SequencesExt

CONSTANTS Fonts,       \* the documents: pages, and the glyphs cut out of them
          Characters,
          Strings      \* what scripts draw

Placed(f) == {p \in DOMAIN f.pages : f.pages[p].valid /\ f.pages[p].index >= 1}

(* The numbers of the pages that a document defines. *)
PagesOf(f) == {f.pages[p].index : p \in Placed(f)}

NoHoles(f) == \A g \in DOMAIN f.glyphs :
                f.glyphs[g].page \in PagesOf(f) \/ \A n \in PagesOf(f) : n < f.glyphs[g].page

ASSUME FontAssumption ==
  /\ \A f \in Fonts :
       /\ f.pages \in Seq([index : Int, valid : BOOLEAN])
       /\ f.glyphs \in Seq([name : Characters, page : Nat \ {0}, width : Nat])
       /\ NoHoles(f)
  /\ Strings \subseteq Seq(Characters)

VARIABLES font,        \* the document
          m_pages,     \* each page: its frames, none if it is a hole
          m_glyphs,    \* a dictionary from characters
          next         \* the element to load next

fontVars == <<font, m_pages, m_glyphs, next>>

FontInit == /\ font \in Fonts
            /\ m_pages = <<>>
            /\ m_glyphs = [c \in {} |-> <<>>]
            /\ next = 1

FontElements == Len(font.pages) + Len(font.glyphs)

FontLoaded == next > FontElements

(* What a frame shows: a page of the document (0: all of it) or a glyph. *)
Frame(p, g) == [page |-> p, glyph |-> g]

(* The array is filled up with holes, and the page put in its place. *)
WithPage(n, p) == [k \in 1 .. Max({Len(m_pages), n}) |->
                     IF k = n THEN <<Frame(p, 0)>>
                     ELSE IF k <= Len(m_pages) THEN m_pages[k] ELSE <<>>]

(* A page with an invalid number or file is skipped. *)
LoadPage ==
  /\ next \in DOMAIN font.pages
  /\ \/ next \notin Placed(font) /\ UNCHANGED m_pages
     \/ next \in Placed(font) /\ m_pages' = WithPage(font.pages[next].index, next)
  /\ next' = next + 1
  /\ UNCHANGED <<font, m_glyphs>>

(* Mutant: the frame is numbered after it was added. *)
NewGlyphLate(g) == [page |-> g.page, frame |-> Len(m_pages[g.page]) + 1, width |-> g.width]

NewGlyph(g) == [page |-> g.page, frame |-> Len(m_pages[g.page]), width |-> g.width]

(* A glyph on a page that does not exist is skipped; a later one of the    *)
(* same name takes its place.                                              *)
LoadGlyph ==
  /\ next \in Len(font.pages) + 1 .. FontElements
  /\ LET e == next - Len(font.pages)
         g == font.glyphs[e]
     IN  \/ /\ g.page > Len(m_pages)
            /\ UNCHANGED <<m_pages, m_glyphs>>
         \/ /\ g.page <= Len(m_pages)
            /\ m_pages' = [m_pages EXCEPT ![g.page] = Append(@, Frame(@[1].page, e))]
            /\ m_glyphs' = [c \in DOMAIN m_glyphs \cup {g.name} |->
                              IF c = g.name THEN NewGlyph(g) ELSE m_glyphs[c]]
  /\ next' = next + 1
  /\ UNCHANGED font

LoadFont == LoadPage \/ LoadGlyph

--------------------------------------------------------------------------------
(* Mutant: the pen moves before the glyph is drawn. *)
renderMoved(pen, c) ==
  IF c \notin DOMAIN m_glyphs THEN pen
  ELSE LET g == m_glyphs[c]
       IN  [at |-> pen.at + g.width,
            drawn |-> Append(pen.drawn, [shows |-> m_pages[g.page][g.frame + 1],
                                         at |-> pen.at + g.width])]

(* One character of a string: the glyph is drawn where the pen is, and the *)
(* pen moves on; a character without a glyph is skipped.                   *)
renderCharacter(pen, c) ==
  IF c \notin DOMAIN m_glyphs THEN pen
  ELSE LET g == m_glyphs[c]
       IN  [at |-> pen.at + g.width,
            drawn |-> Append(pen.drawn, [shows |-> m_pages[g.page][g.frame + 1],
                                         at |-> pen.at])]

render(string) == FoldLeft(renderCharacter, [at |-> 0, drawn |-> <<>>], string).drawn

--------------------------------------------------------------------------------
(* The elements of the document that count: the last of its number or name.*)
PageElement(n) == Max({p \in Placed(font) : font.pages[p].index = n})

GlyphsFor(c) == {g \in DOMAIN font.glyphs : /\ font.glyphs[g].name = c
                                            /\ font.glyphs[g].page \in PagesOf(font)}

GlyphElement(c) == font.glyphs[Max(GlyphsFor(c))]

(* A string drawn shows, for each character with a glyph, the frame cut    *)
(* for its last glyph element out of the last page of that number, as far  *)
(* from the origin as the characters before it are wide.                   *)
TextAsWritten ==
  FontLoaded =>
    \A s \in Strings :
      LET Shown == {i \in DOMAIN s : GlyphsFor(s[i]) # {}}
          Before(i) == {j \in Shown : j < i}
      IN  /\ Len(render(s)) = Cardinality(Shown)
          /\ \A i \in Shown :
               render(s)[Cardinality(Before(i)) + 1] =
                 [shows |-> Frame(PageElement(GlyphElement(s[i]).page), Max(GlyphsFor(s[i]))),
                  at |-> MapThenSumSet(LAMBDA j : GlyphElement(s[j]).width, Before(i))]
================================================================================
