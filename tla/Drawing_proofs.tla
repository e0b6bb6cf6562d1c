----------------------------- MODULE Drawing_proofs -----------------------------
(***************************************************************************)
(* Proofs about Drawing.tla: what a sprite shows, in which order the cells *)
(* of an animation come, that the camera's projections below the top stay  *)
(* as they are, and what a string shows that a font draws, for any         *)
(* document, time steps, depth of the stack and string.                    *)
(***************************************************************************)
EXTENDS Drawing, SequenceTheorems, FiniteSetTheorems, TLAPS

(* The camera's blocks: those on the stack are the lowest addresses, in    *)
(* their order, so a new block is never one in use.                        *)
Stacked == /\ m_stack \in Seq(Nat) /\ Len(m_stack) \in 1 .. MaxStack
           /\ \A k \in 1 .. Len(m_stack) : m_stack[k] = k
           /\ DOMAIN bytes = 1 .. Len(m_stack)

(* What the numbers of an atlas that is being loaded stand for. *)
FramesUntil(n) == {i \in FramesNamed(n) : i < element}
AnimsUntil(n) == {i \in AnimsNamed(n) : Len(Frames) + i < element}

IsLatest(e, S) == e \in S /\ \A d \in S : d <= e

IsFrame(c, f, e) == f \in Nat /\ f < Len(c) /\ c[f + 1].of = e

IsAnim(c, a, e) ==
  /\ a \in Sequence /\ a.frame + a.len <= Len(c)
  /\ \A k \in 0 .. a.len - 1 : c[a.frame + k + 1] = Cell(e, k)

FramesRight ==
  \A n \in Names :
    \/ FramesUntil(n) = {} /\ m_frames[n] = None
    \/ \E i : IsLatest(i, FramesUntil(n)) /\ IsFrame(cells, m_frames[n], i)

AnimsRight ==
  \A n \in Names :
    \/ AnimsUntil(n) = {} /\ m_anims[n] = None
    \/ \E i : IsLatest(i, AnimsUntil(n)) /\ IsAnim(cells, m_anims[n], Len(Frames) + i)

Cells == [of : Nat, at : Nat]

AtlasInv ==
  /\ cells \in Seq(Cells) /\ element \in 0 .. Elements + 1
  /\ DOMAIN m_frames = Names /\ DOMAIN m_anims = Names
  /\ FramesRight /\ AnimsRight

SpriteInv ==
  /\ spawned \in BOOLEAN /\ m_atlas \in BOOLEAN /\ m_duration \in Nat
  /\ ~spawned => ~m_atlas /\ m_frame = NoFrame /\ shown = None
  /\ m_atlas => Loaded
  /\ Playing => /\ m_atlas /\ IsAnim(cells, m_anim, playing)
                /\ playing \in Len(Frames) + 1 .. Elements
  /\ m_atlas => \/ shown = None /\ m_frame = NoFrame
                \/ shown \in Nat /\ IsFrame(cells, m_frame, shown)

(* What an animation showed when it was advanced the last time, which was  *)
(* for the time before: no more than a frame ago, and it was not over.     *)
PlayedAt(a, t) == (t * a.fps) \div Second

Paced ==
  Playing /\ shown = playing /\ m_duration > 0 =>
    \E before \in Nat :
      /\ before <= m_duration /\ m_duration <= before + MaxDelta
      /\ m_anim.looping \/ PlayedAt(m_anim, before) < m_anim.len
      /\ m_frame = m_anim.frame + (PlayedAt(m_anim, before) % m_anim.len)

--------------------------------------------------------------------------------
(* Arithmetic. *)

LEMMA Products == \A a, b \in Nat \ {0} : a * b \in Nat \ {0}
OBVIOUS

LEMMA DivMod ==
  ASSUME NEW a \in Nat, NEW b \in Nat \ {0}
  PROVE  /\ a \div b \in Nat /\ a % b \in 0 .. b - 1
         /\ a = b * (a \div b) + (a % b)
OBVIOUS

(* Quotient and remainder are the only ones. *)
LEMMA DivUnique ==
  ASSUME NEW b \in Nat \ {0}, NEW q \in Nat, NEW r \in 0 .. b - 1,
         NEW p \in Nat, NEW t \in 0 .. b - 1, b * q + r = b * p + t
  PROVE  q = p /\ r = t
OBVIOUS

LEMMA DivGrows ==
  ASSUME NEW a \in Nat, NEW c \in Nat, NEW b \in Nat \ {0}, a <= c
  PROVE  a \div b <= c \div b
OBVIOUS

LEMMA DivNext ==
  ASSUME NEW a \in Nat, NEW c \in Nat, NEW b \in Nat \ {0}, c <= a + b
  PROVE  c \div b <= (a \div b) + 1
OBVIOUS

LEMMA ModNext ==
  ASSUME NEW a \in Nat, NEW b \in Nat \ {0}
  PROVE  (a + 1) % b = ((a % b) + 1) % b
<1> DEFINE q == a \div b
           r == a % b
<1>1. q \in Nat /\ r \in 0 .. b - 1 /\ a = b * q + r
  BY DivMod
<1> HIDE DEF q, r
<1>4. a + 1 \in Nat
  OBVIOUS
<1>5. /\ (a + 1) \div b \in Nat /\ (a + 1) % b \in 0 .. b - 1
      /\ a + 1 = b * ((a + 1) \div b) + ((a + 1) % b)
  BY <1>4, DivMod
<1>2. CASE r + 1 < b
  <2>2. r + 1 \in 0 .. b - 1 /\ b * q + (r + 1) = b * ((a + 1) \div b) + ((a + 1) % b)
    BY <1>1, <1>2, <1>5
  <2>3. (a + 1) % b = r + 1
    BY <1>1, <1>5, <2>2, DivUnique
  <2> QED
    BY <1>2, <2>2, <2>3 DEF r
<1>3. CASE r + 1 = b
  <2>2. 0 \in 0 .. b - 1 /\ q + 1 \in Nat
    BY <1>1
  <2>3. b * (q + 1) + 0 = b * ((a + 1) \div b) + ((a + 1) % b)
    BY <1>1, <1>3, <1>5
  <2>4. (a + 1) % b = 0
    BY <1>5, <2>2, <2>3, DivUnique
  <2>5. b % b = 0
    OBVIOUS
  <2> QED
    BY <1>3, <2>4, <2>5 DEF r
<1> QED
  BY <1>1, <1>2, <1>3

LEMMA ModSmall ==
  ASSUME NEW b \in Nat \ {0}, NEW a \in 0 .. b - 1
  PROVE  a % b = a
OBVIOUS

--------------------------------------------------------------------------------
(* The camera. *)

LEMMA FreshIsNext ==
  ASSUME Stacked, Len(m_stack) < MaxStack
  PROVE  Fresh = Len(m_stack) + 1
<1> DEFINE n == Len(m_stack) + 1
<1>1. n \in 1 .. MaxStack \ DOMAIN bytes /\ \A d \in 1 .. MaxStack \ DOMAIN bytes : n <= d
  BY CameraAssumption DEF Stacked
<1>2. \A d \in 1 .. MaxStack \ DOMAIN bytes : d \in Int
  OBVIOUS
<1> HIDE DEF n
<1>3. n \in Int
  BY <1>1, <1>2
<1>4. Min(1 .. MaxStack \ DOMAIN bytes) = n
  BY <1>1, <1>2, <1>3 DEF Min
<1> QED
  BY <1>4 DEF Fresh, n

(* A step of the camera keeps what is below the top. *)
BelowKept == \A k \in 1 .. Len(m_stack) - 1 :
               k \in DOMAIN m_stack' /\ bytes'[m_stack'[k]] = bytes[m_stack[k]]

LEMMA StackPush == ASSUME Stacked, push PROVE Stacked' /\ BelowKept
<1>1. Fresh = Len(m_stack) + 1 /\ Len(m_stack) \in Nat
  BY FreshIsNext DEF push, Stacked
<1>2. /\ m_stack' \in Seq(Nat) /\ Len(m_stack') = Len(m_stack) + 1
      /\ \A k \in 1 .. Len(m_stack) : m_stack'[k] = m_stack[k]
      /\ m_stack'[Len(m_stack) + 1] = Len(m_stack) + 1
  BY <1>1, AppendProperties DEF push, Stacked
<1>3. /\ DOMAIN bytes' = 1 .. Len(m_stack) + 1
      /\ \A b \in 1 .. Len(m_stack) : bytes'[b] = bytes[b]
  BY <1>1 DEF push, Stacked
<1>4. Stacked'
  BY <1>1, <1>2, <1>3, CameraAssumption DEF push, Stacked
<1>5. BelowKept
  <2>1. DOMAIN m_stack' = 1 .. Len(m_stack) + 1
    BY <1>2
  <2>2. \A k \in 1 .. Len(m_stack) : m_stack[k] = k
    BY DEF Stacked
  <2> QED
    BY <1>1, <1>2, <1>3, <2>1, <2>2 DEF BelowKept
<1> QED
  BY <1>4, <1>5

LEMMA StackPop == ASSUME Stacked, pop PROVE Stacked' /\ BelowKept
<1> DEFINE n == Len(m_stack) - 1
<1>1. n \in Nat /\ n >= 1 /\ n < MaxStack /\ MaxStack \in Nat
  BY CameraAssumption DEF pop, Stacked
<1>2. \A k \in 1 .. n : m_stack[k] = k /\ m_stack[k] \in Nat
  BY <1>1 DEF Stacked
<1>3. m_stack' = SubSeq(m_stack, 1, n)
  BY DEF pop, Front
<1> HIDE DEF n
<1>4. m_stack' \in Seq(Nat) /\ Len(m_stack') = n /\ \A k \in 1 .. n : m_stack'[k] = k
  <2>1. /\ SubSeq(m_stack, 1, n) \in Seq(Nat)
        /\ Len(SubSeq(m_stack, 1, n)) = IF 1 <= n THEN n - 1 + 1 ELSE 0
        /\ \A k \in 1 .. n - 1 + 1 : SubSeq(m_stack, 1, n)[k] = m_stack[1 + k - 1]
    BY <1>1, <1>2, SubSeqProperties
  <2> QED
    BY <1>1, <1>2, <1>3, <2>1
<1>5. DOMAIN m_stack' = 1 .. n
  BY <1>4
<1>6. Range(m_stack') = 1 .. n
  BY <1>4, <1>5 DEF Range
<1>7. DOMAIN bytes' = 1 .. n /\ \A b \in 1 .. n : bytes'[b] = bytes[b]
  BY <1>6 DEF pop, Restrict
<1>8. Stacked'
  BY <1>1, <1>4, <1>7 DEF Stacked
<1>9. BelowKept
  BY <1>2, <1>4, <1>5, <1>7 DEF BelowKept, n
<1> QED
  BY <1>8, <1>9

LEMMA StackWrite == ASSUME Stacked, NEW proj, Write(proj) PROVE Stacked' /\ BelowKept
<1>1. m_stack' = m_stack /\ Last(m_stack) = Len(m_stack)
  BY DEF Write, Stacked, Last
<1>2. DOMAIN bytes' = DOMAIN bytes /\ \A b \in DOMAIN bytes : b # Len(m_stack) => bytes'[b] = bytes[b]
  BY <1>1 DEF Write
<1>3. Stacked'
  BY <1>1, <1>2 DEF Stacked
<1>4. BelowKept
  BY <1>1, <1>2 DEF BelowKept, Stacked
<1> QED
  BY <1>3, <1>4

LEMMA StackStep ==
  ASSUME Stacked, CallCamera \/ UNCHANGED cameraVars
  PROVE  Stacked' /\ BelowKept
<1>1. CASE push
  BY <1>1, StackPush
<1>2. CASE pop
  BY <1>2, StackPop
<1>3. CASE \E proj : Write(proj)
  BY <1>3, StackWrite
<1>4. CASE UNCHANGED cameraVars
  BY <1>4 DEF cameraVars, Stacked, BelowKept
<1>5. ASSUME CallCamera PROVE push \/ pop \/ \E proj : Write(proj)
  BY <1>5 DEF CallCamera, setOrigin, setPosition, scroll, zoom
<1> QED
  BY <1>1, <1>2, <1>3, <1>4, <1>5

LEMMA StackInit == CameraInit => Stacked
BY CameraAssumption DEF CameraInit, Stacked

--------------------------------------------------------------------------------
(* The atlas. *)

LEMMA MaxIs ==
  ASSUME NEW S, S \subseteq Int, NEW e, IsLatest(e, S)
  PROVE  Max(S) = e /\ S # {}
<1>1. e \in S /\ \A d \in S : e >= d
  BY DEF IsLatest
<1>2. Max(S) \in S /\ \A d \in S : Max(S) >= d
  <2> HIDE <1>1
  <2>1. \E c \in S : \A d \in S : c >= d
    BY <1>1
  <2> QED
    BY <2>1, Zenon DEF Max
<1>3. e \in Int /\ Max(S) \in Int
  BY <1>1, <1>2
<1> QED
  BY <1>1, <1>2, <1>3

LEMMA DocumentTypes ==
  /\ Len(Frames) \in Nat /\ DOMAIN Frames = 1 .. Len(Frames)
  /\ \A k \in 1 .. Len(Frames) : Frames[k] \in Names
  /\ Len(Anims) \in Nat /\ DOMAIN Anims = 1 .. Len(Anims)
  /\ \A k \in 1 .. Len(Anims) :
       /\ Anims[k].name \in Names /\ Anims[k].rows * Anims[k].cols \in Nat \ {0}
       /\ Anims[k].fps \in Nat /\ Anims[k].looping \in BOOLEAN
  /\ Elements = Len(Frames) + Len(Anims)
  /\ None \notin Nat /\ None \notin Sequence
<1> DEFINE Doc == [name : Names, rows : Nat \ {0}, cols : Nat \ {0}, fps : Nat, looping : BOOLEAN]
<1>1. Anims \in Seq(Doc) /\ Frames \in Seq(Names) /\ None \notin Nat /\ None \notin Sequence
  BY AtlasAssumption
<1> HIDE DEF Doc
<1>2. \A k \in 1 .. Len(Anims) : Anims[k] \in Doc
  BY <1>1
<1>3. \A a \in Doc : /\ a.name \in Names /\ a.rows * a.cols \in Nat \ {0}
                     /\ a.fps \in Nat /\ a.looping \in BOOLEAN
  BY Products DEF Doc
<1> QED
  BY <1>1, <1>2, <1>3 DEF Elements

(* What a texture has been cut into stays as it is. *)
LEMMA Cut ==
  ASSUME cells \in Seq(Cells), cells' \in Seq(Cells), Len(cells') >= Len(cells),
         \A k \in 1 .. Len(cells) : cells'[k] = cells[k]
  PROVE  /\ \A f, e : IsFrame(cells, f, e) => IsFrame(cells', f, e)
         /\ \A a, e : IsAnim(cells, a, e) => IsAnim(cells', a, e)
<1>1. Len(cells) \in Nat /\ Len(cells') \in Nat
  OBVIOUS
<1>2. ASSUME NEW f, NEW e, IsFrame(cells, f, e) PROVE IsFrame(cells', f, e)
  BY <1>1, <1>2 DEF IsFrame
<1>3. ASSUME NEW a, NEW e, IsAnim(cells, a, e) PROVE IsAnim(cells', a, e)
  <2>1. /\ a \in Sequence /\ a.frame \in Nat /\ a.len \in Nat /\ a.frame + a.len <= Len(cells)
        /\ \A k \in 0 .. a.len - 1 : cells[a.frame + k + 1] = Cell(e, k)
    BY <1>3 DEF IsAnim, Sequence
  <2>2. ASSUME NEW k \in 0 .. a.len - 1 PROVE cells'[a.frame + k + 1] = Cell(e, k)
    <3>1. a.frame + k + 1 \in 1 .. Len(cells)
      BY <1>1, <2>1
    <3> QED
      BY <2>1, <3>1
  <2> QED
    BY <1>1, <2>1, <2>2 DEF IsAnim, Cell
<1> QED
  BY <1>2, <1>3

LEMMA AtlasTexture ==
  ASSUME AtlasInv, LoadTexture
  PROVE  AtlasInv'
<1>1. cells' \in Seq(Cells) /\ element' = 1 /\ element = 0
  BY DEF LoadTexture, Cells, Cell
<1>2. element' \in 0 .. Elements + 1
  BY <1>1, DocumentTypes
<1>3. ASSUME NEW n \in Names
      PROVE  /\ FramesUntil(n) = {} /\ FramesUntil(n)' = {}
             /\ AnimsUntil(n) = {} /\ AnimsUntil(n)' = {}
  BY <1>1, DocumentTypes DEF FramesUntil, AnimsUntil, FramesNamed, AnimsNamed
<1>4. \A n \in Names : m_frames[n] = None /\ m_anims[n] = None
  BY <1>3 DEF AtlasInv, FramesRight, AnimsRight, IsLatest
<1>5. FramesRight' /\ AnimsRight'
  BY <1>3, <1>4 DEF LoadTexture, FramesRight, AnimsRight
<1> QED
  BY <1>1, <1>2, <1>5 DEF AtlasInv, LoadTexture

LEMMA AtlasFrame ==
  ASSUME AtlasInv, LoadFrame
  PROVE  AtlasInv'
<1> DEFINE new == Frames[element]
<1>1. /\ element \in 1 .. Len(Frames) /\ element' = element + 1 /\ new \in Names
      /\ m_anims' = m_anims /\ DOMAIN m_frames' = Names
      /\ \A n \in Names : m_frames'[n] = IF n = new THEN Len(cells) ELSE m_frames[n]
  BY DocumentTypes DEF AtlasInv, LoadFrame, addFrame
<1>2. /\ cells \in Seq(Cells) /\ Cell(element, 0) \in Cells
      /\ cells' = Append(cells, Cell(element, 0))
  BY <1>1, DocumentTypes DEF AtlasInv, LoadFrame, Cells, Cell
<1>3. /\ cells' \in Seq(Cells) /\ Len(cells') = Len(cells) + 1
      /\ \A k \in 1 .. Len(cells) : cells'[k] = cells[k]
      /\ cells'[Len(cells) + 1] = Cell(element, 0) /\ Len(cells) \in Nat
  BY <1>2, AppendProperties
<1>4. /\ \A f, e : IsFrame(cells, f, e) => IsFrame(cells', f, e)
      /\ \A a, e : IsAnim(cells, a, e) => IsAnim(cells', a, e)
  BY <1>2, <1>3, Cut
<1>5. IsFrame(cells', Len(cells), element)
  BY <1>3 DEF IsFrame, Cell
<1>6. ASSUME NEW n \in Names
      PROVE  /\ FramesUntil(n)' = FramesUntil(n) \cup (IF n = new THEN {element} ELSE {})
             /\ AnimsUntil(n) = {} /\ AnimsUntil(n)' = {}
  <2>1. FramesUntil(n)' = FramesUntil(n) \cup (IF n = new THEN {element} ELSE {})
    BY <1>1, DocumentTypes DEF FramesUntil, FramesNamed
  <2>2. AnimsUntil(n) = {} /\ AnimsUntil(n)' = {}
    BY <1>1, DocumentTypes DEF AnimsUntil, AnimsNamed
  <2> QED
    BY <2>1, <2>2
<1>7. FramesRight'
  <2> SUFFICES ASSUME NEW n \in Names
               PROVE  \/ FramesUntil(n)' = {} /\ m_frames'[n] = None
                      \/ \E i : IsLatest(i, FramesUntil(n)') /\ IsFrame(cells', m_frames'[n], i)
    BY DEF FramesRight, IsLatest
  <2>1. CASE n = new
    <3>1. \A d \in FramesUntil(n) : d < element /\ d \in Nat
      BY DocumentTypes DEF FramesUntil, FramesNamed
    <3>2. IsLatest(element, FramesUntil(n)')
      BY <1>1, <1>6, <2>1, <3>1 DEF IsLatest
    <3> QED
      BY <1>1, <1>5, <2>1, <3>2 DEF IsFrame
  <2>2. CASE n # new
    <3>1. FramesUntil(n)' = FramesUntil(n) /\ m_frames'[n] = m_frames[n]
      BY <1>1, <1>6, <2>2
    <3> QED
      BY <1>4, <3>1 DEF AtlasInv, FramesRight
  <2> QED
    BY <2>1, <2>2
<1>8. AnimsRight'
  BY <1>1, <1>6 DEF AtlasInv, AnimsRight, IsLatest
<1>9. element' \in 0 .. Elements + 1
  BY <1>1, DocumentTypes
<1> QED
  BY <1>1, <1>3, <1>7, <1>8, <1>9 DEF AtlasInv

LEMMA AtlasAnim ==
  ASSUME AtlasInv, LoadAnim
  PROVE  AtlasInv'
<1> DEFINE at == element - Len(Frames)
           a == Anims[at]
           size == a.rows * a.cols
           added == [frame |-> Len(cells), len |-> size, fps |-> a.fps, looping |-> a.looping]
           new == [k \in 1 .. size |-> Cell(element, k - 1)]
<1>1. /\ at \in 1 .. Len(Anims) /\ element = Len(Frames) + at /\ element' = element + 1
      /\ element \in Nat /\ Len(Frames) \in Nat
      /\ a.name \in Names /\ size \in Nat \ {0} /\ a.fps \in Nat /\ a.looping \in BOOLEAN
  BY DocumentTypes DEF LoadAnim
<1>2. /\ m_frames' = m_frames /\ m_anims' = [m_anims EXCEPT ![a.name] = added]
      /\ cells' = cells \o new /\ cells \in Seq(Cells)
  BY DEF AtlasInv, LoadAnim, addFrame, addSpriteFrames
<1>3. /\ DOMAIN m_anims' = Names
      /\ \A n \in Names : m_anims'[n] = IF n = a.name THEN added ELSE m_anims[n]
  BY <1>1, <1>2 DEF AtlasInv
<1>4. new \in Seq(Cells) /\ Len(new) = size /\ \A k \in 1 .. size : new[k] = Cell(element, k - 1)
  <2>1. \A k \in 1 .. size : Cell(element, k - 1) \in Cells
    BY <1>1 DEF Cell, Cells
  <2> HIDE DEF size
  <2> QED
    BY <1>1, <2>1
<1> HIDE DEF new, size
<1>5. /\ cells' \in Seq(Cells) /\ Len(cells') = Len(cells) + size /\ Len(cells) \in Nat
      /\ \A k \in 1 .. Len(cells) + size :
           cells'[k] = IF k <= Len(cells) THEN cells[k] ELSE new[k - Len(cells)]
  <2>1. /\ cells \o new \in Seq(Cells) /\ Len(cells \o new) = Len(cells) + Len(new)
        /\ \A k \in 1 .. Len(cells) + Len(new) :
             (cells \o new)[k] = IF k <= Len(cells) THEN cells[k] ELSE new[k - Len(cells)]
    BY <1>2, <1>4, ConcatProperties, Zenon
  <2>2. Len(cells) \in Nat
    BY <1>2
  <2> QED
    BY <1>2, <1>4, <2>1, <2>2, Zenon
<1>6. /\ \A f, e : IsFrame(cells, f, e) => IsFrame(cells', f, e)
      /\ \A b, e : IsAnim(cells, b, e) => IsAnim(cells', b, e)
  <2>1. Len(cells') >= Len(cells) /\ \A k \in 1 .. Len(cells) : cells'[k] = cells[k]
    BY <1>1, <1>5
  <2> QED
    BY <1>2, <1>5, <2>1, Cut
<1>7. IsAnim(cells', added, element)
  <2>1. added \in Sequence /\ added.frame = Len(cells) /\ added.len = size
    BY <1>1, <1>5 DEF Sequence
  <2>2. ASSUME NEW k \in 0 .. size - 1 PROVE cells'[Len(cells) + k + 1] = Cell(element, k)
    <3>1. Len(cells) + k + 1 \in 1 .. Len(cells) + size /\ k + 1 \in 1 .. size
          /\ (Len(cells) + k + 1) - Len(cells) = k + 1 /\ ~(Len(cells) + k + 1 <= Len(cells))
          /\ (k + 1) - 1 = k
      BY <1>1, <1>5
    <3> QED
      BY <1>4, <1>5, <3>1
  <2> HIDE DEF added
  <2> QED
    BY <1>1, <1>5, <2>1, <2>2 DEF IsAnim, Cell
<1> HIDE DEF added
<1>8. ASSUME NEW n \in Names
      PROVE  /\ AnimsUntil(n)' = AnimsUntil(n) \cup (IF n = a.name THEN {at} ELSE {})
             /\ FramesUntil(n)' = FramesUntil(n)
  <2>1. AnimsUntil(n)' = AnimsUntil(n) \cup (IF n = a.name THEN {at} ELSE {})
    BY <1>1, DocumentTypes DEF AnimsUntil, AnimsNamed
  <2>2. FramesUntil(n)' = FramesUntil(n)
    BY <1>1, DocumentTypes DEF FramesUntil, FramesNamed
  <2> QED
    BY <2>1, <2>2
<1>9. AnimsRight'
  <2> SUFFICES ASSUME NEW n \in Names
               PROVE  \/ AnimsUntil(n)' = {} /\ m_anims'[n] = None
                      \/ \E i : IsLatest(i, AnimsUntil(n)') /\ IsAnim(cells', m_anims'[n], Len(Frames) + i)
    BY DEF AnimsRight, IsLatest
  <2>1. CASE n = a.name
    <3>1. \A d \in AnimsUntil(n) : d < at /\ d \in Nat
      BY <1>1, DocumentTypes DEF AnimsUntil, AnimsNamed
    <3>2. IsLatest(at, AnimsUntil(n)')
      BY <1>1, <1>8, <2>1, <3>1 DEF IsLatest
    <3>3. IsAnim(cells', m_anims'[n], Len(Frames) + at)
      BY <1>1, <1>3, <1>7, <2>1 DEF IsAnim
    <3> QED
      BY <3>2, <3>3
  <2>2. CASE n # a.name
    BY <1>3, <1>6, <1>8, <2>2 DEF AtlasInv, AnimsRight
  <2> QED
    BY <2>1, <2>2
<1>10. FramesRight'
  BY <1>2, <1>6, <1>8 DEF AtlasInv, FramesRight, IsLatest
<1>11. element' \in 0 .. Elements + 1
  BY <1>1, DocumentTypes
<1> QED
  BY <1>2, <1>3, <1>5, <1>9, <1>10, <1>11 DEF AtlasInv

LEMMA AtlasStep == ASSUME AtlasInv, Load PROVE AtlasInv'
BY AtlasTexture, AtlasFrame, AtlasAnim DEF Load

--------------------------------------------------------------------------------
(* The sprite. *)

(* What CellsInOrder says of a step. *)
InOrder ==
  GoesOn => /\ ~m_anim.looping => DrawnCell'.at >= DrawnCell.at
            /\ m_anim.fps * MaxDelta <= Second =>
                 DrawnCell'.at \in {DrawnCell.at, (DrawnCell.at + 1) % m_anim.len}

(* What the names in a complete atlas stand for. *)
LEMMA Named ==
  ASSUME AtlasInv, Loaded, NEW n \in Names
  PROVE  /\ \/ FrameElement(n) = None /\ m_frames[n] = None
            \/ /\ FrameElement(n) \in 1 .. Len(Frames)
               /\ IsFrame(cells, m_frames[n], FrameElement(n))
         /\ \/ AnimElement(n) = None /\ m_anims[n] = None
            \/ /\ AnimElement(n) \in Len(Frames) + 1 .. Elements
               /\ IsAnim(cells, m_anims[n], AnimElement(n))
<1>1. FramesUntil(n) = FramesNamed(n) /\ FramesNamed(n) \subseteq 1 .. Len(Frames)
  BY DocumentTypes DEF FramesUntil, FramesNamed, Loaded
<1>2. AnimsUntil(n) = AnimsNamed(n) /\ AnimsNamed(n) \subseteq 1 .. Len(Anims)
  BY DocumentTypes DEF AnimsUntil, AnimsNamed, Loaded
<1>3. \/ FrameElement(n) = None /\ m_frames[n] = None
      \/ FrameElement(n) \in 1 .. Len(Frames) /\ IsFrame(cells, m_frames[n], FrameElement(n))
  <2>1. CASE FramesUntil(n) = {} /\ m_frames[n] = None
    BY <1>1, <2>1 DEF FrameElement
  <2>2. ASSUME NEW e, IsLatest(e, FramesUntil(n)), IsFrame(cells, m_frames[n], e)
        PROVE  FrameElement(n) \in 1 .. Len(Frames) /\ IsFrame(cells, m_frames[n], FrameElement(n))
    <3>1. FramesNamed(n) \subseteq Int
      BY <1>1
    <3>2. Max(FramesNamed(n)) = e /\ FramesNamed(n) # {}
      BY <1>1, <2>2, <3>1, MaxIs
    <3>3. e \in 1 .. Len(Frames)
      BY <1>1, <2>2 DEF IsLatest
    <3> QED
      BY <2>2, <3>2, <3>3 DEF FrameElement
  <2> QED
    BY <2>1, <2>2 DEF AtlasInv, FramesRight
<1>4. \/ AnimElement(n) = None /\ m_anims[n] = None
      \/ /\ AnimElement(n) \in Len(Frames) + 1 .. Elements
         /\ IsAnim(cells, m_anims[n], AnimElement(n))
  <2>1. CASE AnimsUntil(n) = {} /\ m_anims[n] = None
    BY <1>2, <2>1 DEF AnimElement
  <2>2. ASSUME NEW e, IsLatest(e, AnimsUntil(n)), IsAnim(cells, m_anims[n], Len(Frames) + e)
        PROVE  /\ AnimElement(n) \in Len(Frames) + 1 .. Elements
               /\ IsAnim(cells, m_anims[n], AnimElement(n))
    <3>1. AnimsNamed(n) \subseteq Int
      BY <1>2
    <3>2. Max(AnimsNamed(n)) = e /\ AnimsNamed(n) # {}
      BY <1>2, <2>2, <3>1, MaxIs
    <3>3. e \in 1 .. Len(Anims)
      BY <1>2, <2>2 DEF IsLatest
    <3> QED
      BY <2>2, <3>2, <3>3, DocumentTypes DEF AnimElement
  <2> QED
    BY <2>1, <2>2 DEF AtlasInv, AnimsRight
<1> QED
  BY <1>3, <1>4

LEMMA SpriteSpawn ==
  ASSUME AtlasInv, SpriteInv, Paced, Spawn
  PROVE  SpriteInv' /\ Paced' /\ InOrder
<1>1. ~m_atlas /\ ~Playing /\ m_frame = NoFrame /\ shown = None
  BY DEF SpriteInv, Spawn
<1>2. UNCHANGED <<cells, element, m_frame, m_anim, m_duration, playing, shown>>
      /\ spawned' = TRUE /\ m_atlas' = Loaded
  BY DEF Spawn, atlasVars
<1>3. SpriteInv'
  BY <1>1, <1>2 DEF SpriteInv, Playing, Loaded
<1>4. Paced' /\ InOrder
  BY <1>1, <1>2 DEF Paced, InOrder, GoesOn, Playing
<1> QED
  BY <1>3, <1>4

LEMMA SpriteFrame ==
  ASSUME AtlasInv, SpriteInv, Paced, NEW n \in Names, setFrame(n)
  PROVE  SpriteInv' /\ Paced' /\ InOrder
<1>1. UNCHANGED <<cells, element, spawned, m_atlas, m_anim, m_duration, playing>>
      /\ spawned /\ shown' = FrameElement(n) /\ m_frame' = frameNamed(n)
  BY DEF setFrame, atlasVars
<1>2. CASE ~m_atlas
  BY <1>1, <1>2 DEF SpriteInv, Paced, InOrder, GoesOn, Playing
<1>3. CASE m_atlas
  <2>1. \/ shown' = None /\ m_frames[n] = None
        \/ shown' \in 1 .. Len(Frames) /\ IsFrame(cells, m_frames[n], shown')
    BY <1>1, <1>3, Named DEF SpriteInv
  <2>2. \/ shown' = None /\ m_frame' = NoFrame
        \/ shown' \in 1 .. Len(Frames) /\ IsFrame(cells', m_frame', shown')
    BY <1>1, <1>3, <2>1, DocumentTypes DEF frameNamed, IsFrame
  <2>3. Playing => shown' # playing
    BY <2>2, DocumentTypes DEF SpriteInv
  <2>4. SpriteInv'
    BY <1>1, <1>3, <2>2, DocumentTypes DEF SpriteInv, Playing, Loaded
  <2>5. Paced' /\ InOrder
    BY <1>1, <2>3 DEF Paced, InOrder, GoesOn, Playing
  <2> QED
    BY <2>4, <2>5
<1> QED
  BY <1>2, <1>3

LEMMA SpritePlays ==
  ASSUME AtlasInv, SpriteInv, Paced, NEW n \in Names, playAnim(n)
  PROVE  SpriteInv' /\ Paced' /\ InOrder
<1>1. UNCHANGED <<cells, element, spawned, m_atlas, m_frame, shown>>
      /\ spawned /\ m_duration' = 0 /\ playing' = AnimElement(n) /\ m_anim' = animNamed(n)
  BY DEF playAnim, atlasVars
<1>2. Playing' => /\ m_atlas' /\ IsAnim(cells', m_anim', playing')
                  /\ playing' \in Len(Frames) + 1 .. Elements
  BY <1>1, Named DEF SpriteInv, Playing, animNamed
<1>3. SpriteInv'
  BY <1>1, <1>2 DEF SpriteInv, Loaded
<1>4. Paced' /\ InOrder
  BY <1>1 DEF Paced, InOrder, GoesOn, SpriteInv
<1> QED
  BY <1>3, <1>4

LEMMA PlayedGrows ==
  ASSUME NEW t \in Nat, NEW u \in Nat, NEW f \in Nat, t <= u
  PROVE  /\ t * f \in Nat /\ u * f \in Nat /\ t * f <= u * f
         /\ \A d \in Nat : u <= t + d => u * f <= t * f + f * d
<1>1. t * f \in Nat /\ u * f \in Nat
  OBVIOUS
<1>2. \A c \in Nat : (t + c) * f = t * f + f * c /\ f * c \in Nat
  OBVIOUS
<1>3. PICK c \in Nat : u = t + c
  <2> WITNESS u - t \in Nat
  <2> QED
    OBVIOUS
<1>4. ASSUME NEW d \in Nat, u <= t + d PROVE u * f <= t * f + f * d
  <2>1. d - c \in Nat
    BY <1>3, <1>4
  <2>2. f * (d - c) \in Nat /\ f * d = f * c + f * (d - c)
    BY <2>1
  <2> QED
    BY <1>1, <1>2, <1>3, <2>2
<1> QED
  BY <1>1, <1>2, <1>3, <1>4

(* The cell that an animation is at. *)
LEMMA AnimCell ==
  ASSUME AtlasInv, NEW a, NEW e, IsAnim(cells, a, e), NEW k \in 0 .. a.len - 1, e \in Nat
  PROVE  /\ IsFrame(cells, a.frame + k, e)
         /\ cells[a.frame + k + 1].at = k
<1>1. /\ a.frame \in Nat /\ a.len \in Nat /\ a.frame + a.len <= Len(cells)
      /\ cells[a.frame + k + 1] = Cell(e, k) /\ Len(cells) \in Nat
  BY DEF IsAnim, Sequence, AtlasInv
<1> QED
  BY <1>1 DEF IsFrame, Cell

LEMMA SpriteAdvance ==
  ASSUME AtlasInv, SpriteInv, Paced, NEW d \in 0 .. MaxDelta, advance(d)
  PROVE  SpriteInv' /\ Paced' /\ InOrder
<1> DEFINE len == m_anim.len
           P == PlayedAt(m_anim, m_duration)
           k == IF Over THEN len - 1 ELSE P % len
<1>1. /\ UNCHANGED <<cells, element, spawned, m_atlas, playing>>
      /\ Playing /\ spawned /\ m_frame' = Current /\ shown' = playing
      /\ m_anim' = (IF Over THEN None ELSE m_anim) /\ m_duration' = m_duration + d
  BY DEF advance, atlasVars
<1>2. /\ m_atlas /\ Loaded /\ IsAnim(cells, m_anim, playing) /\ m_duration \in Nat
      /\ playing \in Len(Frames) + 1 .. Elements /\ playing \in Nat
      /\ len \in Nat \ {0} /\ m_anim.frame \in Nat /\ m_anim.fps \in Nat
      /\ m_anim.looping \in BOOLEAN
      /\ Second \in Nat \ {0} /\ MaxDelta \in Nat /\ d \in Nat /\ m_duration' \in Nat
  BY <1>1, SpriteAssumption, DocumentTypes DEF SpriteInv, IsAnim, Sequence
<1> HIDE DEF len
<1>3. P \in Nat /\ P % len \in 0 .. len - 1
  <2>1. m_duration * m_anim.fps \in Nat
    BY <1>2
  <2>2. P \in Nat
    BY <1>2, <2>1, DivMod DEF PlayedAt
  <2> QED
    BY <1>2, <2>2, DivMod
<1>4. Played = P /\ (Over <=> ~m_anim.looping /\ P >= len)
  BY DEF Played, PlayedAt, Over, len
<1>5. k \in 0 .. len - 1 /\ Current = m_anim.frame + k
  BY <1>2, <1>3, <1>4 DEF Current, len
<1>6. IsFrame(cells, m_frame', playing) /\ DrawnCell'.at = k
  <2>1. k \in 0 .. m_anim.len - 1
    BY <1>5 DEF len
  <2>2. IsFrame(cells, m_anim.frame + k, playing) /\ cells[m_anim.frame + k + 1].at = k
    BY <1>2, <2>1, AnimCell
  <2> QED
    BY <1>1, <1>5, <2>2 DEF DrawnCell
<1>7. SpriteInv'
  <2>1. IsFrame(cells', m_frame', shown') /\ shown' \in Nat
    BY <1>1, <1>2, <1>6
  <2>2. Playing' => m_anim' = m_anim
    BY <1>1 DEF Playing
  <2> QED
    BY <1>1, <1>2, <2>1, <2>2 DEF SpriteInv, Loaded
<1>8. Paced'
  <2> SUFFICES ASSUME Playing'
               PROVE  \E before \in Nat :
                        /\ before <= m_duration' /\ m_duration' <= before + MaxDelta
                        /\ m_anim'.looping \/ PlayedAt(m_anim', before) < m_anim'.len
                        /\ m_frame' = m_anim'.frame + (PlayedAt(m_anim', before) % m_anim'.len)
    BY DEF Paced, PlayedAt
  <2>1. ~Over /\ m_anim' = m_anim
    BY <1>1 DEF Playing
  <2>2. m_anim.looping \/ P < len
    BY <1>2, <1>3, <1>4, <2>1
  <2>3. m_frame' = m_anim.frame + (P % len)
    BY <1>1, <1>5, <2>1
  <2>4. m_duration <= m_duration' /\ m_duration' <= m_duration + MaxDelta
    BY <1>1, <1>2
  <2> QED
    BY <1>2, <2>1, <2>2, <2>3, <2>4 DEF len
<1>9. InOrder
  <2> SUFFICES ASSUME GoesOn
               PROVE  /\ ~m_anim.looping => DrawnCell'.at >= DrawnCell.at
                      /\ m_anim.fps * MaxDelta <= Second =>
                           DrawnCell'.at \in {DrawnCell.at, (DrawnCell.at + 1) % m_anim.len}
    BY DEF InOrder
  <2>1. PICK t \in Nat :
          /\ t <= m_duration /\ m_duration <= t + MaxDelta
          /\ m_anim.looping \/ PlayedAt(m_anim, t) < m_anim.len
          /\ m_frame = m_anim.frame + (PlayedAt(m_anim, t) % m_anim.len)
    BY DEF GoesOn, Paced
  <2> DEFINE Q == PlayedAt(m_anim, t)
  <2>2. /\ t * m_anim.fps \in Nat /\ m_duration * m_anim.fps \in Nat
        /\ t * m_anim.fps <= m_duration * m_anim.fps
        /\ m_duration * m_anim.fps <= t * m_anim.fps + m_anim.fps * MaxDelta
    BY <1>2, <2>1, PlayedGrows
  <2>3. Q \in Nat /\ Q <= P
    BY <1>2, <2>2, DivMod, DivGrows DEF PlayedAt
  <2>4. m_anim.fps * MaxDelta <= Second => P <= Q + 1
    <3>1. ASSUME m_anim.fps * MaxDelta <= Second
          PROVE  m_duration * m_anim.fps <= t * m_anim.fps + Second
      <4>1. m_anim.fps * MaxDelta \in Nat
        BY <1>2
      <4>2. \A a, b, c, e \in Nat : a <= b + c /\ c <= e => a <= b + e
        OBVIOUS
      <4> QED
        BY <1>2, <2>2, <3>1, <4>1, <4>2, Zenon
    <3> QED
      BY <1>2, <2>2, <3>1, DivNext DEF PlayedAt
  <2> HIDE DEF P, Q
  <2>5. Q % len \in 0 .. len - 1 /\ DrawnCell.at = Q % len
    <3>1. Q % len \in 0 .. len - 1
      BY <1>2, <2>3, DivMod
    <3>2. cells[m_anim.frame + (Q % len) + 1].at = Q % len
      BY <1>2, <3>1, AnimCell DEF len
    <3> QED
      BY <2>1, <3>1, <3>2 DEF DrawnCell, len, Q
  <2>6. m_anim.looping \/ (Q < len /\ Q % len = Q)
    BY <1>2, <2>1, <2>3, ModSmall DEF Q, len
  <2>7. CASE Over
    <3>1. k = len - 1 /\ ~m_anim.looping /\ P >= len
      BY <1>4, <2>7
    <3>2. Q % len = Q /\ Q < len
      BY <2>6, <3>1
    <3>3. P <= Q + 1 => Q = len - 1
      BY <1>2, <1>3, <2>3, <3>1, <3>2
    <3> QED
      BY <1>2, <1>6, <2>3, <2>4, <2>5, <3>1, <3>2, <3>3
  <2>8. CASE ~Over
    <3>1. k = P % len
      BY <2>8
    <3>2. ~m_anim.looping => P < len /\ P % len = P
      <4>1. ASSUME ~m_anim.looping PROVE P < len
        BY <1>2, <1>3, <1>4, <2>8, <4>1
      <4>2. ASSUME P < len PROVE P \in 0 .. len - 1
        BY <1>2, <1>3, <4>2
      <4> QED
        BY <1>2, <4>1, <4>2, ModSmall
    <3>3. ~m_anim.looping => k >= Q % len
      BY <1>3, <2>3, <2>6, <3>1, <3>2
    <3>4. P <= Q + 1 => k = Q % len \/ k = ((Q % len) + 1) % len
      <4>1. ASSUME P <= Q + 1 PROVE P = Q \/ P = Q + 1
        BY <1>3, <2>3, <4>1
      <4>2. (Q + 1) % len = ((Q % len) + 1) % len
        BY <1>2, <2>3, ModNext
      <4> QED
        BY <3>1, <4>1, <4>2
    <3> QED
      BY <1>6, <2>4, <2>5, <3>3, <3>4 DEF len
  <2> QED
    BY <2>7, <2>8
<1> QED
  BY <1>7, <1>8, <1>9

--------------------------------------------------------------------------------
(* The whole. *)

Pictures == AtlasInv /\ SpriteInv /\ Paced

LEMMA PicturesLoad ==
  ASSUME Pictures, Load, UNCHANGED spriteVars
  PROVE  Pictures' /\ InOrder
<1>1. ~Loaded
  BY DocumentTypes DEF Load, LoadTexture, LoadFrame, LoadAnim, Loaded
<1>2. ~m_atlas /\ ~Playing /\ ~m_atlas' /\ ~Playing'
  BY <1>1 DEF Pictures, SpriteInv, spriteVars, Playing
<1>3. AtlasInv'
  BY AtlasStep DEF Pictures
<1>4. SpriteInv'
  BY <1>2 DEF Pictures, SpriteInv, spriteVars
<1>5. Paced' /\ InOrder
  BY <1>2 DEF Paced, InOrder, GoesOn
<1> QED
  BY <1>3, <1>4, <1>5 DEF Pictures

LEMMA PicturesSame ==
  ASSUME Pictures, UNCHANGED <<atlasVars, spriteVars>>
  PROVE  Pictures'
<1> USE DEF atlasVars, spriteVars
<1>1. AtlasInv'
  BY DEF Pictures, AtlasInv, FramesRight, AnimsRight, FramesUntil, AnimsUntil
<1>2. SpriteInv'
  BY DEF Pictures, SpriteInv, Playing, Loaded
<1>3. Paced'
  BY DEF Pictures, Paced, Playing
<1> QED
  BY <1>1, <1>2, <1>3 DEF Pictures

LEMMA PicturesCall ==
  ASSUME Pictures, CallSprite \/ \E d \in 0 .. MaxDelta : advance(d)
  PROVE  Pictures' /\ InOrder
<1>1. UNCHANGED atlasVars
  BY DEF CallSprite, Spawn, setFrame, playAnim, advance
<1>2. AtlasInv'
  BY <1>1 DEF atlasVars, Pictures, AtlasInv, FramesRight, AnimsRight, FramesUntil, AnimsUntil
<1>3. SpriteInv' /\ Paced' /\ InOrder
  BY SpriteSpawn, SpriteFrame, SpritePlays, SpriteAdvance DEF Pictures, CallSprite
<1> QED
  BY <1>2, <1>3 DEF Pictures

(* What a step is to the pictures and to the camera. *)
LEMMA Steps ==
  ASSUME [Next]_vars
  PROVE  /\ \/ Load /\ UNCHANGED spriteVars
            \/ UNCHANGED <<atlasVars, spriteVars>>
            \/ CallSprite
            \/ \E d \in 0 .. MaxDelta : advance(d)
         /\ CallCamera \/ UNCHANGED cameraVars
<1>1. 0 \in 0 .. MaxDelta /\ 1 .. MaxDelta \subseteq 0 .. MaxDelta
  BY SpriteAssumption
<1>2. ASSUME NEW d \in 0 .. MaxDelta, Advance(d)
      PROVE  /\ UNCHANGED <<atlasVars, spriteVars>> \/ \E u \in 0 .. MaxDelta : advance(u)
             /\ UNCHANGED cameraVars
  BY <1>2 DEF Advance
<1>3. CASE Render \/ EndGui \/ Call \/ LoadAssets \/ UNCHANGED vars
  BY <1>3 DEF Render, EndGui, Call, LoadAssets, vars
<1> QED
  BY <1>1, <1>2, <1>3 DEF Next, FrameStep, TimePasses

LEMMA InitPictures == Init => Pictures
<1> SUFFICES ASSUME Init PROVE Pictures
  OBVIOUS
<1> USE DEF Init, AtlasInit, SpriteInit
<1>1. AtlasInv
  <2>1. \A n \in Names : FramesUntil(n) = {} /\ AnimsUntil(n) = {}
    BY DocumentTypes DEF FramesUntil, AnimsUntil, FramesNamed, AnimsNamed
  <2>2. FramesRight /\ AnimsRight
    BY <2>1 DEF FramesRight, AnimsRight
  <2> QED
    BY <2>2, DocumentTypes DEF AtlasInv
<1>2. SpriteInv /\ Paced
  BY DEF SpriteInv, Paced, Playing
<1> QED
  BY <1>1, <1>2 DEF Pictures

(* The numbers of an atlas stand for what its document says. *)
THEOREM Numbering == Spec => []Pictures
<1>1. Pictures /\ [Next]_vars => Pictures'
  BY Steps, PicturesLoad, PicturesSame, PicturesCall
<1> QED
  BY InitPictures, <1>1, PTL DEF Spec

(* In spite of the order of loading, names stand for the cells that the    *)
(* document has for them, in every atlas a sprite can have.                *)
THEOREM Finding == Spec => []NamesFindTheirCells
<1>1. Pictures => NamesFindTheirCells
  <2> SUFFICES ASSUME Pictures, m_atlas, NEW n \in Names
               PROVE  /\ IF FrameElement(n) = None
                         THEN frameNamed(n) = NoFrame
                         ELSE /\ frameNamed(n) < Len(cells)
                              /\ cells[frameNamed(n) + 1].of = FrameElement(n)
                      /\ IF AnimElement(n) = None
                         THEN animNamed(n) = None
                         ELSE LET a == animNamed(n)
                              IN  /\ a.frame + a.len <= Len(cells)
                                  /\ \A k \in 0 .. a.len - 1 :
                                       cells[a.frame + k + 1] = Cell(AnimElement(n), k)
    BY DEF NamesFindTheirCells
  <2>1. AtlasInv /\ Loaded
    BY DEF Pictures, SpriteInv
  <2>2. None \notin Nat /\ 1 .. Len(Frames) \subseteq Nat
        /\ Len(Frames) + 1 .. Elements \subseteq Nat
    BY AtlasAssumption, DocumentTypes
  <2>3. IF FrameElement(n) = None
        THEN frameNamed(n) = NoFrame
        ELSE frameNamed(n) < Len(cells) /\ cells[frameNamed(n) + 1].of = FrameElement(n)
    <3>1. CASE FrameElement(n) = None /\ m_frames[n] = None
      BY <3>1 DEF frameNamed
    <3>2. CASE FrameElement(n) \in 1 .. Len(Frames) /\ IsFrame(cells, m_frames[n], FrameElement(n))
      BY <2>2, <3>2 DEF frameNamed, IsFrame
    <3> QED
      BY <2>1, <3>1, <3>2, Named
  <2>4. CASE AnimElement(n) = None /\ m_anims[n] = None
    BY <2>3, <2>4 DEF animNamed
  <2>5. CASE /\ AnimElement(n) \in Len(Frames) + 1 .. Elements
             /\ IsAnim(cells, m_anims[n], AnimElement(n))
    BY <2>2, <2>3, <2>5 DEF animNamed, IsAnim
  <2> QED
    BY <2>1, <2>4, <2>5, Named
<1> QED
  BY <1>1, Numbering, PTL

(* The last cell of an animation: what the step that ends it shows. *)
LEMMA LastCell ==
  ASSUME Pictures, NEW d \in 0 .. MaxDelta, advance(d), ~Playing'
  PROVE  Drawn' /\ DrawnCell' = Cell(playing, m_anim.len - 1)
<1>1. /\ Playing /\ m_atlas /\ m_atlas' = m_atlas /\ cells' = cells
      /\ IsAnim(cells, m_anim, playing)
  BY DEF Pictures, SpriteInv, advance, atlasVars
<1>2. m_frame' = m_anim.frame + m_anim.len - 1
  BY <1>1 DEF advance, Current, Playing
<1>3. /\ m_anim.frame \in Nat /\ m_anim.len \in Nat \ {0}
      /\ m_anim.frame + m_anim.len <= Len(cells) /\ Len(cells) \in Nat
      /\ \A k \in 0 .. m_anim.len - 1 : cells[m_anim.frame + k + 1] = Cell(playing, k)
  BY <1>1 DEF IsAnim, Sequence, Pictures, AtlasInv
<1>4. /\ m_frame' \in Nat /\ m_frame' < Len(cells) /\ m_frame' # NoFrame
      /\ m_frame' + 1 = m_anim.frame + (m_anim.len - 1) + 1
      /\ m_anim.len - 1 \in 0 .. m_anim.len - 1
  BY <1>2, <1>3, SpriteAssumption
<1> QED
  BY <1>1, <1>3, <1>4 DEF Drawn, DrawnCell

(* An animation that is over leaves its last cell, for every rate, every   *)
(* sequence of time steps and whatever frames scripts set.                 *)
THEOREM Stopping == Spec => StopsOnLast
<1>1. ASSUME Pictures, [Next]_vars, m_duration' > 0, Playing, ~Playing'
      PROVE  Drawn' /\ DrawnCell' = Cell(playing, m_anim.len - 1)
  <2>1. CASE Load /\ UNCHANGED spriteVars
    BY <1>1, <2>1 DEF spriteVars, Playing
  <2>2. CASE UNCHANGED <<atlasVars, spriteVars>>
    BY <1>1, <2>2 DEF spriteVars, Playing
  <2>3. CASE CallSprite
    BY <1>1, <2>3 DEF CallSprite, Spawn, setFrame, playAnim, Playing
  <2>4. CASE \E d \in 0 .. MaxDelta : advance(d)
    BY <1>1, <2>4, LastCell
  <2> QED
    BY <1>1, <2>1, <2>2, <2>3, <2>4, Steps
<1>2. Pictures /\ [Next]_vars =>
        [m_duration' > 0 /\ Playing /\ ~Playing' =>
           Drawn' /\ DrawnCell' = Cell(playing, m_anim.len - 1)]_<<atlasVars, spriteVars>>
  BY <1>1
<1> QED
  BY <1>2, Numbering, PTL DEF Spec, StopsOnLast

(* The cells of an animation come in their order, for every rate and every *)
(* sequence of time steps.                                                 *)
THEOREM Ordering == Spec => CellsInOrder
<1>1. Pictures /\ [Next]_vars => InOrder \/ UNCHANGED <<atlasVars, spriteVars>>
  BY Steps, PicturesLoad, PicturesCall
<1>2. Pictures /\ [Next]_vars =>
        [GoesOn => /\ ~m_anim.looping => DrawnCell'.at >= DrawnCell.at
                   /\ m_anim.fps * MaxDelta <= Second =>
                        DrawnCell'.at \in {DrawnCell.at, (DrawnCell.at + 1) % m_anim.len}]_<<atlasVars, spriteVars>>
  BY <1>1 DEF InOrder
<1> QED
  BY <1>2, Numbering, PTL DEF Spec, CellsInOrder

(* A script that writes to the projection on top changes no other, however *)
(* deep the stack.                                                         *)
THEOREM Below == Spec => OnlyTopChanges
<1>1. Init => Stacked
  BY StackInit DEF Init
<1>2. Stacked /\ [Next]_vars => Stacked' /\ BelowKept
  BY Steps, StackStep
<1>3. BelowKept => [\A k \in 1 .. Len(m_stack) - 1 :
                      k \in DOMAIN m_stack' /\ bytes'[m_stack'[k]] = bytes[m_stack[k]]]_cameraVars
  BY DEF BelowKept
<1> QED
  BY <1>1, <1>2, <1>3, PTL DEF Spec, OnlyTopChanges

(* What the pages and glyphs of a font that is being loaded stand for. *)
PagesUntil(n) == {p \in Placed(font) : font.pages[p].index = n /\ p < next}
GlyphsUntil(c) == {g \in GlyphsFor(c) : Len(font.pages) + g < next}

Shapes == [page : Nat, glyph : Nat]

PagesRight ==
  /\ m_pages \in Seq(Seq(Shapes))
  /\ \A p \in Placed(font) : p < next => font.pages[p].index <= Len(m_pages)
  /\ Len(m_pages) > 0 => \E p \in Placed(font) : p < next /\ font.pages[p].index = Len(m_pages)
  /\ \A k \in 1 .. Len(m_pages) :
       \/ PagesUntil(k) = {} /\ m_pages[k] = <<>>
       \/ \E p : /\ IsLatest(p, PagesUntil(k))
                 /\ Len(m_pages[k]) > 0 /\ m_pages[k][1] = Frame(p, 0)

IsGlyph(gl, g) ==
  /\ gl.page = font.glyphs[g].page /\ gl.width = font.glyphs[g].width
  /\ gl.page \in 1 .. Len(m_pages)
  /\ gl.frame \in Nat /\ gl.frame < Len(m_pages[gl.page])
  /\ m_pages[gl.page][gl.frame + 1] = Frame(m_pages[gl.page][1].page, g)

GlyphsRight ==
  /\ \A c \in Characters :
       \/ GlyphsUntil(c) = {} /\ c \notin DOMAIN m_glyphs
       \/ \E g : IsLatest(g, GlyphsUntil(c)) /\ c \in DOMAIN m_glyphs /\ IsGlyph(m_glyphs[c], g)

FontInv == /\ font \in Fonts /\ next \in 1 .. FontElements + 1
           /\ PagesRight /\ GlyphsRight

LEMMA FontTypes ==
  ASSUME font \in Fonts
  PROVE  /\ Len(font.pages) \in Nat /\ DOMAIN font.pages = 1 .. Len(font.pages)
         /\ Placed(font) \subseteq 1 .. Len(font.pages)
         /\ \A p \in Placed(font) : font.pages[p].index \in Nat /\ font.pages[p].index >= 1
         /\ Len(font.glyphs) \in Nat /\ DOMAIN font.glyphs = 1 .. Len(font.glyphs)
         /\ \A g \in 1 .. Len(font.glyphs) :
              /\ font.glyphs[g].name \in Characters
              /\ font.glyphs[g].page \in Nat /\ font.glyphs[g].page >= 1
              /\ font.glyphs[g].width \in Nat
         /\ NoHoles(font)
<1> DEFINE P == [index : Int, valid : BOOLEAN]
           G == [name : Characters, page : Nat \ {0}, width : Nat]
<1>1. font.pages \in Seq(P) /\ font.glyphs \in Seq(G) /\ NoHoles(font)
  BY FontAssumption
<1> HIDE DEF P, G
<1>2. /\ \A p \in 1 .. Len(font.pages) : font.pages[p] \in P
      /\ \A g \in 1 .. Len(font.glyphs) : font.glyphs[g] \in G
      /\ Len(font.pages) \in Nat /\ DOMAIN font.pages = 1 .. Len(font.pages)
      /\ Len(font.glyphs) \in Nat /\ DOMAIN font.glyphs = 1 .. Len(font.glyphs)
  BY <1>1
<1>3. /\ Placed(font) \subseteq 1 .. Len(font.pages)
      /\ \A p \in Placed(font) : font.pages[p].index \in Nat /\ font.pages[p].index >= 1
  BY <1>2 DEF P, Placed
<1>4. \A g \in 1 .. Len(font.glyphs) :
        /\ font.glyphs[g].name \in Characters
        /\ font.glyphs[g].page \in Nat /\ font.glyphs[g].page >= 1
        /\ font.glyphs[g].width \in Nat
  BY <1>2 DEF G
<1> QED
  BY <1>1, <1>2, <1>3, <1>4

LEMMA FontStart == FontInit => FontInv
<1> SUFFICES ASSUME FontInit PROVE FontInv
  OBVIOUS
<1>1. /\ font \in Fonts /\ next = 1 /\ m_pages = <<>> /\ DOMAIN m_glyphs = {}
      /\ Len(font.pages) \in Nat /\ Len(font.glyphs) \in Nat
  BY FontTypes DEF FontInit
<1>2. FontElements \in Nat
  <2>1. \A a, b \in Nat : a + b \in Nat
    OBVIOUS
  <2> QED
    BY <1>1, <2>1, Zenon DEF FontElements
<1>3. \A c : GlyphsUntil(c) = {}
  BY <1>1, FontTypes DEF GlyphsUntil, GlyphsFor
<1>4. GlyphsRight
  BY <1>1, <1>3 DEF GlyphsRight
<1>5. PagesRight
  BY <1>1, FontTypes DEF PagesRight
<1> QED
  BY <1>1, <1>2, <1>4, <1>5 DEF FontInv

(* Glyphs come after the pages. *)
LEMMA NoGlyphYet ==
  ASSUME FontInv, next <= Len(font.pages)
  PROVE  \A c : GlyphsUntil(c) = {} /\ {g \in GlyphsFor(c) : Len(font.pages) + g < next + 1} = {}
BY FontTypes DEF FontInv, GlyphsUntil, GlyphsFor

LEMMA PagesStep ==
  ASSUME FontInv, LoadPage
  PROVE  FontInv'
<1>1. /\ next \in 1 .. Len(font.pages) /\ next' = next + 1 /\ font' = font /\ m_glyphs' = m_glyphs
      /\ font \in Fonts /\ next \in Nat
  BY FontTypes DEF FontInv, LoadPage
<1>2. font' \in Fonts /\ next' \in 1 .. FontElements' + 1
  <2>1. Len(font.pages) \in Nat /\ Len(font.glyphs) \in Nat
    BY <1>1, FontTypes
  <2>2. FontElements' = Len(font.pages) + Len(font.glyphs)
    BY <1>1 DEF FontElements
  <2>3. \A a, b \in Nat : \A c \in 1 .. a : c + 1 \in 1 .. (a + b) + 1
    OBVIOUS
  <2>4. next + 1 \in 1 .. (Len(font.pages) + Len(font.glyphs)) + 1
    BY <1>1, <2>1, <2>3
  <2> QED
    BY <1>1, <2>2, <2>4
<1>3. GlyphsRight'
  <2>1. ASSUME NEW c PROVE GlyphsUntil(c) = {} /\ GlyphsUntil(c)' = {}
    <3>1. GlyphsUntil(c)' = {g \in GlyphsFor(c) : Len(font.pages) + g < next + 1}
      BY <1>1 DEF GlyphsUntil, GlyphsFor, PagesOf, Placed
    <3> QED
      BY <1>1, <3>1, NoGlyphYet
  <2>2. \A c \in Characters : c \notin DOMAIN m_glyphs
    BY <2>1 DEF FontInv, GlyphsRight, IsLatest
  <2> QED
    BY <1>1, <2>1, <2>2 DEF GlyphsRight
<1>4. PagesRight'
  <2> USE DEF PagesRight
  <2>1. CASE next \notin Placed(font)
    <3>1. m_pages' = m_pages /\ Placed(font)' = Placed(font)
      BY <1>1, <2>1 DEF LoadPage, Placed
    <3>2. \A p \in Placed(font) : p < next' <=> p < next
      BY <1>1, <2>1, FontTypes
    <3>3. \A k : PagesUntil(k)' = PagesUntil(k)
      BY <1>1, <3>1, <3>2 DEF PagesUntil
    <3> QED
      BY <1>1, <3>1, <3>2, <3>3 DEF FontInv
  <2>2. CASE next \in Placed(font)
    <3> DEFINE n == font.pages[next].index
               size == Max({Len(m_pages), n})
    <3>1. /\ n \in Nat /\ n >= 1 /\ Len(m_pages) \in Nat /\ m_pages \in Seq(Seq(Shapes))
          /\ Placed(font)' = Placed(font)
      BY <1>1, <2>2, FontTypes DEF FontInv, Placed
    <3> HIDE DEF n
    <3>2. size \in Nat /\ size >= n /\ size >= Len(m_pages) /\ (size = n \/ size = Len(m_pages))
      <4>1. CASE n <= Len(m_pages)
        <5>1. IsLatest(Len(m_pages), {Len(m_pages), n})
          BY <3>1, <4>1 DEF IsLatest
        <5>2. size = Len(m_pages)
          BY <3>1, <5>1, MaxIs
        <5> QED
          BY <3>1, <4>1, <5>2
      <4>2. CASE ~(n <= Len(m_pages))
        <5>1. IsLatest(n, {Len(m_pages), n})
          BY <3>1, <4>2 DEF IsLatest
        <5>2. size = n
          BY <3>1, <5>1, MaxIs
        <5> QED
          BY <3>1, <4>2, <5>2
      <4> QED
        BY <4>1, <4>2
    <3>3. m_pages' = [k \in 1 .. size |-> IF k = n THEN <<Frame(next, 0)>>
                                          ELSE IF k <= Len(m_pages) THEN m_pages[k] ELSE <<>>]
      BY <2>2 DEF LoadPage, WithPage, n
    <3> HIDE DEF size
    <3>4. /\ m_pages' \in Seq(Seq(Shapes)) /\ Len(m_pages') = size
          /\ \A k \in 1 .. size : m_pages'[k] = IF k = n THEN <<Frame(next, 0)>>
                                                ELSE IF k <= Len(m_pages) THEN m_pages[k] ELSE <<>>
      <4>1. <<Frame(next, 0)>> \in Seq(Shapes) /\ <<>> \in Seq(Shapes)
        BY <1>1 DEF Frame, Shapes
      <4>2. \A k \in 1 .. Len(m_pages) : m_pages[k] \in Seq(Shapes)
        BY <3>1
      <4>3. \A k \in 1 .. size : m_pages'[k] \in Seq(Shapes)
        BY <3>1, <3>2, <3>3, <4>1, <4>2
      <4> QED
        BY <3>2, <3>3, <4>3
    <3>5. ASSUME NEW k PROVE PagesUntil(k)' = PagesUntil(k) \cup (IF k = n THEN {next} ELSE {})
      BY <1>1, <2>2, <3>1, FontTypes DEF PagesUntil, n
    <3>6. \A p \in Placed(font)' : p < next' => font'.pages[p].index <= Len(m_pages')
      <4> SUFFICES ASSUME NEW p \in Placed(font), p < next + 1 PROVE font.pages[p].index <= size
        BY <1>1, <3>1, <3>4
      <4>1. CASE p = next
        BY <3>1, <3>2, <4>1 DEF n
      <4>2. CASE p # next
        <5>1. font.pages[p].index <= Len(m_pages) /\ font.pages[p].index \in Nat
          BY <1>1, <4>2, FontTypes DEF FontInv
        <5> QED
          BY <3>1, <3>2, <5>1
      <4> QED
        BY <4>1, <4>2
    <3>7. Len(m_pages') > 0 =>
            \E p \in Placed(font)' : p < next' /\ font'.pages[p].index = Len(m_pages')
      <4>1. CASE size = n
        <5>1. next \in Placed(font)' /\ next < next' /\ font'.pages[next].index = Len(m_pages')
          BY <1>1, <2>2, <3>1, <3>4, <4>1 DEF n
        <5> QED
          BY <5>1
      <4>2. CASE size = Len(m_pages) /\ size # n
        <5>1. PICK p \in Placed(font) : p < next /\ font.pages[p].index = Len(m_pages)
          BY <3>1, <3>2, <4>2 DEF FontInv
        <5>2. p < next'
          BY <1>1, <5>1, FontTypes
        <5> QED
          BY <1>1, <3>1, <3>4, <4>2, <5>1, <5>2
      <4> QED
        BY <3>2, <4>1, <4>2
    <3>8. ASSUME NEW k \in 1 .. size
          PROVE  \/ PagesUntil(k)' = {} /\ m_pages'[k] = <<>>
                 \/ \E p : /\ IsLatest(p, PagesUntil(k)')
                           /\ Len(m_pages'[k]) > 0 /\ m_pages'[k][1] = Frame(p, 0)
      <4>1. CASE k = n
        <5>1. \A p \in PagesUntil(k) : p < next /\ p \in Nat
          BY <1>1, FontTypes DEF PagesUntil
        <5>2. IsLatest(next, PagesUntil(k)')
          BY <1>1, <3>5, <4>1, <5>1 DEF IsLatest
        <5>3. m_pages'[k] = <<Frame(next, 0)>>
          BY <3>4, <4>1
        <5> QED
          BY <5>2, <5>3
      <4>2. CASE k # n /\ k <= Len(m_pages)
        <5>1. PagesUntil(k)' = PagesUntil(k)
          BY <3>5, <4>2
        <5>2. k \in 1 .. Len(m_pages)
          BY <3>1, <3>2, <4>2
        <5>3. m_pages'[k] = m_pages[k]
          BY <3>4, <4>2
        <5> QED
          BY <5>1, <5>2, <5>3 DEF FontInv
      <4>3. CASE k # n /\ ~(k <= Len(m_pages))
        <5>1. PagesUntil(k) = {}
          BY <4>3 DEF PagesUntil, FontInv
        <5> QED
          BY <3>4, <3>5, <4>3, <5>1
      <4> QED
        BY <4>1, <4>2, <4>3
    <3> QED
      BY <3>4, <3>6, <3>7, <3>8 DEF IsLatest, Frame
  <2> QED
    BY <2>1, <2>2
<1> QED
  BY <1>2, <1>3, <1>4 DEF FontInv

LEMMA GlyphsStep ==
  ASSUME FontInv, LoadGlyph
  PROVE  FontInv'
<1> DEFINE e == next - Len(font.pages)
           g == font.glyphs[e]
<1>1. /\ font \in Fonts /\ font' = font /\ next' = next + 1 /\ next \in Nat
      /\ Len(font.pages) \in Nat /\ Len(font.glyphs) \in Nat
      /\ e \in 1 .. Len(font.glyphs) /\ next = Len(font.pages) + e
      /\ g.name \in Characters /\ g.page \in Nat /\ g.page >= 1 /\ g.width \in Nat
      /\ next > Len(font.pages)
  <2>1. /\ font \in Fonts /\ font' = font /\ next' = next + 1 /\ next \in Nat
        /\ next \in Len(font.pages) + 1 .. FontElements
    <3>1. \A a : \A d \in 1 .. a : d \in Nat
      OBVIOUS
    <3> QED
      BY <3>1, Zenon DEF FontInv, LoadGlyph
  <2>2. /\ Len(font.pages) \in Nat /\ Len(font.glyphs) \in Nat
    BY <2>1, FontTypes
  <2>3. \A a, b \in Nat : \A d \in a + 1 .. a + b : d - a \in 1 .. b /\ d = a + (d - a) /\ d > a
    OBVIOUS
  <2>4. e \in 1 .. Len(font.glyphs) /\ next = Len(font.pages) + e /\ next > Len(font.pages)
    BY <2>1, <2>2, <2>3, Zenon DEF FontElements
  <2> QED
    BY <2>1, <2>2, <2>4, FontTypes
<1>10. \/ /\ g.page > Len(m_pages)
          /\ UNCHANGED <<m_pages, m_glyphs>>
       \/ /\ g.page <= Len(m_pages)
          /\ m_pages' = [m_pages EXCEPT ![g.page] =
                           Append(m_pages[g.page], Frame(m_pages[g.page][1].page, e))]
          /\ m_glyphs' = [c \in DOMAIN m_glyphs \cup {g.name} |->
                            IF c = g.name THEN NewGlyph(g) ELSE m_glyphs[c]]
  BY DEF LoadGlyph
<1> HIDE DEF e
<1>2. font' \in Fonts /\ next' \in 1 .. FontElements' + 1
  <2>1. FontElements' = Len(font.pages) + Len(font.glyphs)
    BY <1>1 DEF FontElements
  <2>2. \A a, b \in Nat : \A c \in 1 .. b : (a + c) + 1 \in 1 .. (a + b) + 1
    OBVIOUS
  <2>3. next + 1 \in 1 .. (Len(font.pages) + Len(font.glyphs)) + 1
    BY <1>1, <2>2
  <2> QED
    BY <1>1, <2>1, <2>3
(* All pages are there. *)
<1>3. \A p \in Placed(font) : p \in Nat /\ p < next
  BY <1>1, FontTypes
<1>4. \A k : PagesUntil(k)' = PagesUntil(k)
  BY <1>1, <1>3 DEF PagesUntil, Placed
<1>5. Len(m_pages) \in Nat /\ m_pages \in Seq(Seq(Shapes))
  BY DEF FontInv, PagesRight
<1>6. g.page <= Len(m_pages) <=> g.page \in PagesOf(font)
  <2>1. ASSUME g.page \in PagesOf(font) PROVE g.page <= Len(m_pages)
    BY <1>3, <2>1 DEF PagesOf, FontInv, PagesRight
  <2>2. ASSUME g.page <= Len(m_pages) PROVE g.page \in PagesOf(font)
    <3>1. Len(m_pages) \in PagesOf(font)
      BY <1>1, <1>5, <2>2 DEF PagesOf, FontInv, PagesRight
    <3>2. g.page \in PagesOf(font) \/ \A n \in PagesOf(font) : n < g.page
      BY <1>1, FontTypes DEF NoHoles
    <3> QED
      BY <1>1, <1>5, <2>2, <3>1, <3>2
  <2> QED
    BY <2>1, <2>2
<1>7. ASSUME NEW c
      PROVE  GlyphsUntil(c)' = GlyphsUntil(c) \cup
               (IF c = g.name /\ g.page \in PagesOf(font) THEN {e} ELSE {})
  <2>1. GlyphsUntil(c)' = {d \in GlyphsFor(c) : Len(font.pages) + d < next + 1}
    BY <1>1 DEF GlyphsUntil, GlyphsFor, PagesOf, Placed
  <2>2. e \in GlyphsFor(c) <=> c = g.name /\ g.page \in PagesOf(font)
    BY <1>1, FontTypes DEF GlyphsFor
  <2>3. \A d \in GlyphsFor(c) : d \in Nat
    BY <1>1, FontTypes DEF GlyphsFor
  <2>4. \A d \in Nat : Len(font.pages) + d < next + 1 <=> Len(font.pages) + d < next \/ d = e
    BY <1>1
  <2> QED
    BY <2>1, <2>2, <2>3, <2>4 DEF GlyphsUntil
<1>8. CASE g.page > Len(m_pages)
  <2>1. g.page \notin PagesOf(font)
    BY <1>1, <1>5, <1>6, <1>8
  <2>2. m_pages' = m_pages /\ m_glyphs' = m_glyphs
    BY <1>1, <1>5, <1>8, <1>10
  <2>3. \A c : GlyphsUntil(c)' = GlyphsUntil(c)
    BY <1>7, <2>1
  <2>4. GlyphsRight'
    BY <1>1, <2>2, <2>3 DEF FontInv, GlyphsRight, IsGlyph
  <2>5. PagesRight'
    <3>1. \A p \in Placed(font) : p < next'
      BY <1>1, <1>3
    <3>2. Placed(font)' = Placed(font)
      BY <1>1 DEF Placed
    <3> QED
      BY <1>1, <1>3, <1>4, <2>2, <3>1, <3>2 DEF FontInv, PagesRight
  <2> QED
    BY <1>2, <2>4, <2>5 DEF FontInv
<1>9. CASE g.page <= Len(m_pages)
  <2> DEFINE page == m_pages[g.page]
             shape == Frame(page[1].page, e)
  <2>1. /\ m_pages' = [m_pages EXCEPT ![g.page] = Append(page, shape)]
        /\ m_glyphs' = [c \in DOMAIN m_glyphs \cup {g.name} |->
                          IF c = g.name THEN NewGlyph(g) ELSE m_glyphs[c]]
    BY <1>1, <1>5, <1>9, <1>10
  <2>2. g.page \in 1 .. Len(m_pages) /\ page \in Seq(Shapes)
    BY <1>1, <1>5, <1>9
  <2>3. Len(page) > 0 /\ Len(page) \in Nat
    <3>1. g.page \in PagesOf(font)
      BY <1>6, <1>9
    <3>2. PagesUntil(g.page) # {}
      BY <1>3, <3>1 DEF PagesOf, PagesUntil
    <3> QED
      BY <2>2, <3>2 DEF FontInv, PagesRight
  <2>4. shape \in Shapes /\ page[1] \in Shapes
    <3>1. page[1] \in Shapes
      BY <2>2, <2>3
    <3> QED
      BY <1>1, <3>1 DEF Frame, Shapes
  <2> HIDE DEF shape
  <2>5. /\ Append(page, shape) \in Seq(Shapes) /\ Len(Append(page, shape)) = Len(page) + 1
        /\ \A k \in 1 .. Len(page) : Append(page, shape)[k] = page[k]
        /\ Append(page, shape)[Len(page) + 1] = shape
    BY <2>2, <2>4, AppendProperties
  <2> DEFINE longer == Append(page, shape)
  <2> HIDE DEF longer
  <2>6. /\ m_pages' \in Seq(Seq(Shapes)) /\ Len(m_pages') = Len(m_pages)
        /\ \A k \in 1 .. Len(m_pages) : m_pages'[k] = IF k = g.page THEN longer ELSE m_pages[k]
    <3>1. m_pages' = [m_pages EXCEPT ![g.page] = longer] /\ longer \in Seq(Shapes)
      BY <2>1, <2>5 DEF longer
    <3> QED
      BY <1>5, <2>2, <3>1
  <2>7. /\ Len(longer) = Len(page) + 1 /\ longer[Len(page) + 1] = shape /\ longer[1] = page[1]
        /\ \A k \in 1 .. Len(page) : longer[k] = page[k]
    BY <2>3, <2>5 DEF longer
  <2> HIDE DEF page
  (* The glyphs that were there. *)
  <2>8. ASSUME NEW c, NEW d, IsGlyph(m_glyphs[c], d)
        PROVE  /\ m_glyphs[c].page = font'.glyphs[d].page
               /\ m_glyphs[c].width = font'.glyphs[d].width
               /\ m_glyphs[c].page \in 1 .. Len(m_pages')
               /\ m_glyphs[c].frame \in Nat
               /\ m_glyphs[c].frame < Len(m_pages'[m_glyphs[c].page])
               /\ m_pages'[m_glyphs[c].page][m_glyphs[c].frame + 1] =
                    Frame(m_pages'[m_glyphs[c].page][1].page, d)
    <3> DEFINE n == m_glyphs[c].page
               f == m_glyphs[c].frame
    <3>1. /\ n = font.glyphs[d].page /\ m_glyphs[c].width = font.glyphs[d].width
          /\ n \in 1 .. Len(m_pages) /\ f \in Nat /\ f < Len(m_pages[n])
          /\ m_pages[n][f + 1] = Frame(m_pages[n][1].page, d)
      BY <2>8 DEF IsGlyph
    <3> HIDE DEF n, f
    <3>2. CASE n = g.page
      <4>1. m_pages[n] = page /\ m_pages'[n] = longer
        BY <2>6, <3>1, <3>2 DEF page
      <4>2. f + 1 \in 1 .. Len(page) /\ f < Len(page) + 1
        BY <2>3, <3>1, <4>1
      <4> QED
        BY <1>1, <2>6, <2>7, <3>1, <4>1, <4>2 DEF n, f
    <3>3. CASE n # g.page
      BY <1>1, <2>6, <3>1, <3>3 DEF n, f
    <3> QED
      BY <3>2, <3>3
  <2>9. GlyphsRight'
    <3> SUFFICES ASSUME NEW c \in Characters
                 PROVE  \/ GlyphsUntil(c)' = {} /\ c \notin DOMAIN m_glyphs'
                        \/ \E d : /\ IsLatest(d, GlyphsUntil(c)') /\ c \in DOMAIN m_glyphs'
                                  /\ IsGlyph(m_glyphs[c], d)'
      BY DEF GlyphsRight, IsLatest
    <3>1. CASE c = g.name
      <4>1. PICK u : u = e
        OBVIOUS
      <4>2. GlyphsUntil(c)' = GlyphsUntil(c) \cup {u}
        BY <1>6, <1>7, <1>9, <3>1, <4>1
      <4>3. \A d \in GlyphsUntil(c) : d \in Nat /\ d < u
        <5>1. \A d \in GlyphsUntil(c) : d \in Nat
          BY <1>1, FontTypes DEF GlyphsUntil, GlyphsFor
        <5>2. \A d \in GlyphsUntil(c) : Len(font.pages) + d < next
          BY DEF GlyphsUntil
        <5> QED
          BY <1>1, <4>1, <5>1, <5>2
      <4>4. IsLatest(u, GlyphsUntil(c)')
        BY <1>1, <4>1, <4>2, <4>3 DEF IsLatest
      <4>5. c \in DOMAIN m_glyphs' /\ m_glyphs'[c] = NewGlyph(g)
        BY <2>1, <3>1
      <4>6. NewGlyph(g) = [page |-> g.page, frame |-> Len(page), width |-> g.width]
        BY DEF NewGlyph, page
      <4>7. m_pages'[g.page] = longer
        BY <2>2, <2>6
      <4>8. longer[Len(page) + 1] = Frame(longer[1].page, u)
        BY <2>7, <4>1 DEF shape
      <4>9. font'.glyphs[u] = g
        BY <1>1, <4>1
      <4>10. IsGlyph(m_glyphs[c], u)'
        BY <2>2, <2>3, <2>6, <2>7, <4>5, <4>6, <4>7, <4>8, <4>9 DEF IsGlyph
      <4> QED
        BY <4>4, <4>5, <4>10
    <3>2. CASE c # g.name
      <4>1. GlyphsUntil(c)' = GlyphsUntil(c)
        BY <1>7, <3>2
      <4>2. CASE GlyphsUntil(c) = {} /\ c \notin DOMAIN m_glyphs
        BY <2>1, <3>2, <4>1, <4>2
      <4>3. ASSUME NEW d, IsLatest(d, GlyphsUntil(c)), c \in DOMAIN m_glyphs, IsGlyph(m_glyphs[c], d)
            PROVE  /\ IsLatest(d, GlyphsUntil(c)') /\ c \in DOMAIN m_glyphs'
                   /\ IsGlyph(m_glyphs[c], d)'
        <5>1. c \in DOMAIN m_glyphs' /\ m_glyphs'[c] = m_glyphs[c]
          BY <2>1, <3>2, <4>3
        <5>2. /\ m_glyphs[c].page = font'.glyphs[d].page
              /\ m_glyphs[c].width = font'.glyphs[d].width
              /\ m_glyphs[c].page \in 1 .. Len(m_pages')
              /\ m_glyphs[c].frame \in Nat
              /\ m_glyphs[c].frame < Len(m_pages'[m_glyphs[c].page])
              /\ m_pages'[m_glyphs[c].page][m_glyphs[c].frame + 1] =
                   Frame(m_pages'[m_glyphs[c].page][1].page, d)
          BY <2>8, <4>3, Zenon
        <5> QED
          BY <4>1, <4>3, <5>1, <5>2 DEF IsGlyph
      <4> QED
        BY <4>2, <4>3 DEF FontInv, GlyphsRight
    <3> QED
      BY <3>1, <3>2
  <2>10. PagesRight'
    <3>1. \A p \in Placed(font) : p < next'
      BY <1>1, <1>3
    <3>2. Placed(font)' = Placed(font)
      BY <1>1 DEF Placed
    <3>3. ASSUME NEW k \in 1 .. Len(m_pages)
          PROVE  \/ PagesUntil(k)' = {} /\ m_pages'[k] = <<>>
                 \/ \E p : /\ IsLatest(p, PagesUntil(k)')
                           /\ Len(m_pages'[k]) > 0 /\ m_pages'[k][1] = Frame(p, 0)
      <4>1. CASE PagesUntil(k) = {} /\ m_pages[k] = <<>>
        <5>1. k # g.page
          BY <2>3, <4>1 DEF page
        <5> QED
          BY <1>4, <2>6, <4>1, <5>1
      <4>2. ASSUME NEW p, IsLatest(p, PagesUntil(k)), Len(m_pages[k]) > 0, m_pages[k][1] = Frame(p, 0)
            PROVE  /\ IsLatest(p, PagesUntil(k)')
                   /\ Len(m_pages'[k]) > 0 /\ m_pages'[k][1] = Frame(p, 0)
        <5>1. Len(m_pages'[k]) > 0 /\ m_pages'[k][1] = m_pages[k][1]
          <6>1. CASE k = g.page
            BY <2>3, <2>6, <2>7, <6>1 DEF page
          <6>2. CASE k # g.page
            BY <2>6, <4>2, <6>2
          <6> QED
            BY <6>1, <6>2
        <5> QED
          BY <1>4, <4>2, <5>1
      <4> QED
        BY <4>1, <4>2 DEF FontInv, PagesRight
    <3> QED
      BY <1>1, <1>3, <2>6, <3>1, <3>2, <3>3 DEF FontInv, PagesRight, IsLatest, Frame
  <2> QED
    BY <1>2, <2>9, <2>10 DEF FontInv
<1> QED
  BY <1>1, <1>5, <1>8, <1>9

--------------------------------------------------------------------------------
(* Folds over finite sets.  Induction is by the least counterexample.      *)

LEMMA MinimalOf ==
  ASSUME NEW B, IsFiniteSet(B), NEW T, T \subseteq SUBSET B, T # {}
  PROVE  \E S \in T : \A U \in T : U \subseteq S => U = S
<1> DEFINE Less == StrictSubsetOrdering(B)
<1>1. IsWellFoundedOn(Less, SUBSET B)
  BY FS_FiniteSubsetsOfFinite, FS_StrictSubsetOrderingWellFounded, Zenon
<1> HIDE DEF Less
<1>2. \E S \in T : \A U \in T : ~(<<U, S>> \in Less)
  BY <1>1, WFMin
<1> QED
  BY <1>2 DEF Less, StrictSubsetOrdering

LEMMA LeastOf ==
  ASSUME NEW T, T \subseteq Nat, T # {}
  PROVE  \E n \in T : \A m \in T : n <= m
<1>1. PICK t \in T : TRUE
  OBVIOUS
<1> DEFINE F == {1 .. k : k \in {m \in T : m <= t}}
<1>2. IsFiniteSet(1 .. t)
  BY <1>1, FS_Interval
<1>3. F \subseteq SUBSET (1 .. t) /\ 1 .. t \in F
  <2>1. \A k \in {m \in T : m <= t} : 1 .. k \subseteq 1 .. t
    BY <1>1
  <2>2. t \in {m \in T : m <= t}
    BY <1>1
  <2> QED
    BY <2>1, <2>2
<1>4. PICK S \in F : \A U \in F : U \subseteq S => U = S
  <2> HIDE DEF F
  <2>1. F # {}
    BY <1>3
  <2> DEFINE B == 1 .. t
  <2>2. IsFiniteSet(B) /\ F \subseteq SUBSET B
    BY <1>2, <1>3
  <2> HIDE DEF B
  <2> QED
    BY <2>1, <2>2, MinimalOf
<1>5. PICK n \in T : n <= t /\ S = 1 .. n
  OBVIOUS
<1>6. ASSUME NEW m \in T, m < n PROVE FALSE
  <2>1. 1 .. m \in F
    BY <1>1, <1>5, <1>6
  <2>2. 1 .. m \subseteq 1 .. n
    BY <1>6
  <2>3. 1 .. m = 1 .. n
    BY <1>4, <1>5, <2>1, <2>2
  <2>4. n \in 1 .. n /\ n \notin 1 .. m
    BY <1>6
  <2> QED
    BY <2>3, <2>4
<1> QED
  BY <1>5, <1>6

LEMMA MaxOf ==
  ASSUME NEW n \in Nat, NEW S \in SUBSET (1 .. n), S # {}
  PROVE  Max(S) \in S /\ \A d \in S : d <= Max(S)
<1> DEFINE T == {k \in Nat : n - k \in S}
<1>1. T # {}
  <2>1. PICK d \in S : TRUE
    OBVIOUS
  <2>2. n - d \in Nat /\ n - (n - d) = d
    OBVIOUS
  <2>3. n - d \in T
    BY <2>1, <2>2
  <2> HIDE DEF T
  <2> QED
    BY <2>3
<1>2. PICK k \in T : \A m \in T : k <= m
  <2> HIDE DEF T
  <2>1. T \subseteq Nat
    BY DEF T
  <2> QED
    BY <1>1, <2>1, LeastOf
<1>3. n - k \in S /\ k \in Nat
  OBVIOUS
<1>4. ASSUME NEW d \in S PROVE d <= n - k
  <2>1. n - d \in Nat /\ n - (n - d) = d
    OBVIOUS
  <2>2. n - d \in T
    BY <2>1
  <2>3. k <= n - d
    BY <1>2, <2>2
  <2> QED
    BY <1>3, <2>3
<1>5. S \subseteq Int /\ IsLatest(n - k, S)
  BY <1>3, <1>4 DEF IsLatest
<1>6. Max(S) = n - k
  BY <1>5, MaxIs
<1> QED
  BY <1>3, <1>4, <1>6

(* A fold that takes the elements of a set in an order c exists. *)
Folds(f, B, base, c, h) ==
  /\ DOMAIN f = SUBSET B
  /\ \A S \in SUBSET B : f[S] = IF S = {} THEN base ELSE h[<<c[S], f[S \ {c[S]}]>>]

LEMMA FoldExists ==
  ASSUME NEW B, IsFiniteSet(B), NEW V, NEW base \in V,
         NEW c, \A S \in SUBSET B : S # {} => c[S] \in S,
         NEW h \in [B \X V -> V]
  PROVE  \E f \in [SUBSET B -> V] : Folds(f, B, base, c, h)
<1> DEFINE Small(k) == {S \in SUBSET B : Cardinality(S) <= k}
           After(f, S) == IF S = {} THEN base ELSE h[<<c[S], f[S \ {c[S]}]>>]
           Ok(k) == \E f \in [Small(k) -> V] : \A S \in Small(k) : f[S] = After(f, S)
           T == {k \in Nat : ~Ok(k)}
<1>1. \A S \in SUBSET B : /\ IsFiniteSet(S) /\ Cardinality(S) \in Nat
                          /\ Cardinality(S) <= Cardinality(B)
                          /\ Cardinality(S) = 0 <=> S = {}
  BY FS_Subset, FS_CardinalityType, FS_EmptySet
<1>2. Ok(0)
  <2>1. \A S \in Small(0) : S = {}
    BY <1>1
  <2> DEFINE f == [S \in Small(0) |-> base]
  <2>2. f \in [Small(0) -> V] /\ \A S \in Small(0) : f[S] = After(f, S)
    <3> HIDE DEF Small
    <3> QED
      BY <2>1
  <2> HIDE DEF f, Small, After
  <2> QED
    BY <2>2
<1>3. ASSUME NEW n \in Nat, Ok(n) PROVE Ok(n + 1)
  <2>1. PICK f \in [Small(n) -> V] : \A S \in Small(n) : f[S] = After(f, S)
    <3> HIDE DEF Small, After
    <3> QED
      BY <1>3
  <2> DEFINE g == [S \in Small(n + 1) |-> After(f, S)]
  <2>2. ASSUME NEW S \in Small(n + 1), S # {}
        PROVE  S \ {c[S]} \in Small(n) /\ c[S] \in B
    <3>1. S \in SUBSET B /\ Cardinality(S) <= n + 1
      OBVIOUS
    <3>4. c[S] \in S
      BY <2>2, <3>1, Zenon
    <3>2. Cardinality(S \ {c[S]}) = Cardinality(S) - 1
      BY <1>1, <3>1, <3>4, FS_RemoveElement
    <3>3. Cardinality(S) - 1 <= n
      BY <1>1, <3>1
    <3> QED
      BY <3>1, <3>2, <3>3, <3>4
  <2>3. \A S \in Small(n) : S \in Small(n + 1)
    BY <1>1
  <2>4. ASSUME NEW S \in Small(n + 1) PROVE After(f, S) \in V
    <3> HIDE DEF Small
    <3>1. CASE S = {}
      BY <3>1
    <3>2. CASE S # {}
      <4>1. c[S] \in B /\ f[S \ {c[S]}] \in V
        BY <2>2, <3>2
      <4> QED
        BY <3>2, <4>1
    <3> QED
      BY <3>1, <3>2
  <2>5. g \in [Small(n + 1) -> V]
    <3> HIDE DEF Small, After
    <3> QED
      BY <2>4
  <2>6. \A S \in Small(n) : g[S] = f[S]
    <3> HIDE DEF Small, After
    <3> QED
      BY <2>1, <2>3
  <2>7. \A S \in Small(n + 1) : g[S] = After(f, S)
    <3> HIDE DEF Small, After
    <3> QED
      OBVIOUS
  <2> HIDE DEF g
  <2>8. ASSUME NEW S \in Small(n + 1) PROVE g[S] = After(g, S)
    <3> HIDE DEF Small
    <3> QED
      BY <2>2, <2>6, <2>7
  <2> HIDE DEF Small, After
  <2> QED
    BY <2>5, <2>8
<1> HIDE DEF Ok
<1>4. ASSUME T # {} PROVE FALSE
  <2>1. PICK n \in T : \A m \in T : n <= m
    <3>1. T \subseteq Nat
      OBVIOUS
    <3> HIDE DEF T
    <3> QED
      BY <1>4, <3>1, LeastOf
  <2>2. n # 0 /\ n \in Nat /\ ~Ok(n)
    BY <1>2
  <2>3. n - 1 \in Nat /\ (n - 1) + 1 = n
    BY <2>2
  <2>4. n - 1 \notin T
    BY <2>1, <2>2, <2>3
  <2>5. Ok(n - 1)
    BY <2>3, <2>4
  <2> QED
    BY <1>3, <2>2, <2>3, <2>5
<1>5. Cardinality(B) \in Nat
  BY <1>1
<1>6. Ok(Cardinality(B))
  <2>1. ASSUME ~Ok(Cardinality(B)) PROVE Cardinality(B) \in T
    BY <1>5, <2>1
  <2> HIDE DEF T
  <2> QED
    BY <1>4, <2>1
<1>7. Small(Cardinality(B)) = SUBSET B
  BY <1>1
<1>8. PICK f \in [SUBSET B -> V] : \A S \in SUBSET B : f[S] = After(f, S)
  <2> HIDE DEF Small, After
  <2> QED
    BY <1>6, <1>7 DEF Ok
<1> QED
  BY <1>8 DEF Folds

(* The sum of the widths of characters, in whatever order. *)
WidthAt(s, j) == GlyphElement(s[j]).width
Widths(s, S) == MapThenSumSet(LAMBDA j : GlyphElement(s[j]).width, S)
Chosen(S) == CHOOSE d \in S : TRUE

Sums(f, s, B) ==
  /\ DOMAIN f = SUBSET B
  /\ \A S \in SUBSET B :
       f[S] = IF S = {} THEN 0 ELSE WidthAt(s, Chosen(S)) + f[S \ {Chosen(S)}]

LEMMA SumUnique ==
  ASSUME NEW s, NEW A, NEW B, IsFiniteSet(A), NEW f, NEW g, Sums(f, s, A), Sums(g, s, B),
         NEW S, S \subseteq A, S \subseteq B
  PROVE  f[S] = g[S]
<1> DEFINE T == {U \in SUBSET S : f[U] # g[U]}
<1>1. CASE T # {}
  <2>1. IsFiniteSet(S)
    BY FS_Subset
  <2>2. PICK U \in T : \A R \in T : R \subseteq U => R = U
    <3>1. T \subseteq SUBSET S
      OBVIOUS
    <3> HIDE DEF T
    <3> QED
      BY <1>1, <2>1, <3>1, MinimalOf
  <2>3. U \in SUBSET A /\ U \in SUBSET B /\ f[U] # g[U] /\ U \subseteq S
    OBVIOUS
  <2>4. U # {}
    BY <2>3 DEF Sums
  <2>5. Chosen(U) \in U
    BY <2>4 DEF Chosen
  <2>6. U \ {Chosen(U)} \notin T
    BY <2>2, <2>5
  <2>7. f[U \ {Chosen(U)}] = g[U \ {Chosen(U)}]
    BY <2>3, <2>6
  <2> QED
    BY <2>3, <2>4, <2>7 DEF Sums
<1>2. CASE T = {}
  <2>1. S \in SUBSET S
    OBVIOUS
  <2> QED
    BY <1>2, <2>1
<1> QED
  BY <1>1, <1>2

LEMMA SumDefined ==
  ASSUME NEW s, NEW B, IsFiniteSet(B), \A j \in B : WidthAt(s, j) \in Nat
  PROVE  \E f : /\ Sums(f, s, B) /\ f[B] = Widths(s, B)
               /\ \A S \in SUBSET B : f[S] \in Nat
<1> DEFINE c == [S \in SUBSET B |-> Chosen(S)]
           h == [p \in B \X Nat |-> WidthAt(s, p[1]) + p[2]]
           Def(f) == f = [S \in SUBSET B |-> IF S = {} THEN 0
                                             ELSE WidthAt(s, Chosen(S)) + f[S \ {Chosen(S)}]]
<1>1. h \in [B \X Nat -> Nat]
  <2>1. \A p \in B \X Nat : WidthAt(s, p[1]) \in Nat /\ p[2] \in Nat
    OBVIOUS
  <2>2. \A p \in B \X Nat : WidthAt(s, p[1]) + p[2] \in Nat
    BY <2>1
  <2> QED
    BY <2>2
<1>2. \A S \in SUBSET B : S # {} => Chosen(S) \in S /\ Chosen(S) \in B
  BY DEF Chosen
<1>3. \A S \in SUBSET B : S # {} => c[S] \in S
  BY <1>2
<1>4. PICK f \in [SUBSET B -> Nat] : Folds(f, B, 0, c, h)
  <2>1. 0 \in Nat
    OBVIOUS
  <2> HIDE DEF c, h
  <2> QED
    BY <1>1, <1>3, <2>1, FoldExists
<1>5. ASSUME NEW S \in SUBSET B
      PROVE  f[S] = IF S = {} THEN 0 ELSE WidthAt(s, Chosen(S)) + f[S \ {Chosen(S)}]
  <2>1. CASE S = {}
    BY <1>4, <2>1 DEF Folds
  <2>2. CASE S # {}
    <3>1. f[S] = h[<<c[S], f[S \ {c[S]}]>>] /\ c[S] = Chosen(S)
      BY <1>4, <2>2 DEF Folds
    <3>2. Chosen(S) \in B /\ f[S \ {Chosen(S)}] \in Nat
      BY <1>2, <1>4, <2>2
    <3>3. h[<<Chosen(S), f[S \ {Chosen(S)}]>>] = WidthAt(s, Chosen(S)) + f[S \ {Chosen(S)}]
      BY <3>2
    <3> QED
      BY <2>2, <3>1, <3>3
  <2> QED
    BY <2>1, <2>2
<1> HIDE DEF c, h
<1>6. Def(f)
  BY <1>5
<1> DEFINE g == CHOOSE k : Def(k)
<1>7. Def(g)
  <2>1. \E k : Def(k)
    BY <1>6
  <2> HIDE DEF Def
  <2> QED
    BY <2>1
<1>8. Widths(s, B) = g[B]
  BY DEF Widths, MapThenSumSet, MapThenFoldSet, Chosen, WidthAt
<1> HIDE DEF g
<1>9. Sums(f, s, B) /\ Sums(g, s, B)
  BY <1>5, <1>7 DEF Sums
<1>10. g[B] = f[B]
  BY <1>9, SumUnique
<1>11. f[B] = Widths(s, B)
  BY <1>8, <1>10
<1> QED
  BY <1>4, <1>9, <1>11

LEMMA SumRecursion ==
  ASSUME NEW s, NEW B, IsFiniteSet(B), \A j \in B : WidthAt(s, j) \in Nat, NEW S \in SUBSET B
  PROVE  /\ Widths(s, S) \in Nat
         /\ S = {} => Widths(s, S) = 0
         /\ S # {} => Widths(s, S) = WidthAt(s, Chosen(S)) + Widths(s, S \ {Chosen(S)})
<1> DEFINE R == S \ {Chosen(S)}
<1>1. IsFiniteSet(S) /\ IsFiniteSet(R)
  BY FS_Subset
<1>2. PICK f : Sums(f, s, S) /\ f[S] = Widths(s, S) /\ \A U \in SUBSET S : f[U] \in Nat
  BY <1>1, SumDefined
<1>3. PICK g : Sums(g, s, R) /\ g[R] = Widths(s, R)
  <2> \A j \in R : WidthAt(s, j) \in Nat
    OBVIOUS
  <2> HIDE DEF R
  <2> QED
    BY <1>1, SumDefined
<1>4. f[R] = g[R]
  <2>1. R \subseteq S /\ R \subseteq R
    OBVIOUS
  <2> HIDE DEF R
  <2> QED
    BY <1>1, <1>2, <1>3, <2>1, SumUnique
<1>5. /\ f[S] \in Nat
      /\ f[S] = IF S = {} THEN 0 ELSE WidthAt(s, Chosen(S)) + f[R]
  BY <1>2 DEF Sums
<1> QED
  BY <1>2, <1>3, <1>4, <1>5

LEMMA SumAny ==
  ASSUME NEW s, NEW B, IsFiniteSet(B), \A j \in B : WidthAt(s, j) \in Nat,
         NEW S \in SUBSET B, NEW j \in S
  PROVE  Widths(s, S) = WidthAt(s, j) + Widths(s, S \ {j})
<1> DEFINE Right(U) == \A d \in U : Widths(s, U) = WidthAt(s, d) + Widths(s, U \ {d})
           T == {U \in SUBSET B : ~Right(U)}
<1>1. CASE T # {}
  <2>1. PICK U \in T : \A R \in T : R \subseteq U => R = U
    <3>1. T \subseteq SUBSET B
      OBVIOUS
    <3> HIDE DEF T
    <3> QED
      BY <1>1, <3>1, MinimalOf
  <2>2. PICK d \in U : Widths(s, U) # WidthAt(s, d) + Widths(s, U \ {d})
    OBVIOUS
  <2> DEFINE a == Chosen(U)
             R == U \ {a}
             Q == U \ {d}
             P == U \ {a, d}
  <2>3. a \in U /\ U \in SUBSET B
    BY DEF Chosen
  <2>4. R \in SUBSET B /\ Q \in SUBSET B /\ P \in SUBSET B
    BY <2>3
  <2>5. Widths(s, U) = WidthAt(s, a) + Widths(s, R)
    BY <2>3, SumRecursion
  <2>6. a # d
    BY <2>2, <2>5
  <2>7. Right(R) /\ Right(Q)
    <3>1. R # U /\ R \subseteq U /\ Q # U /\ Q \subseteq U
      BY <2>3
    <3>2. R \notin T /\ Q \notin T
      BY <2>1, <3>1
    <3> HIDE DEF Right, R, Q
    <3> QED
      BY <2>4, <3>2
  <2>8. d \in R /\ a \in Q /\ R \ {d} = P /\ Q \ {a} = P
    BY <2>3, <2>6
  <2>9. /\ Widths(s, R) = WidthAt(s, d) + Widths(s, P)
        /\ Widths(s, Q) = WidthAt(s, a) + Widths(s, P)
    <3> HIDE DEF a, R, Q, P
    <3> QED
      BY <2>7, <2>8
  <2>10. /\ WidthAt(s, a) \in Nat /\ WidthAt(s, d) \in Nat /\ Widths(s, P) \in Nat
         /\ Widths(s, R) \in Nat /\ Widths(s, Q) \in Nat
    <3>1. a \in B /\ d \in B
      BY <2>3
    <3> HIDE DEF a, R, Q, P
    <3> QED
      BY <2>4, <3>1, SumRecursion
  <2> HIDE DEF a, R, P
  <2>11. Widths(s, U) = WidthAt(s, d) + Widths(s, Q)
    BY <2>5, <2>9, <2>10
  <2> QED
    BY <2>2, <2>11
<1>2. CASE T = {}
  <2> HIDE DEF Right
  <2>1. Right(S)
    BY <1>2
  <2> QED
    BY <2>1 DEF Right
<1> QED
  BY <1>1, <1>2

--------------------------------------------------------------------------------
(* What a string shows. *)

LEMMA GlyphsComplete ==
  ASSUME FontInv, FontLoaded, NEW c \in Characters
  PROVE  \/ GlyphsFor(c) = {} /\ c \notin DOMAIN m_glyphs
         \/ /\ GlyphsFor(c) # {} /\ c \in DOMAIN m_glyphs
            /\ m_glyphs[c].width = GlyphElement(c).width /\ GlyphElement(c).width \in Nat
            /\ m_pages[m_glyphs[c].page][m_glyphs[c].frame + 1] =
                 Frame(PageElement(GlyphElement(c).page), Max(GlyphsFor(c)))
            /\ m_pages[m_glyphs[c].page][m_glyphs[c].frame + 1] \in Shapes
<1>1. /\ font \in Fonts /\ next \in Nat
      /\ Len(font.pages) \in Nat /\ Len(font.glyphs) \in Nat
      /\ next > Len(font.pages) + Len(font.glyphs)
  <2>1. font \in Fonts /\ next \in 1 .. FontElements + 1 /\ next > FontElements
    BY DEF FontInv, FontLoaded
  <2>2. \A a : \A d \in 1 .. a : d \in Nat
    OBVIOUS
  <2>3. next \in Nat
    BY <2>1, <2>2, Zenon
  <2> QED
    BY <2>1, <2>3, FontTypes DEF FontElements
<1>2. \A d \in GlyphsFor(c) : d \in 1 .. Len(font.glyphs)
  BY <1>1, FontTypes DEF GlyphsFor
<1>3. GlyphsUntil(c) = GlyphsFor(c)
  <2>1. \A a, b \in Nat : \A n \in Nat : n > a + b => \A d \in 1 .. b : a + d < n
    OBVIOUS
  <2>2. \A d \in 1 .. Len(font.glyphs) : Len(font.pages) + d < next
    BY <1>1, <2>1, Zenon
  <2>3. \A d \in GlyphsFor(c) : Len(font.pages) + d < next
    BY <1>2, <2>2, Zenon
  <2> QED
    BY <2>3, Zenon DEF GlyphsUntil
<1>4. CASE GlyphsUntil(c) = {} /\ c \notin DOMAIN m_glyphs
  BY <1>3, <1>4
<1>5. ASSUME NEW g, IsLatest(g, GlyphsUntil(c)), c \in DOMAIN m_glyphs, IsGlyph(m_glyphs[c], g)
      PROVE  /\ GlyphsFor(c) # {}
             /\ m_glyphs[c].width = GlyphElement(c).width /\ GlyphElement(c).width \in Nat
             /\ m_pages[m_glyphs[c].page][m_glyphs[c].frame + 1] =
                  Frame(PageElement(GlyphElement(c).page), Max(GlyphsFor(c)))
             /\ m_pages[m_glyphs[c].page][m_glyphs[c].frame + 1] \in Shapes
  <2> DEFINE n == m_glyphs[c].page
             f == m_glyphs[c].frame
  <2>1. GlyphsFor(c) # {} /\ Max(GlyphsFor(c)) = g /\ GlyphElement(c) = font.glyphs[g]
    <3>1. GlyphsFor(c) \subseteq Int /\ IsLatest(g, GlyphsFor(c))
      BY <1>2, <1>3, <1>5
    <3>2. Max(GlyphsFor(c)) = g /\ GlyphsFor(c) # {}
      BY <3>1, MaxIs
    <3> QED
      BY <3>2 DEF GlyphElement
  <2>2. g \in 1 .. Len(font.glyphs) /\ font.glyphs[g].width \in Nat
    BY <1>1, <1>2, <1>3, <1>5, FontTypes DEF IsLatest
  <2>3. /\ n = font.glyphs[g].page /\ m_glyphs[c].width = font.glyphs[g].width
        /\ n \in 1 .. Len(m_pages) /\ f \in Nat /\ f < Len(m_pages[n])
        /\ m_pages[n][f + 1] = Frame(m_pages[n][1].page, g)
    BY <1>5 DEF IsGlyph
  <2> HIDE DEF n, f
  <2>4. m_pages \in Seq(Seq(Shapes))
    BY DEF FontInv, PagesRight
  <2>5. m_pages[n] \in Seq(Shapes)
    BY <2>3, <2>4
  <2>6. m_pages[n][f + 1] \in Shapes
    BY <2>3, <2>5
  <2>7. m_pages[n][1].page = PageElement(n)
    <3>1. PICK p : IsLatest(p, PagesUntil(n)) /\ m_pages[n][1] = Frame(p, 0)
      BY <2>3 DEF FontInv, PagesRight
    <3>5. \A d \in Placed(font) : d < next
      <4>1. \A a, b \in Nat : \A k \in Nat : k > a + b => \A d \in 1 .. a : d < k
        OBVIOUS
      <4>2. \A d \in 1 .. Len(font.pages) : d < next
        BY <1>1, <4>1, Zenon
      <4> QED
        BY <1>1, <4>2, FontTypes, Zenon
    <3>2. PagesUntil(n) = {d \in Placed(font) : font.pages[d].index = n}
      BY <3>5, Zenon DEF PagesUntil
    <3>3. PagesUntil(n) \subseteq Int
      BY <1>1, FontTypes DEF PagesUntil
    <3>4. PageElement(n) = p
      BY <3>1, <3>2, <3>3, MaxIs DEF PageElement
    <3> QED
      BY <3>1, <3>4 DEF Frame
  <2> QED
    BY <2>1, <2>2, <2>3, <2>6, <2>7 DEF n, f
<1> QED
  BY <1>4, <1>5 DEF FontInv, GlyphsRight

(* The pen while a string is drawn. *)
Pens == [at : Nat, drawn : Seq([shows : Shapes, at : Nat])]
Start == [at |-> 0, drawn |-> <<>>]

LEMMA PenMoves ==
  ASSUME FontInv, FontLoaded, NEW pen \in Pens, NEW c \in Characters
  PROVE  /\ renderCharacter(pen, c) \in Pens
         /\ GlyphsFor(c) = {} => renderCharacter(pen, c) = pen
         /\ GlyphsFor(c) # {} =>
              /\ GlyphElement(c).width \in Nat
              /\ renderCharacter(pen, c) =
                   [at |-> pen.at + GlyphElement(c).width,
                    drawn |-> Append(pen.drawn,
                                [shows |-> Frame(PageElement(GlyphElement(c).page), Max(GlyphsFor(c))),
                                 at |-> pen.at])]
<1>1. CASE GlyphsFor(c) = {} /\ c \notin DOMAIN m_glyphs
  BY <1>1 DEF renderCharacter
<1>2. CASE GlyphsFor(c) # {} /\ c \in DOMAIN m_glyphs
  <2> DEFINE frame == Frame(PageElement(GlyphElement(c).page), Max(GlyphsFor(c)))
             width == GlyphElement(c).width
             shown_ == [shows |-> frame, at |-> pen.at]
             next_ == [at |-> pen.at + width, drawn |-> Append(pen.drawn, shown_)]
  <2>1. frame \in Shapes /\ width \in Nat
    BY <1>2, GlyphsComplete
  <2>2. renderCharacter(pen, c) = next_
    BY <1>2, GlyphsComplete DEF renderCharacter
  <2> HIDE DEF frame, width
  <2>3. pen.at \in Nat /\ pen.drawn \in Seq([shows : Shapes, at : Nat])
    BY DEF Pens
  <2>4. shown_ \in [shows : Shapes, at : Nat]
    BY <2>1, <2>3
  <2>5. Append(pen.drawn, shown_) \in Seq([shows : Shapes, at : Nat])
    BY <2>3, <2>4, AppendProperties
  <2>6. next_ \in Pens
    BY <2>1, <2>3, <2>5 DEF Pens
  <2> HIDE DEF next_
  <2>7. renderCharacter(pen, c) \in Pens /\ renderCharacter(pen, c) = next_
    BY <2>2, <2>6
  <2> QED
    BY <1>2, <2>1, <2>7 DEF next_, frame, width
<1> QED
  BY <1>1, <1>2, GlyphsComplete

(* Drawing a string goes through its prefixes. *)
LEMMA PenSteps ==
  ASSUME FontInv, FontLoaded, NEW s \in Seq(Characters)
  PROVE  \E pens : /\ render(s) = pens[1 .. Len(s)].drawn /\ pens[{}] = Start
                   /\ \A k \in 1 .. Len(s) : pens[1 .. k] = renderCharacter(pens[1 .. k - 1], s[k])
                   /\ \A k \in 0 .. Len(s) : pens[1 .. k] \in Pens
<1> DEFINE B == 1 .. Len(s)
           c == [S \in SUBSET B |-> Max(S)]
           h == [p \in B \X Pens |-> renderCharacter(p[2], s[p[1]])]
           Def(f) == f = [S \in SUBSET B |-> IF S = {} THEN Start
                                             ELSE renderCharacter(f[S \ {Max(S)}], s[Max(S)])]
<1>1. Len(s) \in Nat /\ DOMAIN s = B /\ IsFiniteSet(B) /\ \A k \in B : s[k] \in Characters
  BY FS_Interval
<1>2. \A S \in SUBSET B : S # {} => Max(S) \in S /\ Max(S) \in B /\ \A d \in S : d <= Max(S)
  BY <1>1, MaxOf
<1> HIDE DEF B
<1>3. h \in [B \X Pens -> Pens]
  <2>1. \A p \in B \X Pens : p[1] \in B /\ p[2] \in Pens
    OBVIOUS
  <2>2. \A p \in B \X Pens : renderCharacter(p[2], s[p[1]]) \in Pens
    BY <1>1, <2>1, PenMoves
  <2> QED
    BY <2>2
<1>4. \A S \in SUBSET B : S # {} => c[S] \in S
  BY <1>2
<1>5. Start \in Pens
  BY DEF Start, Pens
<1>6. PICK f \in [SUBSET B -> Pens] : Folds(f, B, Start, c, h)
  <2> HIDE DEF c, h
  <2> QED
    BY <1>1, <1>3, <1>4, <1>5, FoldExists
<1>7. ASSUME NEW S \in SUBSET B
      PROVE  f[S] = IF S = {} THEN Start ELSE renderCharacter(f[S \ {Max(S)}], s[Max(S)])
  <2>1. CASE S = {}
    BY <1>6, <2>1 DEF Folds
  <2>2. CASE S # {}
    <3>1. f[S] = h[<<c[S], f[S \ {c[S]}]>>] /\ c[S] = Max(S)
      BY <1>6, <2>2 DEF Folds
    <3>2. Max(S) \in B /\ f[S \ {Max(S)}] \in Pens
      BY <1>2, <1>6, <2>2
    <3>3. h[<<Max(S), f[S \ {Max(S)}]>>] = renderCharacter(f[S \ {Max(S)}], s[Max(S)])
      BY <3>2
    <3> QED
      BY <2>2, <3>1, <3>3
  <2> QED
    BY <2>1, <2>2
<1> HIDE DEF c, h
<1>8. Def(f)
  BY <1>7
<1> DEFINE g == CHOOSE k : Def(k)
<1>9. Def(g)
  <2>1. \E k : Def(k)
    BY <1>8
  <2> HIDE DEF Def
  <2> QED
    BY <2>1
<1>10. render(s) = g[B].drawn
  BY <1>1 DEF render, FoldLeft, MapThenFoldSet, Start
<1> HIDE DEF g
<1>11. ASSUME NEW k \in 1 .. Len(s)
       PROVE  /\ 1 .. k \in SUBSET B /\ 1 .. k # {} /\ Max(1 .. k) = k
              /\ (1 .. k) \ {k} = 1 .. k - 1
  <2>1. 1 .. k \in SUBSET B /\ k \in 1 .. k
    BY <1>1 DEF B
  <2>2. Max(1 .. k) \in 1 .. k /\ k <= Max(1 .. k)
    BY <1>2, <2>1
  <2> QED
    BY <2>1, <2>2
<1>16. \A S \in SUBSET B : g[S] = IF S = {} THEN Start
                                   ELSE renderCharacter(g[S \ {Max(S)}], s[Max(S)])
  BY <1>9
<1>12. \A k \in 1 .. Len(s) : g[1 .. k] = renderCharacter(g[1 .. k - 1], s[k])
  <2> SUFFICES ASSUME NEW k \in 1 .. Len(s)
               PROVE  g[1 .. k] = renderCharacter(g[1 .. k - 1], s[k])
    OBVIOUS
  <2> HIDE DEF Def
  <2> DEFINE S == 1 .. k
             R == 1 .. k - 1
  <2>1. S \in SUBSET B /\ S # {} /\ Max(S) = k /\ S \ {k} = R
    BY <1>11
  <2> HIDE DEF S, R
  <2>2. g[S] = renderCharacter(g[S \ {Max(S)}], s[Max(S)])
    BY <1>16, <2>1, Zenon
  <2>3. g[S] = renderCharacter(g[R], s[k])
    BY <2>1, <2>2, Zenon
  <2> QED
    BY <2>3 DEF S, R
<1>13. g[{}] = Start
  BY <1>9
<1> DEFINE T == {k \in 0 .. Len(s) : g[1 .. k] \notin Pens}
<1>14. ASSUME T # {} PROVE FALSE
  <2>1. PICK k \in T : \A m \in T : k <= m
    <3>1. T \subseteq Nat
      OBVIOUS
    <3> HIDE DEF T
    <3> QED
      BY <1>14, <3>1, LeastOf
  <2>2. k # 0
    <3>1. 1 .. 0 = {}
      OBVIOUS
    <3> QED
      BY <1>5, <1>13, <3>1
  <2>3. k - 1 \in 0 .. Len(s) /\ k \in 1 .. Len(s) /\ ~(k <= k - 1)
    BY <1>1, <2>2
  <2>4. g[1 .. k - 1] \in Pens
    BY <2>1, <2>3
  <2>5. g[1 .. k] \in Pens
    BY <1>1, <1>12, <2>3, <2>4, PenMoves DEF B
  <2> QED
    BY <2>5
<1>15. \A k \in 0 .. Len(s) : g[1 .. k] \in Pens
  <2> HIDE <1>9
  <2> QED
    BY <1>14
<1> QED
  BY <1>10, <1>12, <1>13, <1>15 DEF B

(* The characters of a string that show, and what each one shows. *)
Visible(s) == {i \in DOMAIN s : GlyphsFor(s[i]) # {}}
Earlier(s, k) == {j \in Visible(s) : j < k}
Inked(s, i) == [shows |-> Frame(PageElement(GlyphElement(s[i]).page), Max(GlyphsFor(s[i]))),
                at |-> Widths(s, Earlier(s, i))]

PenRight(s, pen, k) ==
  /\ pen.at = Widths(s, Earlier(s, k))
  /\ Len(pen.drawn) = Cardinality(Earlier(s, k))
  /\ \A i \in Earlier(s, k) : pen.drawn[Cardinality(Earlier(s, i)) + 1] = Inked(s, i)

LEMMA EarlierOnes ==
  ASSUME FontInv, FontLoaded, NEW s \in Seq(Characters)
  PROVE  /\ IsFiniteSet(Visible(s)) /\ \A j \in Visible(s) : WidthAt(s, j) \in Nat
         /\ \A k : /\ Earlier(s, k) \in SUBSET Visible(s) /\ IsFiniteSet(Earlier(s, k))
                   /\ Cardinality(Earlier(s, k)) \in Nat
         /\ \A k \in Nat : \A i \in Earlier(s, k) :
              Cardinality(Earlier(s, i)) + 1 <= Cardinality(Earlier(s, k))
<1>1. Visible(s) \subseteq 1 .. Len(s) /\ IsFiniteSet(1 .. Len(s)) /\ Len(s) \in Nat
  BY FS_Interval DEF Visible
<1>2. IsFiniteSet(Visible(s))
  <2> DEFINE B == 1 .. Len(s)
  <2>1. Visible(s) \subseteq B /\ IsFiniteSet(B)
    BY <1>1
  <2> HIDE DEF B
  <2> QED
    BY <2>1, FS_Subset
<1>3. \A j \in Visible(s) : WidthAt(s, j) \in Nat
  <2> SUFFICES ASSUME NEW j \in Visible(s) PROVE WidthAt(s, j) \in Nat
    OBVIOUS
  <2>1. s[j] \in Characters /\ GlyphsFor(s[j]) # {}
    BY <1>1 DEF Visible
  <2> QED
    BY <2>1, GlyphsComplete DEF WidthAt
<1>4. ASSUME NEW k
      PROVE  /\ Earlier(s, k) \in SUBSET Visible(s) /\ IsFiniteSet(Earlier(s, k))
             /\ Cardinality(Earlier(s, k)) \in Nat
  <2>1. Earlier(s, k) \subseteq Visible(s)
    BY DEF Earlier
  <2> QED
    BY <1>2, <2>1, FS_Subset, FS_CardinalityType
<1>5. ASSUME NEW k \in Nat, NEW i \in Earlier(s, k)
      PROVE  Cardinality(Earlier(s, i)) + 1 <= Cardinality(Earlier(s, k))
  <2>1. i \notin Earlier(s, i) /\ Earlier(s, i) \cup {i} \subseteq Earlier(s, k)
    BY <1>1 DEF Earlier
  <2>2. Cardinality(Earlier(s, i) \cup {i}) = Cardinality(Earlier(s, i)) + 1
    BY <1>4, <2>1, FS_AddElement
  <2>3. Cardinality(Earlier(s, i) \cup {i}) <= Cardinality(Earlier(s, k))
    BY <1>4, <2>1, FS_Subset
  <2> QED
    BY <2>2, <2>3
<1> QED
  BY <1>2, <1>3, <1>4, <1>5

LEMMA PenStaysRight ==
  ASSUME FontInv, FontLoaded, NEW s \in Seq(Characters), NEW k \in 1 .. Len(s),
         NEW pen \in Pens, PenRight(s, pen, k)
  PROVE  PenRight(s, renderCharacter(pen, s[k]), k + 1)
<1> DEFINE U == Earlier(s, k)
<1>1. s[k] \in Characters /\ k \in Nat /\ Visible(s) \subseteq Nat
  BY DEF Visible
<1>2. /\ U \in SUBSET Visible(s) /\ IsFiniteSet(U) /\ Cardinality(U) \in Nat /\ k \notin U
      /\ \A i \in U : Cardinality(Earlier(s, i)) + 1 <= Cardinality(U)
                      /\ Cardinality(Earlier(s, i)) \in Nat
  <2>1. /\ U \in SUBSET Visible(s) /\ IsFiniteSet(U) /\ Cardinality(U) \in Nat
        /\ \A i : Cardinality(Earlier(s, i)) \in Nat
    BY EarlierOnes, Zenon
  <2>2. \A i \in U : Cardinality(Earlier(s, i)) + 1 <= Cardinality(U)
    BY <1>1, EarlierOnes, Zenon
  <2>3. k \notin U
    BY <1>1 DEF Earlier
  <2> QED
    BY <2>1, <2>2, <2>3, Zenon
<1>3. CASE GlyphsFor(s[k]) = {}
  <2>1. Earlier(s, k + 1) = Earlier(s, k)
    BY <1>1, <1>3 DEF Earlier, Visible
  <2>2. renderCharacter(pen, s[k]) = pen
    BY <1>1, <1>3, PenMoves
  <2> QED
    BY <2>1, <2>2 DEF PenRight
<1>4. CASE GlyphsFor(s[k]) # {}
  <2>1. k \in Visible(s)
    BY <1>1, <1>4 DEF Visible
  <2>2. Earlier(s, k + 1) = U \cup {k}
    BY <1>1, <2>1 DEF Earlier
  <2>3. Cardinality(U \cup {k}) = Cardinality(U) + 1
    BY <1>2, FS_AddElement
  <2>4. Widths(s, U \cup {k}) = WidthAt(s, k) + Widths(s, U)
    <3> DEFINE V == U \cup {k}
    <3>1. V \in SUBSET Visible(s) /\ k \in V /\ V \ {k} = U
      BY <1>2, <2>1
    <3> HIDE DEF V, U
    <3>3. IsFiniteSet(Visible(s)) /\ \A j \in Visible(s) : WidthAt(s, j) \in Nat
      BY EarlierOnes, Zenon
    <3>2. Widths(s, V) = WidthAt(s, k) + Widths(s, V \ {k})
      <4>1. PICK B : B = Visible(s)
        OBVIOUS
      <4>2. IsFiniteSet(B) /\ V \in SUBSET B
        BY <3>1, <3>3, <4>1
      <4>3. \A j \in B : WidthAt(s, j) \in Nat
        BY <3>3, <4>1
      <4>4. \A S \in SUBSET B : \A j \in S : Widths(s, S) = WidthAt(s, j) + Widths(s, S \ {j})
        BY <4>2, <4>3, SumAny
      <4> QED
        BY <3>1, <4>2, <4>4
    <3> QED
      BY <3>1, <3>2 DEF V
  <2>5. pen.at = Widths(s, U) /\ Len(pen.drawn) = Cardinality(U)
    BY DEF PenRight
  <2>6. /\ WidthAt(s, k) \in Nat /\ pen.at \in Nat
        /\ renderCharacter(pen, s[k]) = [at |-> pen.at + WidthAt(s, k),
                                         drawn |-> Append(pen.drawn, Inked(s, k))]
        /\ renderCharacter(pen, s[k]) \in Pens
    <3>1. WidthAt(s, k) \in Nat /\ renderCharacter(pen, s[k]) \in Pens
      BY <1>1, <1>4, PenMoves DEF WidthAt
    <3>2. pen.at \in Nat
      BY DEF Pens
    <3>3. renderCharacter(pen, s[k]) =
            [at |-> pen.at + GlyphElement(s[k]).width,
             drawn |-> Append(pen.drawn,
                         [shows |-> Frame(PageElement(GlyphElement(s[k]).page), Max(GlyphsFor(s[k]))),
                          at |-> pen.at])]
      BY <1>1, <1>4, PenMoves
    <3> QED
      BY <2>5, <3>1, <3>2, <3>3 DEF WidthAt, Inked
  <2> DEFINE longer == Append(pen.drawn, Inked(s, k))
  <2>7. /\ Len(longer) = Cardinality(U) + 1
        /\ \A n \in 1 .. Cardinality(U) : longer[n] = pen.drawn[n]
        /\ longer[Cardinality(U) + 1] = Inked(s, k)
    <3>1. pen.drawn \in Seq([shows : Shapes, at : Nat])
      BY DEF Pens
    <3> PICK d : d = Inked(s, k)
      OBVIOUS
    <3>2. /\ Len(Append(pen.drawn, d)) = Len(pen.drawn) + 1
          /\ \A n \in 1 .. Len(pen.drawn) : Append(pen.drawn, d)[n] = pen.drawn[n]
          /\ Append(pen.drawn, d)[Len(pen.drawn) + 1] = d
      BY <3>1
    <3> QED
      BY <2>5, <3>2
  <2> HIDE DEF longer
  <2> DEFINE pen2 == renderCharacter(pen, s[k])
  <2>8. pen2.at = Widths(s, U \cup {k}) /\ pen2.drawn = longer
    BY <2>4, <2>5, <2>6 DEF longer
  <2> HIDE DEF pen2
  <2>9. ASSUME NEW i \in U \cup {k}
        PROVE  longer[Cardinality(Earlier(s, i)) + 1] = Inked(s, i)
    <3>1. CASE i = k
      BY <2>7, <3>1
    <3>2. CASE i \in U
      <4>1. Cardinality(Earlier(s, i)) + 1 \in 1 .. Cardinality(U)
        BY <1>2, <3>2
      <4>2. pen.drawn[Cardinality(Earlier(s, i)) + 1] = Inked(s, i)
        BY <3>2 DEF PenRight
      <4> QED
        BY <2>7, <4>1, <4>2
    <3> QED
      BY <3>1, <3>2
  <2>10. PenRight(s, pen2, k + 1)
    <3> HIDE DEF U
    <3>1. Len(longer) = Cardinality(U \cup {k})
      BY <2>3, <2>7
    <3> QED
      BY <2>2, <2>8, <2>9, <3>1, Zenon DEF PenRight
  <2> QED
    BY <2>10 DEF pen2
<1> QED
  BY <1>3, <1>4

LEMMA PenEndsRight ==
  ASSUME FontInv, FontLoaded, NEW s \in Seq(Characters)
  PROVE  \E pen \in Pens : render(s) = pen.drawn /\ PenRight(s, pen, Len(s) + 1)
<1>1. PICK pens : /\ render(s) = pens[1 .. Len(s)].drawn /\ pens[{}] = Start
                  /\ \A k \in 1 .. Len(s) : pens[1 .. k] = renderCharacter(pens[1 .. k - 1], s[k])
                  /\ \A k \in 0 .. Len(s) : pens[1 .. k] \in Pens
  BY PenSteps
<1> DEFINE T == {k \in 0 .. Len(s) : ~PenRight(s, pens[1 .. k], k + 1)}
<1>2. PenRight(s, pens[1 .. 0], 0 + 1)
  <2>1. pens[1 .. 0] = Start
    <3>1. 1 .. 0 = {}
      OBVIOUS
    <3> QED
      BY <1>1, <3>1
  <2>2. Earlier(s, 0 + 1) = {}
    BY DEF Earlier, Visible
  <2>3. Widths(s, {}) = 0
    <3>1. {} \in SUBSET Visible(s)
      OBVIOUS
    <3> QED
      BY <3>1, EarlierOnes, SumRecursion
  <2>4. Start.at = 0 /\ Len(Start.drawn) = 0 /\ Cardinality({}) = 0
    BY FS_EmptySet DEF Start
  <2>5. PenRight(s, Start, 0 + 1)
    BY <2>2, <2>3, <2>4 DEF PenRight
  <2> QED
    BY <2>1, <2>5, Zenon
<1>3. ASSUME T # {} PROVE FALSE
  <2>1. PICK k \in T : \A m \in T : k <= m
    <3>1. T \subseteq Nat
      OBVIOUS
    <3> HIDE DEF T
    <3> QED
      BY <1>3, <3>1, LeastOf
  <2>2. k # 0 /\ ~PenRight(s, pens[1 .. k], k + 1) /\ k \in 0 .. Len(s)
    BY <1>2
  <2>3. /\ k - 1 \in 0 .. Len(s) /\ k \in 1 .. Len(s) /\ ~(k <= k - 1) /\ (k - 1) + 1 = k
    BY <2>2
  <2>4. PenRight(s, pens[1 .. k - 1], k)
    <3>1. k - 1 \notin T
      BY <2>1, <2>3
    <3>2. PenRight(s, pens[1 .. k - 1], (k - 1) + 1)
      BY <2>3, <3>1
    <3> QED
      BY <2>3, <3>2
  <2>5. pens[1 .. k - 1] \in Pens
    BY <1>1, <2>3
  <2>6. PenRight(s, renderCharacter(pens[1 .. k - 1], s[k]), k + 1)
    BY <2>3, <2>4, <2>5, PenStaysRight
  <2>7. pens[1 .. k] = renderCharacter(pens[1 .. k - 1], s[k])
    BY <1>1, <2>3
  <2> QED
    BY <2>2, <2>6, <2>7
<1>4. Len(s) \in 0 .. Len(s)
  OBVIOUS
<1>5. PenRight(s, pens[1 .. Len(s)], Len(s) + 1)
  <2>1. Len(s) \notin T
    BY <1>3
  <2> QED
    BY <1>4, <2>1
<1> QED
  BY <1>1, <1>4, <1>5

LEMMA Writes == FontInv => TextAsWritten
<1> SUFFICES ASSUME FontInv, FontLoaded, NEW s \in Strings
             PROVE  /\ Len(render(s)) = Cardinality(Visible(s))
                    /\ \A i \in Visible(s) :
                         render(s)[Cardinality(Earlier(s, i)) + 1] = Inked(s, i)
  BY DEF TextAsWritten, Visible, Earlier, Inked, Widths
<1>1. s \in Seq(Characters)
  BY FontAssumption
<1>2. PICK pen \in Pens : render(s) = pen.drawn /\ PenRight(s, pen, Len(s) + 1)
  BY <1>1, PenEndsRight
<1>3. Earlier(s, Len(s) + 1) = Visible(s)
  BY <1>1 DEF Earlier, Visible
<1> QED
  BY <1>2, <1>3 DEF PenRight

(* Writing, checked by the run drawing: a string drawn shows, for each     *)
(* character that has a glyph, the frame cut for its last glyph element    *)
(* out of the last page of that number, as far from the origin as the      *)
(* characters before it are wide.                                          *)
THEOREM Writing == Spec => []TextAsWritten
<1>1. Init => FontInv
  BY FontStart DEF Init
<1>2. FontInv /\ [Next]_vars => FontInv'
  <2> SUFFICES ASSUME FontInv, [Next]_vars PROVE FontInv'
    OBVIOUS
  <2>1. CASE LoadFont
    BY <2>1, PagesStep, GlyphsStep DEF LoadFont
  <2>2. CASE UNCHANGED fontVars
    <3>1. font' = font /\ next' = next /\ m_pages' = m_pages /\ m_glyphs' = m_glyphs
      BY <2>2 DEF fontVars
    <3>2. PagesRight'
      BY <3>1 DEF FontInv, PagesRight, PagesUntil, Placed
    <3>3. GlyphsRight'
      <4>1. \A c : GlyphsUntil(c)' = GlyphsUntil(c)
        BY <3>1 DEF GlyphsUntil, GlyphsFor, PagesOf, Placed
      <4>2. ASSUME NEW c, NEW g, IsGlyph(m_glyphs[c], g) PROVE IsGlyph(m_glyphs[c], g)'
        BY <3>1, <4>2 DEF IsGlyph
      <4>3. ASSUME NEW c \in Characters
            PROVE  \/ GlyphsUntil(c)' = {} /\ c \notin DOMAIN m_glyphs'
                   \/ \E g : /\ IsLatest(g, GlyphsUntil(c)') /\ c \in DOMAIN m_glyphs'
                             /\ IsGlyph(m_glyphs[c], g)'
        <5>1. \/ GlyphsUntil(c) = {} /\ c \notin DOMAIN m_glyphs
              \/ \E g : IsLatest(g, GlyphsUntil(c)) /\ c \in DOMAIN m_glyphs /\ IsGlyph(m_glyphs[c], g)
          BY DEF FontInv, GlyphsRight
        <5> QED
          BY <3>1, <4>1, <4>2, <5>1
      <4> QED
        BY <4>3 DEF GlyphsRight, IsLatest
    <3> QED
      BY <3>1, <3>2, <3>3 DEF FontInv, FontElements
  <2>3. LoadFont \/ UNCHANGED fontVars
    BY DEF Next, vars, FrameStep, TimePasses, Advance, Render, EndGui, Call, LoadAssets
  <2> QED
    BY <2>1, <2>2, <2>3
<1>3. FontInv => TextAsWritten
  BY Writes
<1> QED
  BY <1>1, <1>2, <1>3, PTL DEF Spec
================================================================================
