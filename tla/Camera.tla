--------------------------------- MODULE Camera ---------------------------------
(***************************************************************************)
(* Camera.m: the stack of projections that scripts look at the world with. *)
(*                                                                         *)
(* The stack holds blocks of memory, each with one projection, and the     *)
(* methods write into the block on top.  Engine.createDisplay pushes the   *)
(* first block; a script that uses the camera before (a global script, run *)
(* by Engine.init) dereferences NULL, which is left out, as is the angle,  *)
(* which no script can set.  Where code divides, the constants do so       *)
(* without remainder.                                                      *)
(***************************************************************************)
EXTENDS Integers, Sequences, SequencesExt

CONSTANTS Width, Height,       \* of the display, in pixels
          Bounds,              \* what scripts set: an origin and a width
          Points, Zooms,       \* the positions and zooms they set
          MaxStack             \* bounds the depth of the stack

ASSUME CameraAssumption ==
  /\ Width \in Nat \ {0} /\ Height \in Nat \ {0}
  /\ \A b \in Bounds : b.width % (2 * Width) = 0
  /\ <<0, 0>> \in Points /\ 1 \in Zooms
  /\ MaxStack \in Nat \ {0}

VARIABLES m_stack,             \* the blocks of memory, by address
          bytes                \* the projection in each block in use

cameraVars == <<m_stack, bytes>>

(* The projection that shows every pixel of the display: the default one,  *)
(* and the one GUI.startRendering loads.                                   *)
DefaultProjection == [left |-> 0, right |-> Width - 1, bottom |-> 0, top |-> Height - 1,
                      at |-> <<0, 0>>, zoom |-> 1]

(* Memory gives out the lowest address that is free. *)
Fresh == Min(1 .. MaxStack \ DOMAIN bytes)

CameraInit == m_stack = <<1>> /\ bytes = [b \in {1} |-> DefaultProjection]

projection == bytes[Last(m_stack)]

push == /\ Len(m_stack) < MaxStack
        /\ m_stack' = Append(m_stack, Fresh)
        /\ bytes' = [b \in DOMAIN bytes \cup {Fresh} |->
                       IF b = Fresh THEN projection ELSE bytes[b]]

(* The last projection stays; a block that is on the stack no more is      *)
(* freed.                                                                  *)
pop == /\ Len(m_stack) > 1
       /\ m_stack' = Front(m_stack)
       /\ bytes' = Restrict(bytes, Range(m_stack'))

Write(proj) == /\ bytes' = [bytes EXCEPT ![Last(m_stack)] = proj]
               /\ UNCHANGED m_stack

(* The height that goes with a width, in the aspect ratio of the display. *)
AspectHeight(width) == (width * Height) \div Width

setOrigin(o, width) ==
  Write([projection EXCEPT !.left = o[1] - width \div 2,
                           !.right = o[1] + width \div 2,
                           !.bottom = o[2] - AspectHeight(width) \div 2,
                           !.top = o[2] + AspectHeight(width) \div 2])

setPosition(p) == Write([projection EXCEPT !.at = p])

(* translateBy: bounded by Points. *)
scroll(d) == LET p == <<projection.at[1] + d[1], projection.at[2] + d[2]>>
             IN  p \in Points /\ Write([projection EXCEPT !.at = p])

zoom(z) == Write([projection EXCEPT !.zoom = z])

(* What a script does with the camera. *)
CallCamera == \/ push \/ pop
              \/ \E b \in Bounds : setOrigin(b.origin, b.width)
              \/ \E p \in Points : setPosition(p) \/ scroll(p)
              \/ \E z \in Zooms : zoom(z)

--------------------------------------------------------------------------------
(* A script that pushes a projection, changes it and pops it again leaves  *)
(* the camera as it was: the writes into the block on top reach no         *)
(* projection below it.                                                    *)
OnlyTopChanges ==
  [][\A k \in 1 .. Len(m_stack) - 1 :
       k \in DOMAIN m_stack' /\ bytes'[m_stack'[k]] = bytes[m_stack[k]]]_cameraVars
================================================================================
