------------------------------ MODULE MCServices ------------------------------
(* The two services of the engine that every actor may use: the space, and *)
(* the sources of sound.  They share nothing, so a behaviour here is one   *)
(* of the one or of the other, which saves their product.                  *)
EXTENDS Audio, World

MCInit == AudioInit /\ WorldInit
Silent == state = [s \in Source |-> FALSE] /\ issued = <<>>
Unused == spacePhase = "step" /\ \A a \in Actors : life[a] = "unborn"
MCNext ==
  \/ Silent /\ WorldNext /\ UNCHANGED audioVars
  \/ Unused /\ AudioNext /\ UNCHANGED worldVars

(* The fairness is that of AudioSpec; it asks for nothing in a silent world. *)
MCSpec ==
  /\ MCInit /\ [][MCNext]_<<audioVars, worldVars>>
  /\ WF_audioVars(update) /\ \A s \in Source : WF_audioVars(Finish(s))
================================================================================
