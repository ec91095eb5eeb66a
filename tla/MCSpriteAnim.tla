---------------------------- MODULE MCSpriteAnim ----------------------------
(***************************************************************************)
(* SpriteAnim on a small definition: one animation of a single frame, and  *)
(* one of two frames that last one and two updates.                        *)
(***************************************************************************)
EXTENDS SpriteAnim

MCnumFrame == <<1, 2>>
MCloopFrame == <<1, 1>>
MCframeTimer == [f \in {<<1, 1>>, <<2, 1>>, <<2, 2>>} |-> f[2]]
=============================================================================
