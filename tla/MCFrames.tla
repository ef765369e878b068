------------------------------ MODULE MCFrames ------------------------------
(***************************************************************************)
(* A screen of 3 by 3 pixels, two sprites, and places on every side of it. *)
(***************************************************************************)
EXTENDS Frames

MCSprites == {[name |-> "ship", w |-> 2, h |-> 2], [name |-> "bullet", w |-> 1, h |-> 3]}

MCPlaces == {At(px, py) : px \in {-1, 0, 2}, py \in {-1, 0, 1, 2}}

=============================================================================
