------------------------------ MODULE Display -------------------------------
(***************************************************************************)
(* What double buffering promises: the screen changes in one step from one *)
(* picture to the next, and a picture is that of one scene alone.  A scene *)
(* is a sequence of sprites; where they overlap the later one is seen, and *)
(* what lies below the edge of the screen is cut off.                      *)
(***************************************************************************)
EXTENDS Integers, Sequences

CONSTANTS XResolution, YResolution, Background

VARIABLES
  screen,     \* the colour of each point
  shown       \* the scene that is seen

Point == [x : 0 .. XResolution - 1, y : 0 .. YResolution - 1]

Covers(d, p) ==
  /\ d.at.x <= p.x /\ p.x < d.at.x + d.sprite.w
  /\ d.at.y <= p.y /\ p.y < d.at.y + d.sprite.h

ColourAt(scene, p) ==
  LET over == {i \in DOMAIN scene : Covers(scene[i], p)}
  IN  IF over = {} THEN Background
      ELSE LET d == scene[CHOOSE i \in over : \A j \in over : j <= i]
           IN  << d.sprite.name, (p.y - d.at.y) * d.sprite.w + p.x - d.at.x >>

Picture(scene) == [p \in Point |-> ColourAt(scene, p)]

DisplayInit == shown = << >> /\ screen = Picture(shown)

Show == screen' = Picture(shown')

DisplaySpec == DisplayInit /\ [][Show]_<<screen, shown>>

=============================================================================
