------------------------------- MODULE Screen -------------------------------
(***************************************************************************)
(* The screen as the game sees it: where a sprite can be printed           *)
(* (controllers/graphics/graphic.c), and when two boxes of the game touch. *)
(***************************************************************************)
EXTENDS Integers

CONSTANTS XResolution, YResolution     \* mode_info

ASSUME ScreenAssumption == XResolution \in Nat /\ YResolution \in Nat

Position == [x : Int, y : Int]

At(px, py) == [x |-> px, y |-> py]

(***************************************************************************)
(* print_xpm() of a w by h sprite at p succeeds: vg_draw_pixel() refuses   *)
(* a pixel off the screen, and the first refusal is the result.  (A        *)
(* negative coordinate is a large uint16_t there, and so refused too.)     *)
(***************************************************************************)
Printable(p, w, h) ==
  /\ p.x >= 0 /\ p.x + w <= XResolution
  /\ p.y >= 0 /\ p.y + h <= YResolution

(***************************************************************************)
(* The test of all four collision checks of game_state.c, on a box of pw   *)
(* by ph at p and one of qw by qh at q.                                    *)
(***************************************************************************)
Overlap(p, pw, ph, q, qw, qh) ==
  /\ p.x < q.x + qw /\ p.x + pw > q.x
  /\ p.y < q.y + qh /\ p.y + ph > q.y

=============================================================================
