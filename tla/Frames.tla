------------------------------- MODULE Frames -------------------------------
(***************************************************************************)
(* How the program uses the graphics driver: set_frame_buffer() and        *)
(* set_graphical_mode(), then one screen after the other, each drawn to    *)
(* back_buf and copied to video_mem.  What is drawn, and where, is left    *)
(* open; which draws may fail, and what then happens, is not.              *)
(*                                                                         *)
(* The screens: "game" is a frame of game_state(), "menu" is menu_render(),*)
(* "scores" is that of menu_handler() in MENU_SCORES, and "start" is what  *)
(* menu_handler() draws, and does not show, before a game.                 *)
(***************************************************************************)
EXTENDS Graphics, Sequences

CONSTANTS
  Places,       \* where sprites are put
  MAX_DRAWS     \* bound: sprites of a screen

Kind == {"game", "menu", "scores", "start"}

(***************************************************************************)
(* No place is so far off the screen that a uint16_t takes it back to it,  *)
(* and only the rectangle behind the scores is drawn in the background's   *)
(* colour.                                                                 *)
(***************************************************************************)
ASSUME FramesAssumption ==
  /\ Places \subseteq Position /\ MAX_DRAWS \in Nat
  /\ \A p \in Places : /\ p.x \in XResolution - UINT16_RANGE .. UINT16_RANGE - 1
                       /\ p.y \in YResolution - UINT16_RANGE .. UINT16_RANGE - 1
  /\ \A s \in Sprites : s.name # "black"

VARIABLES
  video_mem, back_buf,
  phase,        \* "setup", "idle", "drawing" or "ended"
  kind,         \* the screen that is drawn
  scene,        \* the draws of it so far
  shown         \* the scene that was copied to video_mem last

framesVars == <<video_mem, back_buf, phase, kind, scene, shown>>

Draws == [sprite : Sprites, at : Places]

(***************************************************************************)
(* The draws whose result nobody looks at are those of texts, shields and  *)
(* the aliens' bullets: between the sides of the screen, where the aliens  *)
(* are (Enemies!NeverOffSideways), and never above it.                     *)
(***************************************************************************)
LooseDraws == {d \in Draws : /\ d.at.x >= 0 /\ d.at.x + d.sprite.w <= XResolution
                             /\ d.at.y >= 0}

-----------------------------------------------------------------------------
FramesInit ==
  /\ video_mem = Filled(Black)
  /\ back_buf = Filled(<< "garbage", 0 >>)
  /\ phase = "setup"
  /\ kind = "menu"
  /\ scene = << >> /\ shown = << >>

(***************************************************************************)
(* The mode is known, the video memory mapped, back_buf allocated and the  *)
(* mode set, or one of these fails.                                        *)
(***************************************************************************)
SetUp ==
  /\ phase = "setup"
  /\ phase' \in {"idle", "ended"}
  /\ UNCHANGED <<video_mem, back_buf, kind, scene, shown>>

\* A slip of Clear: the screens of scores are drawn over what was there.
ClearNotScores(k) ==
  /\ phase = "idle"
  /\ kind' = k
  /\ back_buf' = IF k = "scores" THEN back_buf ELSE Filled(Black)
  /\ phase' = "drawing"
  /\ scene' = << >>
  /\ UNCHANGED <<video_mem, shown>>

(***************************************************************************)
(* clear_back_buf(), or a black rectangle on the screens of scores.        *)
(***************************************************************************)
Clear(k) ==
  /\ phase = "idle"
  /\ kind' = k
  /\ back_buf' = IF k = "scores" THEN Painted(back_buf, Screenful) ELSE Filled(Black)
  /\ phase' = "drawing"
  /\ scene' = << >>
  /\ UNCHANGED <<video_mem, shown>>

DrawNext(d) ==
  /\ phase = "drawing" /\ Len(scene) < MAX_DRAWS
  /\ back_buf' = Painted(back_buf, d)
  /\ scene' = Append(scene, d)
  /\ UNCHANGED <<video_mem, kind, shown>>

(***************************************************************************)
(* A draw whose failure ends the program, with a part of the sprite in     *)
(* back_buf: the ship, the aliens and the ship's bullets, and the messages *)
(* of the screen of a lost game.                                           *)
(***************************************************************************)
DrawOrEnd ==
  /\ kind # "menu"
  /\ \E d \in Draws :
       /\ DrawNext(d)
       /\ phase' = IF print_xpm(d) THEN "drawing" ELSE "ended"

DrawLoosely ==
  /\ kind # "start"
  /\ \E d \in LooseDraws : DrawNext(d)
  /\ UNCHANGED phase

swap_buffers ==
  /\ phase = "drawing" /\ kind # "start"
  /\ video_mem' = back_buf
  /\ shown' = scene
  /\ phase' = "idle"
  /\ UNCHANGED <<back_buf, kind, scene>>

(***************************************************************************)
(* The game begins: its first frame clears back_buf.                       *)
(***************************************************************************)
StartGame ==
  /\ phase = "drawing" /\ kind = "start"
  /\ phase' = "idle"
  /\ UNCHANGED <<video_mem, back_buf, kind, scene, shown>>

FramesNext ==
  \/ SetUp
  \/ \E k \in Kind : Clear(k)
  \/ DrawOrEnd \/ DrawLoosely
  \/ swap_buffers \/ StartGame

FramesSpec == FramesInit /\ [][FramesNext]_framesVars

-----------------------------------------------------------------------------
(***************************************************************************)
(* Every draw is as DrawFits has it: its result says whether the sprite    *)
(* fits, and it writes inside back_buf.                                    *)
(***************************************************************************)
DrawsFit == \A i \in DOMAIN scene : DrawFits(scene[i])

(***************************************************************************)
(* "Double buffering" (README): what is on the screen is a whole picture,  *)
(* of one scene, with nothing left of the one before or of a draw that     *)
(* failed; a sprite that leaves the screen at the bottom, whose draw fails *)
(* unnoticed, is seen as far as it is on the screen.                       *)
(***************************************************************************)
D == INSTANCE Display WITH
       Background <- Black,
       screen     <- [p \in [x : 0 .. XResolution - 1, y : 0 .. YResolution - 1]
                        |-> video_mem[Index(p)]]

DisplayPromised == D!DisplaySpec

=============================================================================
