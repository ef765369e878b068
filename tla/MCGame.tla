------------------------------- MODULE MCGame -------------------------------
(***************************************************************************)
(* Game on a small screen.  The proportions that decide what can happen    *)
(* are those of the program: see MCGame.cfg.                               *)
(***************************************************************************)
EXTENDS Game

MCMuzzles == {At(px, py) : px \in 0 .. XResolution, py \in
                ENEMY_START_Y + ENEMY_HEIGHT .. YResolution + ENEMY_HEIGHT}

=============================================================================
