------------------------------- MODULE Score --------------------------------
(***************************************************************************)
(* The score of the game being played: the first part of                   *)
(* game/scores/score.c.  Each operation is an action on the variables of   *)
(* this module, for the modules that call it.                              *)
(*                                                                         *)
(* timer_counter and game_start_time only matter by their difference,      *)
(* game_ticks, the timer interrupts since score_init().                    *)
(***************************************************************************)
EXTENDS Integers

CONSTANTS
  BASE_SCORE,          \* 10000
  BULLET_PENALTY,      \* 50 for a bullet
  TIME_PENALTY,        \* 10 for a second
  MIN_SCORE,           \* 100
  FREQ                 \* timer interrupts per second

VARIABLES
  current_score,                \* [bullets_fired, game_time_seconds, final_score]
  game_ticks,
  game_active,
  highscore_saved_this_game

scoreVars == <<current_score, game_ticks, game_active, highscore_saved_this_game>>

ASSUME ScoreAssumption ==
  /\ {BASE_SCORE, BULLET_PENALTY, TIME_PENALTY, MIN_SCORE} \subseteq Nat
  /\ FREQ \in Nat \ {0}
  /\ MIN_SCORE <= BASE_SCORE

ZeroScore == [bullets_fired |-> 0, game_time_seconds |-> 0, final_score |-> 0]

(***************************************************************************)
(* The formula of score_calculate_final(), and of draw_live_score().       *)
(***************************************************************************)
ScoreOf(bullets_fired, seconds) ==
  LET score == BASE_SCORE - bullets_fired * BULLET_PENALTY - seconds * TIME_PENALTY
  IN  IF score < MIN_SCORE THEN MIN_SCORE ELSE score

-----------------------------------------------------------------------------
ScoreInit ==
  /\ current_score = ZeroScore
  /\ game_ticks = 0
  /\ game_active = FALSE
  /\ highscore_saved_this_game = FALSE

\* A slip of score_init: game_start_time is not set.
score_init_old_start ==
  /\ current_score' = ZeroScore
  /\ game_active' = TRUE
  /\ highscore_saved_this_game' = FALSE
  /\ UNCHANGED game_ticks

score_init ==
  /\ current_score' = ZeroScore
  /\ game_ticks' = 0
  /\ game_active' = TRUE
  /\ highscore_saved_this_game' = FALSE

score_reset ==
  /\ current_score' = ZeroScore
  /\ game_ticks' = 0
  /\ game_active' = FALSE
  /\ highscore_saved_this_game' = FALSE

score_add_bullet ==
  /\ current_score' = IF game_active
                        THEN [current_score EXCEPT !.bullets_fired = @ + 1]
                        ELSE current_score
  /\ UNCHANGED <<game_ticks, game_active, highscore_saved_this_game>>

(***************************************************************************)
(* The score after timer_int_handler() and score_update_time().            *)
(***************************************************************************)
TicksCounted == game_ticks + 1

score_update_time ==
  IF game_active
    THEN [current_score EXCEPT !.game_time_seconds = TicksCounted \div FREQ]
    ELSE current_score

(***************************************************************************)
(* score_calculate_final() on the score cs.                                *)
(***************************************************************************)
score_calculate_final(cs) ==
  IF game_active
    THEN [cs EXCEPT !.final_score = ScoreOf(cs.bullets_fired, cs.game_time_seconds)]
    ELSE cs

(***************************************************************************)
(* What the ticks of game_state() do to the score: a frame after which the *)
(* game goes on, and one that loses or wins it.                            *)
(***************************************************************************)
ScoreGoesOn ==
  /\ game_ticks' = TicksCounted
  /\ current_score' = score_update_time
  /\ UNCHANGED <<game_active, highscore_saved_this_game>>

\* A slip of ScoreFinal: game_active is cleared before the score is calculated.
ScoreFinalTooLate ==
  /\ game_ticks' = TicksCounted
  /\ current_score' = score_update_time
  /\ game_active' = FALSE

ScoreFinal ==
  /\ game_ticks' = TicksCounted
  /\ current_score' = score_calculate_final(score_update_time)
  /\ game_active' = FALSE

-----------------------------------------------------------------------------
(***************************************************************************)
(* The types of the variables.                                             *)
(***************************************************************************)
ScoreTypeOK ==
  /\ current_score \in [bullets_fired : Nat, game_time_seconds : Nat, final_score : Nat]
  /\ game_ticks \in Nat
  /\ {game_active, highscore_saved_this_game} \subseteq BOOLEAN

=============================================================================
