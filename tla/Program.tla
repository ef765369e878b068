------------------------------ MODULE Program -------------------------------
(***************************************************************************)
(* The program with its leaderboard, run again and again: module Main and  *)
(* module Leaderboard composed.  init_game() loads the leaderboard; a game *)
(* that is won saves its final score, step by step, while main.c waits for *)
(* save_win_highscore() to return; the program may be killed at any time,  *)
(* and starts again from nothing but the file.                             *)
(***************************************************************************)
EXTENDS Main, Leaderboard

programVars == <<vars, boardVars>>

ProgramInit == MainInit /\ BoardInit

-----------------------------------------------------------------------------
StartUp ==
  /\ step = "off"
  /\ InitGame
  /\ IF loop' = "menu" THEN Load \/ LoadFails ELSE UNCHANGED boardVars

\* A slip of WinGame: the score is saved before it is calculated.
WinGameTooEarly ==
  /\ step = "idle"
  /\ GameWon
  /\ IF highscore_saved_this_game THEN UNCHANGED boardVars
     ELSE (Save \/ SaveBlind) /\ saving' = ScoreOf(current_score.bullets_fired, current_score.game_time_seconds)

(***************************************************************************)
(* save_win_highscore() begins in the last frame of a game that is won.    *)
(***************************************************************************)
WinGame ==
  /\ step = "idle"
  /\ GameWon
  /\ IF highscore_saved_this_game THEN UNCHANGED boardVars
     ELSE (Save \/ SaveBlind) /\ saving' = current_score'.final_score

SaveStep ==
  /\ \/ Open \/ Header \/ Entry \/ Remember
     \/ OpenEmptied \/ OpenFails \/ HeaderFails \/ EntryFails
  /\ UNCHANGED vars

(***************************************************************************)
(* Whatever else the program does, it saves nothing meanwhile.             *)
(***************************************************************************)
Play ==
  /\ step = "idle"
  /\ \/ CloseGame \/ LeaveMenu \/ LeaveGame \/ MenuKeyboard \/ GameKeyboard \/ ScoresKeyboard
     \/ StartGame \/ ShowScores \/ ExitMenu \/ RenderMenu
     \/ GameGoesOn \/ GameLost \/ GameFails
  /\ UNCHANGED boardVars

(***************************************************************************)
(* The program ends, or is killed, and is started anew: its globals are as *)
(* they were, and the kernel has taken back what it held.                  *)
(***************************************************************************)
RunAgain ==
  /\ Kill \/ Quit \/ (step = "off" /\ loop = "failed" /\ UNCHANGED boardVars)
  /\ loop' = "init_game"
  /\ current_state' = "MENU_MAIN" /\ current_option' = "MENU_OPTION_START"
  /\ scancode' = "other" /\ timer_bit' = FALSE
  /\ player_win' = FALSE /\ player_lost' = FALSE
  /\ shown' = {}
  /\ held' = {}
  /\ saves' = 0
  /\ score_reset

ProgramNext == StartUp \/ WinGame \/ SaveStep \/ Play \/ RunAgain

ProgramSpec == ProgramInit /\ [][ProgramNext]_programVars

-----------------------------------------------------------------------------
(***************************************************************************)
(* When the player of a game that was won sees its score, that score is    *)
(* the last entry of the file, and it is on the leaderboard if there was   *)
(* room for it: wherever earlier saves were killed, as long as no call has *)
(* failed.                                                                 *)
(***************************************************************************)
WinIsListed ==
  loop = "scores" /\ player_win /\ NoFailure =>
    /\ file # NoFile /\ Last(file) = current_score.final_score
    /\ HeaderInPlace /\ Len(Entries(file)) <= MAX_HIGHSCORES =>
         current_score.final_score \in Range(highscores)

=============================================================================
