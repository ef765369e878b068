---------------------------- MODULE ProgramProofs ---------------------------
(***************************************************************************)
(* Proofs about the program and its three loops, and about the program     *)
(* with its leaderboard, for every way of scoring, every bound on frames,  *)
(* shots and lines, and whichever calls may fail.                          *)
(***************************************************************************)
EXTENDS Program, LeaderboardProofs

(***************************************************************************)
(* What the program holds, by where it is: init_game() takes the hardware  *)
(* in one order, close_game() gives it back in another.                    *)
(***************************************************************************)
HeldInOrder ==
  /\ loop = "init_game" =>
       /\ "timer" \notin held
       /\ "keyboard" \in held => "graphics" \in held
  /\ loop \in {"menu", "game", "scores"} => held = {"graphics", "keyboard", "timer"}
  /\ loop = "close_game" =>
       /\ "graphics" \in held
       /\ "keyboard" \in held => "timer" \in held
  /\ loop = "done" => held = {}

(***************************************************************************)
(* A game is active while its loop runs (and for ever in one that could    *)
(* not be drawn), and is neither won nor lost until then; what is saved    *)
(* is what is won.                                                         *)
(***************************************************************************)
OutcomeOfThisGame ==
  /\ loop = "game" => ~player_win /\ ~player_lost /\ saves = 0 /\ ~highscore_saved_this_game
  /\ loop = "game" => game_active
  /\ loop \in {"init_game", "menu", "scores", "close_game", "done"} => ~game_active
  /\ loop = "init_game" => ~player_win /\ ~player_lost
  /\ loop = "failed" /\ game_active => ~player_win /\ saves = 0
  /\ saves <= 1
  /\ player_lost => saves = 0 /\ ~player_win
  /\ player_win => saves = 1

(***************************************************************************)
(* The score of the game that runs, or that has ended and is not yet left, *)
(* and the headings over it.                                               *)
(***************************************************************************)
ScoreKept ==
  /\ loop = "game" => /\ current_score.final_score = 0
                      /\ current_score.game_time_seconds = game_ticks \div FREQ
  /\ (player_win \/ player_lost) /\ loop \in {"menu", "scores"} =>
       current_score.final_score =
         ScoreOf(current_score.bullets_fired, current_score.game_time_seconds)
  /\ loop = "scores" /\ "YOU WON" \in shown =>
       /\ player_win \/ player_lost
       /\ "GAME OVER" \in shown <=> player_lost

MainInv == MainTypeOK /\ HeldInOrder /\ OutcomeOfThisGame /\ ScoreKept

-----------------------------------------------------------------------------
LEMMA ScoreTypes ==
  /\ BASE_SCORE \in Nat /\ BULLET_PENALTY \in Nat /\ TIME_PENALTY \in Nat
  /\ MIN_SCORE \in Nat /\ MIN_SCORE <= BASE_SCORE
  /\ FREQ \in Nat \ {0}
BY ScoreAssumption

(***************************************************************************)
(* However many shots and seconds it took, the score is between the least  *)
(* and the best.                                                           *)
(***************************************************************************)
LEMMA ScoreInRange ==
  ASSUME NEW b \in Nat, NEW t \in Nat
  PROVE  ScoreOf(b, t) \in MIN_SCORE .. BASE_SCORE /\ ScoreOf(b, t) \in Nat
<1>1. b * BULLET_PENALTY \in Nat /\ t * TIME_PENALTY \in Nat
  BY ScoreTypes
<1> QED
  BY <1>1, ScoreTypes DEF ScoreOf

LEMMA SecondsAreNat == \A n \in Nat : n \div FREQ \in Nat
BY ScoreTypes

(***************************************************************************)
(* What the operations of module Score leave of the score of an active     *)
(* game: a shot, a frame, and the last frame.                              *)
(***************************************************************************)
LEMMA ShotScore ==
  ASSUME ScoreTypeOK, game_active, score_add_bullet
  PROVE  /\ ScoreTypeOK'
         /\ current_score'.final_score = current_score.final_score
         /\ current_score'.game_time_seconds = current_score.game_time_seconds
<1>1. current_score' = [current_score EXCEPT !.bullets_fired = @ + 1]
  BY DEF score_add_bullet
<1> QED
  BY <1>1 DEF score_add_bullet, ScoreTypeOK

LEMMA FrameScore ==
  ASSUME ScoreTypeOK, game_active
  PROVE  /\ TicksCounted \in Nat
         /\ score_update_time \in [bullets_fired : Nat, game_time_seconds : Nat, final_score : Nat]
         /\ score_update_time.final_score = current_score.final_score
         /\ score_update_time.game_time_seconds = TicksCounted \div FREQ
<1>1. score_update_time = [current_score EXCEPT !.game_time_seconds = TicksCounted \div FREQ]
  BY DEF score_update_time
<1>2. TicksCounted \in Nat
  BY DEF TicksCounted, ScoreTypeOK
<1>3. TicksCounted \div FREQ \in Nat
  BY <1>2, SecondsAreNat
<1> QED
  BY <1>1, <1>2, <1>3 DEF ScoreTypeOK

LEMMA LastFrameScore ==
  ASSUME ScoreTypeOK, game_active, ScoreFinal
  PROVE  /\ game_ticks' \in Nat
         /\ current_score' \in [bullets_fired : Nat, game_time_seconds : Nat, final_score : Nat]
         /\ current_score'.final_score =
              ScoreOf(current_score'.bullets_fired, current_score'.game_time_seconds)
<1> DEFINE cs == score_update_time
<1>1. cs \in [bullets_fired : Nat, game_time_seconds : Nat, final_score : Nat] /\ TicksCounted \in Nat
  BY FrameScore
<1>2. current_score' = [cs EXCEPT !.final_score = ScoreOf(cs.bullets_fired, cs.game_time_seconds)]
  BY DEF ScoreFinal, score_calculate_final
<1>3. ScoreOf(cs.bullets_fired, cs.game_time_seconds) \in Nat
  <2> HIDE DEF cs
  <2> QED BY <1>1, ScoreInRange
<1> HIDE DEF cs
<1> QED
  BY <1>1, <1>2, <1>3 DEF ScoreFinal

LEMMA InitiallyMainInv == MainInit => MainInv
<1> SUFFICES ASSUME MainInit PROVE MainInv
  OBVIOUS
<1>1. MainTypeOK
  BY DEF MainInit, ScoreInit, ZeroScore, MainTypeOK, ScoreTypeOK, Loop, MenuState,
         MenuOption, Key
<1>2. HeldInOrder /\ OutcomeOfThisGame /\ ScoreKept
  BY DEF MainInit, ScoreInit, ZeroScore, HeldInOrder, OutcomeOfThisGame, ScoreKept
<1> QED
  BY <1>1, <1>2 DEF MainInv

LEMMA MainInvKept == MainInv /\ [MainNext]_vars => MainInv'
<1> SUFFICES ASSUME MainInv, [MainNext]_vars PROVE MainInv'
  OBVIOUS
<1> USE ScoreTypes, SecondsAreNat
<1>0. MainTypeOK /\ HeldInOrder /\ OutcomeOfThisGame /\ ScoreKept
  BY DEF MainInv
<1>t. /\ loop \in Loop /\ saves \in Nat /\ ScoreTypeOK
      /\ player_win \in BOOLEAN /\ player_lost \in BOOLEAN
  BY <1>0 DEF MainTypeOK
<1>1. CASE InitGame
  <2>1. MainTypeOK'
    BY <1>0, <1>1
       DEF InitGame, Take, Fail, scoreVars, MainTypeOK, ScoreTypeOK, Loop, MenuState,
           MenuOption, Key
  <2>2. HeldInOrder'
    BY <1>0, <1>1 DEF InitGame, Take, Fail, scoreVars, HeldInOrder, MainTypeOK
  <2>3. OutcomeOfThisGame'
    BY <1>0, <1>t, <1>1
       DEF InitGame, Take, Fail, scoreVars, OutcomeOfThisGame, Loop
  <2>4. ScoreKept'
    <3>1. /\ loop = "init_game" /\ loop' \in {"init_game", "menu", "failed"}
          /\ player_win' = player_win /\ player_lost' = player_lost
      BY <1>1 DEF InitGame, Take, Fail
    <3> QED
      BY <1>0, <3>1 DEF ScoreKept, OutcomeOfThisGame
  <2> QED
    BY <2>1, <2>2, <2>3, <2>4 DEF MainInv
<1>2. CASE CloseGame
  <2>1. MainTypeOK'
    BY <1>0, <1>2
       DEF CloseGame, Release, Fail, scoreVars, MainTypeOK, ScoreTypeOK, Loop,
           MenuState, MenuOption, Key
  <2>2. HeldInOrder'
    BY <1>0, <1>2 DEF CloseGame, Release, Fail, scoreVars, HeldInOrder, MainTypeOK
  <2>3. OutcomeOfThisGame'
    BY <1>0, <1>t, <1>2
       DEF CloseGame, Release, Fail, scoreVars, OutcomeOfThisGame, Loop
  <2>4. ScoreKept'
    BY <1>0, <1>t, <1>2
       DEF CloseGame, Release, Fail, scoreVars, ScoreKept, OutcomeOfThisGame
  <2> QED
    BY <2>1, <2>2, <2>3, <2>4 DEF MainInv
<1>3. CASE StartGame
  <2>1. MainTypeOK'
    BY <1>0, <1>3
       DEF StartGame, MenuTimer, score_init, ZeroScore, MainTypeOK, ScoreTypeOK, Loop,
           MenuState, MenuOption, Key
  <2>2. HeldInOrder'
    BY <1>0, <1>3
       DEF StartGame, MenuTimer, score_init, ZeroScore, HeldInOrder, MainTypeOK
  <2>3. OutcomeOfThisGame'
    BY <1>0, <1>t, <1>3
       DEF StartGame, MenuTimer, score_init, ZeroScore, OutcomeOfThisGame, Loop
  <2>4. ScoreKept'
    BY <1>0, <1>t, <1>3
       DEF StartGame, MenuTimer, score_init, ZeroScore, ScoreKept, OutcomeOfThisGame
  <2> QED
    BY <2>1, <2>2, <2>3, <2>4 DEF MainInv
<1>4. CASE ShowScores
  <2>1. MainTypeOK'
    BY <1>0, <1>4
       DEF ShowScores, MenuTimer, scoreVars, MainTypeOK, ScoreTypeOK, Loop, MenuState,
           MenuOption, Key
  <2>2. HeldInOrder'
    BY <1>0, <1>4 DEF ShowScores, MenuTimer, scoreVars, HeldInOrder, MainTypeOK
  <2>3. OutcomeOfThisGame'
    BY <1>0, <1>t, <1>4
       DEF ShowScores, MenuTimer, scoreVars, OutcomeOfThisGame, Loop
  <2>4. ScoreKept'
    BY <1>0, <1>t, <1>4
       DEF ShowScores, MenuTimer, scoreVars, ScoreKept, OutcomeOfThisGame
  <2> QED
    BY <2>1, <2>2, <2>3, <2>4 DEF MainInv
<1>5. CASE ExitMenu
  <2>1. MainTypeOK'
    BY <1>0, <1>5
       DEF ExitMenu, MenuTimer, scoreVars, MainTypeOK, ScoreTypeOK, Loop, MenuState,
           MenuOption, Key
  <2>2. HeldInOrder'
    BY <1>0, <1>5 DEF ExitMenu, MenuTimer, scoreVars, HeldInOrder, MainTypeOK
  <2>3. OutcomeOfThisGame'
    BY <1>0, <1>t, <1>5
       DEF ExitMenu, MenuTimer, scoreVars, OutcomeOfThisGame, Loop
  <2>4. ScoreKept'
    BY <1>0, <1>t, <1>5
       DEF ExitMenu, MenuTimer, scoreVars, ScoreKept, OutcomeOfThisGame
  <2> QED
    BY <2>1, <2>2, <2>3, <2>4 DEF MainInv
<1>6. CASE RenderMenu
  <2>1. MainTypeOK'
    BY <1>0, <1>6
       DEF RenderMenu, MenuTimer, scoreVars, MainTypeOK, ScoreTypeOK, Loop, MenuState,
           MenuOption, Key
  <2>2. HeldInOrder'
    BY <1>0, <1>6 DEF RenderMenu, MenuTimer, scoreVars, HeldInOrder, MainTypeOK
  <2>3. OutcomeOfThisGame'
    BY <1>0, <1>t, <1>6
       DEF RenderMenu, MenuTimer, scoreVars, OutcomeOfThisGame, Loop
  <2>4. ScoreKept'
    BY <1>0, <1>t, <1>6
       DEF RenderMenu, MenuTimer, scoreVars, ScoreKept, OutcomeOfThisGame
  <2> QED
    BY <2>1, <2>2, <2>3, <2>4 DEF MainInv
<1>7. CASE LeaveMenu
  <2>1. MainTypeOK'
    BY <1>0, <1>7
       DEF LeaveMenu, scoreVars, MainTypeOK, ScoreTypeOK, Loop, MenuState, MenuOption,
           Key
  <2>2. HeldInOrder'
    BY <1>0, <1>7 DEF LeaveMenu, scoreVars, HeldInOrder, MainTypeOK
  <2>3. OutcomeOfThisGame'
    BY <1>0, <1>t, <1>7 DEF LeaveMenu, scoreVars, OutcomeOfThisGame, Loop
  <2>4. ScoreKept'
    BY <1>0, <1>t, <1>7 DEF LeaveMenu, scoreVars, ScoreKept, OutcomeOfThisGame
  <2> QED
    BY <2>1, <2>2, <2>3, <2>4 DEF MainInv
<1>8. CASE MenuKeyboard
  <2>1. MainTypeOK'
    BY <1>0, <1>8
       DEF MenuKeyboard, OptionAfter, StateAfter, Chosen, scoreVars, MainTypeOK,
           ScoreTypeOK, Loop, MenuState, MenuOption, Key
  <2>2. HeldInOrder'
    BY <1>0, <1>8
       DEF MenuKeyboard, OptionAfter, StateAfter, Chosen, scoreVars, HeldInOrder,
           MainTypeOK
  <2>3. OutcomeOfThisGame'
    BY <1>0, <1>t, <1>8
       DEF MenuKeyboard, OptionAfter, StateAfter, Chosen, scoreVars, OutcomeOfThisGame,
           Loop
  <2>4. ScoreKept'
    BY <1>0, <1>t, <1>8
       DEF MenuKeyboard, OptionAfter, StateAfter, Chosen, scoreVars, ScoreKept,
           OutcomeOfThisGame
  <2> QED
    BY <2>1, <2>2, <2>3, <2>4 DEF MainInv
<1>9. CASE GameKeyboard
  <2>0. ScoreTypeOK /\ game_active /\ loop = "game"
    BY <1>0, <1>9 DEF GameKeyboard, MainTypeOK, OutcomeOfThisGame
  <2>5. /\ ScoreTypeOK'
        /\ current_score'.final_score = current_score.final_score
        /\ current_score'.game_time_seconds = current_score.game_time_seconds
        /\ UNCHANGED <<game_ticks, game_active, highscore_saved_this_game>>
    <3>1. CASE score_add_bullet
      BY <2>0, <3>1, ShotScore DEF score_add_bullet
    <3>2. CASE UNCHANGED scoreVars
      BY <2>0, <3>2 DEF scoreVars, ScoreTypeOK
    <3> QED
      BY <1>9, <3>1, <3>2 DEF GameKeyboard
  <2>1. MainTypeOK'
    BY <1>0, <1>9, <2>5 DEF GameKeyboard, MainTypeOK
  <2>2. HeldInOrder'
    BY <1>0, <1>9 DEF GameKeyboard, HeldInOrder
  <2>3. OutcomeOfThisGame'
    BY <1>0, <1>9, <2>0, <2>5 DEF GameKeyboard, OutcomeOfThisGame
  <2>4. ScoreKept'
    BY <1>0, <1>9, <2>0, <2>5 DEF GameKeyboard, ScoreKept
  <2> QED
    BY <2>1, <2>2, <2>3, <2>4 DEF MainInv
<1>10. CASE GameGoesOn
  <2>0. ScoreTypeOK /\ game_active /\ loop = "game"
    BY <1>0, <1>10 DEF GameGoesOn, GameTimer, MainTypeOK, OutcomeOfThisGame
  <2>5. ScoreTypeOK'
    BY <1>10, <2>0, FrameScore DEF GameGoesOn, ScoreGoesOn, ScoreTypeOK
  <2>1. MainTypeOK'
    BY <1>0, <1>10, <2>5 DEF GameGoesOn, GameTimer, MainTypeOK, Loop
  <2>2. HeldInOrder'
    BY <1>0, <1>10 DEF GameGoesOn, GameTimer, HeldInOrder
  <2>3. OutcomeOfThisGame'
    BY <1>0, <1>10, <2>0 DEF GameGoesOn, GameTimer, ScoreGoesOn, OutcomeOfThisGame
  <2>4. ScoreKept'
    BY <1>0, <1>10, <2>0, FrameScore
       DEF GameGoesOn, GameTimer, ScoreGoesOn, ScoreKept, OutcomeOfThisGame
  <2> QED
    BY <2>1, <2>2, <2>3, <2>4 DEF MainInv
<1>11. CASE GameLost
  <2>0. ScoreTypeOK /\ game_active /\ loop = "game"
    BY <1>0, <1>11 DEF GameLost, GameTimer, MainTypeOK, OutcomeOfThisGame
  <2>5. ScoreTypeOK'
    BY <1>11, <2>0, LastFrameScore DEF GameLost, ScoreFinal, ScoreTypeOK
  <2>1. MainTypeOK'
    BY <1>0, <1>11, <2>5 DEF GameLost, GameTimer, MainTypeOK, Loop, MenuState
  <2>2. HeldInOrder'
    BY <1>0, <1>11 DEF GameLost, GameTimer, HeldInOrder
  <2>3. OutcomeOfThisGame'
    BY <1>0, <1>11, <2>0 DEF GameLost, GameTimer, ScoreFinal, OutcomeOfThisGame
  <2>4. ScoreKept'
    BY <1>0, <1>11, <2>0, LastFrameScore
       DEF GameLost, GameTimer, ScoreKept, OutcomeOfThisGame
  <2> QED
    BY <2>1, <2>2, <2>3, <2>4 DEF MainInv
<1>12. CASE GameWon
  <2>0. ScoreTypeOK /\ game_active /\ loop = "game"
    BY <1>0, <1>12 DEF GameWon, GameTimer, MainTypeOK, OutcomeOfThisGame
  <2>5. ScoreTypeOK'
    BY <1>12, <2>0, LastFrameScore DEF GameWon, ScoreFinal, ScoreTypeOK
  <2>6. saves' \in Nat
    BY <1>0, <1>t, <1>12 DEF GameWon
  <2>1. MainTypeOK'
    BY <1>0, <1>12, <2>5, <2>6 DEF GameWon, GameTimer, MainTypeOK, Loop, MenuState
  <2>2. HeldInOrder'
    BY <1>0, <1>12 DEF GameWon, GameTimer, HeldInOrder
  <2>3. OutcomeOfThisGame'
    BY <1>0, <1>12, <2>0 DEF GameWon, GameTimer, ScoreFinal, OutcomeOfThisGame
  <2>4. ScoreKept'
    BY <1>0, <1>12, <2>0, LastFrameScore
       DEF GameWon, GameTimer, ScoreKept, OutcomeOfThisGame
  <2> QED
    BY <2>1, <2>2, <2>3, <2>4 DEF MainInv
<1>13. CASE GameFails
  <2>0. ScoreTypeOK /\ game_active /\ loop = "game"
    BY <1>0, <1>13 DEF GameFails, GameTimer, MainTypeOK, OutcomeOfThisGame
  <2>5. ScoreTypeOK'
    BY <1>13, <2>0, FrameScore DEF GameFails, ScoreGoesOn, ScoreTypeOK
  <2>1. MainTypeOK'
    BY <1>0, <1>13, <2>5 DEF GameFails, GameTimer, MainTypeOK, Loop
  <2>2. HeldInOrder'
    BY <1>0, <1>13 DEF GameFails, GameTimer, HeldInOrder
  <2>3. OutcomeOfThisGame'
    BY <1>0, <1>13, <2>0 DEF GameFails, GameTimer, ScoreGoesOn, OutcomeOfThisGame
  <2>4. ScoreKept'
    BY <1>0, <1>13, <2>0, FrameScore
       DEF GameFails, GameTimer, ScoreGoesOn, ScoreKept, OutcomeOfThisGame
  <2> QED
    BY <2>1, <2>2, <2>3, <2>4 DEF MainInv
<1>14. CASE LeaveGame
  <2>1. MainTypeOK'
    BY <1>0, <1>14
       DEF LeaveGame, score_reset, ZeroScore, MainTypeOK, ScoreTypeOK, Loop, MenuState,
           MenuOption, Key
  <2>2. HeldInOrder'
    BY <1>0, <1>14 DEF LeaveGame, score_reset, ZeroScore, HeldInOrder, MainTypeOK
  <2>3. OutcomeOfThisGame'
    BY <1>0, <1>t, <1>14
       DEF LeaveGame, score_reset, ZeroScore, OutcomeOfThisGame, Loop
  <2>4. ScoreKept'
    BY <1>0, <1>t, <1>14
       DEF LeaveGame, score_reset, ZeroScore, ScoreKept, OutcomeOfThisGame
  <2> QED
    BY <2>1, <2>2, <2>3, <2>4 DEF MainInv
<1>15. CASE ScoresKeyboard
  <2>5. ScoreTypeOK'
    <3>1. CASE score_reset
      BY <3>1 DEF score_reset, ZeroScore, ScoreTypeOK
    <3>2. CASE UNCHANGED scoreVars
      BY <1>0, <3>2 DEF scoreVars, MainTypeOK, ScoreTypeOK
    <3> QED
      BY <1>15, <3>1, <3>2 DEF ScoresKeyboard
  <2>1. MainTypeOK'
    BY <1>0, <1>15, <2>5 DEF ScoresKeyboard, MainTypeOK, Loop, MenuState
  <2>2. HeldInOrder'
    BY <1>0, <1>15
       DEF ScoresKeyboard, score_reset, ZeroScore, scoreVars, HeldInOrder, MainTypeOK
  <2>3. OutcomeOfThisGame'
    BY <1>0, <1>t, <1>15
       DEF ScoresKeyboard, score_reset, ZeroScore, scoreVars, OutcomeOfThisGame, Loop
  <2>4. ScoreKept'
    <3>1. CASE loop' = "menu" /\ ~player_win' /\ ~player_lost'
      BY <3>1 DEF ScoreKept
    <3>2. CASE UNCHANGED <<loop, player_win, player_lost, shown, scoreVars>>
      BY <1>0, <3>2 DEF ScoreKept, scoreVars
    <3> QED
      BY <1>15, <3>1, <3>2 DEF ScoresKeyboard
  <2> QED
    BY <2>1, <2>2, <2>3, <2>4 DEF MainInv
<1>16. CASE UNCHANGED vars
  BY <1>16
     DEF vars, mainVars, MainInv, MainTypeOK, ScoreTypeOK, HeldInOrder,
         OutcomeOfThisGame, ScoreKept, scoreVars
<1> QED
  BY <1>1, <1>2, <1>3, <1>4, <1>5, <1>6, <1>7, <1>8, <1>9, <1>10, <1>11, <1>12, <1>13,
     <1>14, <1>15, <1>16
     DEF MainNext, TimerInterrupt

-----------------------------------------------------------------------------
(***************************************************************************)
(* The invariant of the loops: what is held, how the game stands and what  *)
(* its score says all follow from where the program is.                    *)
(***************************************************************************)
THEOREM MainInvariant == MainSpec => []MainInv
BY InitiallyMainInv, MainInvKept, PTL DEF MainSpec

(***************************************************************************)
(* The variables of main.c, menu.c and score.c keep their types.           *)
(***************************************************************************)
THEOREM MainTypesKept == MainSpec => []MainTypeOK
<1>1. MainInv => MainTypeOK
  BY DEF MainInv
<1> QED
  BY <1>1, MainInvariant, PTL

(***************************************************************************)
(* An entry is saved once for a game that is won and for no other, and     *)
(* draw_final_score_display() shows the final score of the game that has   *)
(* just been won or lost (menu_handler() and save_win_highscore()),        *)
(* whatever the penalties are.                                             *)
(***************************************************************************)
THEOREM FinalScoreIsShown == MainSpec => []FinalScoreShown
<1>1. MainInv => FinalScoreShown
  <2> SUFFICES ASSUME MainInv PROVE FinalScoreShown
    OBVIOUS
  <2>1. MainTypeOK /\ OutcomeOfThisGame /\ ScoreKept
    BY DEF MainInv
  <2>2. saves <= 1 /\ (game_active \/ player_lost => saves = 0) /\ (player_win => saves = 1)
    BY <2>1 DEF MainTypeOK, Loop, OutcomeOfThisGame
  <2>3. ASSUME loop = "scores", "YOU WON" \in shown
        PROVE  /\ player_win \/ player_lost
               /\ "GAME OVER" \in shown <=> player_lost
               /\ current_score.final_score =
                    ScoreOf(current_score.bullets_fired, current_score.game_time_seconds)
    BY <2>1, <2>3 DEF ScoreKept
  <2>4. ASSUME loop = "scores", "YOU WON" \in shown
        PROVE  current_score.final_score \in MIN_SCORE .. BASE_SCORE
    BY <2>1, <2>3, <2>4, ScoreInRange DEF MainTypeOK, ScoreTypeOK
  <2> QED
    BY <2>2, <2>3, <2>4 DEF FinalScoreShown
<1> QED
  BY <1>1, MainInvariant, PTL

(***************************************************************************)
(* The three loops run with all of the hardware taken by init_game(), and  *)
(* the program returns 0 with none of it (init_game() and close_game()),   *)
(* whichever calls may fail.                                               *)
(***************************************************************************)
THEOREM LoopsHoldHardware == MainSpec => []LoopsHaveHardware
<1>1. MainInv => LoopsHaveHardware
  BY DEF MainInv, HeldInOrder, LoopsHaveHardware
<1> QED
  BY <1>1, MainInvariant, PTL

(***************************************************************************)
(* A running game has a score of its own: score_init() and score_reset()   *)
(* leave nothing of the game before (score.c).                             *)
(***************************************************************************)
THEOREM ScoreIsOfThisGame == MainSpec => []ScoreOfThisGame
<1>1. MainInv => ScoreOfThisGame
  BY DEF MainInv, MainTypeOK, Loop, OutcomeOfThisGame, ScoreKept, ScoreOfThisGame, Ended
<1> QED
  BY <1>1, MainInvariant, PTL

-----------------------------------------------------------------------------
(***************************************************************************)
(* main.c waits for a save, and the entry that is saved is the score of    *)
(* the game that was won, which is then the last line.                     *)
(***************************************************************************)
SaveOfThisWin ==
  /\ step \notin {"off", "idle"} =>
       loop = "menu" /\ player_win /\ saving = current_score.final_score
  /\ step = "off" => loop \in {"init_game", "failed"} /\ ~player_win
  /\ step = "memory" /\ NoFailure => file # << >> /\ Last(file) = saving
  /\ step = "idle" /\ player_win /\ loop \in {"menu", "scores"} /\ NoFailure =>
       file \notin {NoFile, << >>} /\ Last(file) = current_score.final_score

ProgramInv == MainInv /\ FileSound /\ HeadersSound /\ SaveOfThisWin /\ BoardInv

LEMMA InitiallyProgramInv == ProgramInit => ProgramInv
<1> SUFFICES ASSUME ProgramInit PROVE ProgramInv
  OBVIOUS
<1>1. MainInv
  BY InitiallyMainInv DEF ProgramInit
<1>2. FileSound /\ HeadersSound
  BY InitiallyFileSound, InitiallyHeadersSound DEF ProgramInit
<1>3. SaveOfThisWin
  BY DEF ProgramInit, BoardInit, MainInit, SaveOfThisWin
<1>4. BoardInv
  BY InitiallyBoardInv DEF ProgramInit
<1> QED
  BY <1>1, <1>2, <1>3, <1>4 DEF ProgramInv

(***************************************************************************)
(* The steps of the program keep the invariant of its loops; one that is   *)
(* started again is as at its first start.                                 *)
(***************************************************************************)
LEMMA ProgramKeepsMainInv == MainInv /\ [ProgramNext]_programVars => MainInv'
<1>1. MainInit' => MainInv'
  BY InitiallyMainInv, PTL
<1>2. RunAgain => MainInit'
  BY DEF RunAgain, MainInit, ScoreInit, score_reset
<1>3. StartUp \/ WinGame \/ SaveStep \/ Play => [MainNext]_vars
  BY DEF StartUp, WinGame, SaveStep, Play, MainNext, TimerInterrupt
<1>4. UNCHANGED programVars => [MainNext]_vars
  BY DEF programVars
<1> QED
  BY <1>1, <1>2, <1>3, <1>4, MainInvKept DEF ProgramNext

(***************************************************************************)
(* While nothing is saved, a game stays won, with its score, until it is   *)
(* left; only a game in its last frame can be won.                         *)
(***************************************************************************)
LEMMA PlayKeepsWin ==
  ASSUME MainInv, Play, player_win', loop' \in {"menu", "scores"}
  PROVE  player_win /\ loop \in {"menu", "scores"} /\ current_score' = current_score
<1>1. OutcomeOfThisGame
  BY DEF MainInv
<1> USE DEF scoreVars
<1>2. CASE CloseGame
  BY <1>2 DEF CloseGame, Release, Fail
<1>3. CASE LeaveMenu \/ MenuKeyboard \/ ShowScores \/ ExitMenu \/ RenderMenu
  BY <1>3 DEF LeaveMenu, MenuKeyboard, ShowScores, ExitMenu, RenderMenu, MenuTimer
<1>4. CASE StartGame
  BY <1>4 DEF StartGame
<1>5. CASE LeaveGame \/ GameKeyboard \/ GameGoesOn \/ GameLost \/ GameFails
  BY <1>1, <1>5
     DEF LeaveGame, GameKeyboard, GameGoesOn, GameLost, GameFails, GameTimer, OutcomeOfThisGame
<1>6. CASE ScoresKeyboard
  BY <1>6 DEF ScoresKeyboard
<1> QED
  BY <1>2, <1>3, <1>4, <1>5, <1>6 DEF Play

LEMMA FailureCounted ==
  ASSUME FileSound, NEW kind \in {"open", "write"}, Mishap(kind)
  PROVE  ~NoFailure'
<1>1. kind \in MishapKind /\ kind # "kill" /\ mishaps \in [MishapKind -> Nat]
  BY DEF MishapKind, FileSound
<1> QED
  BY <1>1, MishapCounted

LEMMA ProgramKeepsSaveOfThisWin ==
  ASSUME ProgramInv, [ProgramNext]_programVars
  PROVE  SaveOfThisWin'
<1>0. MainInv /\ FileSound /\ SaveOfThisWin
  BY DEF ProgramInv
<1>1. CASE StartUp
  <2>1. loop = "init_game" /\ ~player_win
    BY <1>0, <1>1 DEF StartUp, InitGame, Take, Fail, MainInv, OutcomeOfThisGame
  <2>2. ~player_win' /\ loop' \in {"init_game", "menu", "failed"}
    BY <1>1, <2>1 DEF StartUp, InitGame, Take, Fail
  <2>3. IF loop' = "menu" THEN step' = "idle" ELSE step' = "off"
    BY <1>1 DEF StartUp, Load, LoadFails, boardVars
  <2> QED
    BY <2>2, <2>3 DEF SaveOfThisWin
<1>2. CASE WinGame
  <2>1. loop = "game" /\ ~highscore_saved_this_game
    BY <1>0, <1>2 DEF WinGame, GameWon, GameTimer, MainInv, OutcomeOfThisGame
  <2> QED
    BY <1>2, <2>1 DEF WinGame, GameWon, Save, SaveBlind, BeginSave, SaveOfThisWin
<1>3. CASE SaveStep
  <2>1. /\ loop' = loop /\ player_win' = player_win /\ current_score' = current_score
        /\ loop = "menu" /\ player_win /\ saving = current_score.final_score
    BY <1>0, <1>3
       DEF SaveStep, vars, mainVars, scoreVars, Open, Header, Entry, Remember, OpenEmptied,
           OpenFails, HeaderFails, EntryFails, SaveOfThisWin
  <2>2. CASE Open \/ Header
    BY <2>1, <2>2 DEF Open, Header, SaveOfThisWin
  <2>3. CASE Entry
    <3>1. Last(file') = saving /\ file' # << >>
      BY <1>0, <2>3, LineAppended DEF Entry, FileSound
    <3> QED
      BY <2>1, <2>3, <3>1 DEF Entry, SaveOfThisWin
  <2>4. CASE Remember
    BY <1>0, <2>1, <2>4 DEF Remember, Idle, SaveOfThisWin, FileSound, NoFailure
  <2>5. CASE OpenEmptied \/ OpenFails \/ HeaderFails \/ EntryFails
    <3>1. ~NoFailure'
      BY <1>0, <2>5, FailureCounted DEF OpenEmptied, OpenFails, HeaderFails, EntryFails
    <3>2. step' \in {"idle", "header", "entry", "memory"} /\ (step' # "idle" => saving' = saving)
      BY <2>5 DEF OpenEmptied, OpenFails, HeaderFails, EntryFails, Idle
    <3> QED
      BY <2>1, <3>1, <3>2 DEF SaveOfThisWin
  <2> QED
    BY <1>3, <2>2, <2>3, <2>4, <2>5 DEF SaveStep
<1>4. CASE Play
  <2>1. step = "idle" /\ UNCHANGED boardVars
    BY <1>4 DEF Play
  <2>2. player_win' /\ loop' \in {"menu", "scores"} =>
          player_win /\ loop \in {"menu", "scores"} /\ current_score' = current_score
    BY <1>0, <1>4, PlayKeepsWin
  <2> QED
    BY <1>0, <2>1, <2>2 DEF boardVars, SaveOfThisWin, NoFailure
<1>5. CASE RunAgain
  <2>1. step' = "off"
    BY <1>5 DEF RunAgain, Kill, Quit, boardVars
  <2> QED
    BY <1>5, <2>1 DEF RunAgain, SaveOfThisWin
<1>6. CASE UNCHANGED programVars
  BY <1>0, <1>6 DEF programVars, vars, mainVars, scoreVars, boardVars, SaveOfThisWin, NoFailure
<1> QED
  BY <1>1, <1>2, <1>3, <1>4, <1>5, <1>6 DEF ProgramNext

(***************************************************************************)
(* A step of the program is one of the leaderboard, or leaves it alone.    *)
(***************************************************************************)
LEMMA ProgramStepsBoard == [ProgramNext]_programVars => [BoardNext]_boardVars
BY DEF ProgramNext, StartUp, WinGame, SaveStep, Play, RunAgain, BoardNext, programVars

(***************************************************************************)
(* The invariant of the program with its leaderboard, over any number of   *)
(* runs, kills and failing calls.                                          *)
(***************************************************************************)
THEOREM ProgramInvariant == ProgramSpec => []ProgramInv
<1>1. ProgramInv /\ [ProgramNext]_programVars => ProgramInv'
  BY ProgramKeepsMainInv, ProgramKeepsSaveOfThisWin, ProgramStepsBoard, FileSoundKept,
     HeadersSoundKept, BoardInvKept
     DEF ProgramInv
<1> QED
  BY <1>1, InitiallyProgramInv, PTL DEF ProgramSpec

(***************************************************************************)
(* A header inside highscores.csv takes a save that could not read the     *)
(* file although it was there, and there is one header for each such save  *)
(* at most (save_highscore_to_csv()).                                      *)
(***************************************************************************)
THEOREM HeadersAreOfBlindSaves == ProgramSpec => []HeadersCounted
<1>1. ProgramInv => HeadersCounted
  BY HeadersAreCounted DEF ProgramInv
<1> QED
  BY <1>1, ProgramInvariant, PTL

(***************************************************************************)
(* The first line of highscores.csv, which load_highscores_from_csv()      *)
(* skips, is an entry only after a kill or a failed write.                 *)
(***************************************************************************)
THEOREM HeaderComesFirst == ProgramSpec => []FirstLineIsHeader
<1>1. ProgramInv => FirstLineIsHeader
  BY HeadersAreCounted DEF ProgramInv
<1> QED
  BY <1>1, ProgramInvariant, PTL

(***************************************************************************)
(* highscores[] is within its bounds and sorted, best first, whether its   *)
(* entries were loaded or saved (sort_highscores()).                       *)
(***************************************************************************)
THEOREM BoardStaysSorted == ProgramSpec => []BoardSorted
<1>1. ProgramInv => BoardSorted
  BY DEF ProgramInv, BoardInv
<1> QED
  BY <1>1, ProgramInvariant, PTL

(***************************************************************************)
(* The leaderboard in memory is the one that a restart would load, however *)
(* often the program was killed, as long as no call has failed and the     *)
(* file begins with its header: save_highscore_to_csv() keeps highscores[] *)
(* and highscores.csv together, a full board included.                     *)
(***************************************************************************)
THEOREM RestartLoadsBoard == ProgramSpec => []RestartKeepsBoard
<1>1. ProgramInv => RestartKeepsBoard
  BY DEF ProgramInv, BoardInv, BoardInStep, RestartKeepsBoard
<1> QED
  BY <1>1, ProgramInvariant, PTL

(***************************************************************************)
(* When the score of a game that was won is shown, it is the last line of  *)
(* the file, and on the leaderboard if there was room, unless a call has   *)
(* failed (save_win_highscore()).                                          *)
(***************************************************************************)
THEOREM WinListed == ProgramSpec => []WinIsListed
<1>1. ProgramInv => WinIsListed
  <2> SUFFICES ASSUME ProgramInv, loop = "scores", player_win, NoFailure
               PROVE  /\ file # NoFile /\ Last(file) = current_score.final_score
                      /\ HeaderInPlace /\ Len(Entries(file)) <= MAX_HIGHSCORES =>
                           current_score.final_score \in Range(highscores)
    BY DEF WinIsListed
  <2>1. step = "idle" /\ file \notin {NoFile, << >>} /\ Last(file) = current_score.final_score
    BY DEF ProgramInv, MainInv, FileSound, Step, SaveOfThisWin
  <2>2. current_score.final_score # HeaderLine
    <3>1. ScoreTypeOK
      BY DEF ProgramInv, MainInv, MainTypeOK
    <3> QED
      BY <3>1 DEF ScoreTypeOK, HeaderLine
  <2> QED
    BY <2>1, <2>2, LastLineListed DEF ProgramInv
<1> QED
  BY <1>1, ProgramInvariant, PTL

=============================================================================
