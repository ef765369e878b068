-------------------------------- MODULE Main --------------------------------
(***************************************************************************)
(* The program: main.c and game/menu/menu.c, with the loops of             *)
(* game_state() and score_state() seen from outside.  A frame of the game  *)
(* goes on, is lost, is won or fails; what decides it is module Game.      *)
(* Of what the menu draws, nothing can fail: the ship is on the screen     *)
(* (ShipOnScreen), and so are the rectangle and the messages.              *)
(*                                                                         *)
(* The three loops share the global scancode.  Each handles one message    *)
(* at a time, which notifies the keyboard, the timer or both, in this      *)
(* order.  A read that fails in kbc_ih() leaves scancode as it is, or as   *)
(* some other byte, and the handler goes on: as if that key was pressed.   *)
(* option_selected, which is never read, is left out, and so is            *)
(* show_scores_drawn, which is false whenever it is read.                  *)
(***************************************************************************)
EXTENDS Score

CONSTANTS
  MAX_SHOTS,      \* bound: bullets of a game
  MAX_FRAMES,     \* bound: frames of a game
  FRAMES_DOWN,    \* frames before an enemy has come down to the lower border
  Faults          \* which calls may fail: see FaultKind

FaultKind == {"init", "close"}

ASSUME MainAssumption ==
  /\ {MAX_SHOTS, MAX_FRAMES, FRAMES_DOWN} \subseteq Nat
  /\ Faults \subseteq FaultKind

VARIABLES
  loop,              \* what runs: see Loop
  current_state,     \* of the menu
  current_option,
  scancode,
  timer_bit,         \* the message being handled also notifies the timer
  player_win, player_lost,
  shown,             \* the headings on the screen that the scores loop has drawn
  held,              \* what init_game() has taken from the system
  saves              \* entries saved since score_init()

mainVars == <<loop, current_state, current_option, scancode, timer_bit,
              player_win, player_lost, shown, held, saves>>

vars == <<mainVars, scoreVars>>

(***************************************************************************)
(* "failed" and "done": proj_main_loop() has returned 1, or 0.             *)
(***************************************************************************)
Loop == {"init_game", "menu", "game", "scores", "close_game", "failed", "done"}

MenuState == {"MENU_MAIN", "MENU_START", "MENU_SCORES", "MENU_GAME_OVER",
              "MENU_QUIT", "MENU_EXIT"}

MenuOption == {"MENU_OPTION_START", "MENU_OPTION_SCORES", "MENU_OPTION_QUIT"}

(***************************************************************************)
(* The scancodes that some handler tells apart, and one that none does.    *)
(***************************************************************************)
Key == {"KB_UP_ARROW", "KB_DOWN_ARROW", "KB_ENTER", "KB_SPACE", "KB_BREAK_ESC",
        "other"}

-----------------------------------------------------------------------------
MainInit ==
  /\ ScoreInit
  /\ loop = "init_game"
  /\ current_state = "MENU_MAIN"
  /\ current_option = "MENU_OPTION_START"
  /\ scancode = "other"
  /\ timer_bit = FALSE
  /\ player_win = FALSE /\ player_lost = FALSE
  /\ shown = {}
  /\ held = {}
  /\ saves = 0

(***************************************************************************)
(* proj_main_loop() returns 1 without close_game().                        *)
(***************************************************************************)
Fail(kind) ==
  /\ kind \in Faults
  /\ loop' = "failed"
  /\ UNCHANGED <<current_state, current_option, scancode, timer_bit, player_win,
                 player_lost, shown, held, saves, scoreVars>>

(***************************************************************************)
(* init_game(): the next of the three things the program takes.  The first *)
(* call that fails is the last.  (The timer frequency, the frame buffer    *)
(* and the loading of the leaderboard take nothing that is given back.)    *)
(***************************************************************************)
Take(r) ==
  /\ loop = "init_game"
  /\ r \notin held
  /\ held' = held \cup {r}
  /\ loop' = IF r = "timer" THEN "menu" ELSE "init_game"
  /\ UNCHANGED <<current_state, current_option, scancode, timer_bit, player_win,
                 player_lost, shown, saves, scoreVars>>

InitGame ==
  \/ Take("graphics")
  \/ "graphics" \in held /\ Take("keyboard")
  \/ "keyboard" \in held /\ Take("timer")
  \/ loop = "init_game" /\ Fail("init")

\* A slip of Release: close_game() returns before vg_exit().
ReleaseNoGraphics(r) ==
  /\ loop = "close_game"
  /\ r \in held
  /\ held' = held \ {r}
  /\ loop' = IF r = "timer" THEN "done" ELSE "close_game"
  /\ UNCHANGED <<current_state, current_option, scancode, timer_bit, player_win,
                 player_lost, shown, saves, scoreVars>>

(***************************************************************************)
(* close_game(), likewise, in its own order.                               *)
(***************************************************************************)
Release(r) ==
  /\ loop = "close_game"
  /\ r \in held
  /\ held' = held \ {r}
  /\ loop' = IF r = "graphics" THEN "done" ELSE "close_game"
  /\ UNCHANGED <<current_state, current_option, scancode, timer_bit, player_win,
                 player_lost, shown, saves, scoreVars>>

CloseGame ==
  \/ Release("keyboard")
  \/ "keyboard" \notin held /\ Release("timer")
  \/ "timer" \notin held /\ Release("graphics")
  \/ loop = "close_game" /\ Fail("close")

-----------------------------------------------------------------------------
(***************************************************************************)
(* menu_handle_input() for the key k: the option and the state of the menu *)
(* that it leaves.                                                         *)
(***************************************************************************)
OptionAfter(k) ==
  IF current_state # "MENU_MAIN" THEN current_option
  ELSE CASE k = "KB_UP_ARROW" /\ current_option = "MENU_OPTION_SCORES"   -> "MENU_OPTION_START"
         [] k = "KB_UP_ARROW" /\ current_option = "MENU_OPTION_QUIT"     -> "MENU_OPTION_SCORES"
         [] k = "KB_DOWN_ARROW" /\ current_option = "MENU_OPTION_START"  -> "MENU_OPTION_SCORES"
         [] k = "KB_DOWN_ARROW" /\ current_option = "MENU_OPTION_SCORES" -> "MENU_OPTION_QUIT"
         [] OTHER -> current_option

Chosen == CASE current_option = "MENU_OPTION_START"  -> "MENU_START"
            [] current_option = "MENU_OPTION_SCORES" -> "MENU_SCORES"
            [] current_option = "MENU_OPTION_QUIT"   -> "MENU_QUIT"

StateAfter(k) ==
  CASE current_state = "MENU_MAIN" /\ k = "KB_ENTER"      -> Chosen
    [] current_state = "MENU_GAME_OVER" /\ k = "KB_ENTER" -> "MENU_MAIN"
    [] k = "KB_BREAK_ESC"                                 -> "MENU_MAIN"
    [] OTHER                                              -> current_state

(***************************************************************************)
(* The keyboard bit of a message, in menu_handler().                       *)
(***************************************************************************)
MenuKeyboard ==
  /\ loop = "menu" /\ scancode # "KB_BREAK_ESC" /\ ~timer_bit
  /\ \E k \in Key :
       /\ scancode' = k
       /\ current_option' = OptionAfter(k)
       /\ current_state' = StateAfter(k)
  /\ timer_bit' \in BOOLEAN
  /\ UNCHANGED <<loop, player_win, player_lost, shown, held, saves, scoreVars>>

(***************************************************************************)
(* The timer bit of a message, in menu_handler(), by the state of the      *)
(* menu.                                                                   *)
(***************************************************************************)
MenuTimer(state) ==
  /\ loop = "menu" /\ (scancode # "KB_BREAK_ESC" \/ timer_bit)
  /\ current_state = state
  /\ timer_bit' = FALSE

StartGame ==
  /\ MenuTimer("MENU_START")
  /\ loop' = "game"
  /\ player_win' = FALSE /\ player_lost' = FALSE
  /\ score_init
  /\ saves' = 0
  /\ UNCHANGED <<current_state, current_option, scancode, shown, held>>

(***************************************************************************)
(* MENU_SCORES: the leaderboard or, after a game, its score, which         *)
(* draw_final_score_display() puts under "YOU WON" for a lost game too.    *)
(***************************************************************************)
ShowScores ==
  /\ MenuTimer("MENU_SCORES")
  /\ loop' = "scores"
  /\ shown' = CASE ~player_win /\ ~player_lost -> {"HIGH SCORES"}
                [] player_win                  -> {"YOU WON"}
                [] OTHER                       -> {"GAME OVER", "YOU WON"}
  /\ UNCHANGED <<current_state, current_option, scancode, player_win,
                 player_lost, held, saves, scoreVars>>

ExitMenu ==
  /\ MenuTimer("MENU_EXIT")
  /\ loop' = "close_game"
  /\ UNCHANGED <<current_state, current_option, scancode, player_win,
                 player_lost, shown, held, saves, scoreVars>>

\* A slip of RenderMenu: MENU_QUIT is not followed by MENU_EXIT.
RenderMenuNoExit ==
  /\ \E state \in {"MENU_MAIN", "MENU_GAME_OVER", "MENU_QUIT"} : MenuTimer(state)
  /\ UNCHANGED <<loop, current_state, current_option, scancode, player_win, player_lost,
                 shown, held, saves, scoreVars>>

(***************************************************************************)
(* menu_render() of the other states.                                      *)
(***************************************************************************)
RenderMenu ==
  /\ \E state \in {"MENU_MAIN", "MENU_GAME_OVER", "MENU_QUIT"} : MenuTimer(state)
  /\ current_state' = IF current_state = "MENU_QUIT" THEN "MENU_EXIT" ELSE current_state
  /\ UNCHANGED <<loop, current_option, scancode, player_win, player_lost,
                 shown, held, saves, scoreVars>>

(***************************************************************************)
(* The loop of menu_handler() ends at the break code of ESC.               *)
(***************************************************************************)
LeaveMenu ==
  /\ loop = "menu" /\ scancode = "KB_BREAK_ESC" /\ ~timer_bit
  /\ loop' = "close_game"
  /\ UNCHANGED <<current_state, current_option, scancode, timer_bit, player_win,
                 player_lost, shown, held, saves, scoreVars>>

-----------------------------------------------------------------------------
(***************************************************************************)
(* The keyboard bit of a message, in game_state().  The space bar may be   *)
(* too early for a shot.                                                   *)
(***************************************************************************)
GameKeyboard ==
  /\ loop = "game" /\ scancode # "KB_BREAK_ESC" /\ ~timer_bit
  /\ scancode' \in Key
  /\ timer_bit' \in BOOLEAN
  /\ \/ /\ scancode' = "KB_SPACE" /\ current_score.bullets_fired < MAX_SHOTS
        /\ score_add_bullet
     \/ UNCHANGED scoreVars
  /\ UNCHANGED <<loop, current_state, current_option, player_win, player_lost,
                 shown, held, saves>>

(***************************************************************************)
(* The timer bit of a message, in game_state(): the game goes on, is lost, *)
(* or is won (save_win_highscore() saves the score once).                  *)
(***************************************************************************)
GameTimer ==
  /\ loop = "game" /\ (scancode # "KB_BREAK_ESC" \/ timer_bit)
  /\ timer_bit' = FALSE
  /\ UNCHANGED <<current_option, scancode, shown, held>>

GameGoesOn ==
  /\ GameTimer
  /\ game_ticks < MAX_FRAMES
  /\ ScoreGoesOn
  /\ UNCHANGED <<loop, current_state, player_win, player_lost, saves>>

GameLost ==
  /\ GameTimer
  /\ player_lost' = TRUE
  /\ ScoreFinal
  /\ current_state' = "MENU_GAME_OVER"
  /\ loop' = "menu"
  /\ UNCHANGED <<player_win, saves, highscore_saved_this_game>>

GameWon ==
  /\ GameTimer
  /\ player_win' = TRUE
  /\ ScoreFinal
  /\ saves' = IF highscore_saved_this_game THEN saves ELSE saves + 1
  /\ highscore_saved_this_game' = TRUE
  /\ current_state' = "MENU_SCORES"
  /\ loop' = "menu"
  /\ UNCHANGED player_lost

(***************************************************************************)
(* A frame that cannot be drawn: game_state() and menu_handler() return 1  *)
(* before the game is found lost or won.  It takes no failing call, but an *)
(* enemy at the lower border (AbortsOnlyAtBottom of module Game).          *)
(***************************************************************************)
GameFails ==
  /\ GameTimer
  /\ game_ticks >= FRAMES_DOWN
  /\ ScoreGoesOn
  /\ player_lost' \in BOOLEAN
  /\ loop' = "failed"
  /\ UNCHANGED <<current_state, player_win, saves>>

LeaveGame ==
  /\ loop = "game" /\ scancode = "KB_BREAK_ESC" /\ ~timer_bit
  /\ score_reset
  /\ current_state' = "MENU_MAIN"
  /\ loop' = "menu"
  /\ UNCHANGED <<current_option, scancode, timer_bit, player_win, player_lost,
                 shown, held, saves>>

(***************************************************************************)
(* A message to score_state(), and what menu_handler() does after it has   *)
(* returned.  Timer interrupts are not even counted here.                  *)
(***************************************************************************)
ScoresKeyboard ==
  /\ loop = "scores"
  /\ scancode' \in Key
  /\ \/ /\ scancode' \in {"KB_ENTER", "KB_BREAK_ESC"}
        /\ loop' = "menu"
        /\ current_state' = "MENU_MAIN"
        /\ player_win' = FALSE /\ player_lost' = FALSE
        /\ score_reset
     \/ /\ scancode' \notin {"KB_ENTER", "KB_BREAK_ESC"}
        /\ UNCHANGED <<loop, current_state, player_win, player_lost, scoreVars>>
  /\ UNCHANGED <<current_option, timer_bit, shown, held, saves>>

-----------------------------------------------------------------------------
TimerInterrupt ==
  StartGame \/ ShowScores \/ ExitMenu \/ RenderMenu
    \/ GameGoesOn \/ GameLost \/ GameWon \/ GameFails

MainNext ==
  InitGame \/ CloseGame \/ LeaveMenu \/ LeaveGame \/ TimerInterrupt
    \/ MenuKeyboard \/ GameKeyboard \/ ScoresKeyboard

MainSpec == MainInit /\ [][MainNext]_vars

(***************************************************************************)
(* The i8254 keeps interrupting and calls return; the player may never     *)
(* press a key.                                                            *)
(***************************************************************************)
MainFairSpec ==
  /\ MainSpec
  /\ WF_vars(InitGame) /\ WF_vars(CloseGame)
  /\ WF_vars(LeaveMenu) /\ WF_vars(LeaveGame)
  /\ WF_vars(TimerInterrupt)

-----------------------------------------------------------------------------
(***************************************************************************)
(* The types of the variables.                                             *)
(***************************************************************************)
MainTypeOK ==
  /\ ScoreTypeOK
  /\ loop \in Loop
  /\ current_state \in MenuState
  /\ current_option \in MenuOption
  /\ scancode \in Key
  /\ {timer_bit, player_win, player_lost} \subseteq BOOLEAN
  /\ shown \subseteq {"HIGH SCORES", "YOU WON", "GAME OVER"}
  /\ held \subseteq {"graphics", "keyboard", "timer"}
  /\ saves \in Nat

Ended == loop \in {"failed", "done"}

(***************************************************************************)
(* An entry is saved for a game that was won, once, and not for one that   *)
(* was lost or left; and the screen that draw_final_score_display() fills  *)
(* is only ever drawn for a game that has ended, won or lost, with that    *)
(* game's own final score, which is the one that was saved if it was won:  *)
(* whatever was played, left or looked up before, and also when the last   *)
(* frame came in the same message as a key.  (player_win is still set when *)
(* ESC has come with the last frame.)                                      *)
(***************************************************************************)
FinalScoreShown ==
  /\ saves <= 1
  /\ game_active \/ player_lost => saves = 0
  /\ player_win => saves = 1
  /\ loop = "scores" /\ "YOU WON" \in shown =>
       /\ player_win \/ player_lost
       /\ "GAME OVER" \in shown <=> player_lost
       /\ current_score.final_score \in MIN_SCORE .. BASE_SCORE
       /\ current_score.final_score =
            ScoreOf(current_score.bullets_fired, current_score.game_time_seconds)

(***************************************************************************)
(* The program returns 0 only when it has given back all it had taken, and *)
(* the loops run only while they have it: no loop waits for an interrupt   *)
(* that is not subscribed any more.                                        *)
(***************************************************************************)
LoopsHaveHardware ==
  /\ loop \in {"menu", "game", "scores"} => held = {"graphics", "keyboard", "timer"}
  /\ loop = "done" => held = {}

(***************************************************************************)
(* The score is a count of this game alone: a running game has a score     *)
(* that is not final, and its seconds are those of its own frames.         *)
(***************************************************************************)
ScoreOfThisGame ==
  /\ ~Ended => (game_active <=> loop = "game")
  /\ loop = "game" => /\ current_score.final_score = 0
                      /\ current_score.game_time_seconds = game_ticks \div FREQ

(***************************************************************************)
(* The QUIT option ends the program, with no further key: it takes two     *)
(* frames of the menu, MENU_QUIT and MENU_EXIT (menu_render(),             *)
(* menu_handler()), between which keys still arrive, and then the calls of *)
(* close_game().                                                           *)
(***************************************************************************)
QuitEnds == (loop = "menu" /\ current_state = "MENU_QUIT") ~> Ended

(***************************************************************************)
(* The scores screen is left to the menu, which then waits for a key:      *)
(* "PRESS ESC TO RETURN TO MENU" (score.c, draw_scoreboard_menu).          *)
(***************************************************************************)
MenuWaits == loop = "menu" /\ scancode # "KB_BREAK_ESC"

EscReturnsToMenu == [][ loop = "scores" /\ loop' # "scores" => MenuWaits' ]_vars

(***************************************************************************)
(* "Safe hardware state restoration" (README): however it ends, the        *)
(* program leaves nothing taken.                                           *)
(***************************************************************************)
HardwareRestored == Ended => held = {}

=============================================================================
