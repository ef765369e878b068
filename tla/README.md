# A verification project for Space Invaders (MINIX / LCF)

The program under `src/proj/src` is a Space Invaders game written in C for
MINIX with the LCOM framework: it drives the i8042 keyboard controller, the
i8254 timer and a VBE graphics mode, and runs one thread that waits for
interrupt notifications. This directory models its core logic in TLA+, checks
it with TLC on small instances and proves the safety properties of the passing
runs, for all sizes, with TLAPS.

## 1. Inventory

| component | source | state | operations | what makes it correct |
|---|---|---|---|---|
| Enemies | `game/enemies/enemies.c`, `enemies_moving()` of `game/game_state.c` | `enemies[]`, `enemy_direction`, `should_drop`, `enemy_move_timer` | `init_enemies`, `move_enemies`, hits | the formation is rigid, stays between the borders, and comes down |
| Ship | `game/ship/ship.c` | `x` (`uint16_t`), `bullets[]`, `fire_delay_counter` | `ship_action` (A, D, SPACE), `update_bullets`, `init_bullets` | `x` does not wrap, nothing is drawn off the screen, the pool suffices |
| Aliens' fire, shields | `game/ship/ship.c`, `check_shield_collision()` | `enemy_bullets[]`, `shields[]`, `timer_counter % 60` | `fire_enemy_bullet`, `update_enemy_bullets`, `init_shields` | shields stop what they cover and wear slowly |
| Game loop | `game/game_state.c` | the three above, `player_win`, `player_lost` | `game_state`, four collision checks | every hit is settled, every game ends |
| Score | `game/scores/score.c` 53-112 | `current_score`, `game_start_time`, `game_active`, `highscore_saved_this_game` | `score_init` ... `score_reset` | the score is that of one game, saved once |
| Leaderboard | `game/scores/score.c` 126-237, 368-382 | `highscores[]`, the file `highscores.csv` | load, save, sort | sorted, bounded, the same after a restart |
| Menu and program | `main.c`, `game/menu/menu.c`, `score_state()` | `current_state`, `current_option`, `scancode`, what the program holds of the hardware | `init_game`, `menu_handler`, `menu_handle_input`, `menu_render`, `close_game` | screens show the score of the game they follow, QUIT ends the program, hardware is given back |
| Keyboard driver | `controllers/keyboard`, driven by `lab3/lab3.c` | the i8042 and `scancode` | `read_keyboard_output`, `write_keyboard_command`, `kbc_ih`, `kb_restore_settings` | keys are reported once and in order, no call hangs, the command byte is restored |
| Timer driver | `controllers/timer`, driven by `lab2/lab2.c` | the i8254, `hook_id`, `timer_counter` | `timer_get_conf`, `timer_set_frequency`, `timer_display_conf`, `timer_subscribe_int`, `timer_int_handler` | a timer runs at its old rate, not at all, or as requested; what is printed is what is configured |
| Graphics driver | `controllers/graphics` | `video_mem`, `back_buf` | `set_frame_buffer`, `clear_back_buf`, `vg_draw_pixel`, `print_xpm`, `swap_buffers` | a draw succeeds exactly when its sprite fits, and stays inside the buffer; only whole pictures are seen |
| Mouse driver | `controllers/mouse`, driven by `lab4/lab4.c`; not compiled into the game | the i8042, `data`, `bytes[]` | `kbc_command_handler`, `mouse_ih`, `mouse_test_packet` | packets are put together from the right bytes, commands return |

How they interact. There is one thread and there are three nested loops:
`menu_handler()` calls `game_state()` or `score_state()` from its timer branch,
and each of them calls `driver_receive()` itself. One message may notify the
keyboard, the timer, or both, and the keyboard comes first. All three loops
share the global `scancode`, and leave when it is the break code of ESC. A frame
of the game is one timer notification: bullets climb, the aliens' bullets fall,
the formation moves, the aliens fire, the four collision checks run, and the
sprites are drawn; a sprite that does not fit on the screen makes
`print_xpm()` fail, which ends the whole program. Scores are written to a file
that a later run of the program loads.

What is hard here is therefore not parallelism. It is the order of keys and
ticks (also within one message), state that outlives a game (flags, the
direction of the formation, the fire delay, `scancode`), objects that move
several pixels at a time and might skip each other, pools at their limit,
calls that fail half-way through start-up or through a frame, and a save that is
interrupted. `PROJECT.json` lists these hazards, each at its line and with the
properties that would catch it.

## 2. Modules

    Screen                    Printable, Overlap
      Enemies   Ship   EnemyFire          each a component with its own spec
          \______|_______/
                Game          EXTENDS the three; implements their specs
    Score
      Main                    EXTENDS Score; menu, game and scores loops
    Leaderboard               the file and highscores[]
      Program                 EXTENDS Main and Leaderboard: restarts and kills
    Keyboard                  the i8042, its driver and the programs of lab3
    Mouse                     the i8042, the mouse, its driver and lab4
    Timer                     the i8254, its driver and the programs of lab2
      implements Rates        what the timers promise
    Graphics                  EXTENDS Screen; drawing into a buffer
      Frames                  EXTENDS Graphics; the screens and the two buffers
        implements Display    what double buffering promises

    MCEnemyFire, MCGame       give the constant Muzzles a value for TLC
    MCFrames                  sprites and places for TLC

    ShipProofs                theorems about Ship and EnemyFire, checked by TLAPS
      GameProofs              EXTENDS it; theorems about Enemies and Game
    LeaderboardProofs
      ProgramProofs           EXTENDS it; theorems about Main and Program
    TimerProofs, KeyboardProofs, MouseProofs, FramesProofs

* **Screen** says when a sprite can be printed and when two boxes touch, the
  test that all four collision checks repeat.
* **Enemies**: `enemies[]` is a function on the set of active enemies, which are
  named by row and column. `EnemiesTick` is one frame as the formation sees it:
  it moves, then at most one enemy is hit. `EnemiesNewGame` resets the array
  only, as `init_enemies()` does.
* **Ship**: `bullets[]` is a function on the active slots. `MoveLeft`,
  `MoveRight` and `Fire` are the three branches of `ship_action()`; a shot takes
  the first inactive slot, and when there is none only the delay restarts.
  `fire_delay_counter` is only compared with `FIRE_DELAY`, so it is not counted
  further once it has reached it.
* **EnemyFire**: of `timer_counter` only the value modulo the firing period
  matters. A game may start in any phase: the menu counts interrupts, too. The
  enemies fire from any of `Muzzles`; module Game narrows that to where its
  enemies are.
* **Game**: `Keyboard` and `Timer` are the two branches of the loop;
  `timer_bit` remembers that the message of a key also carries a tick, in which
  case the frame runs even after ESC. `Frame` does all a frame does, in the
  order of the code, and decides how it ends: an error when something cannot be
  drawn, else lost, else won, else the game goes on. `EnemiesSpec`, `ShipSpec`
  and `EnemyFireSpec` are checked as properties of Game: the composition does
  nothing that a component's own specification does not allow, so what is
  checked or proved of a component holds in the game.
* **Score** and **Main**: Main has one action per branch of each loop. The
  outcome of a frame is nondeterministic (module Game decides it there); a frame
  that cannot be drawn takes an enemy at the lower border, so `GameFails` waits for
  `FRAMES_DOWN` frames. Nothing that the menu draws can fail: the ship is on the
  screen (`ShipOnScreen`), and so are the rectangle and the messages. `held` is
  what `init_game()` has taken and `close_game()` not yet given back, `shown` the
  headings of the screen that the scores loop shows. `Faults` says whether calls of
  start-up and shut-down may fail.
* **Leaderboard**: the steps of `save_highscore_to_csv()` between which the
  program can be killed, bubble sort as it is written, and a load that skips the
  first line. What can go wrong has an action each: the file is there and cannot be
  opened to read, so that a save takes it for missing (`SaveBlind`) and a load gets
  nothing, or only a part (`LoadFails`); it cannot be opened to append, and is
  emptied (`OpenEmptied`), or not at all (`OpenFails`); the header (`HeaderFails`)
  or the entry (`EntryFails`) is not written. `mishaps` counts each kind.
* **Program** is Main and Leaderboard as one behaviour. `StartUp` is
  `init_game()` with the load it makes; `WinGame` is the last frame of a won game
  up to the call of `save_win_highscore()`; each `SaveStep` is a step of that
  call, during which the rest of the program stands still; `RunAgain` is the end
  of the process, by itself or by a kill, and its next start from the file.
* **Keyboard**: every access to a port is a step of its own, and the controller
  and the player act between any two. Bytes and the status register are sets of
  bits. `AfterRead` is what the three callers of `read_keyboard_output()` do
  with its result: `kbc_ih()` ignores it. The game calls `kbc_ih()` as
  `kbd_test_scan()` does; `kb_restore_settings()` is called by `kbd_test_poll()`
  only, so the programs of lab3 (whose copies of the driver are identical) are
  the model's callers.
* **Mouse**: the same for the mouse driver under `mouse_test_packet()` of lab4.
  The mouse answers each command when it gets to it, and its answer replaces the
  rest of a packet; reading an empty output buffer returns the byte read before.

* **Timer**: every access to a port and every call of the kernel is a step that
  may fail. The i8254 keeps the count as written, the byte of a count that is
  half written, and a latched status until it is read. The game calls
  `timer_set_frequency()` once and then counts interrupts as `timer_test_int()`
  does; the programs of lab2 call all of the driver.
* **Rates** has four steps: a request, the timer stops, it runs as requested, an
  answer. The refinement maps the count register, read in the base of the timer,
  to `rate`, the low half of the status to `mode`, and the call in progress to
  `request`.
* **Graphics**: a draw is a sprite and a position of ints. `PixelAt` makes them
  `uint16_t`, `Drawn` are the pixels before the first that is refused, `Painted`
  is the buffer that a draw leaves, also when it failed. `DrawFits` ties this to
  `Printable` of module Screen, the test that all modules of the game use.
* **Frames**: `Clear`, the draws, `swap_buffers`. `DrawOrEnd` are the draws whose
  failure ends the program, `DrawLoosely` those whose result is dropped; what is
  drawn, and in which order, is left open, so that every screen is covered.
* **Display** says what is seen: the picture of one scene, later sprites over
  earlier ones, what lies below the screen cut off. Frames maps `video_mem` to
  its `screen`.

Next to some definitions stands a *slip*: the same definition with a plausible
mistake. Each property has one that it catches, so each property is known to
depend on the code that it is about. Slips are used by no specification.

## 3. Runs

| run | checks | bounds and why they are enough |
|---|---|---|
| `enemies` | `FormationRigid`, `DescentNotPreempted`, `NeverOffSideways`, `FormationComesDown` | the real screen, margins and steps; three rows (three sprites) and the two outermost columns, since only the outermost active columns meet a margin and every subset of the six enemies can be left; two ticks per move instead of 30 |
| `ship` | `ShipOnScreen`, `BulletsOnScreen`, `BulletSpacing`, `ShotNeverLost` | the real numbers, except for a screen that is narrower by 25 steps of the ship: the positions near both borders, where the guards act, are the same |
| `enemy_fire` | `AtMostOneInFlight`, `ShieldsCover`, `ShieldsWearSlowly` | the real numbers; muzzles above, within and below the row of the shields, over shields and between them |
| `game` | refinement of the three components, `HitsSettled`, `NoEnemySkipped`, `AbortsOnlyAtBottom`, `GameEnds` | a small screen with the relations of the real one that decide what can happen, which are the assumptions of the proofs: a bullet of the player fits exactly between two rows, a climb and a descent together are just shorter than an enemy and a bullet, the formation fits between two bullets, sprites are wider than boxes, an alien's bullet is gone within the firing period, a bullet of the player climbs for longer than the fire delay and for less than two: two slots, and two bullets in flight together, as in the program (670 / 20 frames against a delay of 30) |
| `main` | `FinalScoreShown`, `LoopsHaveHardware`, `ScoreOfThisGame`, `QuitEnds` | games of at most 6 frames and 2 counted shots, 2 frames a second; small penalties that reach the minimum score; a frame fails from the fourth on at the earliest, so that games are also lost, won and left before; any number of games |
| `program` | `BoardSorted`, `HeadersCounted`, `FirstLineIsHeader`, `RestartKeepsBoard`, `WinIsListed` | games of one or two frames, so that two different scores are won; three slots, files of up to 6 lines, with one entry too many; two mishaps of the five kinds (a kill, a failing look for the file, open, write or load) at any place; any number of games and restarts |
| `keyboard` | `KeysInOrder`, `RestoreWhenQuiet`, `AlwaysReturns` | all three programs, 4 keys with any error bit, 3 polls instead of 10, 2 idle seconds of 2 ticks, any call may fail at any time |
| `mouse` | `PacketsAligned`, `CommandEnds` | 2 packets, 2 polls and refusals instead of 3, the three answers, two stale bytes on the port (one looks like an answer), any call may fail; all packets have the same bytes, so what is checked of them is their number and where they begin |
| `timer` | `RatesPromised` (refinement of Rates), `PrintedIsConfigured`, `TestIntEnds` | the real clock and limits; two timers and one that does not exist; 18 Hz, the first whose divisor has 17 bits, and one frequency above the clock; a binary and a decimal timer; three calls in a row, so that what a failed call leaves latched or half written meets a second and a third; 2 ticks a second |
| `graphics` | `DrawsFit`, `DisplayPromised` (refinement of Display) | a screen of 3 by 3 pixels, a square sprite and a tall one, places beyond every side, two draws a screen so that they overlap, any number of screens; coordinates wrap at 2^16 as in the code |

Deadlock is not checked where the system may stop: a won or abandoned game, a
program that has ended, a file at its bound, no calls left.

Two runs show a disagreement between the code and what its comments, screens or
README say (`findings` in `PROJECT.json`):

* `main_esc`: "PRESS ESC TO RETURN TO MENU" closes the program.
* `main_restore`: an error inside a frame (which `game` shows to be reachable,
  by a formation that comes down beside the ship) ends the program without
  giving the hardware back; no call has to fail for it.

Seen while modelling, and stated in the properties as the condition under which
they hold, or in the comments of the modules:

* a new game inherits the direction and the pending descent of the last one
  (`EnemiesNewGame`); `FormationRigid` and the others hold nevertheless;
* a full `highscores[]` takes no new entry and a load reads the oldest
  entries, so that a new best score is not shown (`Remember`,
  `load_highscores_from_csv`);
* `kbc_ih()` does not say that a read failed: with a parity error the faulty byte
  is taken for a key, and after a failed read the last key once more (`faulty` in
  `KeysInOrder`). `kbd_test_poll()` looks at the result and prints neither; but the
  faulty byte is in `scancode`, and ends its loop when it is the break code of ESC
  (lab3.c:82);
* `kb_restore_settings()` takes a key that comes in for the command byte, and its
  last write can overwrite a command that the controller has not taken (`quiet`
  in `RestoreWhenQuiet`);
* a mouse that is late with an answer is asked again, and the second answer then
  starts a packet (`upset` in `PacketsAligned`); without a mouse that answers,
  `kbc_command_handler()` repeats the command for ever;
* a kill right after `save_highscore_to_csv()` has created the file leaves it
  empty; the next save writes no header, and its entry is skipped as one by
  every load (score.c:139; hence `HeaderInPlace` in `RestartKeepsBoard`); the same
  after a header that could not be written, which is not noticed (score.c:153);
* a file that is there and cannot be opened to read is taken for missing, and the
  save puts a header in the middle of it (score.c:130; `HeadersCounted` says that
  this is the only way one gets there); a load that fails goes on with an empty
  leaderboard, or with a part of it (score.c:186; hence `NoFailure`);
* `player_lost` is still set when the screen of a lost game is left with ENTER, so
  that SCORES then shows that game and not the leaderboard (main.c:141), and tells
  the player "YOU WON" under "GAME OVER", since `draw_final_score_display()` draws
  that heading for both outcomes (score.c:345; `ShowScores`, `FinalScoreShown`);
* ESC ends the program also when the frame in the same message wins the game: the
  score is saved, but not shown;
* `timer_set_frequency()` keeps the bit that makes a timer count in decimal and
  writes a binary divisor: such a timer runs at another rate
  (`CountsInBinary` in Rates). MINIX leaves timer 0 in binary;
* `timer_set_frequency()` that fails after the control word leaves the timer
  stopped; Rates allows that and no more;
* `print_xpm()` loads its image at every call and frees none (graphic.c:135), so
  that the process grows with every frame; `cleanup_buffers()`, the only `free()`
  of the program, is called by nobody. The models draw from sprites that are there;
* `kbd_test_scan()` prints two bytes from the address of the one-byte `scancode`
  when it is `0xE0` (lab3.c:60); printing is not modelled.

## 4. Fairness

The only fairness assumed is that of the hardware and of the program's own
steps. The timer interrupts 60 times a second whatever the player does
(`EnemiesTick`, `Timer`, `TimerInterrupt`), the loop tests its condition
(`Leave`, `LeaveMenu`, `LeaveGame`), and the calls of start-up and shut-down
return (`InitGame`, `CloseGame`). No key is ever assumed to be pressed.
`FormationComesDown` excepts behaviours that start new games for ever. In
Keyboard the program's own steps and the notification of interrupts are fair,
the controller is not: the driver must return whatever it does. In Mouse the
controller and the mouse's answers are fair, too, and `CommandEnds` needs that.
In Timer a timer that is loaded and subscribed interrupts, and the loop tests its
condition; `TestIntEnds` says nothing of a timer that stands still.

## 5. What is proved

Each theorem holds for every value of the constants within the assumptions of
its modules. The assumptions are relations between the program's own numbers
(TLC evaluates them on every run that uses the module), and the program's
numbers satisfy them all.

| module | from | theorems |
|---|---|---|
| `ShipProofs` (Ship) | `ShipAssumption`: the ship fits on the screen, a step is no longer than the ship is wide, a bullet is born over the ship | `ShipStaysOnScreen`, `BulletsStayOnScreen`, `BulletsStaySpaced`, `ShotIsNeverLost` |
| `ShipProofs` (EnemyFire) | `EnemyFireAssumption`; `LifetimeAssumption`: a bullet is below the screen before the enemies fire again; `FallAssumption`: a fall is shorter than a bullet and a shield together | `OneInFlight`, `NoneGetsPastShields`, `ShieldsWearOneLevel` |
| `GameProofs` (Enemies) | `EnemiesAssumption`; `GeometryAssumption`: the formation starts between the margins and does not reach both at once, a step is no longer than a margin; `AlignmentAssumption`: columns start on multiples of a step, and at none of them is a sprite over the right border while its box is not | `EnemiesTypeCorrect`, `FormationStaysRigid`, `DescentIsNotPreempted`, `SpritesStayOnScreen` |
| `GameProofs` (Game) | all of the above; `FormationAssumption`: the first frame can be drawn, `Muzzles` has the places that an enemy reaches; `HitAssumption`: a bullet fits between rows and columns, the formation between two bullets, and a bullet and an enemy cannot pass each other in a frame | `EndsOnlyAtBottom`, `BulletsSkipNone`, `HitsAreSettled`; the refinements `GameImplementsEnemies`, `GameImplementsShip`, `GameImplementsEnemyFire` |
| `LeaderboardProofs` | `LeaderboardAssumption`: types | `SortSorts`, `BoardInvariant` |
| `ProgramProofs` | `ScoreAssumption`, `LeaderboardAssumption`: types | `FinalScoreIsShown`, `LoopsHoldHardware`, `ScoreIsOfThisGame` of Main; `HeadersAreOfBlindSaves`, `HeaderComesFirst`, `BoardStaysSorted`, `RestartLoadsBoard`, `WinListed` of Program |
| `TimerProofs` | `TimerAssumption`; `DivisorAssumption`: the divisor of the lowest frequency has 16 bits | `PrintsTheConfiguration`; the refinement `TimerImplementsRates` |
| `KeyboardProofs` | `KeyboardAssumption`: types | `RestoredWhenQuiet`, `KeysTakenInOrder` |
| `MouseProofs` | `MouseAssumption`: types | `MouseTypeCorrect`, `PacketsInStep` |
| `FramesProofs` | `GraphicsAssumption`: the screen and the sprites have 16-bit sizes; `FramesAssumption`: positions that `uint16_t` can tell from ones on the screen | `EveryDrawFits`; the refinement `FramesImplementDisplay` |

Hardly any of the properties is inductive by itself. What each proof adds:

* **Enemies.** Which way a formation may turn depends on where it can be.
  `EnemiesInv` says that all active enemies are the starting formation shifted by
  one displacement, that the displacement leaves the boxes between the borders,
  and that a formation with a pending descent is away from the edge that it now
  heads for. That it cannot be at both edges (`NotAtBothEdges`) makes a turn safe;
  that a new game puts it clear of both makes a stale flag harmless. The sprites
  are wider than the boxes that `move_enemies()` tests, so they need `InStep`, too:
  moves are whole steps, and the formation cannot stop at every column that the
  test would let it reach.
* **Ship.** `ShipInv` adds that no bullet exists while the counter is above
  `FIRE_DELAY`: that is where it starts, and there it says nothing of the last
  shot. `Spaced(bs, n)` is what holds of the bullets `bs` when the counter stands
  at `n`; one lemma for each thing that happens to bullets shows that it is kept.
* **EnemyFire.** `FellFromMuzzle`: a bullet is as far below its muzzle as it has
  fallen since the firing frame. So it is gone when the next one is fired, and
  `ShieldsWearOneLevel` follows from there being one bullet. `InFrame` is what is
  known of the bullets in the middle of a frame, when collisions are checked.
* **Game.** `GameInv` is the three invariants and `LoopGoesOn`: the loop runs
  only with a formation that was drawn and is not empty, which is what makes a
  frame of the loop a tick of module Enemies. `HitsAreSettled` combines all three: by
  `BulletsStaySpaced` two bullets cannot both reach a rigid formation, and by the
  spacing of the formation one bullet touches one enemy.
* **Main and Program.** `HeldInOrder` is what is held at each step of start-up and
  shut-down; `OutcomeOfThisGame` and `ScoreKept` tie the flags, the number of saves
  and the score to the loop that runs. `SaveOfThisWin` says of the file at each step
  of a save what the score of the game has to do with it.
* **Leaderboard.** `FileSound` is what is known of the file however far a save has
  come, and `HeadersSound` why a header is where it is: it counts the header that a
  save is about to write to lines which it could not read, and says that only a kill
  or a failed write leaves an empty file or an entry in the place of the header.
  `BoardInStep` follows `highscores[]` and the file through a save:
  until the entry is written the one is what a load of the other gives, and then
  the file has one entry more. That `Remember` closes the gap is a fact about
  sorting (`SortSorted`): a board that was sorted, with an entry appended and sorted
  again, is the entries of the file sorted at once. It holds because there is one
  way only to sort numbers (`SortedOnce`), which is shown by counting; and a full
  board stays as it is because a load reads the oldest entries only
  (`BoardOfAppend`). A kill stops this at any step, and the next load starts it
  again; a failing call ends it, which `NoFailure` remembers. `FileWhole` says that no
  entry is lost to the line that a load skips when that line is the header.
* **Timer.** `Programmed` is what the chip and the driver's variables have in
  common at each step of a call; `ChipsSound` allows what failed calls have left
  (a latched status, half a count). Most of the refinement is that a divisor is
  what its two bytes make up.
* **Keyboard.** `RestoreInv` follows the old command byte and the new one through
  the buffers of the controller, for as long as `quiet` holds. `KeysInv` splits the
  keys that arrived into those settled and the one in the output buffer, and adds
  two facts that `KeysInOrder` does not show: what `status` says of that key is
  still true when the key is read, and a program that waits for interrupts looks
  for a byte only when one is there (`ByInterrupt`), so that `kbc_ih()` never acts
  on an old `scancode` when nothing fails.
* **Mouse.** `StreamWhole` lists where the bytes of the packets can be: printed, in
  `bytes[]`, in the output buffer, still in the mouse; in all but one case that is
  one packet at a time. `Enabling` is the same for the first command and its answer,
  the only byte that is not part of a packet: that it is gone before the loop starts
  puts the loop in step.
* **Frames.** `BufferIsScene`: `back_buf` is the picture of the draws so far, at
  every point of the screen. The lemmas about one draw (which pixel is refused
  first, that the pixels before it are on the screen, that every point of the
  sprite on the screen is among them) are those of `DrawFits`, which all that the
  other modules say about drawing rests on.

The attempts to prove also changed the models. Some `CASE` expressions had arms
that overlap, of which TLC takes the first and TLA+ any; they are `IF`s now, as
in the code (`Frame`, `Loaded`, `OptionAfter`). That a bullet and a shield, a bullet
and an enemy cannot pass each other, which used to be facts about the numbers of
a configuration, are named assumptions. The loops of Leaderboard are recursive
functions on numbers instead of folds, which nothing can be proved about here, and
`KeysInOrder` names the keys that were taken (`CleanPart`) instead of filtering.

The library's induction theorems cannot be used with these provers, so the proofs
about sequences do without: the numbers for which a claim fails make up a set, and
a set of numbers that is not empty has a least one (`LeastNat`, `UpTo`). The same
argument shows that the functions which are defined by recursion exist
(`Iteration`).

Only model-checked:

* liveness, which is out of the prover's reach like `ENABLED`:
  `FormationComesDown`, `GameEnds`, `QuitEnds`, `AlwaysReturns`, `CommandEnds`,
  `TestIntEnds`.

Every invariant and every other property that a passing run checks is stated by a
theorem, too. What a theorem says of a failing call it says of the failures that
section 2 lists; the two violated properties are, of course, not theorems.

## 6. Not modelled

* Texts and names; the values of scores beyond their formula; the bytes that make
  up a colour, and the colours of `dir_mode()` and `idx_mode()`.
* `option_selected`, `show_scores_drawn` and `enemy_drop_timer`, which are never
  read or always the same when they are read; the functions that nothing calls
  (`clear_all_enemies`, `clear_area`, `cleanup_buffers`, `mouse_parse_packet`, the
  `WRITE_CMD_B` branch).
* That `swap_buffers()` is a copy which the screen may show half-way: there is no
  wait for the vertical retrace, and a picture may tear. Display takes the copy
  for one step. Bit 7 of a timer's status, its output.
* A `driver_receive()` that fails changes nothing. A failing keyboard read leaves
  some byte in `scancode` and the loops go on with it: for Main it is a key.
* `lab5/lab5.c`: tests of drawing rectangles, patterns and a moving sprite with one
  buffer, not part of the game; its drawing functions are those of Graphics. The
  other labs' copies of the drivers are those of the game, but for the name of
  the counter of interrupts.
* The sprites, which are data, and `.minix-src`: the headers of the operating
  system and its libraries, over 260000 lines of declarations against some 4000
  of the repository's own C. No share of the whole tree says anything of what is
  modelled; the models cover the drivers and the game under `proj/src`.

## 7. How to run

    tlc -config MCGame.cfg MCGame
    tlapm ShipProofs.tla

The module and the configuration of each run are in `PROJECT.json`.

Each of the eight modules with theorems is checked by itself; a theorem of a module
that it extends is then taken as proved there.

## 8. State and what could follow

Modelled: Enemies, Ship, EnemyFire, Game, Score and Main, Leaderboard, Program,
Keyboard, Mouse, Timer and Rates, Graphics, Frames and Display. Proved: every
safety property that a run checks. What could follow:

1. How long a process can run before `print_xpm()`, which frees no image, has used
   up its memory (graphic.c:135): a bound on frames, for which the sizes of the
   images and of the heap would have to be part of the model.
2. The tearing of a picture during the copy of `swap_buffers()`, which Display
   takes for one step.
3. The liveness properties for all sizes, with a prover that has `ENABLED`.
