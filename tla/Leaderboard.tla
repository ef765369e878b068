---------------------------- MODULE Leaderboard -----------------------------
(***************************************************************************)
(* The leaderboard: the second part of game/scores/score.c.  highscores[]  *)
(* and the file highscores.csv, over any number of runs of the program,    *)
(* which may be killed between any two calls of the C library, and whose   *)
(* calls may fail.                                                         *)
(*                                                                         *)
(* An entry is its score: the name (chosen at random), the bullets and the *)
(* seconds travel with it and are not looked at.                           *)
(***************************************************************************)
EXTENDS Integers, Sequences, FiniteSets, SequencesExt

CONSTANTS
  Scores,             \* the scores that games are won with
  MAX_HIGHSCORES,     \* slots of highscores[]
  MAX_LINES,          \* bound: lines of a file that a save begins with, less one
  MishapKinds,        \* what may go wrong: see MishapKind
  MISHAPS             \* bound: how often

(***************************************************************************)
(* The program is killed during a save; fopen() fails to read a file that  *)
(* exists, when a save looks for it ("test") or when the leaderboard is    *)
(* loaded ("load"); it fails to append; a write fails.                     *)
(***************************************************************************)
MishapKind == {"kill", "test", "open", "write", "load"}

ASSUME LeaderboardAssumption ==
  /\ Scores \subseteq Nat
  /\ MishapKinds \subseteq MishapKind
  /\ {MAX_HIGHSCORES, MAX_LINES, MISHAPS} \subseteq Nat

VARIABLES
  file,         \* the lines of highscores.csv; NoFile when there is none
  highscores,   \* highscores[0 .. highscore_count - 1]
  step,         \* how far save_highscore_to_csv() has come: see Step
  saving,       \* the entry it saves
  header,       \* file_exists is false: it writes the header
  mishaps       \* how many of each kind there were so far

boardVars == <<file, highscores, step, saving, header, mishaps>>

HeaderLine == -1
NoFile == << -2 >>

(***************************************************************************)
(* "off": the program does not run; "idle": it runs, and saves nothing.    *)
(***************************************************************************)
Step == {"off", "idle", "open", "header", "entry", "memory"}

-----------------------------------------------------------------------------
Swapped(s, j) ==
  IF s[j] < s[j + 1] THEN [s EXCEPT ![j] = s[j + 1], ![j + 1] = s[j]] ELSE s

\* A slip of Pass: the last pair is not compared.
PassTooShort(s, n) ==
  LET swept[j \in 0 .. n - 1] == IF j = 0 THEN s ELSE Swapped(swept[j - 1], j)
  IN  swept[n - 2]

(***************************************************************************)
(* sort_highscores(): bubble sort, highest score first.  One pass compares *)
(* each of the first n entries with the next, and carries the lowest of    *)
(* them to place n.                                                        *)
(***************************************************************************)
Pass(s, n) ==
  LET swept[j \in 0 .. n - 1] == IF j = 0 THEN s ELSE Swapped(swept[j - 1], j)
  IN  swept[n - 1]

sort_highscores(s) ==
  LET sorted[i \in 0 .. Len(s) - 1] ==
        IF i = 0 THEN s ELSE Pass(sorted[i - 1], Len(s) - i + 1)
  IN  IF Len(s) <= 1 THEN s ELSE sorted[Len(s) - 1]

(***************************************************************************)
(* load_highscores_from_csv(): the first line is skipped whatever it is,   *)
(* and of the others the first MAX_HIGHSCORES entries are read.            *)
(***************************************************************************)
Entries(lines) ==
  LET read[i \in 0 .. Len(lines)] ==
        IF i = 0 THEN << >>
        ELSE IF lines[i] = HeaderLine THEN read[i - 1]
        ELSE Append(read[i - 1], lines[i])
  IN  read[Len(lines)]

\* A slip of FirstN: one entry too few.
FirstNExclusive(s, n) == SubSeq(s, 1, IF Len(s) < n THEN Len(s) ELSE n - 1)

FirstN(s, n) == SubSeq(s, 1, IF Len(s) < n THEN Len(s) ELSE n)

load_highscores_from_csv ==
  IF file = NoFile \/ file = << >> THEN << >>
  ELSE sort_highscores(FirstN(Entries(Tail(file)), MAX_HIGHSCORES))

-----------------------------------------------------------------------------
BoardInit ==
  /\ file = NoFile
  /\ highscores = << >>
  /\ step = "off"
  /\ saving = 0
  /\ header = FALSE
  /\ mishaps = [kind \in MishapKind |-> 0]

Mishap(kind) ==
  /\ kind \in MishapKinds
  /\ SumFunction(mishaps) < MISHAPS
  /\ mishaps' = [mishaps EXCEPT ![kind] = @ + 1]

(***************************************************************************)
(* init_game() loads the leaderboard.                                      *)
(***************************************************************************)
Load ==
  /\ step = "off"
  /\ highscores' = load_highscores_from_csv
  /\ step' = "idle"
  /\ UNCHANGED <<file, saving, header, mishaps>>

(***************************************************************************)
(* The file is there and cannot be opened, or only n entries are read      *)
(* before a read fails: init_game() goes on with what it has got.          *)
(***************************************************************************)
LoadFails ==
  /\ step = "off" /\ file \notin {NoFile, << >>} /\ Mishap("load")
  /\ \E n \in 0 .. MAX_HIGHSCORES :
       highscores' = sort_highscores(FirstN(Entries(Tail(file)), n))
  /\ step' = "idle"
  /\ UNCHANGED <<file, saving, header>>

(***************************************************************************)
(* save_highscore_to_csv(): does the file exist?  It is taken for missing  *)
(* when it cannot be opened to read.                                       *)
(***************************************************************************)
BeginSave ==
  /\ step = "idle"
  /\ file # NoFile => Len(file) < MAX_LINES
  /\ saving' \in Scores
  /\ step' = "open"
  /\ UNCHANGED <<file, highscores>>

\* A slip of Save: the header is written again.
SaveWithHeader == BeginSave /\ header' = TRUE /\ UNCHANGED mishaps

Save == BeginSave /\ header' = (file = NoFile) /\ UNCHANGED mishaps

SaveBlind == BeginSave /\ file # NoFile /\ header' = TRUE /\ Mishap("test")

(***************************************************************************)
(* Opened to append, the file is created when there is none.               *)
(***************************************************************************)
Open ==
  /\ step = "open"
  /\ file' = IF file = NoFile THEN << >> ELSE file
  /\ step' = IF header THEN "header" ELSE "entry"
  /\ UNCHANGED <<highscores, saving, header, mishaps>>

Header ==
  /\ step = "header"
  /\ file' = Append(file, HeaderLine)
  /\ step' = "entry"
  /\ UNCHANGED <<highscores, saving, header, mishaps>>

Entry ==
  /\ step = "entry"
  /\ file' = Append(file, saving)
  /\ step' = "memory"
  /\ UNCHANGED <<highscores, saving, header, mishaps>>

Idle == step' = "idle" /\ saving' = 0 /\ header' = FALSE

(***************************************************************************)
(* The entry joins highscores[] while there is room.                       *)
(***************************************************************************)
Remember ==
  /\ step = "memory"
  /\ highscores' = IF Len(highscores) < MAX_HIGHSCORES
                     THEN sort_highscores(Append(highscores, saving))
                     ELSE highscores
  /\ Idle
  /\ UNCHANGED <<file, mishaps>>

-----------------------------------------------------------------------------
\* A slip of OpenEmptied: file_exists stays true.
OpenEmptiedAsIs ==
  /\ step = "open" /\ Mishap("open")
  /\ file' = << >>
  /\ step' = IF header THEN "header" ELSE "entry"
  /\ UNCHANGED <<highscores, saving, header>>

(***************************************************************************)
(* The file cannot be opened to append, but can be to write, which empties *)
(* it; or it cannot be opened at all, and the save is given up.            *)
(***************************************************************************)
OpenEmptied ==
  /\ step = "open" /\ Mishap("open")
  /\ file' = << >>
  /\ header' = TRUE
  /\ step' = "header"
  /\ UNCHANGED <<highscores, saving>>

OpenFails ==
  /\ step = "open" /\ Mishap("open")
  /\ Idle
  /\ UNCHANGED <<file, highscores>>

(***************************************************************************)
(* The header does not reach the file, which is not noticed.               *)
(***************************************************************************)
HeaderFails ==
  /\ step = "header" /\ Mishap("write")
  /\ step' = "entry"
  /\ UNCHANGED <<file, highscores, saving, header>>

(***************************************************************************)
(* The entry does not reach the file: fprintf() fails, and the save is     *)
(* given up, or only fflush() does, which is not noticed.                  *)
(***************************************************************************)
EntryFails ==
  /\ step = "entry" /\ Mishap("write")
  /\ Idle \/ (step' = "memory" /\ UNCHANGED <<saving, header>>)
  /\ UNCHANGED <<file, highscores>>

(***************************************************************************)
(* The program is killed; what it has not flushed is lost.                 *)
(***************************************************************************)
Kill ==
  /\ step \notin {"off", "idle"} /\ Mishap("kill")
  /\ step' = "off" /\ saving' = 0 /\ header' = FALSE
  /\ highscores' = << >>
  /\ UNCHANGED file

(***************************************************************************)
(* The program ends between two games.                                     *)
(***************************************************************************)
Quit ==
  /\ step = "idle"
  /\ step' = "off"
  /\ highscores' = << >>
  /\ UNCHANGED <<file, saving, header, mishaps>>

BoardNext ==
  \/ Load \/ Save \/ Open \/ Header \/ Entry \/ Remember \/ Quit
  \/ LoadFails \/ SaveBlind \/ OpenEmptied \/ OpenFails \/ HeaderFails \/ EntryFails \/ Kill

BoardSpec == BoardInit /\ [][BoardNext]_boardVars

-----------------------------------------------------------------------------
(***************************************************************************)
(* highscores[] is within its bounds and sorted, best first, whichever way *)
(* its entries came: draw_scoreboard_menu() shows a prefix of it.          *)
(***************************************************************************)
BoardSorted ==
  /\ Len(highscores) <= MAX_HIGHSCORES
  /\ \A i, j \in DOMAIN highscores : i < j => highscores[i] >= highscores[j]

(***************************************************************************)
(* A header inside the file, which no load skips as the first line, takes  *)
(* a save that could not read the file although it was there: one header   *)
(* for each such save, and none for kills and failed writes.               *)
(***************************************************************************)
LateHeaders(f) == {i \in DOMAIN f : i > 1 /\ f[i] = HeaderLine}

HeadersCounted == Cardinality(LateHeaders(file)) <= mishaps["test"]

(***************************************************************************)
(* The first line, which a load skips whatever it is, is an entry only if  *)
(* a save was killed or could not write: a file that had to be emptied to  *)
(* be written begins with the header again.                                *)
(***************************************************************************)
FirstLineIsHeader ==
  file \notin {NoFile, << >>} /\ Head(file) # HeaderLine =>
    mishaps["kill"] + mishaps["write"] > 0

(***************************************************************************)
(* No call has failed; the program may have been killed.                   *)
(***************************************************************************)
NoFailure == \A kind \in MishapKind \ {"kill"} : mishaps[kind] = 0

HeaderInPlace == file \in {NoFile, << >>} \/ Head(file) = HeaderLine

(***************************************************************************)
(* The leaderboard of the running program is the one that a restart would  *)
(* load: "High scores are stored in a CSV file" (README).  It is kept, in  *)
(* memory and in the file, wherever earlier saves were killed, as long as  *)
(* no call has failed.  (A kill right after the file is created makes the  *)
(* next entry the first line, which no load reads.)                        *)
(***************************************************************************)
RestartKeepsBoard ==
  NoFailure /\ HeaderInPlace /\ step = "idle" => highscores = load_highscores_from_csv

=============================================================================
