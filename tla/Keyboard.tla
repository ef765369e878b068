------------------------------ MODULE Keyboard ------------------------------
(***************************************************************************)
(* The keyboard driver (controllers/keyboard) with the i8042 controller it *)
(* polls, and the three programs of lab3/lab3.c that use all of it: "scan" *)
(* and "timed" read keys on interrupts, as the loops of the game do,       *)
(* "poll" reads them without, and restores the controller at its end.      *)
(*                                                                         *)
(* A byte, the status register included, is the set of its bits.  A call   *)
(* to the driver is a sequence of steps, one for each access to a port,    *)
(* and the controller and the player act between any two of them.          *)
(***************************************************************************)
EXTENDS Integers, Sequences, SequencesExt

CONSTANTS
  Programs,       \* which of Program may run
  Keys,           \* the scancodes that the player produces
  CONFIG,         \* the command byte of the controller, without bit 0
  TRYS,           \* how often the driver looks at the status register
  Errors,         \* what the controller may report of a key: sets of bits
  Faults,         \* which calls may fail: see Fault
  IDLE_SECONDS,   \* the argument of kbd_test_timed_scan()
  TICKS,          \* timer interrupts in a second
  MAX_KEYS        \* bound: keys that arrive

Bit == 0 .. 7
Byte == SUBSET Bit
Program == {"scan", "poll", "timed"}
Fault == {"inb", "outb", "irq"}

OBF == 0                    \* bits of the status register: output buffer full
IN_BUFFER_FULL == 1
ErrorBits == {5, 6, 7}      \* not from the keyboard, timeout, parity
KB_BREAK_ESC == {0, 7}

ASSUME KeyboardAssumption ==
  /\ Programs \subseteq Program
  /\ Keys \subseteq Byte
  /\ CONFIG \in Byte /\ 0 \notin CONFIG
  /\ Errors \subseteq SUBSET ErrorBits
  /\ Faults \subseteq Fault
  /\ {TRYS, IDLE_SECONDS, TICKS} \subseteq Nat \ {0}
  /\ MAX_KEYS \in Nat

VARIABLES
  out,          \* output buffer: << >> or << [data, err] >>
  in,           \* input buffer: << >> or << [cmd, data] >>
  config,       \* the controller's command byte
  expects,      \* the controller waits for a new command byte
  irq,          \* a keyboard interrupt has not been notified yet
  typed,        \* the keys, with what was reported of them, in order
  program,
  pc,           \* the driver's next access: see Stage
  call,         \* what it is for: see Call
  trys, status, \* locals of the polling loops
  scancode,     \* the global
  config_byte,  \* local of kb_restore_settings()
  subscribed,   \* the interrupts that are subscribed
  tick,         \* the message in hand also notifies the timer
  counter,      \* timer interrupts of this second
  time_elapsed,
  printed,      \* the scancodes that the program has printed
  result,       \* what the program returns
  faulty,       \* some call has failed, or an error was reported
  quiet         \* nothing has crossed kb_restore_settings() so far

controller == <<out, in, config, expects, irq, typed>>
locals == <<trys, status>>
timing == <<tick, counter, time_elapsed>>
keyboardVars == <<controller, program, pc, call, locals, scancode, config_byte,
                  subscribed, timing, printed, result, faulty, quiet>>

Stage == {"subscribe", "loop", "status", "output", "write", "argument", "tick",
          "unsubscribe", "done"}
Call == {"none", "key", "read", "config", "update"}

Interrupts == CASE program = "scan"  -> {"keyboard"}
                [] program = "timed" -> {"keyboard", "timer"}
                [] program = "poll"  -> {}

Restoring == call \in {"read", "config", "update"}

-----------------------------------------------------------------------------
(***************************************************************************)
(* The controller (external).  It has one byte of output at a time, and    *)
(* takes what is in its input buffer when it gets to it.                   *)
(***************************************************************************)
KeyArrives ==
  /\ out = << >>
  /\ Len(typed) < MAX_KEYS
  /\ \E k \in Keys, e \in Errors \cup {{}} :
       /\ out' = << [data |-> k, err |-> e] >>
       /\ typed' = Append(typed, [data |-> k, err |-> e])
       /\ faulty' = (faulty \/ e # {})
  /\ irq' = (irq \/ 0 \in config)
  /\ quiet' = (quiet /\ ~Restoring)
  /\ UNCHANGED <<in, config, expects, program, pc, call, locals, scancode, config_byte,
                 subscribed, timing, printed, result>>

ControllerTakes ==
  /\ in # << >>
  /\ in' = << >>
  /\ \/ /\ Head(in).cmd = "READ_CMD"
        /\ out = << >>
        /\ out' = << [data |-> config, err |-> {}] >>
        /\ UNCHANGED <<config, expects>>
     \/ /\ Head(in).cmd = "WRITE_CMD"
        /\ expects' = TRUE
        /\ UNCHANGED <<out, config>>
     \/ /\ Head(in).cmd = "data"
        /\ config' = IF expects THEN Head(in).data ELSE config
        /\ expects' = FALSE
        /\ UNCHANGED out
  /\ UNCHANGED <<irq, typed, program, pc, call, locals, scancode, config_byte,
                 subscribed, timing, printed, result, faulty, quiet>>

Status == (IF out = << >> THEN {} ELSE {OBF} \cup Head(out).err)
            \cup (IF in = << >> THEN {} ELSE {IN_BUFFER_FULL})

-----------------------------------------------------------------------------
KeyboardInit ==
  /\ program \in Programs
  /\ out = << >>
  /\ in = << >>
  /\ config = CONFIG \cup (IF program = "poll" THEN {} ELSE {0})
  /\ expects = FALSE
  /\ irq = FALSE
  /\ typed = << >>
  /\ pc = "subscribe"
  /\ call = "none"
  /\ trys = 0
  /\ status = {}
  /\ scancode = {}
  /\ config_byte = {}
  /\ subscribed = {}
  /\ tick = FALSE
  /\ counter = 0
  /\ time_elapsed = 0
  /\ printed = << >>
  /\ result = 0
  /\ faulty = FALSE
  /\ quiet = TRUE

Ends(r) == pc' = "done" /\ call' = "none" /\ result' = r

(***************************************************************************)
(* The subscriptions at the start of the programs, one after the other: a  *)
(* failure ends the program, and what it has subscribed stays so.          *)
(***************************************************************************)
Wanted == IF "keyboard" \in Interrupts \ subscribed THEN {"keyboard"}
          ELSE Interrupts \ subscribed

Subscribe ==
  /\ pc = "subscribe"
  /\ \/ /\ subscribed' = subscribed \cup Wanted
        /\ pc' = IF subscribed' = Interrupts THEN "loop" ELSE "subscribe"
        /\ UNCHANGED <<call, result, faulty>>
     \/ /\ "irq" \in Faults /\ Wanted # {}
        /\ faulty' = TRUE
        /\ Ends(1)
        /\ UNCHANGED subscribed
  /\ UNCHANGED <<controller, program, locals, scancode, config_byte, timing, printed, quiet>>

LoopGoesOn == /\ scancode # KB_BREAK_ESC
              /\ program = "timed" => time_elapsed < IDLE_SECONDS

(***************************************************************************)
(* driver_receive() returns with an interrupt of the keyboard, which may   *)
(* come together with one of the timer, or of the timer alone; "poll" does *)
(* not wait for one.                                                       *)
(***************************************************************************)
Receive ==
  /\ pc = "loop" /\ LoopGoesOn
  /\ \/ /\ program = "poll"
        /\ pc' = "status" /\ call' = "key" /\ trys' = TRYS
        /\ UNCHANGED <<irq, tick>>
     \/ /\ "keyboard" \in subscribed /\ irq
        /\ pc' = "status" /\ call' = "key" /\ trys' = TRYS
        /\ irq' = FALSE
        /\ tick' \in IF "timer" \in subscribed THEN BOOLEAN ELSE {FALSE}
     \/ /\ "timer" \in subscribed
        /\ pc' = "tick"
        /\ tick' = TRUE
        /\ UNCHANGED <<irq, call, trys>>
  /\ UNCHANGED <<out, in, config, expects, typed, program, status, scancode, config_byte,
                 subscribed, counter, time_elapsed, printed, result, faulty, quiet>>

(***************************************************************************)
(* What follows read_keyboard_output() with result r.  byte is what        *)
(* *output now is, whether the read succeeded or not, and for a key that   *)
(* is scancode, which the loop then tests for ESC.  kbc_ih() ignores r:    *)
(* the program prints what is in scancode; "poll" prints it on success     *)
(* only; kb_restore_settings() gives up on a failure, and goes on with bit *)
(* 0 set otherwise.                                                        *)
(***************************************************************************)
AfterRead(r, byte) ==
  \/ /\ call = "key"
     /\ scancode' = byte
     /\ printed' = IF program = "poll" /\ r = 1 THEN printed ELSE Append(printed, byte)
     /\ time_elapsed' = IF program = "poll" THEN time_elapsed ELSE 0
     /\ pc' = IF tick THEN "tick" ELSE "loop"
     /\ call' = "none"
     /\ UNCHANGED <<config_byte, trys, result>>
  \/ /\ call = "config" /\ r = 0
     /\ config_byte' = byte \cup {0}
     /\ pc' = "write" /\ call' = "update" /\ trys' = TRYS
     /\ UNCHANGED <<scancode, printed, time_elapsed, result>>
  \/ /\ call = "config" /\ r = 1
     /\ Ends(1)
     /\ config_byte' = byte
     /\ UNCHANGED <<scancode, printed, time_elapsed, trys>>

Output == IF call = "key" THEN scancode ELSE config_byte

\* A slip of ReadStatus: a try that finds nothing is not counted.
ReadStatusForEver ==
  /\ pc = "status"
  /\ status' = Status
  /\ pc' = IF OBF \in Status THEN "output" ELSE "status"
  /\ UNCHANGED <<controller, program, call, trys, scancode, config_byte, subscribed,
                 timing, printed, result, faulty, quiet>>

(***************************************************************************)
(* read_keyboard_output(): look at the status register, TRYS times at      *)
(* most ...                                                                *)
(***************************************************************************)
ReadStatus ==
  /\ pc = "status"
  /\ \/ /\ OBF \in Status
        /\ status' = Status
        /\ pc' = "output"
        /\ UNCHANGED <<call, trys, scancode, config_byte, time_elapsed, printed, result, faulty>>
     \/ /\ OBF \notin Status /\ trys > 1
        /\ status' = Status
        /\ trys' = trys - 1
        /\ UNCHANGED <<pc, call, scancode, config_byte, time_elapsed, printed, result, faulty>>
     \/ /\ OBF \notin Status /\ trys = 1
        /\ status' = Status
        /\ AfterRead(1, Output)
        /\ UNCHANGED faulty
     \/ /\ "inb" \in Faults
        /\ faulty' = TRUE
        /\ AfterRead(1, Output)
        /\ UNCHANGED status
  /\ UNCHANGED <<controller, program, subscribed, tick, counter, quiet>>

\* A slip of ReadOutput: an error that the status register shows is ignored.
ReadOutputUnchecked ==
  /\ pc = "output"
  /\ out' = << >>
  /\ AfterRead(0, Head(out).data)
  /\ UNCHANGED <<in, config, expects, irq, typed, program, status, subscribed,
                 tick, counter, faulty, quiet>>

(***************************************************************************)
(* ... and read the byte, before the errors that status shows are looked   *)
(* at.                                                                     *)
(***************************************************************************)
ReadOutput ==
  /\ pc = "output"
  /\ \/ /\ out' = << >>
        /\ AfterRead(IF status \cap ErrorBits = {} THEN 0 ELSE 1, Head(out).data)
        /\ UNCHANGED faulty
     \/ /\ "inb" \in Faults
        /\ faulty' = TRUE
        /\ AfterRead(1, Output)
        /\ UNCHANGED out
  /\ UNCHANGED <<in, config, expects, irq, typed, program, status, subscribed,
                 tick, counter, quiet>>

(***************************************************************************)
(* timer_int_handler() and the idle seconds of "timed".                    *)
(***************************************************************************)
Tick ==
  /\ pc = "tick"
  /\ counter' = (counter + 1) % TICKS
  /\ time_elapsed' = IF counter' = 0 THEN time_elapsed + 1 ELSE time_elapsed
  /\ tick' = FALSE
  /\ pc' = "loop"
  /\ UNCHANGED <<controller, program, call, locals, scancode, config_byte, subscribed,
                 printed, result, faulty, quiet>>

(***************************************************************************)
(* The loop ends: "poll" restores the settings, the others unsubscribe the *)
(* keyboard and then the timer, and stop at the first failure.             *)
(***************************************************************************)
LeaveLoop ==
  /\ pc = "loop" /\ ~LoopGoesOn
  /\ \/ /\ program = "poll"
        /\ pc' = "write" /\ call' = "read" /\ trys' = TRYS
        /\ quiet' = (out = << >>)
     \/ /\ program # "poll"
        /\ pc' = "unsubscribe"
        /\ UNCHANGED <<call, trys, quiet>>
  /\ UNCHANGED <<controller, program, status, scancode, config_byte, subscribed,
                 timing, printed, result, faulty>>

Unsubscribe ==
  /\ pc = "unsubscribe"
  /\ \/ /\ subscribed' = IF "keyboard" \in subscribed THEN subscribed \ {"keyboard"} ELSE {}
        /\ IF subscribed' = {} THEN Ends(0) ELSE UNCHANGED <<pc, call, result>>
        /\ UNCHANGED faulty
     \/ /\ "irq" \in Faults
        /\ faulty' = TRUE
        /\ Ends(1)
        /\ UNCHANGED subscribed
  /\ UNCHANGED <<controller, program, locals, scancode, config_byte, timing, printed, quiet>>

\* What kb_restore_settings() does when the command of this call is written.
AfterWrite ==
  \/ /\ call = "read"
     /\ in' = << [cmd |-> "READ_CMD", data |-> {}] >>
     /\ pc' = "status" /\ call' = "config" /\ trys' = TRYS
  \/ /\ call = "update"
     /\ in' = << [cmd |-> "WRITE_CMD", data |-> {}] >>
     /\ pc' = "argument"
     /\ UNCHANGED <<call, trys>>

(***************************************************************************)
(* write_keyboard_command(): wait for an empty input buffer, TRYS times at *)
(* most, and write.                                                        *)
(***************************************************************************)
Write ==
  /\ pc = "write"
  /\ \/ /\ IN_BUFFER_FULL \notin Status
        /\ AfterWrite
        /\ UNCHANGED <<result, faulty>>
     \/ /\ IN_BUFFER_FULL \in Status /\ trys > 1
        /\ trys' = trys - 1
        /\ UNCHANGED <<in, pc, call, result, faulty>>
     \/ /\ IN_BUFFER_FULL \in Status /\ trys = 1
        /\ Ends(1)
        /\ UNCHANGED <<in, trys, faulty>>
     \/ /\ "inb" \in Faults \/ ("outb" \in Faults /\ IN_BUFFER_FULL \notin Status)
        /\ faulty' = TRUE
        /\ Ends(1)
        /\ UNCHANGED <<in, trys>>
  /\ UNCHANGED <<out, config, expects, irq, typed, program, status, scancode, config_byte,
                 subscribed, timing, printed, quiet>>

\* A slip of WriteArgument: bit 0 is lost on the way.
WriteArgumentAsRead ==
  /\ pc = "argument"
  /\ in' = << [cmd |-> "data", data |-> config_byte \ {0}] >>
  /\ quiet' = (quiet /\ in = << >>)
  /\ Ends(0)
  /\ UNCHANGED <<out, config, expects, irq, typed, program, locals, scancode, config_byte,
                 subscribed, timing, printed, faulty>>

(***************************************************************************)
(* The last sys_outb() of kb_restore_settings() looks at no status: it     *)
(* overwrites a command that the controller has not taken yet.             *)
(***************************************************************************)
WriteArgument ==
  /\ pc = "argument"
  /\ \/ /\ in' = << [cmd |-> "data", data |-> config_byte] >>
        /\ quiet' = (quiet /\ in = << >>)
        /\ Ends(0)
        /\ UNCHANGED faulty
     \/ /\ "outb" \in Faults
        /\ faulty' = TRUE
        /\ Ends(1)
        /\ UNCHANGED <<in, quiet>>
  /\ UNCHANGED <<out, config, expects, irq, typed, program, locals, scancode, config_byte,
                 subscribed, timing, printed>>

Driver == \/ Subscribe \/ ReadStatus \/ ReadOutput \/ Tick \/ LeaveLoop
          \/ Unsubscribe \/ Write \/ WriteArgument

KeyboardNext == KeyArrives \/ ControllerTakes \/ Receive \/ Driver

(***************************************************************************)
(* The program runs on when it can, and interrupts are notified.           *)
(***************************************************************************)
KeyboardSpec == /\ KeyboardInit /\ [][KeyboardNext]_keyboardVars
                /\ WF_keyboardVars(Driver)
                /\ WF_keyboardVars(Receive)

-----------------------------------------------------------------------------
(***************************************************************************)
(* a is what is left of keys without those that came with an error: f says *)
(* which they are.                                                         *)
(***************************************************************************)
CleanPart(a, keys) ==
  \E f \in [DOMAIN a -> DOMAIN keys] :
    /\ \A i, j \in DOMAIN a : i < j => f[i] < f[j]
    /\ \A k \in DOMAIN keys : keys[k].err = {} <=> \E i \in DOMAIN a : f[i] = k
    /\ \A i \in DOMAIN a : a[i] = keys[f[i]].data

(***************************************************************************)
(* read_keyboard_output() loses, repeats and reorders nothing: until the   *)
(* loop is left, the program has printed exactly the keys that arrived,    *)
(* less the one still in the buffer.  kbd_test_poll() keeps to that with   *)
(* every failure and error, and prints just the keys that came without an  *)
(* error (a faulty break code of ESC, which it does not print, ends its    *)
(* loop all the same); the programs that use kbc_ih() do when nothing      *)
(* fails, since kbc_ih() does not say that it failed.                      *)
(***************************************************************************)
KeysInOrder ==
  (program = "poll" \/ ~faulty) /\ ~Restoring /\ pc # "done"
    => CleanPart(printed, IF out = << >> THEN typed ELSE Front(typed))

(***************************************************************************)
(* kb_restore_settings() returns 0 only when the interrupts of the         *)
(* keyboard are enabled again and every other bit of the command byte is   *)
(* as before, and changes nothing when it fails - provided that no key     *)
(* came in between and that the controller kept up with it.                *)
(***************************************************************************)
RestoreWhenQuiet ==
  program = "poll" /\ pc = "done" /\ quiet /\ in = << >>
    => config = IF result = 0 THEN CONFIG \cup {0} ELSE CONFIG

(***************************************************************************)
(* No call of the driver hangs, whatever the controller does: the program  *)
(* is back in its loop or done.  And kbd_test_timed_scan() ends once no    *)
(* more keys arrive.                                                       *)
(***************************************************************************)
AlwaysReturns ==
  /\ (pc \notin {"loop", "done"}) ~> (pc \in {"loop", "done"})
  /\ (program = "timed") ~> (pc = "done")

=============================================================================
