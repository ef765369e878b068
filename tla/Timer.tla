------------------------------- MODULE Timer --------------------------------
(***************************************************************************)
(* The timer driver (controllers/timer) with the i8254 that it programs,   *)
(* and the programs of lab2/lab2.c that use all of it.  (The game calls    *)
(* timer_set_frequency() once, for timer 0 and 60 Hz, and then counts      *)
(* interrupts as timer_test_int() does.)                                   *)
(*                                                                         *)
(* A call is a sequence of accesses to the ports and of calls to the       *)
(* kernel; any of them may fail, and then has had no effect.  Bytes are    *)
(* numbers.  A status byte and a control word hold, from bit 0: counting   *)
(* base, mode (3 bits), access (2 bits), and two more.                     *)
(***************************************************************************)
EXTENDS Integers

CONSTANTS
  TIMER_FREQ,       \* 1193182
  MIN_FREQ,         \* the lowest frequency that timer_set_frequency() takes
  Timers,           \* the timers the programs are called with,
  Frequencies,      \* the frequencies,
  Seconds,          \* and the arguments of timer_test_int()
  TICKS,            \* interrupts in a second of timer_test_int(): 60
  Configs,          \* base and mode that the timers may have to begin with
  Hooks,            \* numbers the kernel gives to interrupt policies
  Faults,           \* which calls may fail: see Fault
  MAX_CALLS         \* bound: programs run, one after the other

Fault == {"io", "irq", "print"}

ASSUME TimerAssumption ==
  /\ TIMER_FREQ \in Nat \ {0} /\ MIN_FREQ \in Nat \ {0}
  /\ Timers \subseteq Nat /\ Frequencies \subseteq Nat /\ Seconds \subseteq Nat
  /\ TICKS \in Nat \ {0} /\ MAX_CALLS \in Nat
  /\ Configs \subseteq 0 .. 15
  /\ Hooks \subseteq Nat /\ Hooks # {}
  /\ Faults \subseteq Fault

(***************************************************************************)
(* The divisor of the lowest frequency, and so of any other, has 16 bits.  *)
(***************************************************************************)
ASSUME DivisorAssumption == TIMER_FREQ < 65536 * MIN_FREQ

VARIABLES
  chip,             \* the i8254, by timer: see Chip
  pc,               \* the driver's next step
  call,             \* the program that runs, with its arguments
  st,               \* the status byte read
  irq_set, hook_id, \* of timer_test_int() and of timer.c
  policies,         \* the kernel's: << hook, bit it notifies >>
  counter, time,    \* of timer.c and of timer_test_int()
  printed,          \* the last value printed by timer_display_conf()
  result,           \* what each program returned last
  calls             \* programs begun

interrupts == <<irq_set, hook_id, policies, counter, time>>
timerVars == <<chip, pc, call, st, interrupts, printed, result, calls>>

Timer == 0 .. 2
Field == {"tsf_all", "tsf_initial", "tsf_mode", "tsf_base", "other"}
LSB_only == 1
MSB_only == 2
MSB_after_LSB == 3
Access == {LSB_only, MSB_only, MSB_after_LSB}

(***************************************************************************)
(* A timer of the i8254 (external): its low four bits (mode and base), the *)
(* access, the divisor as its bytes were written (0: none loaded), the     *)
(* first byte of one that is being written, and the status that a          *)
(* read-back command has latched.                                          *)
(***************************************************************************)
None == -1

Chip == [low : 0 .. 15, access : Access, divisor : Nat, first : Nat \cup {None},
         latched : Nat \cup {None}]

ReadConfig == [op : {"read_config"}, timer : Timers, field : Field]
TimeBase == [op : {"time_base"}, timer : Timers, freq : Frequencies]
TestInt == [op : {"test_int"}, time : Seconds]
NoCall == [op |-> "none"]

-----------------------------------------------------------------------------
TimerInit ==
  /\ chip \in [Timer -> [low : Configs, access : {MSB_after_LSB}, divisor : {TIMER_FREQ \div MIN_FREQ},
                         first : {None}, latched : {None}]]
  /\ pc = "idle" /\ call = NoCall
  /\ st = 0
  /\ irq_set = 0 /\ hook_id = 0
  /\ policies = {}
  /\ counter = 0 /\ time = 0
  /\ printed = << >>
  /\ result = [op \in {"read_config", "time_base", "test_int"} |-> 0]
  /\ calls = 0

Begin ==
  /\ pc = "idle" /\ calls < MAX_CALLS
  /\ call' \in ReadConfig \cup TimeBase \cup TestInt
  /\ pc' = IF call'.op = "test_int" THEN "subscribe" ELSE "check"
  /\ time' = IF call'.op = "test_int" THEN call'.time ELSE time
  /\ calls' = calls + 1
  /\ UNCHANGED <<chip, st, irq_set, hook_id, policies, counter, printed, result>>

Return(r) ==
  /\ pc' = "idle" /\ call' = NoCall
  /\ result' = [result EXCEPT ![call.op] = r]
  /\ st' = 0

\* A slip of Refused: 18 Hz is let through, whose divisor has 17 bits.
RefusedTooLate ==
  \/ call.timer > 2
  \/ call.op = "time_base" /\ (call.freq > TIMER_FREQ \/ call.freq < MIN_FREQ - 1)

(***************************************************************************)
(* The arguments that timer_get_conf() and timer_set_frequency() refuse.   *)
(***************************************************************************)
Refused ==
  \/ call.timer > 2
  \/ call.op = "time_base" /\ (call.freq > TIMER_FREQ \/ call.freq < MIN_FREQ)

Check ==
  /\ pc = "check"
  /\ \/ Refused /\ Return(1)
     \/ ~Refused /\ pc' = "readback" /\ UNCHANGED <<call, st, result>>
  /\ UNCHANGED <<chip, interrupts, printed, calls>>

Fails(kind, steps) ==
  /\ kind \in Faults /\ pc \in steps
  /\ Return(1)
  /\ UNCHANGED <<chip, interrupts, printed, calls>>

PortFails == Fails("io", {"readback", "status", "control", "lsb", "msb"})

-----------------------------------------------------------------------------
(***************************************************************************)
(* timer_get_conf(): the read-back command makes the i8254 latch the       *)
(* status of the timer, unless one is latched that nobody has read; then   *)
(* a read of the timer's port returns it.  (Bits 6 and 7, a count not yet  *)
(* loaded and the output, are not looked at: bit 6 is kept, 7 left out.)   *)
(***************************************************************************)
Status(c) == c.low + 16 * c.access + (IF c.divisor = 0 THEN 64 ELSE 0)

ReadBack ==
  /\ pc = "readback"
  /\ chip' = [chip EXCEPT ![call.timer].latched = IF @ = None THEN Status(chip[call.timer]) ELSE @]
  /\ pc' = "status"
  /\ UNCHANGED <<call, st, interrupts, printed, result, calls>>

\* A slip of PortOf: the status is read from timer 0's port.
PortZero(timer) == 0

PortOf(timer) == timer

(***************************************************************************)
(* (A port with nothing latched returns a byte of the count.)              *)
(***************************************************************************)
ReadStatus ==
  /\ pc = "status"
  /\ LET port == PortOf(call.timer)
     IN  /\ st' = IF chip[port].latched = None THEN chip[port].divisor % 256 ELSE chip[port].latched
         /\ chip' = [chip EXCEPT ![port].latched = None]
  /\ pc' = IF call.op = "time_base" THEN "control" ELSE "display"
  /\ UNCHANGED <<call, interrupts, printed, result, calls>>

-----------------------------------------------------------------------------
(***************************************************************************)
(* timer_set_frequency() after that: the control word, which keeps the low *)
(* half of the status and makes the i8254 expect two bytes, and the bytes. *)
(***************************************************************************)
ControlWord == (st % 16) + 16 * MSB_after_LSB + 64 * call.timer

WriteControl ==
  /\ pc = "control"
  /\ chip' = [chip EXCEPT ![ControlWord \div 64] =
                [@ EXCEPT !.low = ControlWord % 16, !.access = (ControlWord \div 16) % 4,
                          !.divisor = 0, !.first = None]]
  /\ pc' = "lsb"
  /\ UNCHANGED <<call, st, interrupts, printed, result, calls>>

initial_value == TIMER_FREQ \div call.freq

util_get_LSB(val) == (val % 65536) % 256
util_get_MSB(val) == (val % 65536) \div 256

(***************************************************************************)
(* The i8254 takes a byte for the counter c (external): its only byte, or  *)
(* the first or the second of two.                                         *)
(***************************************************************************)
Loaded(c, byte) ==
  IF c.access = LSB_only THEN [c EXCEPT !.divisor = byte]
  ELSE IF c.access = MSB_only THEN [c EXCEPT !.divisor = 256 * byte]
  ELSE IF c.first = None THEN [c EXCEPT !.first = byte]
  ELSE [c EXCEPT !.divisor = c.first + 256 * byte, !.first = None]

Write(step, byte, next) ==
  /\ pc = step
  /\ chip' = [chip EXCEPT ![call.timer] = Loaded(@, byte)]
  /\ pc' = next
  /\ UNCHANGED <<call, st, interrupts, printed, result, calls>>

WriteLSB == Write("lsb", util_get_LSB(initial_value), "msb")
WriteMSB == Write("msb", util_get_MSB(initial_value), "return")

SetFrequencyReturns ==
  /\ pc = "return"
  /\ Return(0)
  /\ UNCHANGED <<chip, interrupts, printed, calls>>

-----------------------------------------------------------------------------
(***************************************************************************)
(* timer_display_conf(): the field of the status s that is printed.        *)
(***************************************************************************)
FieldOf(field, s) ==
  CASE field = "tsf_all"     -> s
    [] field = "tsf_initial" -> (s \div 16) % 4
    [] field = "tsf_mode"    -> LET m == (s \div 2) % 8 IN IF m \in {6, 7} THEN m - 4 ELSE m
    [] field = "tsf_base"    -> s % 2

Display ==
  /\ pc = "display"
  /\ \/ call.field = "other" /\ Return(1) /\ UNCHANGED printed
     \/ call.field # "other" /\ Return(0) /\ printed' = << FieldOf(call.field, st) >>
  /\ UNCHANGED <<chip, interrupts, calls>>

PrintFails == Fails("print", {"display"})

-----------------------------------------------------------------------------
\* A slip of Subscribe: the bit is taken after the kernel has replaced it.
SubscribeTooLate ==
  /\ pc = "subscribe"
  /\ \E h \in Hooks :
       /\ h \notin {p[1] : p \in policies}
       /\ policies' = policies \cup {<< h, hook_id >>}
       /\ hook_id' = h
       /\ irq_set' = h
  /\ pc' = "loop"
  /\ UNCHANGED <<chip, call, st, counter, time, printed, result, calls>>

(***************************************************************************)
(* timer_subscribe_int(): the kernel is to notify bit hook_id, and puts    *)
(* the number of the policy in its place.                                  *)
(***************************************************************************)
Subscribe ==
  /\ pc = "subscribe"
  /\ irq_set' = hook_id
  /\ \E h \in Hooks :
       /\ h \notin {p[1] : p \in policies}
       /\ policies' = policies \cup {<< h, hook_id >>}
       /\ hook_id' = h
  /\ pc' = "loop"
  /\ UNCHANGED <<chip, call, st, counter, time, printed, result, calls>>

(***************************************************************************)
(* An interrupt of timer 0 in the loop of timer_test_int().                *)
(***************************************************************************)
Interrupt ==
  /\ pc = "loop" /\ time > 0
  /\ chip[0].divisor # 0
  /\ irq_set \in {p[2] : p \in policies}
  /\ counter' = counter + 1
  /\ time' = IF counter' % TICKS = 0 THEN time - 1 ELSE time
  /\ UNCHANGED <<chip, pc, call, st, irq_set, hook_id, policies, printed, result, calls>>

LeaveLoop ==
  /\ pc = "loop" /\ time = 0
  /\ pc' = "unsubscribe"
  /\ UNCHANGED <<chip, call, st, interrupts, printed, result, calls>>

(***************************************************************************)
(* timer_unsubscribe_int(); hook_id keeps the number of the policy.        *)
(***************************************************************************)
Unsubscribe ==
  /\ pc = "unsubscribe"
  /\ policies' = {p \in policies : p[1] # hook_id}
  /\ Return(0)
  /\ UNCHANGED <<chip, irq_set, hook_id, counter, time, printed, calls>>

IrqFails == Fails("irq", {"subscribe", "unsubscribe"})

-----------------------------------------------------------------------------
TimerNext ==
  \/ Begin \/ Check \/ PortFails \/ PrintFails \/ IrqFails
  \/ ReadBack \/ ReadStatus \/ WriteControl \/ WriteLSB \/ WriteMSB
  \/ SetFrequencyReturns \/ Display
  \/ Subscribe \/ Interrupt \/ LeaveLoop \/ Unsubscribe

TimerSpec == TimerInit /\ [][TimerNext]_timerVars

(***************************************************************************)
(* A timer that runs keeps interrupting, and a call goes on.               *)
(***************************************************************************)
TimerFairSpec == TimerSpec /\ WF_timerVars(Interrupt) /\ WF_timerVars(LeaveLoop)

-----------------------------------------------------------------------------
(***************************************************************************)
(* The driver does what module Rates promises: a timer is at its old rate, *)
(* stopped, or at the requested rate, whichever access to a port fails and *)
(* whatever earlier calls have left latched; its mode and the other timers *)
(* are left alone, a divisor that does not fit 16 bits is never programmed *)
(* and timer_set_frequency() returns 0 only when the rate is the requested *)
(* one.  (It keeps the bit that makes a timer count in decimal, and the    *)
(* bytes that it writes are binary: such a timer runs at another rate.)    *)
(***************************************************************************)
InDecimal(n) ==
  (n % 16) + 10 * ((n \div 16) % 16) + 100 * ((n \div 256) % 16) + 1000 * (n \div 4096)

RateOf(c) == IF c.low % 2 = 1 THEN InDecimal(c.divisor) ELSE c.divisor

R == INSTANCE Rates WITH
       rate    <- [t \in Timer |-> RateOf(chip[t])],
       mode    <- [t \in Timer |-> chip[t].low],
       request <- IF call.op = "time_base" THEN << call.timer, call.freq >> ELSE << >>,
       ok      <- result["time_base"] = 0

RatesPromised == R!RatesSpec

(***************************************************************************)
(* What timer_test_read_config() prints is how the timer is configured     *)
(* now: never another timer's status, nor one that was latched by a call   *)
(* which failed, before the timer was programmed anew.                     *)
(***************************************************************************)
Configured(c, field) ==
  CASE field = "tsf_all"     -> {c.low + 16 * c.access + null : null \in {0, 64}}
    [] field = "tsf_initial" -> {c.access}
    [] field = "tsf_mode"    -> {m \in 0 .. 5 : m = c.low \div 2 \/ (m \in {2, 3} /\ m + 4 = c.low \div 2)}
    [] field = "tsf_base"    -> {c.low % 2}

PrintedIsConfigured ==
  [][ call.op = "read_config" /\ call'.op = "none" /\ result'["read_config"] = 0
        => printed'[1] \in Configured(chip[call.timer], call.field) ]_timerVars

(***************************************************************************)
(* timer_test_int() ends while timer 0 runs: it looks at the bit that the  *)
(* kernel notifies, also in a program that has subscribed before, and      *)
(* after an unsubscription that failed.                                    *)
(***************************************************************************)
TestIntEnds == (pc = "loop" /\ chip[0].divisor # 0) ~> pc # "loop"

=============================================================================
