----------------------------- MODULE TimerProofs -----------------------------
(***************************************************************************)
(* Proofs about the timer driver, for every clock, every set of timers,    *)
(* frequencies and configurations, and whichever accesses may fail: it     *)
(* implements module Rates, and prints what is configured.                 *)
(***************************************************************************)
EXTENDS Timer, TLAPS

Op == {"read_config", "time_base", "test_int"}

(***************************************************************************)
(* The timers: all of them take two bytes (nothing programs another        *)
(* access), and what one has latched is still its status.                  *)
(***************************************************************************)
StatusesOf(c) == {c.low + 48, c.low + 112}

ChipsSound ==
  /\ chip \in [Timer -> Chip]
  /\ \A t \in Timer : /\ chip[t].access = MSB_after_LSB
                      /\ chip[t].latched = None \/ chip[t].latched \in StatusesOf(chip[t])

(***************************************************************************)
(* The program that runs, by the step it is at, and its arguments: behind  *)
(* the checks they are legal.                                              *)
(***************************************************************************)
CallSound ==
  /\ result \in [Op -> {0, 1}]
  /\ call.op \in Op \cup {"none"}
  /\ call.op \in {"read_config", "time_base"} => call.timer \in Nat
  /\ call.op = "read_config" => call.field \in Field
  /\ call.op = "time_base" => call.freq \in Nat

StepSound ==
  /\ pc \in {"idle", "check", "readback", "status", "control", "lsb", "msb", "return",
             "display", "subscribe", "loop", "unsubscribe"}
  /\ pc = "idle" => call.op = "none"
  /\ pc \in {"check", "readback", "status"} => call.op \in {"read_config", "time_base"}
  /\ pc \in {"control", "lsb", "msb", "return"} => call.op = "time_base"
  /\ pc = "display" => call.op = "read_config"
  /\ pc \in {"subscribe", "loop", "unsubscribe"} => call.op = "test_int"
  /\ pc \in {"readback", "status", "control", "lsb", "msb", "return", "display"} =>
       /\ call.timer \in Timer
       /\ call.op = "time_base" => call.freq \in MIN_FREQ .. TIMER_FREQ

(***************************************************************************)
(* How far the timer of the call has been read and programmed.             *)
(***************************************************************************)
Programmed ==
  LET c == chip[call.timer]
  IN  /\ pc = "status" => c.latched \in StatusesOf(c)
      /\ pc \in {"control", "display"} => st \in StatusesOf(c)
      /\ pc = "lsb" => c.divisor = 0 /\ c.first = None
      /\ pc = "msb" => c.divisor = 0 /\ c.first = util_get_LSB(initial_value)
      /\ pc = "return" => c.divisor = initial_value

TimerInv == ChipsSound /\ CallSound /\ StepSound /\ Programmed

-----------------------------------------------------------------------------
LEMMA TimerTypes ==
  /\ TIMER_FREQ \in Nat /\ MIN_FREQ \in Nat /\ MIN_FREQ > 0 /\ TIMER_FREQ > 0
  /\ Timers \subseteq Nat /\ Frequencies \subseteq Nat
  /\ Configs \subseteq 0 .. 15
BY TimerAssumption

(***************************************************************************)
(* The divisor of a legal frequency has 16 bits, is not 0, and is what its *)
(* two bytes make up.                                                      *)
(***************************************************************************)
LEMMA DivisorFits ==
  ASSUME NEW f \in MIN_FREQ .. TIMER_FREQ
  PROVE  TIMER_FREQ \div f \in Nat /\ 0 < TIMER_FREQ \div f /\ TIMER_FREQ \div f < 65536
<1>1. f \in Nat /\ f > 0 /\ MIN_FREQ <= f /\ f <= TIMER_FREQ
  BY TimerTypes
<1> DEFINE q == TIMER_FREQ \div f
<1>2. q \in Nat /\ q * f <= TIMER_FREQ /\ TIMER_FREQ < q * f + f
  BY <1>1, TimerTypes
<1>3. 65536 * MIN_FREQ <= 65536 * f
  BY <1>1, TimerTypes
<1>4. q * f < 65536 * f
  BY <1>1, <1>2, <1>3, TimerTypes, DivisorAssumption
<1> HIDE DEF q
<1>5. q < 65536
  <2> SUFFICES ASSUME q >= 65536 PROVE FALSE
    BY <1>2
  <2>1. q * f >= 65536 * f
    BY <1>1, <1>2
  <2> QED
    BY <1>1, <1>2, <1>4, <2>1
<1>6. q # 0
  BY <1>1, <1>2, TimerTypes
<1>7. q \in Nat /\ 0 < q /\ q < 65536
  BY <1>2, <1>5, <1>6
<1> QED
  BY <1>7 DEF q

LEMMA TwoBytes ==
  ASSUME NEW n \in Nat, n < 65536
  PROVE  /\ util_get_LSB(n) + 256 * util_get_MSB(n) = n
         /\ util_get_LSB(n) \in Nat /\ util_get_MSB(n) \in Nat
<1>1. n % 65536 = n
  OBVIOUS
<1>2. n % 256 \in Nat /\ n \div 256 \in Nat /\ (n % 256) + 256 * (n \div 256) = n
  OBVIOUS
<1> QED
  BY <1>1, <1>2 DEF util_get_LSB, util_get_MSB

LEMMA DecimalRate ==
  ASSUME NEW n \in Nat
  PROVE  InDecimal(n) \in Nat /\ (InDecimal(n) = 0 <=> n = 0)
BY DEF InDecimal

(***************************************************************************)
(* The i8254 takes the second of two bytes.                                *)
(***************************************************************************)
LEMMA SecondByte ==
  ASSUME NEW c \in Chip, c.access = MSB_after_LSB, c.first # None,
         NEW byte \in Nat, NEW v \in Nat, c.first + 256 * byte = v
  PROVE  LET d == Loaded(c, byte)
         IN  /\ d \in Chip /\ d.low = c.low /\ d.access = c.access
             /\ d.latched = c.latched /\ d.divisor = v
<1>1. Loaded(c, byte) = [c EXCEPT !.divisor = c.first + 256 * byte, !.first = None]
  BY DEF Loaded, LSB_only, MSB_only, MSB_after_LSB
<1>2. Loaded(c, byte) = [c EXCEPT !.divisor = v, !.first = None]
  BY <1>1
<1> QED
  BY <1>2 DEF Chip

(***************************************************************************)
(* A status holds the configuration, whether or not a count is loaded.     *)
(***************************************************************************)
LEMMA StatusHolds ==
  ASSUME NEW low \in 0 .. 15, NEW s \in {low + 48, low + 112}
  PROVE  /\ s \in Nat /\ s % 16 = low /\ (s \div 16) % 4 = 3
         /\ (s \div 2) % 8 = low \div 2 /\ s % 2 = low % 2
OBVIOUS

LEMMA ControlWordParts ==
  ASSUME NEW t \in Timer, NEW low \in 0 .. 15, call.timer = t, st % 16 = low
  PROVE  ControlWord \div 64 = t /\ ControlWord % 16 = low /\ (ControlWord \div 16) % 4 = 3
<1>1. ControlWord = low + 48 + 64 * t
  BY DEF ControlWord, MSB_after_LSB, Timer
<1> QED
  BY <1>1 DEF Timer

-----------------------------------------------------------------------------
LEMMA InitiallyTimerInv == TimerInit => TimerInv
<1> SUFFICES ASSUME TimerInit PROVE TimerInv
  OBVIOUS
<1>1. TIMER_FREQ \div MIN_FREQ \in Nat
  BY TimerTypes
<1>2. ChipsSound
  BY <1>1, TimerTypes
     DEF TimerInit, ChipsSound, Chip, Access, LSB_only, MSB_only, MSB_after_LSB, None
<1>3. CallSound /\ StepSound /\ Programmed
  BY DEF TimerInit, CallSound, StepSound, Programmed, NoCall, Op
<1> QED
  BY <1>2, <1>3 DEF TimerInv

(***************************************************************************)
(* A program returns: nothing is left to be sound but the timers.          *)
(***************************************************************************)
LEMMA ReturnKeepsInv ==
  ASSUME TimerInv, call.op \in Op, NEW r \in {0, 1}, Return(r), chip' = chip
  PROVE  TimerInv'
<1>1. ChipsSound'
  BY DEF TimerInv, ChipsSound
<1>2. CallSound'
  BY DEF TimerInv, CallSound, Return, NoCall, Op
<1>3. StepSound' /\ Programmed'
  BY DEF Return, NoCall, StepSound, Programmed
<1> QED
  BY <1>1, <1>2, <1>3 DEF TimerInv

(***************************************************************************)
(* A step within a program on the timer t, which changes that timer only,  *)
(* to c, and nothing of the call.                                          *)
(***************************************************************************)
LEMMA StepKeepsChips ==
  ASSUME ChipsSound, NEW t \in Timer, NEW c \in Chip,
         chip' = [chip EXCEPT ![t] = c],
         c.access = MSB_after_LSB, c.latched = None \/ c.latched \in StatusesOf(c)
  PROVE  ChipsSound' /\ chip'[t] = c
BY DEF ChipsSound

LEMMA TimerInvKept == TimerInv /\ [TimerNext]_timerVars => TimerInv'
<1> SUFFICES ASSUME TimerInv, [TimerNext]_timerVars PROVE TimerInv'
  OBVIOUS
<1>0. ChipsSound /\ CallSound /\ StepSound /\ Programmed
  BY DEF TimerInv
<1>1. CASE Begin
  <2>1. ChipsSound'
    BY <1>0, <1>1 DEF Begin, ChipsSound
  <2>2. CallSound' /\ call'.op \in Op
    BY <1>0, <1>1, TimerTypes DEF Begin, CallSound, ReadConfig, TimeBase, TestInt, Op
  <2>3. pc' \in {"check", "subscribe"} /\ (pc' = "subscribe" <=> call'.op = "test_int")
    BY <1>1 DEF Begin
  <2>4. StepSound' /\ Programmed'
    BY <2>2, <2>3 DEF StepSound, Programmed, Op
  <2> QED
    BY <2>1, <2>2, <2>4 DEF TimerInv
<1>2. CASE Check
  <2>1. call.op \in {"read_config", "time_base"} /\ chip' = chip
    BY <1>0, <1>2 DEF Check, StepSound
  <2>2. CASE Return(1)
    BY <2>1, <2>2, ReturnKeepsInv DEF Op
  <2>3. CASE ~Refused /\ pc' = "readback" /\ UNCHANGED <<call, st, result>>
    <3>1. ChipsSound' /\ CallSound'
      BY <1>0, <2>1, <2>3 DEF ChipsSound, CallSound
    <3>2. call.timer \in Timer /\ (call.op = "time_base" => call.freq \in MIN_FREQ .. TIMER_FREQ)
      BY <1>0, <2>1, <2>3, TimerTypes DEF Refused, CallSound, Timer
    <3>3. StepSound' /\ Programmed'
      BY <2>1, <2>3, <3>2 DEF StepSound, Programmed
    <3> QED
      BY <3>1, <3>3 DEF TimerInv
  <2> QED
    BY <1>2, <2>2, <2>3 DEF Check
<1>3. CASE PortFails
  BY <1>0, <1>3, ReturnKeepsInv DEF PortFails, Fails, StepSound, Op
<1>4. CASE PrintFails \/ IrqFails
  BY <1>0, <1>4, ReturnKeepsInv DEF PrintFails, IrqFails, Fails, StepSound, Op
<1>5. CASE SetFrequencyReturns
  BY <1>0, <1>5, ReturnKeepsInv DEF SetFrequencyReturns, StepSound, Op
<1>6. CASE Display
  BY <1>0, <1>6, ReturnKeepsInv DEF Display, StepSound, Op
<1>7. CASE Unsubscribe
  BY <1>0, <1>7, ReturnKeepsInv DEF Unsubscribe, StepSound, Op
<1>8. CASE Subscribe \/ Interrupt \/ LeaveLoop
  <2>1. chip' = chip /\ call' = call /\ result' = result /\ call.op = "test_int"
    BY <1>0, <1>8 DEF Subscribe, Interrupt, LeaveLoop, StepSound
  <2>2. pc' \in {"loop", "unsubscribe"}
    BY <1>8 DEF Subscribe, Interrupt, LeaveLoop
  <2>3. ChipsSound' /\ CallSound'
    BY <1>0, <2>1 DEF ChipsSound, CallSound
  <2>4. StepSound' /\ Programmed'
    BY <2>1, <2>2 DEF StepSound, Programmed
  <2> QED
    BY <2>3, <2>4 DEF TimerInv
<1>9. CASE ReadBack
  <2> DEFINE t == call.timer
             latched == IF chip[t].latched = None THEN Status(chip[t]) ELSE chip[t].latched
             c == [chip[t] EXCEPT !.latched = latched]
  <2>1. t \in Timer /\ chip[t] \in Chip
    BY <1>0, <1>9 DEF ReadBack, StepSound, ChipsSound
  <2>2. latched \in StatusesOf(chip[t]) /\ latched \in Nat
    BY <1>0, <2>1 DEF ChipsSound, StatusesOf, Status, MSB_after_LSB, Chip
  <2>3. chip' = [chip EXCEPT ![t] = c]
    BY <1>9 DEF ReadBack
  <2>4. /\ c \in Chip /\ c.low = chip[t].low /\ c.access = MSB_after_LSB
        /\ c.latched = latched
    <3> HIDE DEF latched
    <3> QED BY <1>0, <2>1, <2>2 DEF Chip, ChipsSound
  <2>5. c.latched \in StatusesOf(c)
    BY <2>2, <2>4 DEF StatusesOf
  <2>6. ChipsSound' /\ chip'[t] = c
    <3> HIDE DEF c
    <3> QED BY <1>0, <2>1, <2>3, <2>4, <2>5, StepKeepsChips
  <2>7. CallSound' /\ StepSound'
    BY <1>0, <1>9 DEF ReadBack, CallSound, StepSound
  <2>8. Programmed'
    BY <1>9, <2>5, <2>6 DEF ReadBack, Programmed
  <2> QED
    BY <2>6, <2>7, <2>8 DEF TimerInv
<1>10. CASE ReadStatus
  <2> DEFINE t == call.timer
             c == [chip[t] EXCEPT !.latched = None]
  <2>1. t \in Timer /\ chip[t] \in Chip
    BY <1>0, <1>10 DEF ReadStatus, StepSound, ChipsSound
  <2>2. chip[t].latched \in StatusesOf(chip[t])
    BY <1>0, <1>10 DEF ReadStatus, Programmed
  <2>3. chip[t].latched # None
    BY <2>1, <2>2 DEF StatusesOf, None, Chip
  <2>4. st' \in StatusesOf(chip[t]) /\ chip' = [chip EXCEPT ![t] = c]
    BY <1>10, <2>2, <2>3 DEF ReadStatus, PortOf
  <2>5. c \in Chip /\ c.low = chip[t].low /\ c.access = MSB_after_LSB /\ c.latched = None
    BY <1>0, <2>1 DEF Chip, ChipsSound
  <2>6. ChipsSound' /\ chip'[t] = c
    <3> HIDE DEF c
    <3> QED BY <1>0, <2>1, <2>4, <2>5, StepKeepsChips
  <2>7. CallSound' /\ StepSound'
    BY <1>0, <1>10 DEF ReadStatus, CallSound, StepSound
  <2>8. pc' \in {"control", "display"} /\ call' = call
    BY <1>10 DEF ReadStatus
  <2>9. Programmed'
    BY <2>4, <2>5, <2>6, <2>8 DEF Programmed, StatusesOf
  <2> QED
    BY <2>6, <2>7, <2>9 DEF TimerInv
<1>11. CASE WriteControl
  <2> DEFINE t == call.timer
             c == [chip[t] EXCEPT !.access = MSB_after_LSB, !.divisor = 0, !.first = None]
  <2>1. t \in Timer /\ chip[t] \in Chip
    BY <1>0, <1>11 DEF WriteControl, StepSound, ChipsSound
  <2>2. chip[t].low \in 0 .. 15 /\ st % 16 = chip[t].low
    <3>1. chip[t].low \in 0 .. 15
      BY <2>1 DEF Chip
    <3>2. st \in {chip[t].low + 48, chip[t].low + 112}
      BY <1>0, <1>11 DEF WriteControl, Programmed, StatusesOf
    <3> QED
      BY <3>1, <3>2, StatusHolds
  <2>3. ControlWord \div 64 = t /\ ControlWord % 16 = chip[t].low /\ (ControlWord \div 16) % 4 = 3
    BY <2>1, <2>2, ControlWordParts
  <2>4. chip' = [chip EXCEPT ![t] = c]
    <3>1. chip' = [chip EXCEPT ![t] = [@ EXCEPT !.low = chip[t].low, !.access = 3,
                                                !.divisor = 0, !.first = None]]
      BY <1>11, <2>3 DEF WriteControl
    <3>2. c = [chip[t] EXCEPT !.low = chip[t].low, !.access = 3, !.divisor = 0, !.first = None]
      BY <2>1 DEF Chip, MSB_after_LSB
    <3> QED
      BY <3>1, <3>2
  <2>5. /\ c \in Chip /\ c.low = chip[t].low /\ c.access = MSB_after_LSB
        /\ c.latched = chip[t].latched /\ c.divisor = 0 /\ c.first = None
    BY <2>1 DEF Chip, Access, LSB_only, MSB_only, MSB_after_LSB, None
  <2>6. ChipsSound' /\ chip'[t] = c
    <3>1. c.latched = None \/ c.latched \in StatusesOf(c)
      BY <1>0, <2>1, <2>5 DEF ChipsSound, StatusesOf
    <3> HIDE DEF c
    <3> QED BY <1>0, <2>1, <2>4, <2>5, <3>1, StepKeepsChips
  <2>7. CallSound' /\ StepSound'
    BY <1>0, <1>11 DEF WriteControl, CallSound, StepSound
  <2>8. Programmed'
    BY <1>11, <2>5, <2>6 DEF WriteControl, Programmed
  <2> QED
    BY <2>6, <2>7, <2>8 DEF TimerInv
<1>12. CASE WriteLSB
  <2> DEFINE t == call.timer
             byte == util_get_LSB(initial_value)
             c == [chip[t] EXCEPT !.first = byte]
  <2>1. t \in Timer /\ chip[t] \in Chip /\ chip[t].first = None /\ chip[t].divisor = 0
    BY <1>0, <1>12 DEF WriteLSB, Write, StepSound, ChipsSound, Programmed
  <2>2. byte \in Nat
    <3>1. initial_value \in Nat /\ initial_value < 65536
      BY <1>0, <1>12, DivisorFits DEF WriteLSB, Write, StepSound, initial_value
    <3> QED
      BY <3>1, TwoBytes
  <2> HIDE DEF byte
  <2>3. chip' = [chip EXCEPT ![t] = c]
    <3>1. Loaded(chip[t], byte) = c
      BY <1>0, <2>1 DEF Loaded, ChipsSound, LSB_only, MSB_only, MSB_after_LSB
    <3> QED
      BY <1>12, <3>1 DEF WriteLSB, Write, byte
  <2>4. /\ c \in Chip /\ c.low = chip[t].low /\ c.access = MSB_after_LSB
        /\ c.latched = chip[t].latched /\ c.divisor = 0 /\ c.first = byte
    BY <1>0, <2>1, <2>2 DEF Chip, ChipsSound
  <2>5. ChipsSound' /\ chip'[t] = c
    <3>1. c.latched = None \/ c.latched \in StatusesOf(c)
      BY <1>0, <2>1, <2>4 DEF ChipsSound, StatusesOf
    <3> HIDE DEF c
    <3> QED BY <1>0, <2>1, <2>3, <2>4, <3>1, StepKeepsChips
  <2>6. CallSound' /\ StepSound'
    BY <1>0, <1>12 DEF WriteLSB, Write, CallSound, StepSound
  <2>7. call' = call /\ pc' = "msb"
    BY <1>12 DEF WriteLSB, Write
  <2>8. Programmed'
    BY <2>4, <2>5, <2>7 DEF Programmed, initial_value, byte
  <2> QED
    BY <2>5, <2>6, <2>8 DEF TimerInv
<1>13. CASE WriteMSB
  <2> DEFINE t == call.timer
             v == initial_value
             c == Loaded(chip[t], util_get_MSB(v))
  <2>1. /\ t \in Timer /\ chip[t] \in Chip /\ chip[t].access = MSB_after_LSB
        /\ chip[t].first = util_get_LSB(v)
    BY <1>0, <1>13 DEF WriteMSB, Write, StepSound, ChipsSound, Programmed
  <2>2. v \in Nat /\ v < 65536
    BY <1>0, <1>13, DivisorFits DEF WriteMSB, Write, StepSound, initial_value
  <2>3. chip' = [chip EXCEPT ![t] = c]
    BY <1>13 DEF WriteMSB, Write
  <2> HIDE DEF v
  <2>4. /\ util_get_MSB(v) \in Nat
        /\ chip[t].first + 256 * util_get_MSB(v) = v /\ chip[t].first # None
    BY <2>1, <2>2, TwoBytes DEF None
  <2>5. /\ c \in Chip /\ c.low = chip[t].low /\ c.access = MSB_after_LSB
        /\ c.latched = chip[t].latched /\ c.divisor = v
    BY <2>1, <2>2, <2>4, SecondByte
  <2>6. ChipsSound' /\ chip'[t] = c
    <3>1. c.latched = None \/ c.latched \in StatusesOf(c)
      BY <1>0, <2>1, <2>5 DEF ChipsSound, StatusesOf
    <3> HIDE DEF c
    <3> QED BY <1>0, <2>1, <2>3, <2>5, <3>1, StepKeepsChips
  <2>7. CallSound' /\ StepSound'
    BY <1>0, <1>13 DEF WriteMSB, Write, CallSound, StepSound
  <2>8. call' = call /\ pc' = "return"
    BY <1>13 DEF WriteMSB, Write
  <2>9. Programmed'
    BY <2>5, <2>6, <2>8 DEF Programmed, initial_value, v
  <2> QED
    BY <2>6, <2>7, <2>9 DEF TimerInv
<1>14. CASE UNCHANGED timerVars
  BY <1>0, <1>14
     DEF timerVars, TimerInv, ChipsSound, CallSound, StepSound, Programmed,
         initial_value
<1> QED
  BY <1>1, <1>2, <1>3, <1>4, <1>5, <1>6, <1>7, <1>8, <1>9, <1>10, <1>11, <1>12, <1>13,
     <1>14
     DEF TimerNext

(***************************************************************************)
(* The invariant of the driver: how far a call has come says what is       *)
(* latched, read and programmed, whatever earlier calls have left behind.  *)
(***************************************************************************)
THEOREM TimerInvariant == TimerSpec => []TimerInv
BY InitiallyTimerInv, TimerInvKept, PTL DEF TimerSpec

-----------------------------------------------------------------------------
(***************************************************************************)
(* What timer_display_conf() prints is the field of the timer as it is     *)
(* configured, for every field and every configuration.                    *)
(***************************************************************************)
THEOREM PrintsTheConfiguration == TimerSpec => PrintedIsConfigured
<1> DEFINE Prints == call.op = "read_config" /\ call'.op = "none" /\ result'["read_config"] = 0
                       => printed'[1] \in Configured(chip[call.timer], call.field)
<1>1. TimerInv /\ [TimerNext]_timerVars => [Prints]_timerVars
  <2> SUFFICES ASSUME TimerInv, TimerNext, call.op = "read_config", call'.op = "none",
                      result'["read_config"] = 0
               PROVE  printed'[1] \in Configured(chip[call.timer], call.field)
    OBVIOUS
  <2>0. ChipsSound /\ CallSound /\ StepSound /\ Programmed
    BY DEF TimerInv
  <2>1. pc \notin {"idle", "control", "lsb", "msb", "return", "subscribe", "loop", "unsubscribe"}
    BY <2>0 DEF StepSound
  <2>2. ~\E r \in {1} : Return(r)
    BY <2>0 DEF Return, CallSound, Op
  <2>3. call' # call
    OBVIOUS
  <2>4. Display
    BY <2>1, <2>2, <2>3
       DEF TimerNext, Begin, Check, PortFails, PrintFails, IrqFails, Fails, ReadBack, ReadStatus,
           WriteControl, WriteLSB, WriteMSB, Write, SetFrequencyReturns, Subscribe, Interrupt,
           LeaveLoop, Unsubscribe
  <2> DEFINE c == chip[call.timer]
  <2>5. c \in Chip /\ c.access = 3 /\ st \in {c.low + 48, c.low + 112} /\ call.field \in Field
    BY <2>0, <2>4
       DEF Display, StepSound, CallSound, ChipsSound, Programmed, StatusesOf,
           MSB_after_LSB
  <2>6. call.field # "other" /\ printed' = << FieldOf(call.field, st) >>
    BY <2>2, <2>4 DEF Display
  <2>7. c.low \in 0 .. 15
    BY <2>5 DEF Chip
  <2> HIDE DEF c
  <2>8. /\ st \in Nat /\ (st \div 16) % 4 = 3
        /\ (st \div 2) % 8 = c.low \div 2 /\ st % 2 = c.low % 2
    BY <2>5, <2>7, StatusHolds
  <2>9. FieldOf(call.field, st) \in Configured(c, call.field)
    <3>1. CASE call.field = "tsf_all"
      BY <2>5, <2>7, <3>1 DEF FieldOf, Configured
    <3>2. CASE call.field = "tsf_initial"
      BY <2>5, <2>8, <3>2 DEF FieldOf, Configured
    <3>3. CASE call.field = "tsf_mode"
      <4> DEFINE m == c.low \div 2
      <4>1. m \in 0 .. 7
        BY <2>7
      <4>2. FieldOf(call.field, st) = IF m \in {6, 7} THEN m - 4 ELSE m
        BY <2>8, <3>3 DEF FieldOf
      <4>3. Configured(c, call.field) = {k \in 0 .. 5 : k = m \/ (k \in {2, 3} /\ k + 4 = m)}
        BY <3>3 DEF Configured
      <4> HIDE DEF m
      <4> QED
        BY <4>1, <4>2, <4>3
    <3>4. CASE call.field = "tsf_base"
      BY <2>8, <3>4 DEF FieldOf, Configured
    <3> QED
      BY <2>5, <2>6, <3>1, <3>2, <3>3, <3>4 DEF Field
  <2> QED
    BY <2>6, <2>9 DEF c
<1> QED
  BY <1>1, TimerInvariant, PTL DEF TimerSpec, PrintedIsConfigured

-----------------------------------------------------------------------------
(***************************************************************************)
(* The rate of a timer: none when it is stopped, else as its divisor is    *)
(* counted.                                                                *)
(***************************************************************************)
LEMMA RateOfDivisor ==
  ASSUME NEW c \in Chip
  PROVE  /\ RateOf(c) \in Nat
         /\ RateOf(c) = 0 <=> c.divisor = 0
         /\ c.low % 2 = 0 => RateOf(c) = c.divisor
<1>1. c.divisor \in Nat /\ c.low \in 0 .. 15
  BY DEF Chip
<1>2. InDecimal(c.divisor) \in Nat /\ (InDecimal(c.divisor) = 0 <=> c.divisor = 0)
  BY <1>1, DecimalRate
<1> QED
  BY <1>1, <1>2 DEF RateOf

(***************************************************************************)
(* A step that touches neither a divisor nor a mode, nor the request, is   *)
(* none of Rates.                                                          *)
(***************************************************************************)
LEMMA SameRates ==
  ASSUME \A t \in Timer : chip'[t].low = chip[t].low /\ chip'[t].divisor = chip[t].divisor
  PROVE  /\ [t \in Timer |-> RateOf(chip[t])]' = [t \in Timer |-> RateOf(chip[t])]
         /\ [t \in Timer |-> chip[t].low]' = [t \in Timer |-> chip[t].low]
<1>1. \A t \in Timer : RateOf(chip'[t]) = RateOf(chip[t])
  BY DEF RateOf
<1> QED
  BY <1>1

LEMMA ReturnAnswers ==
  ASSUME TimerInv, call.op \in Op, NEW r \in {0, 1}, Return(r), chip' = chip,
         call.op = "time_base" /\ r = 0 => pc = "return"
  PROVE  [R!RatesNext]_(R!ratesVars)
<1>0. ChipsSound /\ CallSound /\ StepSound /\ Programmed
  BY DEF TimerInv
<1>1. /\ [t \in Timer |-> RateOf(chip[t])]' = [t \in Timer |-> RateOf(chip[t])]
      /\ [t \in Timer |-> chip[t].low]' = [t \in Timer |-> chip[t].low]
  BY SameRates
<1>2. call'.op = "none" /\ result' = [result EXCEPT ![call.op] = r]
  BY DEF Return, NoCall
<1>3. CASE call.op # "time_base"
  <2>1. result'["time_base"] = result["time_base"]
    BY <1>0, <1>2, <1>3 DEF CallSound, Op
  <2> QED
    BY <1>1, <1>2, <1>3, <2>1 DEF R!ratesVars
<1>4. CASE call.op = "time_base" /\ r = 1
  <2>1. result'["time_base"] = 1
    BY <1>0, <1>2, <1>4 DEF CallSound, Op
  <2>2. R!Answer
    BY <1>1, <1>2, <1>4, <2>1 DEF R!Answer
  <2> QED
    BY <2>2 DEF R!RatesNext
<1>5. CASE call.op = "time_base" /\ r = 0
  <2> DEFINE t == call.timer
             f == call.freq
  <2>1. result'["time_base"] = 0
    BY <1>0, <1>2, <1>5 DEF CallSound, Op
  <2>2. t \in Timer /\ f \in MIN_FREQ .. TIMER_FREQ /\ chip[t] \in Chip /\ chip[t].divisor = TIMER_FREQ \div f
    BY <1>0, <1>5 DEF StepSound, ChipsSound, Programmed, initial_value
  <2>3. RateOf(chip[t]) # 0 /\ (chip[t].low % 2 = 0 => RateOf(chip[t]) = TIMER_FREQ \div f)
    BY <2>2, DivisorFits, RateOfDivisor
  <2>4. R!Answer
    BY <1>1, <1>2, <1>5, <2>1, <2>2, <2>3
       DEF R!Answer, R!Legal, R!Timer, Timer, R!Stopped, R!CountsInBinary, R!Divisor
  <2> QED
    BY <2>4 DEF R!RatesNext
<1> QED
  BY <1>3, <1>4, <1>5

LEMMA InitiallyRates == TimerInit => R!RatesInit
<1> SUFFICES ASSUME TimerInit PROVE R!RatesInit
  OBVIOUS
<1>1. \A t \in Timer : chip[t] \in Chip
  BY InitiallyTimerInv DEF TimerInv, ChipsSound
<1>2. \A t \in Timer : RateOf(chip[t]) \in Nat
  BY <1>1, RateOfDivisor
<1>3. \A t \in Timer : chip[t].low \in Nat
  BY <1>1 DEF Chip
<1> QED
  BY <1>2, <1>3 DEF TimerInit, NoCall, R!RatesInit, R!Timer, Timer

LEMMA TimerStepsRates == TimerInv /\ [TimerNext]_timerVars => [R!RatesNext]_(R!ratesVars)
<1> SUFFICES ASSUME TimerInv, [TimerNext]_timerVars PROVE [R!RatesNext]_(R!ratesVars)
  OBVIOUS
<1>0. ChipsSound /\ CallSound /\ StepSound /\ Programmed
  BY DEF TimerInv
<1>a. ASSUME call' = call, result' = result,
             \A t \in Timer : chip'[t].low = chip[t].low /\ chip'[t].divisor = chip[t].divisor
      PROVE  UNCHANGED R!ratesVars
  BY <1>a, SameRates DEF R!ratesVars
<1>1. CASE Begin
  <2>1. /\ [t \in Timer |-> RateOf(chip[t])]' = [t \in Timer |-> RateOf(chip[t])]
        /\ [t \in Timer |-> chip[t].low]' = [t \in Timer |-> chip[t].low]
    BY <1>1, SameRates DEF Begin
  <2>2. call.op = "none" /\ result' = result
    BY <1>0, <1>1 DEF Begin, StepSound
  <2>3. CASE call'.op = "time_base"
    <3>1. call'.timer \in Timers /\ call'.freq \in Frequencies
      BY <1>1, <2>3 DEF Begin, ReadConfig, TimeBase, TestInt
    <3>2. R!Ask
      BY <2>1, <2>2, <2>3, <3>1 DEF R!Ask
    <3> QED
      BY <3>2 DEF R!RatesNext
  <2>4. CASE call'.op # "time_base"
    BY <2>1, <2>2, <2>4 DEF R!ratesVars
  <2> QED
    BY <2>3, <2>4
<1>2. CASE Check
  <2>1. CASE Return(1)
    BY <1>0, <1>2, <2>1, ReturnAnswers DEF Check, StepSound, Op
  <2>2. CASE UNCHANGED <<call, st, result>>
    BY <1>2, <1>a, <2>2 DEF Check
  <2> QED
    BY <1>2, <2>1, <2>2 DEF Check
<1>3. CASE PortFails
  BY <1>0, <1>3, ReturnAnswers DEF PortFails, Fails, StepSound, Op
<1>4. CASE PrintFails \/ IrqFails
  BY <1>0, <1>4, ReturnAnswers DEF PrintFails, IrqFails, Fails, StepSound, Op
<1>5. CASE SetFrequencyReturns
  BY <1>0, <1>5, ReturnAnswers DEF SetFrequencyReturns, StepSound, Op
<1>6. CASE Display
  BY <1>0, <1>6, ReturnAnswers DEF Display, StepSound, Op
<1>7. CASE Unsubscribe
  BY <1>0, <1>7, ReturnAnswers DEF Unsubscribe, StepSound, Op
<1>8. CASE Subscribe \/ Interrupt \/ LeaveLoop
  BY <1>8, <1>a DEF Subscribe, Interrupt, LeaveLoop
<1>9. CASE ReadBack
  <2>1. \A t \in Timer : chip'[t].low = chip[t].low /\ chip'[t].divisor = chip[t].divisor
    BY <1>0, <1>9 DEF ReadBack, ChipsSound, Chip
  <2> QED
    BY <1>9, <1>a, <2>1 DEF ReadBack
<1>10. CASE ReadStatus
  <2>1. \A t \in Timer : chip'[t].low = chip[t].low /\ chip'[t].divisor = chip[t].divisor
    BY <1>0, <1>10 DEF ReadStatus, ChipsSound, Chip
  <2> QED
    BY <1>10, <1>a, <2>1 DEF ReadStatus
<1>11. CASE WriteLSB
  <2>1. chip[call.timer] \in Chip /\ chip[call.timer].access = 3 /\ chip[call.timer].first = None
    BY <1>0, <1>11 DEF WriteLSB, Write, StepSound, ChipsSound, Programmed, MSB_after_LSB
  <2>2. chip' = [chip EXCEPT ![call.timer] = [@ EXCEPT !.first = util_get_LSB(initial_value)]]
    BY <1>11, <2>1 DEF WriteLSB, Write, Loaded, LSB_only, MSB_only
  <2>3. \A t \in Timer : chip'[t].low = chip[t].low /\ chip'[t].divisor = chip[t].divisor
    BY <1>0, <2>2 DEF ChipsSound, Chip
  <2> QED
    BY <1>11, <1>a, <2>3 DEF WriteLSB, Write
<1>12. CASE WriteControl
  <2> DEFINE t == call.timer
  <2>1. /\ t \in Timer /\ chip[t].low \in 0 .. 15
        /\ call.op = "time_base" /\ call.freq \in MIN_FREQ .. TIMER_FREQ
    BY <1>0, <1>12 DEF WriteControl, StepSound, ChipsSound, Chip
  <2>2. st % 16 = chip[t].low
    <3>1. st \in {chip[t].low + 48, chip[t].low + 112}
      BY <1>0, <1>12 DEF WriteControl, Programmed, StatusesOf
    <3> QED
      BY <2>1, <3>1, StatusHolds
  <2>3. ControlWord \div 64 = t /\ ControlWord % 16 = chip[t].low
    BY <2>1, <2>2, ControlWordParts
  <2>4. /\ chip'[t].divisor = 0 /\ chip'[t].low = chip[t].low /\ chip'[t] \in Chip
        /\ \A u \in Timer \ {t} : chip'[u] = chip[u]
    <3>1. TimerInv'
      BY TimerInvKept
    <3> QED
      BY <1>0, <1>12, <2>1, <2>3, <3>1 DEF WriteControl, TimerInv, ChipsSound, Chip
  <2>5. RateOf(chip'[t]) = 0
    BY <2>4, RateOfDivisor
  <2>6. /\ [u \in Timer |-> RateOf(chip[u])]' = [[u \in Timer |-> RateOf(chip[u])] EXCEPT ![t] = 0]
        /\ [u \in Timer |-> chip[u].low]' = [u \in Timer |-> chip[u].low]
    BY <2>1, <2>4, <2>5
  <2>7. R!Stop
    BY <1>12, <2>1, <2>6 DEF WriteControl, R!Stop, R!Legal, R!Timer, Timer, R!Stopped
  <2> QED
    BY <2>7 DEF R!RatesNext
<1>13. CASE WriteMSB
  <2> DEFINE t == call.timer
  <2>1. /\ t \in Timer /\ call.op = "time_base" /\ call.freq \in MIN_FREQ .. TIMER_FREQ
        /\ chip[t] \in Chip /\ chip[t].divisor = 0
    BY <1>0, <1>13 DEF WriteMSB, Write, StepSound, Programmed, ChipsSound
  <2>2. call' = call /\ result' = result /\ pc' = "return"
    BY <1>13 DEF WriteMSB, Write
  <2>3. chip'[t] \in Chip /\ chip'[t].divisor = TIMER_FREQ \div call.freq
    <3>1. TimerInv'
      BY TimerInvKept
    <3> QED
      BY <2>1, <2>2, <3>1 DEF TimerInv, ChipsSound, Programmed, initial_value
  <2>4. \A u \in Timer \ {t} : chip'[u] = chip[u]
    BY <1>0, <1>13 DEF WriteMSB, Write, ChipsSound
  <2>5. chip'[t].low = chip[t].low
    <3>1. chip'[t] = Loaded(chip[t], util_get_MSB(initial_value))
      BY <1>0, <1>13, <2>1 DEF WriteMSB, Write, ChipsSound
    <3>2. \A b : Loaded(chip[t], b).low = chip[t].low
      BY <2>1 DEF Loaded, Chip
    <3> QED
      BY <3>1, <3>2
  <2>6. /\ RateOf(chip[t]) = 0
        /\ chip[t].low % 2 = 0 => RateOf(chip'[t]) = TIMER_FREQ \div call.freq
    BY <2>1, <2>3, <2>5, RateOfDivisor
  <2>7. /\ [u \in Timer |-> RateOf(chip[u])]'
             = [[u \in Timer |-> RateOf(chip[u])] EXCEPT ![t] = RateOf(chip'[t])]
        /\ [u \in Timer |-> chip[u].low]' = [u \in Timer |-> chip[u].low]
    BY <2>1, <2>4, <2>5
  <2>8. R!Serve
    BY <2>1, <2>2, <2>6, <2>7
       DEF R!Serve, R!Legal, R!Timer, Timer, R!Stopped, R!CountsInBinary, R!Divisor
  <2> QED
    BY <2>8 DEF R!RatesNext
<1>14. CASE UNCHANGED timerVars
  BY <1>14, <1>a DEF timerVars
<1> QED
  BY <1>1, <1>2, <1>3, <1>4, <1>5, <1>6, <1>7, <1>8, <1>9, <1>10, <1>11, <1>12, <1>13,
     <1>14
     DEF TimerNext

(***************************************************************************)
(* The driver implements Rates: timer_set_frequency() takes the timer it   *)
(* is called for, and no other, from its old rate to the requested one,    *)
(* and says that it has only when it has, whichever access failed before.  *)
(***************************************************************************)
THEOREM TimerImplementsRates == TimerSpec => RatesPromised
BY InitiallyRates, TimerStepsRates, TimerInvariant, PTL
   DEF TimerSpec, RatesPromised, R!RatesSpec

=============================================================================
