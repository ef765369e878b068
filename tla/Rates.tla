------------------------------- MODULE Rates --------------------------------
(***************************************************************************)
(* What the timer driver promises of the three timers of the i8254: each   *)
(* has a divisor of the clock, or stands still, and a mode of its own.  A  *)
(* request names a timer and a frequency.  Serving it touches that timer   *)
(* only, and of that timer only the divisor, which goes from the old one   *)
(* to the requested one through no other value than "none loaded".  The    *)
(* call says that it succeeded only if the timer then runs as requested,   *)
(* and a frequency that no divisor gives is refused.                       *)
(*                                                                         *)
(* All of this is promised of timers that count in binary.  One that       *)
(* counts in decimal takes the digits of a divisor for those of another    *)
(* number: it is stopped and started as the others, at some rate.          *)
(***************************************************************************)
EXTENDS Integers

CONSTANTS
  TIMER_FREQ,     \* the clock of the i8254
  MIN_FREQ,       \* the lowest frequency that a request may name
  Timers,         \* the timers that requests name,
  Frequencies     \* and the frequencies

VARIABLES
  rate,           \* the divisor of each timer
  mode,           \* the mode of each timer
  request,        \* the request being served: << >> or << timer, frequency >>
  ok              \* what the last request was answered

ratesVars == <<rate, mode, request, ok>>

Timer == 0 .. 2
Stopped == 0

Legal(req) == req[1] \in Timer /\ req[2] \in MIN_FREQ .. TIMER_FREQ

Divisor(f) == TIMER_FREQ \div f

RatesInit ==
  /\ rate \in [Timer -> Nat]
  /\ mode \in [Timer -> Nat]
  /\ request = << >>
  /\ ok = TRUE

Ask ==
  /\ request = << >>
  /\ \E t \in Timers, f \in Frequencies : request' = << t, f >>
  /\ UNCHANGED <<rate, mode, ok>>

Stop ==
  /\ request # << >> /\ Legal(request)
  /\ rate' = [rate EXCEPT ![request[1]] = Stopped]
  /\ UNCHANGED <<mode, request, ok>>

CountsInBinary(t) == mode[t] % 2 = 0

Serve ==
  /\ request # << >> /\ Legal(request)
  /\ rate[request[1]] = Stopped
  /\ rate' = [rate EXCEPT ![request[1]] = rate'[request[1]]]
  /\ CountsInBinary(request[1]) => rate'[request[1]] = Divisor(request[2])
  /\ UNCHANGED <<mode, request, ok>>

Answer ==
  /\ request # << >>
  /\ ok' \in BOOLEAN
  /\ ok' => /\ Legal(request)
            /\ rate[request[1]] # Stopped
            /\ CountsInBinary(request[1]) => rate[request[1]] = Divisor(request[2])
  /\ request' = << >>
  /\ UNCHANGED <<rate, mode>>

RatesNext == Ask \/ Stop \/ Serve \/ Answer

RatesSpec == RatesInit /\ [][RatesNext]_ratesVars

=============================================================================
