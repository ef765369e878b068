------------------------------- MODULE Mouse --------------------------------
(***************************************************************************)
(* The mouse driver (controllers/mouse) with the i8042 controller and the  *)
(* mouse behind it, and the program of lab4/lab4.c that uses it: it        *)
(* enables the reports of the mouse, puts packets together from the bytes  *)
(* of its interrupts, and disables the reports.  The game does not use the *)
(* driver.                                                                 *)
(*                                                                         *)
(* Of a byte it matters whether bit 3 is set and whether it is one of the  *)
(* mouse's answers, which are ordinary bytes: a movement can look alike.   *)
(***************************************************************************)
EXTENDS Integers, Sequences, SequencesExt

CONSTANTS
  TRIES,        \* polls of the status register; refused commands
  CNT,          \* the argument of mouse_test_packet()
  Movement,     \* the bytes that movements are made of
  Answers,      \* what the mouse may answer
  MAX_REFUSALS, \* bound: answers other than ACK
  Faults,       \* what may fail: see Fault
  MAX_PACKETS   \* bound: packets the mouse sends

Answer == {"ACK", "NACK", "ERROR"}
Byte == {"head", "low", "high"} \cup Answer
BIT3 == Byte \ {"low"}
Command == {"ENABLE", "DISABLE"}
Fault == {"inb", "outb", "irq", "parity"}

ASSUME MouseAssumption ==
  /\ {TRIES, CNT} \subseteq Nat \ {0}
  /\ {MAX_PACKETS, MAX_REFUSALS} \subseteq Nat
  /\ Movement \subseteq Byte
  /\ "ACK" \in Answers /\ Answers \subseteq Answer
  /\ Faults \subseteq Fault

VARIABLES
  out,        \* output buffer: << >> or << [byte, err, answer] >>
  port,       \* what a read of the empty output buffer returns
  in,         \* input buffer: << >>, << "WRITE_B_MOUSE" >> or << Command >>
  aux,        \* the controller passes the next byte on to the mouse
  irq,        \* an interrupt of the mouse has not been notified yet
  asked,      \* mouse: the command it has not answered, << >> if none
  queue,      \* mouse: the bytes it is about to send
  reporting,  \* mouse: it reports movements
  refusals,   \* mouse: its answers other than ACK so far
  sent,       \* mouse: the packets it has begun to send
  pc,         \* the driver's next step: see Stage
  cmd,        \* argument of the kbc_command_handler() in progress
  tries,      \* polls left
  nacks,      \* refusals so far
  subscribed,
  data,       \* the global of m_interrupts.c
  bytes,      \* bytes[0 .. size - 1] of lab4.c
  sync_state,
  printed,    \* the packets printed; packet_count is their number
  result,     \* what mouse_test_packet() returns
  upset       \* a call failed, an error was reported, or an answer was late

device == <<out, port, in, aux, irq, asked, queue, reporting, refusals, sent>>
assembly == <<data, bytes, sync_state, printed>>
mouseVars == <<device, pc, cmd, tries, nacks, subscribed, assembly, result, upset>>

Stage == {"command", "argument", "answer", "subscribe", "loop", "unsubscribe", "done"}

-----------------------------------------------------------------------------
(***************************************************************************)
(* The controller and the mouse (external).  The answer to a command takes *)
(* the place of the rest of a packet.                                      *)
(***************************************************************************)
ControllerTakes ==
  /\ in # << >>
  /\ in' = << >>
  /\ aux' = (Head(in) = "WRITE_B_MOUSE")
  /\ asked' = IF aux /\ Head(in) \in Command THEN in ELSE asked
  /\ UNCHANGED <<out, port, irq, queue, reporting, refusals, sent, pc, cmd, tries, nacks, subscribed,
                 assembly, result, upset>>

MouseAnswers ==
  /\ asked # << >>
  /\ asked' = << >>
  /\ \E a \in Answers :
       /\ a # "ACK" => refusals < MAX_REFUSALS
       /\ refusals' = IF a = "ACK" THEN refusals ELSE refusals + 1
       /\ queue' = << [byte |-> a, answer |-> TRUE] >>
       /\ reporting' = IF a = "ACK" THEN Head(asked) = "ENABLE" ELSE reporting
  /\ UNCHANGED <<out, port, in, aux, irq, sent, pc, cmd, tries, nacks, subscribed,
                 assembly, result, upset>>

MouseMoves ==
  /\ reporting /\ queue = << >> /\ asked = << >>
  /\ Len(sent) < MAX_PACKETS
  /\ \E m, n \in Movement :
       /\ sent' = Append(sent, << "head", m, n >>)
       /\ queue' = [i \in 1 .. 3 |-> [byte |-> << "head", m, n >>[i], answer |-> FALSE]]
  /\ UNCHANGED <<out, port, in, aux, irq, asked, reporting, refusals, pc, cmd, tries, nacks,
                 subscribed, assembly, result, upset>>

MouseSends ==
  /\ queue # << >> /\ out = << >>
  /\ queue' = Tail(queue)
  /\ \E e \in IF "parity" \in Faults THEN BOOLEAN ELSE {FALSE} :
       /\ out' = << [byte |-> Head(queue).byte, answer |-> Head(queue).answer, err |-> e] >>
       /\ upset' = (upset \/ e)
  /\ irq' = TRUE
  /\ UNCHANGED <<port, in, aux, asked, reporting, refusals, sent, pc, cmd, tries, nacks, subscribed,
                 assembly, result>>

-----------------------------------------------------------------------------
MouseInit ==
  /\ out = << >> /\ port \in {"low", "ACK"}
  /\ in = << >> /\ aux = FALSE /\ irq = FALSE
  /\ asked = << >> /\ queue = << >> /\ reporting = FALSE
  /\ refusals = 0 /\ sent = << >>
  /\ pc = "command" /\ cmd = "ENABLE"
  /\ tries = TRIES /\ nacks = 0
  /\ subscribed = FALSE
  /\ data = "low" /\ bytes = << >> /\ sync_state = 0 /\ printed = << >>
  /\ result = 0
  /\ upset = FALSE

Ends(r) == pc' = "done" /\ result' = r

(***************************************************************************)
(* mouse_test_packet() after kbc_command_handler() has returned r: its     *)
(* locals are gone.                                                        *)
(***************************************************************************)
AfterCommand(r) ==
  /\ tries' = TRIES /\ nacks' = 0
  /\ IF cmd = "ENABLE" /\ r = 0
       THEN pc' = "subscribe" /\ UNCHANGED result
       ELSE Ends(r)

(***************************************************************************)
(* kbc_write_command(), and the first half of mouse_write_command(): wait  *)
(* until kbc_check_in_buf() finds the input buffer empty, which it does    *)
(* not when the status cannot be read, and write.  The call fails after    *)
(* TRIES polls.                                                            *)
(***************************************************************************)
WriteByte(byte, next) ==
  /\ \/ /\ in = << >>
        /\ in' = << byte >>
        /\ pc' = next
        /\ tries' = TRIES
        /\ UNCHANGED <<nacks, result, upset>>
     \/ /\ in # << >> \/ "inb" \in Faults
        /\ upset' = (upset \/ in = << >>)
        /\ IF tries = 1 THEN AfterCommand(1)
           ELSE tries' = tries - 1 /\ UNCHANGED <<pc, nacks, result>>
        /\ UNCHANGED in
     \/ /\ in = << >> /\ "outb" \in Faults
        /\ upset' = TRUE
        /\ AfterCommand(1)
        /\ UNCHANGED in
  /\ UNCHANGED <<out, port, aux, irq, asked, queue, reporting, refusals, sent, cmd, subscribed,
                 assembly>>

WriteCommand == pc = "command" /\ WriteByte("WRITE_B_MOUSE", "argument")

WriteArgument == pc = "argument" /\ WriteByte(cmd, "answer")

Again == pc' = "command" /\ tries' = TRIES /\ UNCHANGED result

\* A slip of Judge: an acknowledgement is one more byte to skip.
JudgeRefusals(ans) ==
  \/ /\ ans = "NACK"
     /\ IF nacks + 1 < TRIES THEN nacks' = nacks + 1 /\ Again ELSE AfterCommand(1)
  \/ ans = "ERROR" /\ AfterCommand(1)
  \/ /\ ans \notin {"NACK", "ERROR"}
     /\ Again
     /\ UNCHANGED nacks

(***************************************************************************)
(* kbc_command_handler() with the answer ans.  One that is no answer at    *)
(* all is not counted as a try.                                            *)
(***************************************************************************)
Judge(ans) ==
  \/ ans = "ACK" /\ AfterCommand(0)
  \/ /\ ans = "NACK"
     /\ IF nacks + 1 < TRIES THEN nacks' = nacks + 1 /\ Again ELSE AfterCommand(1)
  \/ ans = "ERROR" /\ AfterCommand(1)
  \/ /\ ans \notin Answer
     /\ Again
     /\ UNCHANGED nacks

(***************************************************************************)
(* The second half of mouse_write_command(): the output buffer is read     *)
(* once, after a delay, whatever is in it.                                 *)
(***************************************************************************)
ReadAnswer ==
  /\ pc = "answer"
  /\ \/ LET got == IF out = << >> THEN port ELSE Head(out).byte
        IN  /\ out' = << >> /\ irq' = FALSE
            /\ port' = got
            /\ upset' = (upset \/ out = << >> \/ ~Head(out).answer)
            /\ Judge(got)
     \/ /\ "inb" \in Faults
        /\ upset' = TRUE
        /\ AfterCommand(1)
        /\ UNCHANGED <<out, port, irq>>
  /\ UNCHANGED <<in, aux, asked, queue, reporting, refusals, sent, cmd, subscribed, assembly>>

Subscribe ==
  /\ pc = "subscribe"
  /\ \/ /\ subscribed' = TRUE
        /\ pc' = "loop"
        /\ UNCHANGED <<result, upset>>
     \/ /\ "irq" \in Faults
        /\ upset' = TRUE
        /\ Ends(1)
        /\ UNCHANGED subscribed
  /\ UNCHANGED <<device, cmd, tries, nacks, assembly>>

-----------------------------------------------------------------------------
\* A slip of Store: the packet printed is not cleared away.
StoreNoReset(d) ==
  LET now == Append(bytes, d)
  IN  /\ bytes' = now
      /\ printed' = IF Len(now) = 3 THEN Append(printed, now) ELSE printed

\* A slip of Store: a packet has two bytes.
StorePairs(d) ==
  LET now == Append(bytes, d)
  IN  /\ bytes' = IF Len(now) = 2 THEN << >> ELSE now
      /\ printed' = IF Len(now) = 2 THEN Append(printed, now) ELSE printed

(***************************************************************************)
(* bytes[size++] = data, and the packet is printed when it is complete.    *)
(***************************************************************************)
Store(d) ==
  LET now == Append(bytes, d)
  IN  /\ bytes' = IF Len(now) = 3 THEN << >> ELSE now
      /\ printed' = IF Len(now) = 3 THEN Append(printed, now) ELSE printed

(***************************************************************************)
(* An interrupt of the mouse.  mouse_ih() reads the byte when the status   *)
(* shows one without an error, and leaves data alone otherwise; the loop   *)
(* goes on with what is in data either way.  A packet begins with a byte   *)
(* that has bit 3 set; that the loop gets past the first byte without      *)
(* sync_state cannot happen (MouseTypeOK), so its reset has no disjunct.   *)
(***************************************************************************)
Interrupt ==
  /\ pc = "loop" /\ Len(printed) < CNT
  /\ subscribed /\ irq
  /\ irq' = FALSE
  /\ \/ /\ out # << >> /\ ~Head(out).err
        /\ data' = Head(out).byte
        /\ port' = data'
        /\ out' = << >>
        /\ UNCHANGED upset
     \/ /\ out = << >> \/ Head(out).err \/ "inb" \in Faults
        /\ upset' = TRUE
        /\ UNCHANGED <<data, port, out>>
  /\ \/ /\ bytes = << >> /\ data' \notin BIT3
        /\ sync_state' = 0
        /\ UNCHANGED <<bytes, printed>>
     \/ /\ bytes = << >> /\ data' \in BIT3
        /\ sync_state' = 1
        /\ Store(data')
     \/ /\ bytes # << >> /\ sync_state = 1
        /\ Store(data')
        /\ UNCHANGED sync_state
  /\ UNCHANGED <<in, aux, asked, queue, reporting, refusals, sent, pc, cmd, tries, nacks, subscribed,
                 result>>

(***************************************************************************)
(* The loop ends when CNT packets are printed: unsubscribe, then disable   *)
(* the reports.                                                            *)
(***************************************************************************)
LeaveLoop ==
  /\ pc = "loop" /\ Len(printed) >= CNT
  /\ pc' = "unsubscribe"
  /\ UNCHANGED <<device, cmd, tries, nacks, subscribed, assembly, result, upset>>

Unsubscribe ==
  /\ pc = "unsubscribe"
  /\ \/ /\ subscribed' = FALSE
        /\ pc' = "command" /\ cmd' = "DISABLE"
        /\ UNCHANGED <<result, upset>>
     \/ /\ "irq" \in Faults
        /\ upset' = TRUE
        /\ Ends(1)
        /\ UNCHANGED <<subscribed, cmd>>
  /\ UNCHANGED <<device, tries, nacks, assembly>>

Driver == \/ WriteCommand \/ WriteArgument \/ ReadAnswer \/ Subscribe \/ LeaveLoop
          \/ Unsubscribe

MouseNext == \/ ControllerTakes \/ MouseAnswers \/ MouseMoves \/ MouseSends
             \/ Interrupt \/ Driver

(***************************************************************************)
(* The program runs, and a mouse is there that answers commands; it need   *)
(* not move.                                                               *)
(***************************************************************************)
MouseSpec == /\ MouseInit /\ [][MouseNext]_mouseVars
             /\ WF_mouseVars(Driver)
             /\ WF_mouseVars(Interrupt)
             /\ WF_mouseVars(ControllerTakes)
             /\ WF_mouseVars(MouseAnswers)
             /\ WF_mouseVars(MouseSends)

-----------------------------------------------------------------------------
(***************************************************************************)
(* The driver and the program of lab4 stay within their bounds: bytes[]    *)
(* has three places, of which a packet in progress fills at most two, and  *)
(* tries and refusals are counted to TRIES.                                *)
(***************************************************************************)
MouseTypeOK ==
  /\ Len(out) \in 0 .. 1 /\ Len(in) \in 0 .. 1 /\ Len(asked) \in 0 .. 1
  /\ Len(queue) \in 0 .. 3
  /\ {port, data} \subseteq Byte
  /\ pc \in Stage /\ cmd \in Command
  /\ tries \in 0 .. TRIES /\ nacks \in 0 .. TRIES
  /\ Len(bytes) \in 0 .. 2
  /\ bytes # << >> => sync_state = 1
  /\ Len(printed) \in 0 .. CNT
  /\ result \in {0, 1}

(***************************************************************************)
(* mouse_test_packet() prints the packets that the mouse sent, in order    *)
(* and without a gap, unless something failed or the mouse was late with   *)
(* an answer: then kbc_command_handler() asks again, and the answer that   *)
(* nobody waits for any more counts as the first byte of a packet.         *)
(***************************************************************************)
PacketsAligned == ~upset => IsPrefix(printed, sent)

(***************************************************************************)
(* kbc_command_handler() returns when there is a mouse that answers, also  *)
(* with reports underway, although it counts only refusals: bytes that are *)
(* no answers cannot go on for ever.                                       *)
(***************************************************************************)
CommandEnds ==
  (pc \in {"command", "argument", "answer"})
    ~> (pc \notin {"command", "argument", "answer"})
=============================================================================
