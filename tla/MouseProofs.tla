----------------------------- MODULE MouseProofs -----------------------------
(***************************************************************************)
(* Proofs about the mouse driver and the program of lab4, for every number *)
(* of tries and packets, every movement and every answer of the mouse.     *)
(***************************************************************************)
EXTENDS Mouse, SequenceTheorems, TLAPS

(***************************************************************************)
(* A packet of the mouse, and its bytes on their way: in the mouse, and in *)
(* the output buffer (without an error).                                   *)
(***************************************************************************)
Packet == {<< "head", m, n >> : m, n \in Movement}

Report(b) == [byte |-> b, answer |-> FALSE]
Reports(p) == << Report(p[1]), Report(p[2]), Report(p[3]) >>
Arrived(b) == [byte |-> b, answer |-> FALSE, err |-> FALSE]

(***************************************************************************)
(* Nothing is lost on the way: what is printed, gathered in bytes[], in    *)
(* the output buffer and still in the mouse make up the packets sent.  The *)
(* mouse may begin a packet while the last byte of the one before waits.   *)
(***************************************************************************)
PacketUnderWay(p) ==
  \/ bytes = << >> /\ out = << >> /\ queue = Reports(p)
  \/ bytes = << >> /\ out = << Arrived(p[1]) >> /\ queue = << Report(p[2]), Report(p[3]) >>
  \/ bytes = << p[1] >> /\ out = << >> /\ queue = << Report(p[2]), Report(p[3]) >>
  \/ bytes = << p[1] >> /\ out = << Arrived(p[2]) >> /\ queue = << Report(p[3]) >>
  \/ bytes = << p[1], p[2] >> /\ out = << >> /\ queue = << Report(p[3]) >>
  \/ bytes = << p[1], p[2] >> /\ out = << Arrived(p[3]) >> /\ queue = << >>

StreamWhole ==
  \/ sent = printed /\ bytes = << >> /\ out = << >> /\ queue = << >>
  \/ \E p \in Packet : sent = Append(printed, p) /\ PacketUnderWay(p)
  \/ \E p, q \in Packet :
       /\ sent = Append(Append(printed, p), q)
       /\ bytes = << p[1], p[2] >> /\ out = << Arrived(p[3]) >> /\ queue = Reports(q)

(***************************************************************************)
(* The first command, which enables the reports, by how far it has come.   *)
(***************************************************************************)
NothingSent == sent = << >> /\ out = << >> /\ queue = << >> /\ reporting = FALSE

AnswerOf(a) == [byte |-> a, answer |-> TRUE]

AnswerUnderWay ==
  \/ in = << "ENABLE" >> /\ aux /\ asked = << >> /\ NothingSent
  \/ in = << >> /\ asked = << "ENABLE" >> /\ NothingSent
  \/ /\ in = << >> /\ asked = << >> /\ sent = << >> /\ out = << >>
     /\ \E a \in Answer : queue = << AnswerOf(a) >> /\ reporting = (a = "ACK")
  \/ /\ in = << >> /\ asked = << >>
     /\ \E a \in Answer :
          /\ out = << [byte |-> a, answer |-> TRUE, err |-> FALSE] >>
          /\ reporting = (a = "ACK")
     /\ \/ queue = << >> /\ sent = << >>
        \/ reporting /\ \E p \in Packet : queue = Reports(p) /\ sent = << p >>

Enabling ==
  /\ printed = << >> /\ bytes = << >>
  /\ pc = "command" => in = << >> /\ asked = << >> /\ NothingSent
  /\ pc = "argument" => /\ in = << "WRITE_B_MOUSE" >> \/ (in = << >> /\ aux)
                        /\ asked = << >> /\ NothingSent
  /\ pc = "answer" => AnswerUnderWay

AlignInv ==
  ~upset =>
    /\ cmd = "ENABLE" /\ pc \in {"command", "argument", "answer"} => Enabling
    /\ pc \in {"subscribe", "loop", "unsubscribe"} =>
         in = << >> /\ asked = << >> /\ StreamWhole
    /\ IsPrefix(printed, sent)

(***************************************************************************)
(* The types of the variables, as far as the proofs need them.             *)
(***************************************************************************)
Sent == [byte : Byte, answer : BOOLEAN]
Received == [byte : Byte, answer : BOOLEAN, err : BOOLEAN]

DeviceTypes ==
  /\ out = << >> \/ \E r \in Received : out = << r >>
  /\ in = << >> \/ \E c \in Command \cup {"WRITE_B_MOUSE"} : in = << c >>
  /\ asked = << >> \/ \E c \in Command : asked = << c >>
  /\ queue \in Seq(Sent) /\ Len(queue) <= 3
  /\ sent \in Seq(Seq(Byte))
  /\ port \in Byte

DriverTypes ==
  /\ pc \in Stage /\ cmd \in Command
  /\ tries \in 1 .. TRIES /\ nacks \in 0 .. TRIES - 1
  /\ result \in {0, 1}

AssemblyTypes ==
  /\ data \in Byte
  /\ bytes \in Seq(Byte) /\ Len(bytes) <= 2
  /\ bytes # << >> => sync_state = 1
  /\ printed \in Seq(Seq(Byte)) /\ Len(printed) <= CNT

MouseTypes == DeviceTypes /\ DriverTypes /\ AssemblyTypes

-----------------------------------------------------------------------------
LEMMA Parameters ==
  /\ TRIES \in Nat \ {0} /\ CNT \in Nat \ {0}
  /\ Movement \subseteq Byte /\ Answers \subseteq Answer
BY MouseAssumption

LEMMA InitiallyMouseTypes == MouseInit => MouseTypes
BY Parameters DEF MouseInit, MouseTypes, DeviceTypes, DriverTypes, AssemblyTypes, Byte, Answer, Stage,
       Command

(***************************************************************************)
(* A command that has returned, or is tried again.                         *)
(***************************************************************************)
LEMMA CommandTypes ==
  /\ \A r \in {0, 1} : AfterCommand(r) /\ DriverTypes /\ cmd' = cmd => DriverTypes'
  /\ \A a \in Byte : Judge(a) /\ DriverTypes /\ cmd' = cmd => DriverTypes'
<1>1. \A r \in {0, 1} : AfterCommand(r) /\ DriverTypes /\ cmd' = cmd => DriverTypes'
  BY Parameters DEF AfterCommand, Ends, DriverTypes, Stage
<1>2. Again /\ DriverTypes /\ cmd' = cmd /\ nacks' \in 0 .. TRIES - 1 => DriverTypes'
  BY Parameters DEF Again, DriverTypes, Stage
<1>3. DriverTypes /\ nacks + 1 < TRIES => nacks + 1 \in 0 .. TRIES - 1
  BY Parameters DEF DriverTypes
<1>4. \A a \in Byte : Judge(a) /\ DriverTypes /\ cmd' = cmd => DriverTypes'
  <2> SUFFICES ASSUME NEW a \in Byte, Judge(a), DriverTypes, cmd' = cmd PROVE DriverTypes'
    OBVIOUS
  <2>1. CASE AfterCommand(0) \/ AfterCommand(1)
    BY <1>1, <2>1
  <2>2. CASE Again /\ nacks' = nacks
    BY <1>2, <2>2 DEF DriverTypes
  <2>3. CASE Again /\ nacks' = nacks + 1 /\ nacks + 1 < TRIES
    BY <1>2, <1>3, <2>3
  <2> QED
    BY <2>1, <2>2, <2>3 DEF Judge
<1> QED
  BY <1>1, <1>4

LEMMA WriteTypes ==
  ASSUME NEW b \in Command \cup {"WRITE_B_MOUSE"}, NEW next \in Stage,
         MouseTypes, WriteByte(b, next)
  PROVE  MouseTypes'
<1>1. DeviceTypes'
  BY DEF WriteByte, MouseTypes, DeviceTypes
<1>2. DriverTypes'
  <2>1. CASE in = << >> /\ pc' = next /\ tries' = TRIES /\ UNCHANGED <<nacks, result, cmd>>
    BY <2>1, Parameters DEF MouseTypes, DriverTypes
  <2>2. CASE AfterCommand(1) /\ cmd' = cmd
    BY <2>2, CommandTypes DEF MouseTypes
  <2>3. CASE tries # 1 /\ tries' = tries - 1 /\ UNCHANGED <<pc, nacks, result, cmd>>
    BY <2>3, Parameters DEF MouseTypes, DriverTypes
  <2> QED
    BY <2>1, <2>2, <2>3 DEF WriteByte
<1>3. AssemblyTypes'
  BY DEF WriteByte, assembly, MouseTypes, AssemblyTypes
<1> QED
  BY <1>1, <1>2, <1>3 DEF MouseTypes

(***************************************************************************)
(* bytes[] takes one more byte, and is emptied when it has three.          *)
(***************************************************************************)
LEMMA StoreTypes ==
  ASSUME NEW d \in Byte, AssemblyTypes, Store(d), Len(printed) < CNT
  PROVE  /\ bytes' \in Seq(Byte) /\ Len(bytes') <= 2
         /\ printed' \in Seq(Seq(Byte)) /\ Len(printed') <= CNT
<1>1. Append(bytes, d) \in Seq(Byte) /\ Len(Append(bytes, d)) = Len(bytes) + 1
  BY DEF AssemblyTypes
<1>2. Append(printed, Append(bytes, d)) \in Seq(Seq(Byte))
  BY <1>1 DEF AssemblyTypes
<1>3. Len(Append(printed, Append(bytes, d))) = Len(printed) + 1
  BY <1>1 DEF AssemblyTypes
<1> QED
  BY <1>1, <1>2, <1>3, Parameters DEF Store, AssemblyTypes

LEMMA MouseTypesKept == MouseTypes /\ [MouseNext]_mouseVars => MouseTypes'
<1> SUFFICES ASSUME MouseTypes, [MouseNext]_mouseVars PROVE MouseTypes'
  OBVIOUS
<1>0. DeviceTypes /\ DriverTypes /\ AssemblyTypes
  BY DEF MouseTypes
<1>1. CASE ControllerTakes
  <2>1. DeviceTypes'
    BY <1>0, <1>1 DEF ControllerTakes, DeviceTypes
  <2> QED
    BY <1>0, <1>1, <2>1
       DEF ControllerTakes, assembly, MouseTypes, DriverTypes, AssemblyTypes
<1>2. CASE MouseAnswers
  <2>1. queue' \in Seq(Sent) /\ Len(queue') <= 3
    BY <1>2, Parameters DEF MouseAnswers, Sent, Byte
  <2>2. DeviceTypes'
    BY <1>0, <1>2, <2>1 DEF MouseAnswers, DeviceTypes
  <2> QED
    BY <1>0, <1>2, <2>2 DEF MouseAnswers, assembly, MouseTypes, DriverTypes, AssemblyTypes
<1>3. CASE MouseMoves
  <2>1. PICK m, n \in Movement :
          /\ sent' = Append(sent, << "head", m, n >>)
          /\ queue' = [i \in 1 .. 3 |-> [byte |-> << "head", m, n >>[i], answer |-> FALSE]]
    BY <1>3 DEF MouseMoves
  <2>2. << "head", m, n >> \in Seq(Byte)
    BY Parameters DEF Byte
  <2>3. queue' \in [1 .. 3 -> Sent]
    <3>1. \A i \in 1 .. 3 : << "head", m, n >>[i] \in Byte
      BY Parameters DEF Byte
    <3> QED
      BY <2>1, <3>1 DEF Sent
  <2>4. DeviceTypes'
    BY <1>0, <1>3, <2>1, <2>2, <2>3 DEF MouseMoves, DeviceTypes
  <2> QED
    BY <1>0, <1>3, <2>4 DEF MouseMoves, assembly, MouseTypes, DriverTypes, AssemblyTypes
<1>4. CASE MouseSends
  <2>1. PICK e \in BOOLEAN :
          out' = << [byte |-> Head(queue).byte, answer |-> Head(queue).answer, err |-> e] >>
    BY <1>4 DEF MouseSends
  <2>2. Head(queue) \in Sent /\ Tail(queue) \in Seq(Sent) /\ Len(Tail(queue)) <= 3
    BY <1>0, <1>4 DEF MouseSends, DeviceTypes
  <2>3. [byte |-> Head(queue).byte, answer |-> Head(queue).answer, err |-> e] \in Received
    BY <2>2 DEF Sent, Received
  <2>4. DeviceTypes'
    BY <1>0, <1>4, <2>1, <2>2, <2>3 DEF MouseSends, DeviceTypes
  <2> QED
    BY <1>0, <1>4, <2>4 DEF MouseSends, assembly, MouseTypes, DriverTypes, AssemblyTypes
<1>5. CASE Interrupt
  <2>1. DeviceTypes' /\ data' \in Byte
    BY <1>0, <1>5 DEF Interrupt, DeviceTypes, AssemblyTypes, Received
  <2>2. DriverTypes'
    BY <1>0, <1>5 DEF Interrupt, DriverTypes
  <2>3. AssemblyTypes'
    <3>1. CASE UNCHANGED <<bytes, printed>> /\ bytes = << >>
      BY <1>0, <2>1, <3>1 DEF AssemblyTypes
    <3>2. CASE Store(data') /\ sync_state' = 1 /\ Len(printed) < CNT
      BY <1>0, <2>1, <3>2, StoreTypes DEF AssemblyTypes
    <3> QED
      BY <1>5, <3>1, <3>2 DEF Interrupt
  <2> QED
    BY <2>1, <2>2, <2>3 DEF MouseTypes
<1>6. CASE WriteCommand
  BY <1>0, <1>6, WriteTypes DEF WriteCommand, Stage
<1>7. CASE WriteArgument
  BY <1>0, <1>7, WriteTypes DEF WriteArgument, Stage, DriverTypes
<1>8. CASE ReadAnswer
  <2>1. DeviceTypes'
    BY <1>0, <1>8 DEF ReadAnswer, DeviceTypes, Received
  <2>2. DriverTypes'
    BY <1>0, <1>8, CommandTypes DEF ReadAnswer, DeviceTypes, Received
  <2> QED
    BY <1>0, <1>8, <2>1, <2>2 DEF ReadAnswer, assembly, MouseTypes, AssemblyTypes
<1>9. CASE Subscribe \/ LeaveLoop \/ Unsubscribe
  <2>1. DriverTypes'
    BY <1>0, <1>9
       DEF Subscribe, LeaveLoop, Unsubscribe, Ends, DriverTypes, Stage, Command
  <2>2. UNCHANGED <<device, assembly>>
    BY <1>9 DEF Subscribe, LeaveLoop, Unsubscribe
  <2> QED
    BY <1>0, <2>1, <2>2 DEF device, assembly, MouseTypes, DeviceTypes, AssemblyTypes
<1>10. CASE UNCHANGED mouseVars
  BY <1>0, <1>10
     DEF mouseVars, device, assembly, MouseTypes, DeviceTypes, DriverTypes, AssemblyTypes
<1> QED
  BY <1>1, <1>2, <1>3, <1>4, <1>5, <1>6, <1>7, <1>8, <1>9, <1>10 DEF MouseNext, Driver

(***************************************************************************)
(* The driver and the program of lab4 stay within their bounds: a packet   *)
(* in progress fills at most two of the three places of bytes[], and tries *)
(* and refusals are counted to TRIES (kbc_command_handler(), lab4.c).      *)
(***************************************************************************)
THEOREM MouseTypeCorrect == MouseSpec => []MouseTypeOK
<1>1. MouseTypes => MouseTypeOK
  <2> SUFFICES ASSUME MouseTypes PROVE MouseTypeOK
    OBVIOUS
  <2>1. Len(out) \in 0 .. 1 /\ Len(in) \in 0 .. 1 /\ Len(asked) \in 0 .. 1
    BY DEF MouseTypes, DeviceTypes
  <2>a. ASSUME NEW S, NEW q \in Seq(S), NEW n \in Nat, Len(q) <= n PROVE Len(q) \in 0 .. n
    BY <2>a
  <2>b. Len(queue) \in 0 .. 3
    BY <2>a DEF MouseTypes, DeviceTypes
  <2>2. Len(queue) \in 0 .. 3 /\ {port, data} \subseteq Byte
    BY <2>b DEF MouseTypes, DeviceTypes, AssemblyTypes
  <2>3. /\ pc \in Stage /\ cmd \in Command /\ result \in {0, 1}
        /\ tries \in 0 .. TRIES /\ nacks \in 0 .. TRIES
    BY Parameters DEF MouseTypes, DriverTypes
  <2>4. Len(bytes) \in 0 .. 2 /\ (bytes # << >> => sync_state = 1) /\ Len(printed) \in 0 .. CNT
    BY <2>a, Parameters DEF MouseTypes, AssemblyTypes
  <2> QED
    BY <2>1, <2>2, <2>3, <2>4 DEF MouseTypeOK
<1> QED
  BY <1>1, InitiallyMouseTypes, MouseTypesKept, PTL DEF MouseSpec

-----------------------------------------------------------------------------
(***************************************************************************)
(* Packets sent, their bytes and their order.                              *)
(***************************************************************************)
LEMMA PrefixFacts ==
  ASSUME NEW S, NEW s \in Seq(S)
  PROVE  /\ IsPrefix(<< >>, s) /\ IsPrefix(s, s)
         /\ \A t \in Seq(S), p \in S : IsPrefix(s, t) => IsPrefix(s, Append(t, p))
<1>1. IsPrefix(<< >>, s) /\ IsPrefix(s, s)
  BY DEF IsPrefix
<1>2. ASSUME NEW t \in Seq(S), NEW p \in S, IsPrefix(s, t) PROVE IsPrefix(s, Append(t, p))
  <2>1. Len(s) <= Len(t) /\ Len(Append(t, p)) = Len(t) + 1
    BY <1>2 DEF IsPrefix
  <2>2. SubSeq(Append(t, p), 1, Len(s)) = SubSeq(t, 1, Len(s))
    BY <2>1
  <2> QED
    BY <1>2, <2>1, <2>2 DEF IsPrefix
<1> QED
  BY <1>1, <1>2

LEMMA PacketFacts ==
  ASSUME NEW p \in Packet
  PROVE  /\ p \in Seq(Byte) /\ p = << p[1], p[2], p[3] >>
         /\ p[1] \in Byte /\ p[2] \in Byte /\ p[3] \in Byte /\ p[1] \in BIT3
<1>1. PICK m, n \in Movement : p = << "head", m, n >>
  BY DEF Packet
<1>2. m \in Byte /\ n \in Byte /\ "head" \in Byte /\ "head" \in BIT3
  BY Parameters DEF Byte, BIT3
<1> QED
  BY <1>1, <1>2

(***************************************************************************)
(* A function on 1 .. 3 is a triple.                                       *)
(***************************************************************************)
LEMMA Triple ==
  ASSUME NEW a, NEW b, NEW c,
         NEW f, f = [i \in 1 .. 3 |-> f[i]], f[1] = a, f[2] = b, f[3] = c
  PROVE  f = << a, b, c >>
<1> DEFINE S == {a, b, c}
<1>1. \A i \in 1 .. 3 : i = 1 \/ i = 2 \/ i = 3
  OBVIOUS
<1>2. << a, b, c >> \in Seq(S) /\ Len(<< a, b, c >>) = 3
  OBVIOUS
<1>3. f \in [1 .. 3 -> S]
  BY <1>1
<1>4. f \in Seq(S) /\ Len(f) = 3
  BY <1>3
<1>5. \A i \in 1 .. 3 : f[i] = << a, b, c >>[i]
  BY <1>1
<1> QED
  BY <1>2, <1>4, <1>5, SeqEqual

(***************************************************************************)
(* Bytes are taken from the front of the queue, and gathered at the end of *)
(* bytes[].                                                                *)
(***************************************************************************)
LEMMA QueueFacts ==
  ASSUME NEW a, NEW b, NEW c
  PROVE  /\ << a, b, c >> # << >> /\ Head(<< a, b, c >>) = a /\ Tail(<< a, b, c >>) = << b, c >>
         /\ << b, c >> # << >> /\ Head(<< b, c >>) = b /\ Tail(<< b, c >>) = << c >>
         /\ << c >> # << >> /\ Head(<< c >>) = c /\ Tail(<< c >>) = << >>
<1>1. << a, b, c >> # << >> /\ Head(<< a, b, c >>) = a
  OBVIOUS
<1>2. Tail(<< a, b, c >>) = << b, c >>
  OBVIOUS
<1>3. << b, c >> # << >> /\ Head(<< b, c >>) = b
  OBVIOUS
<1>4. Tail(<< b, c >>) = << c >>
  OBVIOUS
<1>5. << c >> # << >> /\ Head(<< c >>) = c /\ Tail(<< c >>) = << >>
  OBVIOUS
<1> QED
  BY <1>1, <1>2, <1>3, <1>4, <1>5

LEMMA GatherFacts ==
  ASSUME NEW a, NEW b, NEW c
  PROVE  /\ Append(<< >>, a) = << a >> /\ Len(<< a >>) = 1
         /\ Append(<< a >>, b) = << a, b >> /\ Len(<< a, b >>) = 2
         /\ Append(<< a, b >>, c) = << a, b, c >> /\ Len(<< a, b, c >>) = 3
         /\ << a >> # << >> /\ << a, b >> # << >>
<1> DEFINE S == {a, b, c}
<1>0. << a >> \in Seq(S) /\ << a, b >> \in Seq(S) /\ << a, b, c >> \in Seq(S)
  OBVIOUS
<1>1. Append(<< >>, a) = << a >> /\ Len(<< a >>) = 1
  OBVIOUS
<1>2. Append(<< a >>, b) = << a, b >> /\ Len(<< a, b >>) = 2
  <2>1. Append(<< a >>, b) \in Seq(S) /\ Len(Append(<< a >>, b)) = 2 /\ Len(<< a, b >>) = 2
    BY <1>0
  <2>2. \A i \in 1 .. 2 : Append(<< a >>, b)[i] = << a, b >>[i]
    OBVIOUS
  <2> QED
    BY <1>0, <2>1, <2>2, SeqEqual
<1>3. Append(<< a, b >>, c) = << a, b, c >> /\ Len(<< a, b, c >>) = 3
  <2>1. /\ Append(<< a, b >>, c) \in Seq(S) /\ Len(Append(<< a, b >>, c)) = 3
        /\ Len(<< a, b, c >>) = 3
    BY <1>0
  <2>2. \A i \in 1 .. 3 : Append(<< a, b >>, c)[i] = << a, b, c >>[i]
    OBVIOUS
  <2> QED
    BY <1>0, <2>1, <2>2, SeqEqual
<1>4. << a >> # << >> /\ << a, b >> # << >>
  OBVIOUS
<1> QED
  BY <1>1, <1>2, <1>3, <1>4

(***************************************************************************)
(* The mouse begins a packet.                                              *)
(***************************************************************************)
LEMMA MovesSendsPacket ==
  ASSUME MouseMoves
  PROVE  \E p \in Packet : sent' = Append(sent, p) /\ queue' = Reports(p)
<1>1. PICK m, n \in Movement :
        /\ sent' = Append(sent, << "head", m, n >>)
        /\ queue' = [i \in 1 .. 3 |-> [byte |-> << "head", m, n >>[i], answer |-> FALSE]]
  BY DEF MouseMoves
<1> DEFINE p == << "head", m, n >>
<1>2. p \in Packet
  BY DEF Packet
<1> DEFINE f == [i \in 1 .. 3 |-> [byte |-> p[i], answer |-> FALSE]]
<1>3. sent' = Append(sent, p) /\ queue' = f
  BY <1>1
<1> HIDE DEF p
<1>4. f[1] = Report(p[1])
  BY DEF Report
<1>5. f[2] = Report(p[2])
  BY DEF Report
<1>6. f[3] = Report(p[3])
  BY DEF Report
<1>7. f = [i \in 1 .. 3 |-> f[i]]
  OBVIOUS
<1> HIDE DEF f
<1>8. f = Reports(p)
  BY <1>4, <1>5, <1>6, <1>7, Triple DEF Reports
<1> QED
  BY <1>2, <1>3, <1>8

LEMMA StreamGetsPacket ==
  ASSUME MouseTypes, StreamWhole, MouseMoves
  PROVE  StreamWhole'
<1>1. PICK q \in Packet : sent' = Append(sent, q) /\ queue' = Reports(q)
  BY MovesSendsPacket
<1>2. queue = << >> /\ UNCHANGED <<bytes, printed, out>>
  BY DEF MouseMoves, assembly
<1>3. CASE sent = printed /\ bytes = << >> /\ out = << >>
  BY <1>1, <1>2, <1>3 DEF StreamWhole, PacketUnderWay
<1>4. ASSUME NEW p \in Packet, sent = Append(printed, p),
             bytes = << p[1], p[2] >>, out = << Arrived(p[3]) >>
      PROVE  StreamWhole'
  BY <1>1, <1>2, <1>4 DEF StreamWhole
<1> QED
  BY <1>2, <1>3, <1>4, QueueFacts DEF StreamWhole, PacketUnderWay, Reports

(***************************************************************************)
(* A byte leaves the mouse.                                                *)
(***************************************************************************)
LEMMA StreamSendsByte ==
  ASSUME MouseTypes, StreamWhole, MouseSends, ~upset'
  PROVE  StreamWhole'
<1>1. /\ out = << >> /\ queue # << >> /\ queue' = Tail(queue)
      /\ UNCHANGED <<bytes, printed, sent>>
      /\ out' = << [byte |-> Head(queue).byte, answer |-> Head(queue).answer, err |-> FALSE] >>
  BY DEF MouseSends, assembly
<1>2. PICK p \in Packet : sent = Append(printed, p) /\ PacketUnderWay(p)
  BY <1>1, QueueFacts DEF StreamWhole
<1>3. \A b : [byte |-> Report(b).byte, answer |-> Report(b).answer, err |-> FALSE] = Arrived(b)
  BY DEF Report, Arrived
<1>4. PacketUnderWay(p)'
  <2>1. CASE bytes = << >> /\ queue = Reports(p)
    <3>1. Head(queue) = Report(p[1]) /\ Tail(queue) = << Report(p[2]), Report(p[3]) >>
      BY <2>1, QueueFacts DEF Reports
    <3>2. out' = << Arrived(p[1]) >>
      BY <1>1, <1>3, <3>1
    <3> QED
      BY <1>1, <2>1, <3>1, <3>2 DEF PacketUnderWay
  <2>2. CASE bytes = << p[1] >> /\ queue = << Report(p[2]), Report(p[3]) >>
    BY <1>1, <1>3, <2>2, QueueFacts DEF PacketUnderWay
  <2>3. CASE bytes = << p[1], p[2] >> /\ queue = << Report(p[3]) >>
    BY <1>1, <1>3, <2>3, QueueFacts DEF PacketUnderWay
  <2> QED
    BY <1>1, <1>2, <2>1, <2>2, <2>3, QueueFacts DEF PacketUnderWay
<1> QED
  BY <1>1, <1>2, <1>4 DEF StreamWhole

(***************************************************************************)
(* A byte is gathered in bytes[], and the third of a packet prints it.     *)
(***************************************************************************)
LEMMA StreamTakesByte ==
  ASSUME MouseTypes, StreamWhole, Interrupt, ~upset'
  PROVE  StreamWhole' /\ IsPrefix(printed, sent)'
<1>1. /\ out # << >> /\ data' = Head(out).byte /\ out' = << >>
      /\ UNCHANGED <<queue, sent>>
      /\ (bytes = << >> /\ data' \notin BIT3) \/ Store(data')
  BY DEF Interrupt
<1>2. printed \in Seq(Seq(Byte)) /\ sent \in Seq(Seq(Byte))
  BY DEF MouseTypes, AssemblyTypes, DeviceTypes
<1>3. \A b : Head(<< Arrived(b) >>).byte = b
  BY DEF Arrived
<1>4. ASSUME NEW p \in Packet, bytes = << p[1], p[2] >>, out = << Arrived(p[3]) >>
      PROVE  bytes' = << >> /\ printed' = Append(printed, p)
  <2>1. Store(p[3])
    BY <1>1, <1>3, <1>4, GatherFacts
  <2> QED
    BY <1>4, <2>1, PacketFacts, GatherFacts DEF Store
<1>5. ASSUME NEW p \in Packet, sent = Append(printed, p), PacketUnderWay(p)
      PROVE  StreamWhole' /\ IsPrefix(printed, sent)'
  <2>1. CASE bytes = << >> /\ out = << Arrived(p[1]) >> /\ queue = << Report(p[2]), Report(p[3]) >>
    <3>1. Store(p[1])
      BY <1>1, <1>3, <2>1, PacketFacts
    <3>2. bytes' = << p[1] >> /\ printed' = printed
      BY <2>1, <3>1, GatherFacts DEF Store
    <3>3. StreamWhole'
      BY <1>1, <1>5, <2>1, <3>2 DEF StreamWhole, PacketUnderWay
    <3> QED
      BY <1>1, <1>2, <1>5, <3>2, <3>3, PrefixFacts, PacketFacts
  <2>2. CASE bytes = << p[1] >> /\ out = << Arrived(p[2]) >> /\ queue = << Report(p[3]) >>
    <3>1. Store(p[2])
      BY <1>1, <1>3, <2>2, GatherFacts
    <3>2. bytes' = << p[1], p[2] >> /\ printed' = printed
      BY <2>2, <3>1, GatherFacts DEF Store
    <3>3. StreamWhole'
      BY <1>1, <1>5, <2>2, <3>2 DEF StreamWhole, PacketUnderWay
    <3> QED
      BY <1>1, <1>2, <1>5, <3>2, <3>3, PrefixFacts, PacketFacts
  <2>3. CASE bytes = << p[1], p[2] >> /\ out = << Arrived(p[3]) >> /\ queue = << >>
    <3>1. StreamWhole'
      BY <1>1, <1>4, <1>5, <2>3 DEF StreamWhole
    <3> QED
      BY <1>1, <1>2, <1>4, <1>5, <2>3, <3>1, PrefixFacts
  <2> QED
    BY <1>1, <1>5, <2>1, <2>2, <2>3 DEF PacketUnderWay
<1>6. ASSUME NEW p \in Packet, NEW q \in Packet, sent = Append(Append(printed, p), q),
             bytes = << p[1], p[2] >>, out = << Arrived(p[3]) >>, queue = Reports(q)
      PROVE  StreamWhole' /\ IsPrefix(printed, sent)'
  <2>1. bytes' = << >> /\ printed' = Append(printed, p)
    BY <1>4, <1>6
  <2>2. StreamWhole'
    BY <1>1, <1>6, <2>1 DEF StreamWhole, PacketUnderWay
  <2>3. Append(printed, p) \in Seq(Seq(Byte)) /\ q \in Seq(Byte)
    BY <1>2, PacketFacts
  <2> QED
    BY <1>1, <1>6, <2>1, <2>2, <2>3, PrefixFacts
<1> QED
  BY <1>1, <1>5, <1>6 DEF StreamWhole

-----------------------------------------------------------------------------
(***************************************************************************)
(* The first command: the mouse sends nothing but its answer, and possibly *)
(* the first packet behind it.                                             *)
(***************************************************************************)
LEMMA InitiallyAlignInv == MouseInit => AlignInv
<1> SUFFICES ASSUME MouseInit PROVE AlignInv
  OBVIOUS
<1>1. printed = << >> /\ sent = << >> /\ << >> \in Seq(Seq(Byte))
  BY DEF MouseInit
<1>2. IsPrefix(printed, sent)
  BY <1>1, PrefixFacts
<1> QED
  BY <1>2 DEF MouseInit, AlignInv, Enabling, NothingSent

LEMMA AnswerStepsEnabling ==
  ASSUME MouseTypes, Enabling, cmd = "ENABLE", ~upset', UNCHANGED <<pc, bytes, printed>>,
         pc \in {"command", "argument", "answer"},
         ControllerTakes \/ MouseAnswers \/ MouseMoves \/ MouseSends
  PROVE  Enabling'
<1>1. CASE ControllerTakes
  <2>1. UNCHANGED NothingSent
    BY <1>1 DEF ControllerTakes, NothingSent
  <2>2. in # << >> /\ in' = << >> /\ aux' = (Head(in) = "WRITE_B_MOUSE")
    BY <1>1 DEF ControllerTakes
  <2>3. CASE pc = "argument"
    <3>1. in = << "WRITE_B_MOUSE" >> /\ asked = << >> /\ NothingSent
      BY <2>2, <2>3 DEF Enabling
    <3>2. Head(in) = "WRITE_B_MOUSE"
      BY <3>1
    <3>3. aux' /\ asked' = << >>
      BY <1>1, <2>2, <3>1, <3>2 DEF ControllerTakes, Command
    <3> QED
      BY <2>1, <2>2, <2>3, <3>1, <3>3 DEF Enabling
  <2>4. CASE pc = "answer"
    BY <1>1, <2>1, <2>2, <2>4 DEF ControllerTakes, Enabling, AnswerUnderWay, Command
  <2> QED
    BY <2>2, <2>3, <2>4 DEF Enabling
<1>2. CASE MouseAnswers
  <2>1. pc = "answer" /\ in = << >> /\ asked = << "ENABLE" >> /\ NothingSent
    BY <1>2 DEF MouseAnswers, Enabling, AnswerUnderWay
  <2>2. PICK a \in Answers :
          /\ queue' = << AnswerOf(a) >>
          /\ reporting' = IF a = "ACK" THEN Head(asked) = "ENABLE" ELSE reporting
    BY <1>2 DEF MouseAnswers, AnswerOf
  <2>3. a \in Answer /\ reporting' = (a = "ACK")
    <3>1. Head(asked) = "ENABLE" /\ reporting = FALSE
      BY <2>1 DEF NothingSent
    <3> QED
      BY <2>2, <3>1, Parameters
  <2>4. AnswerUnderWay'
    BY <1>2, <2>1, <2>2, <2>3 DEF MouseAnswers, NothingSent, AnswerUnderWay
  <2> QED
    BY <2>1, <2>4 DEF Enabling
<1>3. CASE MouseMoves
  <2>1. PICK p \in Packet : sent' = Append(sent, p) /\ queue' = Reports(p)
    BY <1>3, MovesSendsPacket
  <2>2. reporting /\ queue = << >> /\ asked = << >> /\ UNCHANGED <<in, asked, out, reporting>>
    BY <1>3 DEF MouseMoves
  <2>3. /\ pc = "answer" /\ in = << >> /\ queue = << >> /\ sent = << >>
        /\ \E a \in Answer :
             /\ out = << [byte |-> a, answer |-> TRUE, err |-> FALSE] >>
             /\ reporting = (a = "ACK")
    BY <2>2, QueueFacts DEF Enabling, AnswerUnderWay, NothingSent, Reports
  <2>4. sent' = << p >>
    BY <2>1, <2>3, GatherFacts
  <2>5. AnswerUnderWay'
    BY <2>1, <2>2, <2>3, <2>4 DEF AnswerUnderWay
  <2> QED
    BY <2>3, <2>5 DEF Enabling
<1>4. CASE MouseSends
  <2>1. /\ out = << >> /\ queue # << >> /\ queue' = Tail(queue)
        /\ UNCHANGED <<in, asked, reporting, sent>>
        /\ out' = << [byte |-> Head(queue).byte, answer |-> Head(queue).answer, err |-> FALSE] >>
    BY <1>4 DEF MouseSends
  <2>2. pc = "answer" /\ in = << >> /\ asked = << >> /\ sent = << >>
    BY <2>1 DEF Enabling, AnswerUnderWay, NothingSent
  <2>3. PICK a \in Answer : queue = << AnswerOf(a) >> /\ reporting = (a = "ACK")
    BY <2>1, <2>2 DEF Enabling, AnswerUnderWay, NothingSent
  <2>4. Head(queue) = AnswerOf(a) /\ Tail(queue) = << >>
    BY <2>3
  <2>5. out' = << [byte |-> a, answer |-> TRUE, err |-> FALSE] >>
    <3>1. AnswerOf(a).byte = a /\ AnswerOf(a).answer = TRUE
      BY DEF AnswerOf
    <3> QED
      BY <2>1, <2>4, <3>1
  <2>6. AnswerUnderWay'
    BY <2>1, <2>2, <2>3, <2>4, <2>5 DEF AnswerUnderWay
  <2> QED
    BY <2>2, <2>6 DEF Enabling
<1> QED
  BY <1>1, <1>2, <1>3, <1>4

(***************************************************************************)
(* The two writes of the first command.                                    *)
(***************************************************************************)
LEMMA WriteStepsEnabling ==
  ASSUME MouseTypes, AlignInv, ~upset, ~upset', WriteCommand \/ WriteArgument
  PROVE  AlignInv'
<1>1. /\ UNCHANGED <<out, aux, asked, queue, reporting, sent, cmd, bytes, printed>>
      /\ pc \in {"command", "argument"} /\ IsPrefix(printed, sent)
  BY DEF WriteCommand, WriteArgument, WriteByte, assembly, AlignInv
<1>2. \/ in = << >> /\ pc = "command" /\ in' = << "WRITE_B_MOUSE" >> /\ pc' = "argument"
      \/ in = << >> /\ pc = "argument" /\ in' = << cmd >> /\ pc' = "answer"
      \/ in # << >> /\ in' = in /\ pc' \in {pc, "done"}
  <2>1. AfterCommand(1) => pc' = "done"
    BY DEF AfterCommand, Ends
  <2> QED
    BY <2>1 DEF WriteCommand, WriteArgument, WriteByte
<1>3. IsPrefix(printed, sent)'
  BY <1>1
<1>4. ASSUME cmd = "ENABLE", pc' # "done" PROVE Enabling'
  <2>1. Enabling
    BY <1>1, <1>4 DEF AlignInv
  <2>2. UNCHANGED NothingSent
    BY <1>1 DEF NothingSent
  <2>3. << "WRITE_B_MOUSE" >> # << >> /\ << cmd >> # << >>
    OBVIOUS
  <2>4. CASE pc = "command"
    BY <1>1, <1>2, <2>1, <2>2, <2>4 DEF Enabling
  <2>5. CASE pc = "argument" /\ pc' = "argument"
    BY <1>1, <1>2, <1>4, <2>1, <2>2, <2>5 DEF Enabling
  <2>6. CASE pc = "argument" /\ pc' = "answer"
    BY <1>1, <1>2, <1>4, <2>1, <2>2, <2>3, <2>6 DEF Enabling, AnswerUnderWay
  <2> QED
    BY <1>1, <1>2, <1>4, <2>4, <2>5, <2>6
<1>5. pc' \in {"command", "argument", "answer", "done"}
  BY <1>1, <1>2
<1> QED
  BY <1>1, <1>3, <1>4, <1>5 DEF AlignInv

(***************************************************************************)
(* The answer is read: what comes behind it is the stream of packets.      *)
(***************************************************************************)
LEMMA ReadStepsEnabling ==
  ASSUME MouseTypes, AlignInv, ~upset, ~upset', ReadAnswer
  PROVE  AlignInv'
<1>1. /\ UNCHANGED <<in, asked, queue, reporting, sent, cmd, bytes, printed>>
      /\ pc = "answer" /\ IsPrefix(printed, sent)
      /\ out # << >> /\ Head(out).answer /\ out' = << >> /\ Judge(Head(out).byte)
  BY DEF ReadAnswer, assembly, AlignInv
<1>2. cmd # "ENABLE" => pc' \in {"command", "done"}
  BY <1>1 DEF Judge, AfterCommand, Ends, Again
<1>3. ASSUME cmd = "ENABLE"
      PROVE  /\ pc' = "command" => Enabling'
             /\ pc' = "subscribe" => in' = << >> /\ asked' = << >> /\ StreamWhole'
             /\ pc' \in {"command", "subscribe", "done"}
  <2>1. AnswerUnderWay /\ printed = << >> /\ bytes = << >>
    BY <1>1, <1>3 DEF AlignInv, Enabling
  <2>2. PICK a \in Answer :
          /\ out = << [byte |-> a, answer |-> TRUE, err |-> FALSE] >>
          /\ reporting = (a = "ACK")
    BY <1>1, <2>1 DEF AnswerUnderWay, NothingSent
  <2>3. in = << >> /\ asked = << >>
        /\ \/ queue = << >> /\ sent = << >>
           \/ reporting /\ \E p \in Packet : queue = Reports(p) /\ sent = << p >>
    BY <1>1, <2>1 DEF AnswerUnderWay, NothingSent
  <2>4. Judge(a)
    BY <1>1, <2>2
  <2>5. CASE a = "ACK"
    <3>1. pc' = "subscribe"
      BY <1>3, <2>4, <2>5 DEF Judge, AfterCommand, Answer
    <3>2. StreamWhole'
      <4>1. CASE queue = << >> /\ sent = << >>
        BY <1>1, <2>1, <4>1 DEF StreamWhole
      <4>2. ASSUME NEW p \in Packet, queue = Reports(p), sent = << p >> PROVE StreamWhole'
        <5>1. sent' = Append(printed', p)
          BY <1>1, <2>1, <4>2, GatherFacts
        <5> QED
          BY <1>1, <2>1, <4>2, <5>1 DEF StreamWhole, PacketUnderWay
      <4> QED
        BY <2>3, <4>1, <4>2
    <3> QED
      BY <1>1, <2>3, <3>1, <3>2
  <2>6. CASE a # "ACK"
    <3>1. pc' \in {"command", "done"}
      BY <1>3, <2>4, <2>6 DEF Judge, AfterCommand, Ends, Again
    <3>2. pc' = "command" => Enabling'
      BY <1>1, <2>1, <2>2, <2>3, <2>6 DEF Enabling, NothingSent
    <3> QED
      BY <3>1, <3>2
  <2> QED
    BY <2>5, <2>6
<1> QED
  BY <1>1, <1>2, <1>3 DEF AlignInv

LEMMA AlignInvKept == MouseTypes /\ AlignInv /\ [MouseNext]_mouseVars => AlignInv'
<1> SUFFICES ASSUME MouseTypes, AlignInv, [MouseNext]_mouseVars, ~upset' PROVE AlignInv'
  BY DEF AlignInv
<1>0. ~upset
  BY DEF MouseNext, Driver, ControllerTakes, MouseAnswers, MouseMoves, MouseSends, Interrupt,
         WriteCommand, WriteArgument, WriteByte, ReadAnswer, Subscribe, LeaveLoop, Unsubscribe,
         mouseVars
<1>1. CASE ControllerTakes \/ MouseAnswers \/ MouseMoves \/ MouseSends
  <2>1. UNCHANGED <<pc, cmd, bytes, printed>>
    BY <1>1 DEF ControllerTakes, MouseAnswers, MouseMoves, MouseSends, assembly
  <2>2. IsPrefix(printed, sent)'
    <3>1. CASE sent' = sent
      BY <1>0, <2>1, <3>1 DEF AlignInv
    <3>2. CASE MouseMoves
      <4>1. PICK p \in Packet : sent' = Append(sent, p)
        BY <3>2, MovesSendsPacket
      <4>2. p \in Seq(Byte) /\ printed \in Seq(Seq(Byte)) /\ sent \in Seq(Seq(Byte))
        BY PacketFacts DEF MouseTypes, DeviceTypes, AssemblyTypes
      <4> QED
        BY <1>0, <2>1, <4>1, <4>2, PrefixFacts DEF AlignInv
    <3> QED
      BY <1>1, <3>1, <3>2 DEF ControllerTakes, MouseAnswers, MouseSends
  <2>3. cmd = "ENABLE" /\ pc \in {"command", "argument", "answer"} => Enabling'
    BY <1>0, <1>1, <2>1, AnswerStepsEnabling DEF AlignInv
  <2>4. ASSUME pc \in {"subscribe", "loop", "unsubscribe"}
        PROVE  in' = << >> /\ asked' = << >> /\ StreamWhole'
    <3>1. in = << >> /\ asked = << >> /\ StreamWhole
      BY <1>0, <2>4 DEF AlignInv
    <3>2. CASE MouseMoves
      BY <3>1, <3>2, StreamGetsPacket DEF MouseMoves
    <3>3. CASE MouseSends
      BY <3>1, <3>3, StreamSendsByte DEF MouseSends
    <3> QED
      BY <1>1, <3>1, <3>2, <3>3 DEF ControllerTakes, MouseAnswers
  <2> QED
    BY <2>1, <2>2, <2>3, <2>4 DEF AlignInv
<1>2. CASE Interrupt
  <2>1. pc = "loop" /\ UNCHANGED <<pc, in, asked>>
    BY <1>2 DEF Interrupt
  <2> QED
    BY <1>0, <1>2, <2>1, StreamTakesByte DEF AlignInv
<1>3. CASE WriteCommand \/ WriteArgument
  BY <1>0, <1>3, WriteStepsEnabling
<1>4. CASE ReadAnswer
  BY <1>0, <1>4, ReadStepsEnabling
<1>5. CASE Subscribe \/ LeaveLoop \/ Unsubscribe
  <2>1. UNCHANGED <<device, assembly>> /\ pc \in {"subscribe", "loop", "unsubscribe"}
    BY <1>5 DEF Subscribe, LeaveLoop, Unsubscribe
  <2>2. \/ pc' \in {"loop", "unsubscribe"}
        \/ pc' = "command" /\ cmd' = "DISABLE"
    BY <1>5 DEF Subscribe, LeaveLoop, Unsubscribe
  <2>3. UNCHANGED <<in, asked, StreamWhole, printed, sent>>
    BY <2>1 DEF device, assembly, StreamWhole, PacketUnderWay
  <2> QED
    BY <1>0, <2>1, <2>2, <2>3 DEF AlignInv
<1>6. CASE UNCHANGED mouseVars
  <2>1. UNCHANGED <<pc, cmd, upset, in, asked, printed, sent, StreamWhole, Enabling>>
    BY <1>6
       DEF mouseVars, device, assembly, StreamWhole, PacketUnderWay, Enabling, NothingSent,
           AnswerUnderWay
  <2> QED
    BY <2>1 DEF AlignInv
<1> QED
  BY <1>1, <1>2, <1>3, <1>4, <1>5, <1>6 DEF MouseNext, Driver

(***************************************************************************)
(* mouse_test_packet() prints the packets that the mouse sent, in order    *)
(* and without a gap, unless something failed or an answer was late: the   *)
(* loop of lab4.c is never off by a byte.                                  *)
(***************************************************************************)
THEOREM PacketsInStep == MouseSpec => []PacketsAligned
<1>1. AlignInv => PacketsAligned
  BY DEF AlignInv, PacketsAligned
<1> QED
  BY <1>1, InitiallyMouseTypes, MouseTypesKept, InitiallyAlignInv, AlignInvKept, PTL DEF MouseSpec

=============================================================================
