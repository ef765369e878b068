--------------------------- MODULE KeyboardProofs ---------------------------
(***************************************************************************)
(* Proofs about the keyboard driver, for any keys, every command byte,     *)
(* every number of tries and whichever accesses may fail: the settings     *)
(* that kb_restore_settings() restores, and the keys that the programs act *)
(* on.                                                                     *)
(***************************************************************************)
EXTENDS Keyboard, SequenceTheorems, TLAPS

Command(c) == << [cmd |-> c, data |-> {}] >>
NewByte == << [cmd |-> "data", data |-> CONFIG \cup {0}] >>
OldByte == << [data |-> CONFIG, err |-> {}] >>

(***************************************************************************)
(* kbd_test_poll() subscribes nothing, and until it has written the new    *)
(* command byte the controller keeps the old one.                          *)
(***************************************************************************)
PollSteps ==
  /\ subscribed = {}
  /\ pc \notin {"unsubscribe", "tick"} /\ tick = FALSE
  /\ pc = "done" => call = "none"
  /\ pc = "write" => call \in {"read", "update"}
  /\ pc = "argument" => call = "update"
  /\ pc \in {"status", "output"} => call \in {"key", "config"}
  /\ pc \in {"subscribe", "loop"} => call = "none"

OldByteKept ==
  pc # "done" \/ result # 0 =>
    config = CONFIG /\ in \in {<< >>, Command("READ_CMD"), Command("WRITE_CMD")}

(***************************************************************************)
(* The answer to the command that reads the byte is the only byte under    *)
(* way, as long as nothing has crossed it.                                 *)
(***************************************************************************)
Reading ==
  /\ call \in {"none", "key", "read"} /\ pc # "done" => in = << >> /\ ~expects
  /\ call = "read" /\ quiet => out = << >>
  /\ call = "config" => in \in {<< >>, Command("READ_CMD")} /\ ~expects
  /\ call = "config" /\ quiet => out = IF in = << >> THEN OldByte ELSE << >>
  /\ call = "config" /\ quiet /\ pc = "output" => in = << >> /\ status \cap ErrorBits = {}

(***************************************************************************)
(* The new byte is written when the controller expects it.                 *)
(***************************************************************************)
Updating ==
  /\ call = "update" /\ quiet => config_byte = CONFIG \cup {0}
  /\ call = "update" /\ quiet /\ pc = "write" => in = << >> /\ ~expects
  /\ call = "update" /\ quiet /\ pc = "argument" =>
       in = Command("WRITE_CMD") \/ (in = << >> /\ expects)
  /\ pc = "done" /\ quiet /\ result = 0 =>
       \/ in = NewByte /\ expects
       \/ in = << >> /\ config = CONFIG \cup {0}

RestoreInv == program = "poll" => PollSteps /\ OldByteKept /\ Reading /\ Updating

-----------------------------------------------------------------------------
LEMMA BufferFacts ==
  /\ \A c : Command(c) # << >> /\ Head(Command(c)).cmd = c
  /\ Command("READ_CMD") # Command("WRITE_CMD")
  /\ NewByte # << >> /\ Head(NewByte).cmd = "data" /\ Head(NewByte).data = CONFIG \cup {0}
  /\ OldByte # << >> /\ Head(OldByte).data = CONFIG /\ Head(OldByte).err = {}
<1>1. \A c : Command(c) # << >> /\ Head(Command(c)).cmd = c
  BY DEF Command
<1>2. "READ_CMD" # "WRITE_CMD"
  OBVIOUS
<1> QED
  BY <1>1 DEF NewByte, OldByte

(***************************************************************************)
(* What the status register says of the two buffers.                       *)
(***************************************************************************)
LEMMA StatusFacts ==
  /\ OBF \in Status => out # << >>
  /\ IN_BUFFER_FULL \notin Status => in = << >>
  /\ out = OldByte => Status \cap ErrorBits = {}
BY BufferFacts DEF Status, OBF, IN_BUFFER_FULL, ErrorBits

LEMMA InitiallyRestoreInv == KeyboardInit => RestoreInv
BY DEF KeyboardInit, RestoreInv, PollSteps, OldByteKept, Reading, Updating

LEMMA RestoreInvKept == RestoreInv /\ [KeyboardNext]_keyboardVars => RestoreInv'
<1> SUFFICES ASSUME RestoreInv, [KeyboardNext]_keyboardVars, program' = "poll"
             PROVE  PollSteps' /\ OldByteKept' /\ Reading' /\ Updating'
  BY DEF RestoreInv
<1>0. program = "poll"
  BY DEF KeyboardNext, Driver, keyboardVars, KeyArrives, ControllerTakes, Receive,
         Subscribe,
         ReadStatus, ReadOutput, Tick, LeaveLoop, Unsubscribe, Write, WriteArgument
<1>a. PollSteps /\ OldByteKept /\ Reading /\ Updating
  BY <1>0 DEF RestoreInv
<1>1. CASE KeyArrives
  <2>1. PollSteps'
    BY <1>a, <1>1 DEF KeyArrives, timing, PollSteps
  <2>2. OldByteKept'
    BY <1>a, <1>1 DEF KeyArrives, OldByteKept
  <2>3. Reading'
    BY <1>a, <1>1 DEF KeyArrives, Reading, Restoring
  <2>4. Updating'
    BY <1>a, <1>1 DEF KeyArrives, Updating
  <2> QED
    BY <2>1, <2>2, <2>3, <2>4
<1>2. CASE ControllerTakes
  <2>1. PollSteps'
    BY <1>a, <1>2 DEF ControllerTakes, timing, PollSteps
  <2>2. OldByteKept'
    BY <1>a, <1>2, BufferFacts DEF ControllerTakes, OldByteKept
  <2>5. call = "config" => out' = OldByte
    BY <1>a, <1>2, BufferFacts
       DEF ControllerTakes, OldByteKept, Reading, PollSteps, OldByte
  <2>3. Reading'
    BY <1>a, <1>2, <2>5, BufferFacts DEF ControllerTakes, PollSteps, Reading
  <2>4. Updating'
    BY <1>a, <1>2, BufferFacts DEF ControllerTakes, Updating
  <2> QED
    BY <2>1, <2>2, <2>3, <2>4
<1>3. CASE Subscribe
  <2>1. PollSteps'
    BY <1>a, <1>3 DEF Subscribe, Wanted, Interrupts, timing, PollSteps
  <2>2. OldByteKept'
    BY <1>a, <1>3 DEF Subscribe, controller, OldByteKept
  <2>3. Reading'
    BY <1>a, <1>3 DEF Subscribe, Ends, controller, Reading
  <2>4. Updating'
    BY <1>a, <1>3 DEF Subscribe, Ends, Updating
  <2> QED
    BY <2>1, <2>2, <2>3, <2>4
<1>4. CASE Receive
  <2>1. PollSteps'
    BY <1>a, <1>4 DEF Receive, PollSteps
  <2>2. OldByteKept'
    BY <1>a, <1>4 DEF Receive, OldByteKept
  <2>3. Reading'
    BY <1>a, <1>4 DEF Receive, PollSteps, Reading
  <2>4. Updating'
    BY <1>a, <1>4 DEF Receive, Updating
  <2> QED
    BY <2>1, <2>2, <2>3, <2>4
<1>5. CASE ReadStatus
  <2>1. PollSteps'
    BY <1>a, <1>5 DEF ReadStatus, AfterRead, Ends, PollSteps
  <2>2. OldByteKept'
    BY <1>a, <1>5 DEF ReadStatus, controller, OldByteKept
  <2>3. Reading'
    BY <1>a, <1>5, StatusFacts DEF ReadStatus, AfterRead, Ends, controller, Reading
  <2>4. Updating'
    BY <1>a, <1>5 DEF ReadStatus, AfterRead, Ends, Updating
  <2> QED
    BY <2>1, <2>2, <2>3, <2>4
<1>6. CASE ReadOutput
  <2>1. PollSteps'
    BY <1>a, <1>6 DEF ReadOutput, AfterRead, Ends, PollSteps
  <2>2. OldByteKept'
    BY <1>a, <1>6 DEF ReadOutput, OldByteKept
  <2>3. Reading'
    BY <1>a, <1>6 DEF ReadOutput, AfterRead, Ends, Reading
  <2>4. Updating'
    BY <1>a, <1>6, BufferFacts DEF ReadOutput, AfterRead, Ends, Reading, Updating
  <2> QED
    BY <2>1, <2>2, <2>3, <2>4
<1>7. CASE LeaveLoop
  <2>1. PollSteps'
    BY <1>a, <1>7 DEF LeaveLoop, timing, PollSteps
  <2>2. OldByteKept'
    BY <1>a, <1>7 DEF LeaveLoop, controller, OldByteKept
  <2>3. Reading'
    BY <1>a, <1>7 DEF LeaveLoop, controller, PollSteps, Reading
  <2>4. Updating'
    BY <1>7 DEF LeaveLoop, Updating
  <2> QED
    BY <2>1, <2>2, <2>3, <2>4
<1>8. CASE Write
  <2>5. AfterWrite => \/ call = "read" /\ in' = Command("READ_CMD") /\ pc' = "status" /\ call' = "config"
                      \/ call = "update" /\ in' = Command("WRITE_CMD") /\ pc' = "argument" /\ call' = call
    BY DEF AfterWrite, Command
  <2>1. PollSteps'
    BY <1>a, <1>8 DEF Write, AfterWrite, Ends, timing, PollSteps
  <2>2. OldByteKept'
    BY <1>a, <1>8, <2>5 DEF Write, OldByteKept
  <2>3. Reading'
    BY <1>a, <1>8, BufferFacts, <2>5 DEF Write, Ends, Reading
  <2>4. Updating'
    BY <1>a, <1>8, <2>5 DEF Write, Ends, Updating
  <2> QED
    BY <2>1, <2>2, <2>3, <2>4
<1>9. CASE WriteArgument
  <2>5. config_byte = CONFIG \cup {0} => NewByte = << [cmd |-> "data", data |-> config_byte] >>
    BY DEF NewByte
  <2>1. PollSteps'
    BY <1>a, <1>9 DEF WriteArgument, Ends, timing, PollSteps
  <2>2. OldByteKept'
    BY <1>a, <1>9 DEF WriteArgument, Ends, OldByteKept
  <2>3. Reading'
    BY <1>9 DEF WriteArgument, Ends, Reading
  <2>4. Updating'
    <3>1. CASE result' = 0
      <4>1. /\ in' = << [cmd |-> "data", data |-> config_byte] >>
            /\ quiet' = (quiet /\ in = << >>) /\ expects' = expects
            /\ pc' = "done" /\ call' = "none" /\ call = "update" /\ pc = "argument"
        BY <1>a, <1>9, <3>1 DEF WriteArgument, Ends, PollSteps
      <4>2. ASSUME quiet' PROVE in' = NewByte /\ expects'
        BY <1>a, <2>5, <4>1, <4>2, BufferFacts DEF Updating
      <4> QED
        BY <4>1, <4>2 DEF Updating
    <3>2. CASE result' # 0
      BY <1>9, <3>2 DEF WriteArgument, Ends, Updating
    <3> QED
      BY <3>1, <3>2
  <2> QED
    BY <2>1, <2>2, <2>3, <2>4
<1>10. CASE Tick \/ Unsubscribe
  BY <1>a, <1>10 DEF Tick, Unsubscribe, PollSteps
<1>11. CASE UNCHANGED keyboardVars
  BY <1>a, <1>11
     DEF keyboardVars, controller, timing, locals, PollSteps, OldByteKept, Reading, Updating
<1> QED
  BY <1>1, <1>2, <1>3, <1>4, <1>5, <1>6, <1>7, <1>8, <1>9, <1>10, <1>11
     DEF KeyboardNext, Driver

(***************************************************************************)
(* kb_restore_settings() returns 0 only when bit 0 of the command byte is  *)
(* set again and every other bit is as before, and changes nothing when it *)
(* fails, as long as no key came in between and the controller kept up.    *)
(***************************************************************************)
THEOREM RestoredWhenQuiet == KeyboardSpec => []RestoreWhenQuiet
<1>1. RestoreInv => RestoreWhenQuiet
  BY BufferFacts DEF RestoreInv, OldByteKept, Updating, RestoreWhenQuiet
<1> QED
  BY <1>1, InitiallyRestoreInv, RestoreInvKept, PTL DEF KeyboardSpec

-----------------------------------------------------------------------------
KeyRecord == [data : Byte, err : SUBSET ErrorBits]

(***************************************************************************)
(* The programs that wait for interrupts find the byte that was announced. *)
(***************************************************************************)
ByInterrupt ==
  /\ in = << >>
  /\ pc \notin {"write", "argument"}
  /\ call = IF pc \in {"status", "output"} THEN "key" ELSE "none"
  /\ ~faulty => /\ irq => out # << >>
                /\ pc \in {"status", "output"} => out # << >> /\ ~irq
                /\ out # << >> => Head(out).err = {}

(***************************************************************************)
(* The keys taken so far are those that arrived, less the one in the       *)
(* output buffer; what status shows of that one is still true when it is   *)
(* read.                                                                   *)
(***************************************************************************)
Waiting(keys) ==
  IF out = << >> THEN typed = keys
  ELSE \E k \in KeyRecord : out = << k >> /\ typed = Append(keys, k)

Taken ==
  /\ printed \in Seq(Byte)
  /\ \E keys \in Seq(KeyRecord) : Waiting(keys) /\ CleanPart(printed, keys)
  /\ pc = "output" => /\ out # << >>
                      /\ status \cap ErrorBits = {} <=> Head(out).err = {}

Taking == (program = "poll" \/ ~faulty) /\ ~Restoring /\ pc # "done"

KeysInv ==
  /\ call \in Call
  /\ program # "poll" => ByInterrupt
  /\ Taking => Taken

(***************************************************************************)
(* One more key: it is printed, or it came with an error.                  *)
(***************************************************************************)
Picks(f, a, keys, A, K) ==
  /\ f \in [A -> K]
  /\ \A i, j \in A : i < j => f[i] < f[j]
  /\ \A k \in K : keys[k].err = {} <=> \E i \in A : f[i] = k
  /\ \A i \in A : a[i] = keys[f[i]].data

LEMMA CleanPartPicks ==
  ASSUME NEW a, NEW keys
  PROVE  CleanPart(a, keys) <=> \E f : Picks(f, a, keys, DOMAIN a, DOMAIN keys)
BY DEF CleanPart, Picks

LEMMA NoneOfNone == CleanPart(<< >>, << >>)
<1> DEFINE f == [i \in {} |-> 0]
<1>1. DOMAIN << >> = {} /\ f \in [{} -> {}]
  OBVIOUS
<1> QED
  BY <1>1 DEF CleanPart

LEMMA CleanKeyTaken ==
  ASSUME NEW a \in Seq(Byte), NEW keys \in Seq(KeyRecord), NEW k \in KeyRecord,
         CleanPart(a, keys), k.err = {}
  PROVE  CleanPart(Append(a, k.data), Append(keys, k))
<1> DEFINE m == Len(a)
           n == Len(keys)
           b == Append(a, k.data)
           more == Append(keys, k)
<1>1. /\ DOMAIN a = 1 .. m /\ DOMAIN keys = 1 .. n /\ m \in Nat /\ n \in Nat
      /\ DOMAIN b = 1 .. m + 1 /\ DOMAIN more = 1 .. n + 1
  BY DEF KeyRecord
<1>2. b[m + 1] = k.data /\ \A i \in 1 .. m : b[i] = a[i]
  OBVIOUS
<1>3. more[n + 1] = k /\ \A i \in 1 .. n : more[i] = keys[i]
  OBVIOUS
<1> HIDE DEF b, more, m, n
<1>a. PICK f : Picks(f, a, keys, 1 .. m, 1 .. n)
  BY <1>1, CleanPartPicks
<1>4. /\ f \in [1 .. m -> 1 .. n]
      /\ \A i, j \in 1 .. m : i < j => f[i] < f[j]
      /\ \A l \in 1 .. n : keys[l].err = {} <=> \E i \in 1 .. m : f[i] = l
      /\ \A i \in 1 .. m : a[i] = keys[f[i]].data
  BY <1>a DEF Picks
<1> DEFINE g == [i \in 1 .. m + 1 |-> IF i = m + 1 THEN n + 1 ELSE f[i]]
<1>5. g[m + 1] = n + 1 /\ \A i \in 1 .. m : g[i] = f[i] /\ f[i] \in 1 .. n
  BY <1>1, <1>4
<1>6. g \in [1 .. m + 1 -> 1 .. n + 1]
  BY <1>1, <1>4
<1> HIDE DEF g
<1>0. /\ \A i \in 1 .. m + 1 : i = m + 1 \/ i \in 1 .. m
      /\ \A l \in 1 .. n + 1 : l = n + 1 \/ l \in 1 .. n
      /\ \A i \in 1 .. m : i \in 1 .. m + 1 /\ i # m + 1 /\ i < m + 1
      /\ \A l \in 1 .. n : l # n + 1 /\ l < n + 1
      /\ m + 1 \in 1 .. m + 1
  BY <1>1
<1>7. ASSUME NEW i \in 1 .. m + 1, NEW j \in 1 .. m + 1, i < j PROVE g[i] < g[j]
  <2>1. i \in 1 .. m
    BY <1>1, <1>7
  <2>2. CASE j = m + 1
    BY <1>0, <1>5, <2>1, <2>2
  <2>3. CASE j \in 1 .. m
    BY <1>4, <1>5, <1>7, <2>1, <2>3
  <2> QED
    BY <1>0, <2>2, <2>3
<1>8. ASSUME NEW l \in 1 .. n + 1
      PROVE  more[l].err = {} <=> \E i \in 1 .. m + 1 : g[i] = l
  <2>1. CASE l = n + 1
    BY <1>0, <1>3, <1>5, <2>1
  <2>2. CASE l \in 1 .. n
    <3>1. more[l].err = {} <=> \E i \in 1 .. m : f[i] = l
      BY <1>3, <1>4, <2>2
    <3>2. (\E i \in 1 .. m : f[i] = l) <=> \E i \in 1 .. m + 1 : g[i] = l
      BY <1>0, <1>5, <2>2
    <3> QED
      BY <3>1, <3>2
  <2> QED
    BY <1>0, <2>1, <2>2
<1>9. ASSUME NEW i \in 1 .. m + 1 PROVE b[i] = more[g[i]].data
  <2>1. CASE i = m + 1
    BY <1>2, <1>3, <1>5, <2>1
  <2>2. CASE i \in 1 .. m
    BY <1>2, <1>3, <1>4, <1>5, <2>2
  <2> QED
    BY <1>0, <2>1, <2>2
<1>10. Picks(g, b, more, 1 .. m + 1, 1 .. n + 1)
  BY <1>6, <1>7, <1>8, <1>9 DEF Picks
<1>11. CleanPart(b, more)
  BY <1>1, <1>10, CleanPartPicks
<1> QED
  BY <1>11 DEF b, more

LEMMA SpoiltKeyDropped ==
  ASSUME NEW a \in Seq(Byte), NEW keys \in Seq(KeyRecord), NEW k \in KeyRecord,
         CleanPart(a, keys), k.err # {}
  PROVE  CleanPart(a, Append(keys, k))
<1> DEFINE m == Len(a)
           n == Len(keys)
           more == Append(keys, k)
<1>1. /\ DOMAIN a = 1 .. m /\ DOMAIN keys = 1 .. n /\ m \in Nat /\ n \in Nat
      /\ DOMAIN more = 1 .. n + 1
  OBVIOUS
<1>2. more[n + 1] = k /\ \A i \in 1 .. n : more[i] = keys[i]
  OBVIOUS
<1> HIDE DEF more, m, n
<1>a. PICK f : Picks(f, a, keys, 1 .. m, 1 .. n)
  BY <1>1, CleanPartPicks
<1>3. /\ f \in [1 .. m -> 1 .. n]
      /\ \A i, j \in 1 .. m : i < j => f[i] < f[j]
      /\ \A l \in 1 .. n : keys[l].err = {} <=> \E i \in 1 .. m : f[i] = l
      /\ \A i \in 1 .. m : a[i] = keys[f[i]].data
  BY <1>a DEF Picks
<1>4. f \in [1 .. m -> 1 .. n + 1]
  BY <1>1, <1>3
<1>5. ASSUME NEW l \in 1 .. n + 1
      PROVE  more[l].err = {} <=> \E i \in 1 .. m : f[i] = l
  <2>1. CASE l = n + 1
    BY <1>1, <1>2, <1>3, <2>1
  <2>2. CASE l \in 1 .. n
    BY <1>2, <1>3, <2>2
  <2> QED
    BY <1>1, <2>1, <2>2
<1>6. \A i \in 1 .. m : a[i] = more[f[i]].data
  BY <1>2, <1>3
<1>7. Picks(f, a, more, 1 .. m, 1 .. n + 1)
  BY <1>3, <1>4, <1>5, <1>6 DEF Picks
<1>8. CleanPart(a, more)
  BY <1>1, <1>7, CleanPartPicks
<1> QED
  BY <1>8 DEF more

LEMMA InitiallyKeysInv == KeyboardInit => KeysInv
<1> SUFFICES ASSUME KeyboardInit PROVE KeysInv
  OBVIOUS
<1>1. call \in Call /\ ByInterrupt
  BY DEF KeyboardInit, Call, ByInterrupt
<1>2. Waiting(<< >>) /\ CleanPart(printed, << >>)
  BY NoneOfNone DEF KeyboardInit, Waiting
<1>3. printed \in Seq(Byte) /\ << >> \in Seq(KeyRecord) /\ pc # "output"
  BY DEF KeyboardInit
<1> QED
  BY <1>1, <1>2, <1>3 DEF KeysInv, Taken

(***************************************************************************)
(* A step that leaves the buffer and the keys alone, and looks at no       *)
(* status.                                                                 *)
(***************************************************************************)
LEMMA StillTaken ==
  ASSUME Taken, UNCHANGED <<out, typed, printed>>,
         pc' = "output" => pc = "output" /\ status' = status
  PROVE  Taken'
<1>1. PICK keys \in Seq(KeyRecord) : Waiting(keys) /\ CleanPart(printed, keys)
  BY DEF Taken
<1>2. Waiting(keys)' /\ CleanPart(printed', keys)
  BY <1>1 DEF Waiting
<1> QED
  BY <1>2 DEF Taken

LEMMA CallKept == call \in Call /\ [KeyboardNext]_keyboardVars => call' \in Call
BY DEF Call, KeyboardNext, Driver, keyboardVars, KeyArrives, ControllerTakes, Receive,
       Subscribe, ReadStatus, ReadOutput, Tick, LeaveLoop, Unsubscribe, Write, WriteArgument,
       AfterRead, AfterWrite, Ends

(***************************************************************************)
(* Nothing but the loop's own steps leads to a state in which keys are     *)
(* taken.                                                                  *)
(***************************************************************************)
LEMMA TakenBefore == [KeyboardNext]_keyboardVars /\ RestoreInv /\ KeysInv /\ Taking' => Taking
<1> SUFFICES ASSUME [KeyboardNext]_keyboardVars, RestoreInv, KeysInv, Taking' PROVE Taking
  OBVIOUS
<1>1. program' = program
  BY DEF KeyboardNext, Driver, keyboardVars, KeyArrives, ControllerTakes, Receive,
         Subscribe, ReadStatus, ReadOutput, Tick, LeaveLoop, Unsubscribe, Write, WriteArgument
<1>2. faulty => faulty'
  <2>1. CASE KeyArrives
    BY <2>1 DEF KeyArrives
  <2>2. CASE ~KeyArrives
    BY <2>2
       DEF KeyboardNext, Driver, keyboardVars, ControllerTakes, Receive, Subscribe,
           ReadStatus, ReadOutput, Tick, LeaveLoop, Unsubscribe, Write, WriteArgument
  <2> QED
    BY <2>1, <2>2
<1>3. ~Restoring /\ pc # "done"
  <2>1. call' \notin {"read", "config", "update"} /\ pc' # "done"
    BY DEF Taking, Restoring
  <2>2. CASE KeyArrives \/ ControllerTakes \/ UNCHANGED keyboardVars
    BY <2>1, <2>2 DEF KeyArrives, ControllerTakes, keyboardVars, Restoring
  <2>0. pc = "loop" => call = "none"
    BY DEF RestoreInv, PollSteps, KeysInv, ByInterrupt
  <2>3. CASE Receive \/ Subscribe \/ Unsubscribe \/ Tick \/ LeaveLoop
    BY <2>0, <2>1, <2>3 DEF Receive, Subscribe, Unsubscribe, Tick, LeaveLoop, Ends, Restoring
  <2>4. CASE ReadStatus \/ ReadOutput
    BY <2>1, <2>4 DEF ReadStatus, ReadOutput, AfterRead, Ends, Restoring
  <2>5. CASE Write \/ WriteArgument
    BY <2>1, <2>5 DEF Write, WriteArgument, AfterWrite, Ends, Restoring
  <2> QED
    BY <2>2, <2>3, <2>4, <2>5 DEF KeyboardNext, Driver
<1> QED
  BY <1>1, <1>2, <1>3 DEF Taking

(***************************************************************************)
(* While keys are taken nothing is in the input buffer; a full output      *)
(* buffer shows in the status register, with the errors of its key.        *)
(***************************************************************************)
LEMMA NoInput == RestoreInv /\ KeysInv /\ Taking => in = << >>
BY DEF RestoreInv, Reading, KeysInv, ByInterrupt, Taking, Restoring, Call

LEMMA KeyShows ==
  ASSUME NEW k \in KeyRecord, out = << k >>
  PROVE  OBF \in Status /\ (Status \cap ErrorBits = {} <=> k.err = {})
<1>1. Head(out) = k /\ out # << >> /\ k.err \subseteq ErrorBits
  BY DEF KeyRecord
<1> QED
  BY <1>1 DEF Status, OBF, IN_BUFFER_FULL, ErrorBits

LEMMA ByInterruptKept ==
  ASSUME KeysInv, [KeyboardNext]_keyboardVars, program' # "poll"
  PROVE  ByInterrupt'
<1>0. program # "poll" /\ ByInterrupt
  BY DEF KeysInv, KeyboardNext, Driver, keyboardVars, KeyArrives, ControllerTakes, Receive,
         Subscribe, ReadStatus, ReadOutput, Tick, LeaveLoop, Unsubscribe, Write, WriteArgument
<1>1. CASE KeyArrives
  <2>1. PICK k \in Keys, e \in Errors \cup {{}} :
          /\ out' = << [data |-> k, err |-> e] >>
          /\ faulty' = (faulty \/ e # {})
    BY <1>1 DEF KeyArrives
  <2>2. out' # << >> /\ Head(out').err = e
    BY <2>1
  <2> QED
    BY <1>0, <1>1, <2>1, <2>2 DEF KeyArrives, ByInterrupt
<1>2. CASE ControllerTakes
  BY <1>0, <1>2 DEF ControllerTakes, ByInterrupt
<1>3. CASE Receive
  <2>1. UNCHANGED <<in, out, faulty>> /\ pc = "loop"
    BY <1>3 DEF Receive
  <2>2. CASE pc' = "status" /\ call' = "key" /\ irq /\ irq' = FALSE
    BY <1>0, <2>1, <2>2 DEF ByInterrupt
  <2>3. CASE pc' = "tick" /\ UNCHANGED <<irq, call>>
    BY <1>0, <2>1, <2>3 DEF ByInterrupt
  <2> QED
    BY <1>0, <1>3, <2>2, <2>3 DEF Receive
<1>4. CASE Subscribe \/ Unsubscribe
  BY <1>0, <1>4 DEF Subscribe, Unsubscribe, Ends, controller, ByInterrupt
<1>5. CASE ReadStatus
  BY <1>0, <1>5 DEF ReadStatus, AfterRead, controller, ByInterrupt
<1>6. CASE ReadOutput
  BY <1>0, <1>6 DEF ReadOutput, AfterRead, ByInterrupt
<1>7. CASE Tick \/ LeaveLoop
  BY <1>0, <1>7 DEF Tick, LeaveLoop, controller, ByInterrupt
<1>8. CASE Write \/ WriteArgument
  BY <1>0, <1>8 DEF Write, WriteArgument, ByInterrupt
<1>9. CASE UNCHANGED keyboardVars
  BY <1>0, <1>9 DEF keyboardVars, controller, ByInterrupt
<1> QED
  BY <1>1, <1>2, <1>3, <1>4, <1>5, <1>6, <1>7, <1>8, <1>9 DEF KeyboardNext, Driver

LEMMA TakenKept ==
  ASSUME RestoreInv, KeysInv, [KeyboardNext]_keyboardVars, Taking'
  PROVE  Taken'
<1>0. Taking /\ Taken /\ (program # "poll" => ByInterrupt) /\ call \in {"none", "key"}
  BY TakenBefore DEF KeysInv, Taking, Restoring, Call
<1>1. PICK keys \in Seq(KeyRecord) : Waiting(keys) /\ CleanPart(printed, keys)
  BY <1>0 DEF Taken
<1>2. CASE KeyArrives
  <2>1. out = << >> /\ typed = keys /\ pc # "output"
    BY <1>0, <1>1, <1>2 DEF KeyArrives, Waiting, Taken
  <2>2. PICK k \in Keys, e \in Errors \cup {{}} :
          /\ out' = << [data |-> k, err |-> e] >>
          /\ typed' = Append(typed, [data |-> k, err |-> e])
    BY <1>2 DEF KeyArrives
  <2>3. [data |-> k, err |-> e] \in KeyRecord
    BY KeyboardAssumption DEF KeyRecord
  <2>4. Waiting(keys)'
    BY <2>1, <2>2, <2>3 DEF Waiting
  <2>5. printed' = printed /\ pc' # "output" /\ printed \in Seq(Byte)
    BY <1>0, <1>2, <2>1 DEF KeyArrives, Taken
  <2> QED
    BY <1>1, <2>4, <2>5 DEF Taken
<1>3. CASE ControllerTakes
  BY <1>0, <1>3, NoInput DEF ControllerTakes
<1>4. CASE Receive
  BY <1>0, <1>4, StillTaken DEF Receive
<1>5. CASE Subscribe \/ Unsubscribe
  BY <1>0, <1>5, StillTaken DEF Subscribe, Unsubscribe, Ends, controller, locals
<1>6. CASE ReadStatus
  <2>1. CASE OBF \in Status /\ status' = Status /\ UNCHANGED <<out, typed, printed>>
    <3>1. out # << >>
      BY <2>1, StatusFacts
    <3>2. PICK k \in KeyRecord : out = << k >>
      BY <1>1, <3>1 DEF Waiting
    <3>3. Head(out') = k /\ out' # << >> /\ (status' \cap ErrorBits = {} <=> k.err = {})
      BY <2>1, <3>2, KeyShows
    <3>4. Waiting(keys)' /\ CleanPart(printed', keys) /\ printed' \in Seq(Byte)
      BY <1>0, <1>1, <2>1 DEF Waiting, Taken
    <3> QED
      BY <3>3, <3>4 DEF Taken
  <2>2. CASE pc' # "output" /\ UNCHANGED <<out, typed, printed>>
    BY <1>0, <2>2, StillTaken
  <2>3. program = "poll" \/ ~faulty'
    BY <1>6 DEF Taking, ReadStatus
  <2>4. program # "poll" => OBF \in Status
    <3>1. program # "poll" => out # << >>
      BY <1>0, <1>6 DEF ReadStatus, ByInterrupt, Taking
    <3> QED
      BY <3>1 DEF Status
  <2> QED
    BY <1>0, <1>6, <2>1, <2>2, <2>3, <2>4 DEF ReadStatus, AfterRead, Ends, controller
<1>7. CASE ReadOutput
  <2>1. PICK k \in KeyRecord : out = << k >> /\ typed = Append(keys, k)
    BY <1>0, <1>1, <1>7 DEF ReadOutput, Taken, Waiting
  <2>2. Head(out) = k /\ k.data \in Byte /\ (status \cap ErrorBits = {} <=> k.err = {})
    BY <1>0, <1>7, <2>1 DEF ReadOutput, Taken, KeyRecord
  <2>3. typed' = typed /\ pc' # "output" /\ call = "key"
    BY <1>0, <1>7 DEF ReadOutput, AfterRead, Ends
  <2>4. printed \in Seq(Byte) /\ Append(keys, k) \in Seq(KeyRecord)
    BY <1>0 DEF Taken
  <2>5. CASE out' = << >> /\ k.err = {}
    <3>1. printed' = Append(printed, k.data)
      BY <1>7, <2>1, <2>2, <2>3, <2>5 DEF ReadOutput, AfterRead
    <3>2. CleanPart(printed', Append(keys, k))
      BY <1>1, <2>4, <2>5, <3>1, CleanKeyTaken
    <3>3. printed' \in Seq(Byte)
      BY <2>2, <2>4, <3>1
    <3> QED
      BY <2>1, <2>3, <2>4, <2>5, <3>2, <3>3 DEF Taken, Waiting
  <2>6. CASE out' = << >> /\ k.err # {}
    <3>1. program = "poll"
      BY <1>0, <2>1, <2>2, <2>6 DEF Taking, ByInterrupt
    <3>2. printed' = printed
      BY <1>7, <2>1, <2>2, <2>3, <2>6, <3>1 DEF ReadOutput, AfterRead
    <3>3. CleanPart(printed', Append(keys, k))
      BY <1>1, <2>4, <2>6, <3>2, SpoiltKeyDropped
    <3> QED
      BY <2>1, <2>3, <2>4, <2>6, <3>2, <3>3 DEF Taken, Waiting
  <2>7. CASE out' # << >>
    <3>1. out' = out /\ faulty' = TRUE /\ AfterRead(1, Output)
      BY <1>7, <2>7 DEF ReadOutput
    <3>2. program = "poll"
      BY <1>7, <3>1 DEF ReadOutput, Taking
    <3>3. printed' = printed
      BY <2>3, <3>1, <3>2 DEF AfterRead
    <3> QED
      BY <1>0, <2>3, <3>1, <3>3, StillTaken
  <2> QED
    BY <2>5, <2>6, <2>7
<1>8. CASE Tick \/ LeaveLoop
  BY <1>0, <1>8, StillTaken DEF Tick, LeaveLoop, controller, locals
<1>9. CASE Write \/ WriteArgument
  BY <1>0, <1>9, StillTaken DEF Write, WriteArgument, AfterWrite, Ends, Taking, Restoring
<1>10. CASE UNCHANGED keyboardVars
  BY <1>0, <1>10, StillTaken DEF keyboardVars, controller, locals
<1> QED
  BY <1>2, <1>3, <1>4, <1>5, <1>6, <1>7, <1>8, <1>9, <1>10 DEF KeyboardNext, Driver

(***************************************************************************)
(* read_keyboard_output() loses, repeats and reorders nothing: the keys    *)
(* that the program has printed are those that arrived, in their order,    *)
(* less the ones that came with an error and the one in the output buffer; *)
(* kbd_test_poll() keeps to that whatever fails, the loops on kbc_ih() as  *)
(* long as nothing does.                                                   *)
(***************************************************************************)
THEOREM KeysTakenInOrder == KeyboardSpec => []KeysInOrder
<1>1. ASSUME KeysInv PROVE KeysInOrder
  <2> SUFFICES ASSUME Taking
               PROVE  CleanPart(printed, IF out = << >> THEN typed ELSE Front(typed))
    BY DEF KeysInOrder, Taking
  <2>1. PICK keys \in Seq(KeyRecord) : Waiting(keys) /\ CleanPart(printed, keys)
    BY <1>1 DEF KeysInv, Taken
  <2>2. CASE out = << >>
    BY <2>1, <2>2 DEF Waiting
  <2>3. CASE out # << >>
    <3>1. PICK k \in KeyRecord : typed = Append(keys, k)
      BY <2>1, <2>3 DEF Waiting
    <3>2. Front(typed) = keys
      BY <3>1 DEF Front
    <3> QED
      BY <2>1, <2>3, <3>2
  <2> QED
    BY <2>2, <2>3
<1>2. RestoreInv /\ KeysInv /\ [KeyboardNext]_keyboardVars => KeysInv'
  BY CallKept, ByInterruptKept, TakenKept DEF KeysInv
<1> QED
  BY <1>1, <1>2, InitiallyRestoreInv, RestoreInvKept, InitiallyKeysInv, PTL DEF KeyboardSpec

=============================================================================
