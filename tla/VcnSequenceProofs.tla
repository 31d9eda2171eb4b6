------------------------- MODULE VcnSequenceProofs -------------------------
(***************************************************************************)
(* For every pre-state of the registers, every number of polls and boots:  *)
(* the types of VcnSequence, the table and the masks that decide, and what *)
(* the driver makes of rejected messages.                                  *)
(***************************************************************************)
EXTENDS VcnSequence, VcnProgramProofs

-----------------------------------------------------------------------------
(* The types.  A line leads to the next one only if there is a next one:   *)
(* the last line is a final read, and that is known from the phase.        *)
PhaseOK ==
  /\ phase = "alive" <=> op.kind = "alive"
  /\ phase = "read" => op.kind # "write"
  /\ phase \in {"set", "write", "check"} => op.kind \in {"grant", "rmw", "write"}
  /\ phase = "check" => op.kind # "write"

TInv == TypeOK /\ PhaseOK

LEMMA OpType == TypeOK => op \in Op
BY ProgramOp DEF TypeOK, op

LEMMA GotoType ==
  ASSUME NEW line \in Line, TypeOK, Goto(line)
  PROVE  /\ pc' = line /\ word' \in Word
         /\ phase' \in {"alive", "read", "set", "write", "check"}
         /\ attempt' \in 0..(REG_POLL_TIMEOUT_LOOPS - 1)
         /\ result' = result
         /\ PhaseOK'
<1>1. pc' = line /\ phase' = FirstPhase(line) /\ result' = result
  BY DEF Goto
<1>2. op' = Program[line] /\ Program[line] \in Op
  BY <1>1, ProgramOp DEF op
<1>3. FirstPhase(line) = IF Program[line].kind = "alive" THEN "alive"
                         ELSE IF Program[line].kind = "write" THEN "set" ELSE "read"
  BY DEF FirstPhase
<1>4. PhaseOK'
  BY <1>1, <1>2, <1>3 DEF PhaseOK
<1>5. word' \in Word /\ attempt' \in 0..(REG_POLL_TIMEOUT_LOOPS - 1)
  BY EmptyIsWord, SequenceAssumption DEF Goto
<1> QED
  BY <1>1, <1>3, <1>4, <1>5

(* What the line does not end at leads on.                                 *)
LEMMA AfterType ==
  ASSUME TypeOK, op.kind # "final"
  PROVE  After \in Line
BY LineKinds DEF TypeOK, op, After, Line, FirstPower, AlreadyEnabled

LEMMA ReadingType ==
  ASSUME TypeOK, NEW value \in Readings
  PROVE  value \in Word
<1>1. op.reg \in Register
  BY OpType DEF Op
<1>2. Address[op.reg] \in Word
  BY <1>1, BitsIsWord, EmptyIsWord DEF Register, Address
<1> QED
  BY <1>1, <1>2 DEF Readings, TypeOK

LEMMA FetchType ==
  ASSUME TypeOK, NEW value, Fetch(value)
  PROVE  /\ result = "running"
         /\ pending' = pending /\ boots' = boots /\ cold' = cold
         /\ rejects' \in 0..MaxRejects
<1>1. CASE Raw
  BY <1>1 DEF Fetch, SmnRead32, TypeOK
<1>2. CASE ~Raw
  BY <1>2, SequenceAssumption DEF Fetch, SmnSecureRead32, Send, TypeOK
<1> QED
  BY <1>1, <1>2

LEMMA InitTInv == Init => TInv
<1> SUFFICES ASSUME Init PROVE TInv
  OBVIOUS
<1>1. op = Program[1] /\ Program[1].kind = "alive"
  BY LineKinds DEF Init, op
<1>2. phase = "alive"
  BY <1>1 DEF Init, FirstPhase
<1>3. NoMessage \in Message
  BY RegisterNames, EmptyIsWord DEF NoMessage, Message
<1>4. smn \in [Register -> Word] /\ cold \in [Register -> Word]
  BY SequenceAssumption DEF Init
<1>5. skipped \in BOOLEAN
  BY DEF Init
<1>6. /\ attempt \in 0..(REG_POLL_TIMEOUT_LOOPS - 1)
      /\ rejects \in 0..MaxRejects /\ boots \in 0..MaxBoots
  BY SequenceAssumption DEF Init
<1>7. latch \in Register /\ pending \in Message /\ word \in Word
  BY <1>3, RegisterNames, EmptyIsWord DEF Init
<1>8. pc \in Line /\ result = "running"
  BY DEF Init, Line
<1>9. TypeOK
  BY <1>2, <1>4, <1>5, <1>6, <1>7, <1>8 DEF TypeOK
<1>10. PhaseOK
  BY <1>1, <1>2 DEF PhaseOK
<1> QED
  BY <1>9, <1>10 DEF TInv

LEMMA DriverTInv == TInv /\ Driver => TInv'
<1> SUFFICES ASSUME TInv, Driver PROVE TInv'
  OBVIOUS
<1>o. TypeOK /\ PhaseOK /\ op \in Op
  BY OpType DEF TInv
<1>u. pc' = pc => op' = op
  BY DEF op
<1>a. ASSUME Goto(After), op.kind # "final"
      PROVE  /\ pc' \in Line /\ word' \in Word
             /\ phase' \in {"alive", "read", "set", "write", "check"}
             /\ attempt' \in 0..(REG_POLL_TIMEOUT_LOOPS - 1)
             /\ result' = result
             /\ PhaseOK'
  BY <1>a, <1>o, AfterType, GotoType
<1>1. CASE SmuAlive
  <2> PICK accepted \in BOOLEAN : Send(accepted) /\ (IF accepted THEN Goto(After) ELSE Finish("EFI_DEVICE_ERROR"))
    BY <1>1 DEF SmuAlive
  <2>1. op.kind # "final"
    BY <1>1, <1>o DEF SmuAlive, PhaseOK
  <2>2. /\ pc' \in Line /\ word' \in Word
        /\ phase' \in {"alive", "read", "set", "write", "check"}
        /\ attempt' \in 0..(REG_POLL_TIMEOUT_LOOPS - 1)
        /\ result' \in {"running", "EFI_SUCCESS", "EFI_TIMEOUT", "EFI_DEVICE_ERROR"}
        /\ PhaseOK'
    BY <1>a, <1>o, <1>u, <2>1 DEF Finish, TypeOK, PhaseOK
  <2> QED
    BY <1>1, <1>o, <2>2, SequenceAssumption DEF SmuAlive, Send, TInv, TypeOK
<1>2. CASE ReadOld
  <2> PICK old \in Readings :
        /\ Fetch(old)
        /\ LET new == (old \ op.clear) \union op.set
           IN  IF new = old THEN Goto(After)
               ELSE phase' = "set" /\ word' = new /\ UNCHANGED <<pc, attempt, result>>
    BY <1>2 DEF ReadOld
  <2>1. op.kind \in {"grant", "rmw"}
    BY <1>2 DEF ReadOld
  <2>2. (old \ op.clear) \union op.set \in Word
    BY <1>o, ReadingType DEF Op, Word
  <2>3. /\ pc' \in Line /\ word' \in Word
        /\ phase' \in {"alive", "read", "set", "write", "check"}
        /\ attempt' \in 0..(REG_POLL_TIMEOUT_LOOPS - 1)
        /\ result' = result
        /\ PhaseOK'
    BY <1>a, <1>o, <1>u, <2>1, <2>2 DEF TypeOK, PhaseOK
  <2> QED
    BY <1>2, <1>o, <2>3, FetchType DEF ReadOld, TInv, TypeOK
<1>3. CASE ReadBack
  <2> PICK check \in Readings :
        Fetch(check) /\ IF Confirms(check) THEN Goto(After) ELSE Finish("EFI_DEVICE_ERROR")
    BY <1>3 DEF ReadBack
  <2>1. op.kind # "final"
    BY <1>3, <1>o DEF ReadBack, PhaseOK
  <2>2. /\ pc' \in Line /\ word' \in Word
        /\ phase' \in {"alive", "read", "set", "write", "check"}
        /\ attempt' \in 0..(REG_POLL_TIMEOUT_LOOPS - 1)
        /\ result' \in {"running", "EFI_SUCCESS", "EFI_TIMEOUT", "EFI_DEVICE_ERROR"}
        /\ PhaseOK'
    BY <1>a, <1>o, <1>u, <2>1 DEF Finish, TypeOK, PhaseOK
  <2> QED
    BY <1>3, <1>o, <2>2, FetchType DEF ReadBack, TInv, TypeOK
<1>4. CASE Probe
  <2> PICK found \in Readings :
        /\ Fetch(found)
        /\ skipped' = (op.set \subseteq found)
        /\ Goto(IF op.set \subseteq found THEN AlreadyEnabled ELSE FirstClock)
    BY <1>4 DEF Probe
  <2>1. (IF op.set \subseteq found THEN AlreadyEnabled ELSE FirstClock) \in Line
    BY DEF AlreadyEnabled, FirstClock, Line
  <2>2. /\ pc' \in Line /\ word' \in Word
        /\ phase' \in {"alive", "read", "set", "write", "check"}
        /\ attempt' \in 0..(REG_POLL_TIMEOUT_LOOPS - 1)
        /\ result' = result
        /\ PhaseOK'
    BY <1>o, <2>1, GotoType
  <2> QED
    BY <1>4, <1>o, <2>2, FetchType DEF Probe, TInv, TypeOK
<1>5. CASE SmnPollBit32
  <2> PICK value \in Readings :
        /\ Fetch(value)
        /\ IF value \intersect op.set # {} THEN Goto(After)
           ELSE IF attempt + 1 = REG_POLL_TIMEOUT_LOOPS THEN Finish("EFI_TIMEOUT")
           ELSE attempt' = attempt + 1 /\ UNCHANGED <<pc, phase, word, result>>
    BY <1>5 DEF SmnPollBit32
  <2>1. op.kind # "final"
    BY <1>5 DEF SmnPollBit32
  <2>2. /\ pc' \in Line /\ word' \in Word
        /\ phase' \in {"alive", "read", "set", "write", "check"}
        /\ attempt' \in 0..(REG_POLL_TIMEOUT_LOOPS - 1)
        /\ result' \in {"running", "EFI_SUCCESS", "EFI_TIMEOUT", "EFI_DEVICE_ERROR"}
        /\ PhaseOK'
    BY <1>a, <1>o, <1>u, <2>1, SequenceAssumption DEF Finish, TypeOK, PhaseOK
  <2> QED
    BY <1>5, <1>o, <2>2, FetchType DEF SmnPollBit32, TInv, TypeOK
<1>6. CASE FinalRead
  <2> PICK value \in Readings :
        Fetch(value) /\ Finish(IF op.set \subseteq value THEN "EFI_SUCCESS" ELSE "EFI_DEVICE_ERROR")
    BY <1>6 DEF FinalRead
  <2>1. PhaseOK'
    BY <1>o, <1>u DEF Finish, PhaseOK
  <2> QED
    BY <1>6, <1>o, <2>1, FetchType DEF FinalRead, Finish, TInv, TypeOK
<1>7. CASE SetAddr
  <2> PICK accepted \in BOOLEAN : Send(accepted) /\ latch' = IF accepted THEN op.reg ELSE latch
    BY <1>7 DEF SetAddr
  <2>1. PhaseOK'
    BY <1>7, <1>o, <1>u DEF SetAddr, PhaseOK
  <2>2. latch' \in Register
    BY <1>o DEF Op, TypeOK
  <2> QED
    BY <1>7, <1>o, <2>1, <2>2, SequenceAssumption DEF SetAddr, Send, TInv, TypeOK
<1>8. CASE WriteData
  <2> PICK accepted \in BOOLEAN :
        Send(accepted) /\ smn' = IF accepted THEN [smn EXCEPT ![latch] = Data] ELSE smn
    BY <1>8 DEF WriteData
  <2>1. smn' \in [Register -> Word]
    BY <1>o DEF Data, Op, TypeOK
  <2>2. op.kind \in {"grant", "rmw", "write"}
    BY <1>8, <1>o DEF WriteData, PhaseOK
  <2>3. /\ pc' \in Line /\ word' \in Word
        /\ phase' \in {"alive", "read", "set", "write", "check"}
        /\ attempt' \in 0..(REG_POLL_TIMEOUT_LOOPS - 1)
        /\ result' = result
        /\ PhaseOK'
    BY <1>8, <1>a, <1>o, <1>u, <2>2 DEF WriteData, TypeOK, PhaseOK
  <2> QED
    BY <1>8, <1>o, <2>1, <2>3, SequenceAssumption DEF WriteData, Send, TInv, TypeOK
<1>9. CASE MailboxTimeout
  <2>1. InFlight \in Message
    BY <1>o, EmptyIsWord, RegisterNames DEF InFlight, Message, Data, Op, TypeOK
  <2>2. PhaseOK'
    BY <1>9, <1>o, <1>u DEF MailboxTimeout, Finish, PhaseOK
  <2> QED
    BY <1>9, <1>o, <2>1, <2>2 DEF MailboxTimeout, Finish, TInv, TypeOK
<1> QED
  BY <1>1, <1>2, <1>3, <1>4, <1>5, <1>6, <1>7, <1>8, <1>9 DEF Driver

LEMMA NextTInv == TInv /\ [Next]_vars => TInv'
<1> SUFFICES ASSUME TInv, [Next]_vars PROVE TInv'
  OBVIOUS
<1>1. CASE Driver
  BY <1>1, DriverTInv
<1>2. CASE LateExecute
  <2>1. NoMessage \in Message
    BY RegisterNames, EmptyIsWord DEF NoMessage, Message
  <2>2. latch' \in Register /\ smn' \in [Register -> Word] /\ rejects' \in 0..MaxRejects
    BY <1>2, SequenceAssumption DEF LateExecute, Message, TInv, TypeOK
  <2> QED
    BY <1>2, <2>1, <2>2 DEF LateExecute, driver, TInv, TypeOK, PhaseOK, op
<1>3. ASSUME NEW cause, NEW reg \in Register, NEW bits \in Word, React(cause, reg, bits) PROVE TInv'
  BY <1>3 DEF React, driver, Word, TInv, TypeOK, PhaseOK, op
<1>4. CASE Hardware
  BY <1>3, <1>4, BitsIsWord, RegisterNames DEF Hardware
<1>5. CASE WarmReset
  <2>1. phase' = "alive" /\ pc' = 1 /\ 1 \in Line /\ op' = Program[1]
    BY <1>5, LineKinds DEF WarmReset, FirstPhase, op, Line
  <2>2. PhaseOK'
    BY <2>1, LineKinds DEF PhaseOK
  <2>3. skipped' \in BOOLEAN
    BY <1>5 DEF WarmReset
  <2>4. attempt' \in 0..(REG_POLL_TIMEOUT_LOOPS - 1) /\ boots' \in 0..MaxBoots /\ word' \in Word
    BY <1>5, EmptyIsWord, SequenceAssumption DEF WarmReset, TInv, TypeOK
  <2>5. /\ smn' \in [Register -> Word] /\ cold' \in [Register -> Word]
        /\ latch' \in Register /\ pending' \in Message /\ rejects' \in 0..MaxRejects
    BY <1>5 DEF WarmReset, machine, TInv, TypeOK
  <2>6. result' = "running"
    BY <1>5 DEF WarmReset
  <2> QED
    BY <2>1, <2>2, <2>3, <2>4, <2>5, <2>6 DEF TInv, TypeOK
<1>6. CASE UNCHANGED vars
  BY <1>6 DEF vars, machine, driver, TInv, TypeOK, PhaseOK, op
<1> QED
  BY <1>1, <1>2, <1>4, <1>5, <1>6 DEF Next

(* The driver's locals, the registers and the messages keep their types,   *)
(* and the program never runs past its last line.                          *)
THEOREM TypeCorrect == SafeSpec => []TypeOK
<1>1. TInv => TypeOK
  BY DEF TInv
<1> QED
  BY <1>1, InitTInv, NextTInv, PTL DEF SafeSpec

-----------------------------------------------------------------------------
(* Rejected messages.  A read that was rejected returns the address; the   *)
(* two bits that decide are not set in theirs.                             *)
LEMMA AddressBits ==
  0 \notin Address["CTL_208"] /\ 1 \notin Address["EN_034"] /\ 0 \notin Address["GATE_138"]
<1>1. 0 \notin Bits(\h0115F808)
  BY DEF Bits
<1>2. 1 \notin Bits(\h0100B034)
  BY DEF Bits
<1>3. 0 \notin Bits(\h0115A338)
  BY DEF Bits
<1> QED
  BY <1>1, <1>2, <1>3 DEF Address

(* The driver skips the clock part only if the controller is enabled.      *)
THEOREM SkipOnlyOfEnabled == SafeSpec => SkipsOnlyEnabled
<1>1. ASSUME TInv, [Next]_vars, ~skipped, skipped' PROVE 0 \in smn["CTL_208"]
  <2>1. CASE Probe
    <3>1. pc = 3
      BY <1>1, <2>1, ProbeLine DEF Probe, op, TInv, TypeOK
    <3>2. op.reg = "CTL_208" /\ op.set = Bits(1)
      BY <3>1, Table DEF Opening, op
    <3>3. \E found \in Readings : op.set \subseteq found
      BY <1>1, <2>1 DEF Probe
    <3> QED
      BY <3>2, <3>3, Bits1, AddressBits DEF Readings
  <2>2. CASE Driver /\ ~Probe
    BY <1>1, <2>2 DEF Driver, SmuAlive, ReadOld, ReadBack, SmnPollBit32, FinalRead, SetAddr,
                      WriteData, MailboxTimeout
  <2>3. CASE LateExecute \/ Hardware \/ UNCHANGED vars
    <3>1. skipped' = skipped
      BY <2>3 DEF LateExecute, Hardware, React, vars, driver
    <3> QED
      BY <1>1, <3>1
  <2>4. CASE WarmReset
    BY <1>1, <2>4 DEF WarmReset
  <2> QED
    BY <1>1, <2>1, <2>2, <2>3, <2>4 DEF Next
<1>2. TInv /\ [Next]_vars => [~skipped /\ skipped' => 0 \in smn["CTL_208"]]_vars
  BY <1>1
<1> QED
  BY <1>2, InitTInv, NextTInv, PTL DEF SafeSpec, SkipsOnlyEnabled

-----------------------------------------------------------------------------
(* With one rejection at most, over all boots, success is real.  Once the  *)
(* handshake is seen only the final gate's write may still take it away,   *)
(* when its SET_ADDR was the rejected message and the latch is still on    *)
(* the enable block; and then the gate is found as it was.                 *)
FinalGate ==
  LET spent == rejects = 1 /\ 0 \notin smn["GATE_138"]
  IN  /\ phase # "read" => 0 \in word
      /\ phase = "set" => rejects = 1 \/ 0 \notin smn["GATE_138"]
      /\ phase = "write" => latch = "GATE_138" \/ spent
      /\ 1 \in smn["EN_034"] \/ (phase = "check" /\ spent)

SInv ==
  /\ TInv
  /\ result = "running" /\ pc = 25 => FinalGate
  /\ result = "running" /\ pc \in {26, 27} => 1 \in smn["EN_034"]
  /\ result = "EFI_SUCCESS" =>
       0 \in smn["CTL_208"] /\ 1 \in smn["EN_034"] /\ pending = NoMessage
  /\ pending # NoMessage => pc = 1 \/ result # "running"

LEMMA LastLines ==
  /\ Program[24] = Poll("EN_034", Bits(2))
  /\ Program[25] = Rmw("GATE_138", {}, Bits(1))
  /\ Program[26] = Alive
  /\ Program[27] = [kind |-> "final", reg |-> "CTL_208", clear |-> {}, set |-> Bits(1)]
BY Table DEF EnableBlock, Verify

LEMMA InitSInv == Init => SInv
<1> SUFFICES ASSUME Init PROVE SInv
  OBVIOUS
<1>1. TInv
  BY InitTInv
<1> QED
  BY <1>1 DEF Init, SInv

(* The second rejection does not come.                                     *)
LEMMA FetchOnce ==
  ASSUME MaxRejects <= 1, TypeOK, ~Raw, NEW value, Fetch(value)
  PROVE  \/ rejects' = rejects /\ value = smn[op.reg]
         \/ rejects = 0 /\ rejects' = 1 /\ value = Address[op.reg]
<1> PICK accepted \in BOOLEAN :
      /\ Send(accepted)
      /\ value = IF accepted THEN smn[op.reg] ELSE Address[op.reg]
  BY DEF Fetch, SmnSecureRead32
<1>1. CASE accepted = TRUE
  BY <1>1, SequenceAssumption DEF Send, TypeOK
<1>2. CASE accepted = FALSE
  BY <1>2, SequenceAssumption DEF Send, TypeOK
<1> QED
  BY <1>1, <1>2

LEMMA SendOnce ==
  ASSUME MaxRejects <= 1, TypeOK, NEW accepted \in BOOLEAN, Send(accepted)
  PROVE  /\ result = "running" /\ pending = NoMessage /\ pending' = NoMessage
         /\ accepted => rejects' = rejects
         /\ ~accepted => rejects = 0 /\ rejects' = 1
BY SequenceAssumption DEF Send, TypeOK

LEMMA DriverSInv == MaxRejects <= 1 /\ SInv /\ Driver => SInv'
<1> SUFFICES ASSUME MaxRejects <= 1, SInv, Driver PROVE SInv'
  OBVIOUS
<1>i. TInv /\ TypeOK /\ PhaseOK /\ TInv' /\ pc \in Line
  BY DriverTInv DEF SInv, TInv, TypeOK
<1>r. {"GATE_138", "EN_034", "CTL_208"} \subseteq Register
  BY RegisterNames
<1>k. /\ pc = 24 => op = Program[24]
      /\ pc = 25 => op = Program[25]
      /\ pc = 26 => op = Program[26]
      /\ pc = 27 => op = Program[27]
      /\ pc = 1 => op.kind = "alive"
  BY LineKinds DEF op
<1>o. /\ op.kind \in {"grant", "rmw", "write"} => pc \notin {1, 24, 26, 27}
      /\ op.kind \in {"grant", "write", "poll", "alive", "probe", "final"} => pc # 25
      /\ op.kind \in {"alive", "probe", "final"} => pc # 24
      /\ op.kind \in {"poll", "probe"} => pc \notin {1, 26, 27}
      /\ op.kind = "alive" => pc # 27
      /\ op.kind = "final" => pc # 26
      /\ pc = 25 => op.reg = "GATE_138" /\ op.clear = {} /\ op.set = {0}
  BY <1>k, LastLines, Bits1 DEF Poll, Rmw, Alive
<1>p. result = "running" /\ op.kind # "alive" => pending = NoMessage
  BY <1>k DEF SInv
<1>f. ASSUME NEW value, Fetch(value)
      PROVE  /\ result = "running" /\ pending' = pending
             /\ op.kind # "grant" => ~Raw
  BY <1>f, <1>i, FetchType DEF Raw
(* What a step leaves to show: it leads on, or ends without success.       *)
<1>go. ASSUME Goto(After), result = "running", pending' = NoMessage, op.kind # "final",
              pc \in {24, 25, 26} => 1 \in smn'["EN_034"]
       PROVE  SInv'
  <2>1. pc' = After /\ phase' = FirstPhase(After) /\ result' = "running"
    BY <1>go DEF Goto
  <2>2. pc' \in {25, 26, 27} => pc = pc' - 1
    BY <2>1, <1>i DEF After, AlreadyEnabled, FirstPower, Line
  <2>3. pc' = 25 => phase' = "read"
    BY <2>1, LastLines DEF FirstPhase, Rmw
  <2> QED
    BY <1>go, <1>i, <2>1, <2>2, <2>3 DEF SInv, FinalGate
<1>end. ASSUME NEW status, Finish(status), status \notin {"running", "EFI_SUCCESS"}
        PROVE  SInv'
  BY <1>end, <1>i DEF Finish, SInv
<1>1. CASE SmuAlive
  <2>1. op.kind = "alive" /\ smn' = smn
    BY <1>1, <1>i DEF SmuAlive, PhaseOK
  <2>2. PICK accepted \in BOOLEAN :
          Send(accepted) /\ (IF accepted THEN Goto(After) ELSE Finish("EFI_DEVICE_ERROR"))
    BY <1>1 DEF SmuAlive
  <2>3. result = "running" /\ pending' = NoMessage
    BY <1>i, <2>2, SendOnce
  <2>4. pc \in {24, 25, 26} => 1 \in smn'["EN_034"]
    BY <1>o, <2>1, <2>3 DEF SInv
  <2> QED
    BY <1>go, <1>end, <2>1, <2>2, <2>3, <2>4
<1>2. CASE ReadOld
  <2>1. op.kind \in {"grant", "rmw"} /\ smn' = smn /\ latch' = latch /\ phase = "read"
    BY <1>2 DEF ReadOld
  <2>2. PICK old \in Readings :
          /\ Fetch(old)
          /\ LET new == (old \ op.clear) \union op.set
             IN  IF new = old THEN Goto(After)
                 ELSE phase' = "set" /\ word' = new /\ UNCHANGED <<pc, attempt, result>>
    BY <1>2 DEF ReadOld
  <2>3. result = "running" /\ pending' = NoMessage
    BY <1>f, <1>p, <2>1, <2>2
  <2>4. pc = 25 => 1 \in smn["EN_034"]
    BY <2>1, <2>3 DEF SInv, FinalGate
  <2>5. CASE Goto(After)
    BY <1>go, <1>o, <2>1, <2>3, <2>4, <2>5
  <2>6. CASE /\ phase' = "set" /\ pc' = pc /\ result' = result
             /\ word' = (old \ op.clear) \union op.set /\ word' # old
    <3>1. pc = 25 => 0 \in word' /\ (rejects' = 1 \/ 0 \notin smn'["GATE_138"])
      <4>1. SUFFICES ASSUME pc = 25
                     PROVE  0 \in word' /\ (rejects' = 1 \/ 0 \notin smn'["GATE_138"])
        OBVIOUS
      <4>2. word' = old \union {0} /\ 0 \notin old
        BY <1>o, <2>6, <4>1
      <4>3. rejects' = 1 \/ old = smn["GATE_138"]
        BY <1>f, <1>i, <1>o, <2>2, <4>1, FetchOnce
      <4> QED
        BY <2>1, <4>2, <4>3
    <3> QED
      BY <1>i, <1>o, <2>1, <2>3, <2>4, <2>6, <3>1 DEF SInv, FinalGate
  <2> QED
    BY <2>2, <2>5, <2>6
<1>3. CASE ReadBack
  <2>1. op.kind \in {"grant", "rmw"} /\ smn' = smn /\ phase = "check"
    BY <1>3, <1>i DEF ReadBack, PhaseOK
  <2>2. PICK check \in Readings :
          Fetch(check) /\ IF Confirms(check) THEN Goto(After) ELSE Finish("EFI_DEVICE_ERROR")
    BY <1>3 DEF ReadBack
  <2>3. result = "running" /\ pending' = NoMessage
    BY <1>f, <1>p, <2>1, <2>2
  <2>4. ASSUME pc = 25, Confirms(check) PROVE 1 \in smn["EN_034"]
    <3>1. check = word /\ 0 \in word
      BY <1>o, <2>1, <2>3, <2>4 DEF Confirms, SInv, FinalGate
    <3>2. rejects = 0 \/ check = smn["GATE_138"]
      BY <1>f, <1>i, <1>o, <2>2, <2>4, FetchOnce
    <3> QED
      BY <2>1, <2>3, <2>4, <3>1, <3>2 DEF SInv, FinalGate
  <2> QED
    BY <1>go, <1>end, <1>o, <2>1, <2>2, <2>3, <2>4
<1>4. CASE Probe
  <2>1. op.kind = "probe"
    BY <1>4 DEF Probe
  <2>2. PICK line \in {4, 5}, found \in Readings : Fetch(found) /\ Goto(line)
    BY <1>4 DEF Probe, AlreadyEnabled, FirstClock
  <2>3. pc' \in {4, 5} /\ result' = "running" /\ pending' = NoMessage
    BY <1>f, <1>p, <2>1, <2>2 DEF Goto
  <2> QED
    BY <1>i, <2>3 DEF SInv
<1>5. CASE SmnPollBit32
  <2>1. op.kind = "poll" /\ smn' = smn
    BY <1>5 DEF SmnPollBit32
  <2>2. PICK value \in Readings :
          /\ Fetch(value)
          /\ IF value \intersect op.set # {} THEN Goto(After)
             ELSE IF attempt + 1 = REG_POLL_TIMEOUT_LOOPS THEN Finish("EFI_TIMEOUT")
             ELSE attempt' = attempt + 1 /\ UNCHANGED <<pc, phase, word, result>>
    BY <1>5 DEF SmnPollBit32
  <2>3. result = "running" /\ pending' = NoMessage
    BY <1>f, <1>p, <2>1, <2>2
  <2>4. ASSUME pc = 24, value \intersect op.set # {} PROVE 1 \in smn["EN_034"]
    BY <1>k, <2>4, LastLines, Bits2, AddressBits DEF Poll, Readings
  <2>5. CASE value \intersect op.set # {}
    BY <1>go, <1>o, <2>1, <2>2, <2>3, <2>4, <2>5
  <2>6. CASE Finish("EFI_TIMEOUT")
    BY <1>end, <2>6
  <2>7. CASE pc' = pc /\ result' = result
    BY <1>i, <1>o, <2>1, <2>3, <2>7 DEF SInv
  <2> QED
    BY <2>2, <2>5, <2>6, <2>7
<1>6. CASE FinalRead
  <2>1. op.kind = "final" /\ smn' = smn
    BY <1>6 DEF FinalRead
  <2>2. PICK value \in Readings :
          Fetch(value) /\ Finish(IF op.set \subseteq value THEN "EFI_SUCCESS" ELSE "EFI_DEVICE_ERROR")
    BY <1>6 DEF FinalRead
  <2>3. pc = 27 /\ result = "running" /\ pending' = NoMessage
    BY <1>f, <1>i, <1>p, <2>1, <2>2, FinalLine DEF op
  <2>4. op.set \subseteq value => 0 \in smn["CTL_208"]
    BY <1>k, <2>3, LastLines, Bits1, AddressBits DEF Readings
  <2>5. 1 \in smn["EN_034"]
    BY <2>3 DEF SInv
  <2> QED
    BY <1>end, <1>i, <2>1, <2>2, <2>3, <2>4, <2>5 DEF Finish, SInv
<1>7. CASE SetAddr
  <2>1. /\ op.kind \in {"grant", "rmw", "write"} /\ phase = "set" /\ phase' = "write"
        /\ smn' = smn /\ pc' = pc /\ word' = word /\ result' = result
    BY <1>7, <1>i DEF SetAddr, PhaseOK
  <2>2. PICK accepted \in BOOLEAN :
          Send(accepted) /\ latch' = IF accepted THEN op.reg ELSE latch
    BY <1>7 DEF SetAddr
  <2>3. /\ result = "running" /\ pending' = NoMessage
        /\ ~accepted => rejects = 0 /\ rejects' = 1
    BY <1>i, <2>2, SendOnce
  <2>4. pc = 25 => FinalGate'
    BY <1>o, <2>1, <2>2, <2>3 DEF SInv, FinalGate
  <2> QED
    BY <1>i, <1>o, <2>1, <2>3, <2>4 DEF SInv
<1>8. CASE WriteData
  <2>1. /\ op.kind \in {"grant", "rmw", "write"} /\ phase = "write" /\ latch' = latch
        /\ IF op.kind = "write" THEN Goto(After)
           ELSE phase' = "check" /\ UNCHANGED <<pc, word, attempt, result>>
    BY <1>8, <1>i DEF WriteData, PhaseOK
  <2>2. PICK accepted \in BOOLEAN :
          Send(accepted) /\ smn' = IF accepted THEN [smn EXCEPT ![latch] = Data] ELSE smn
    BY <1>8 DEF WriteData
  <2>3. /\ result = "running" /\ pending' = NoMessage
        /\ accepted => rejects' = rejects
        /\ ~accepted => rejects = 0
    BY <1>i, <2>2, SendOnce
  <2>4. CASE op.kind = "write"
    BY <1>go, <1>o, <2>1, <2>3, <2>4
  <2>5. CASE op.kind # "write"
    <3>1. phase' = "check" /\ pc' = pc /\ word' = word /\ result' = result
      BY <2>1, <2>5
    <3>2. pc = 25 => FinalGate'
      <4>1. SUFFICES ASSUME pc = 25 PROVE FinalGate'
        OBVIOUS
      <4>2. FinalGate /\ 0 \in word /\ 1 \in smn["EN_034"]
        BY <2>1, <2>3, <4>1 DEF SInv, FinalGate
      <4>3. CASE latch = "GATE_138"
        <5>1. 1 \in smn'["EN_034"]
          BY <1>i, <1>r, <2>2, <4>2, <4>3 DEF TypeOK
        <5> QED
          BY <3>1, <4>2, <5>1 DEF FinalGate
      <4>4. CASE latch # "GATE_138"
        <5>1. rejects = 1 /\ 0 \notin smn["GATE_138"]
          BY <2>1, <4>2, <4>4 DEF FinalGate
        <5>2. rejects' = 1 /\ smn'["GATE_138"] = smn["GATE_138"]
          BY <1>i, <1>r, <2>2, <2>3, <4>4, <5>1 DEF TypeOK
        <5> QED
          BY <3>1, <4>2, <5>1, <5>2 DEF FinalGate
      <4> QED
        BY <4>3, <4>4
    <3> QED
      BY <1>i, <1>o, <2>1, <2>3, <3>1, <3>2 DEF SInv
  <2> QED
    BY <2>4, <2>5
<1>9. CASE MailboxTimeout
  BY <1>9, <1>end DEF MailboxTimeout
<1> QED
  BY <1>1, <1>2, <1>3, <1>4, <1>5, <1>6, <1>7, <1>8, <1>9 DEF Driver

(* The hardware takes no bit back, and leaves the gates alone.             *)
LEMMA HardwareAdds ==
  ASSUME TypeOK, Hardware
  PROVE  /\ \A reg \in Register : smn[reg] \subseteq smn'[reg]
         /\ \A reg \in Register \ {"READY", "ACK_19", "ACK_1A", "EN_034"} : smn'[reg] = smn[reg]
         /\ UNCHANGED <<latch, pending, driver, rejects, boots, cold>>
<1>1. PICK reg \in {"READY", "ACK_19", "ACK_1A", "EN_034"}, bits \in Word :
        /\ smn' = [smn EXCEPT ![reg] = @ \union bits]
        /\ UNCHANGED <<latch, pending, driver, rejects, boots, cold>>
  BY BitsIsWord DEF Hardware, React
<1> QED
  BY <1>1, RegisterNames DEF TypeOK

LEMMA NextSInv == MaxRejects <= 1 /\ SInv /\ [Next]_vars => SInv'
<1> SUFFICES ASSUME MaxRejects <= 1, SInv, [Next]_vars PROVE SInv'
  OBVIOUS
<1>i. TInv /\ TypeOK /\ TInv'
  BY NextTInv DEF SInv, TInv
<1>1. CASE Driver
  BY <1>1, DriverSInv
<1>2. CASE LateExecute
  <2>1. /\ pending # NoMessage /\ pending' = NoMessage
        /\ pc' = pc /\ result' = result
    BY <1>2 DEF LateExecute, driver
  <2>2. pc = 1 \/ result \notin {"running", "EFI_SUCCESS"}
    BY <2>1 DEF SInv
  <2> QED
    BY <1>i, <2>1, <2>2 DEF SInv
<1>3. CASE Hardware
  <2>1. /\ \A reg \in Register : smn[reg] \subseteq smn'[reg]
        /\ smn'["GATE_138"] = smn["GATE_138"]
        /\ UNCHANGED <<latch, pending, driver, rejects>>
    BY <1>3, <1>i, HardwareAdds, RegisterNames
  <2>2. UNCHANGED <<pc, phase, word, result>>
    BY <2>1 DEF driver
  <2>3. FinalGate => FinalGate'
    BY <2>1, <2>2, RegisterNames DEF FinalGate
  <2> QED
    BY <1>i, <2>1, <2>2, <2>3, RegisterNames DEF SInv
<1>4. CASE WarmReset
  BY <1>4, <1>i DEF WarmReset, SInv
<1>5. CASE UNCHANGED vars
  BY <1>5, <1>i DEF vars, machine, driver, SInv, FinalGate
<1> QED
  BY <1>1, <1>2, <1>3, <1>4, <1>5 DEF Next

(* Success means that the controller is enabled and the handshake was      *)
(* answered, if the SMU rejects one message at most: whichever it is, in   *)
(* whichever boot, and whatever the registers held before.                 *)
THEOREM SuccessNotFaked == ASSUME MaxRejects <= 1 PROVE SafeSpec => []SuccessIsReal
<1>1. Init => SInv
  BY InitSInv
<1>2. SInv /\ [Next]_vars => SInv'
  BY NextSInv
<1>3. SInv => SuccessIsReal
  BY DEF SInv, SuccessIsReal
<1> QED
  BY <1>1, <1>2, <1>3, PTL DEF SafeSpec

-----------------------------------------------------------------------------
(* While the SMU rejects no message, whatever the driver has passed on its *)
(* way through the program is still in force, and success means that all   *)
(* of it is.  The argument is that a register is written by one line only  *)
(* and that every write, a late one too, is the write of the current line. *)
Writing == {"grant", "rmw", "write"}

(* The line that writes a register, 0 for one that no line writes.         *)
Writer ==
  [BITMAP |-> 2, GATE_120 |-> 5, GATE_134 |-> 6, GATE_130 |-> 7, GATE_12C |-> 8, CTL_208 |-> 9,
   CTL_218 |-> 10, CTL_358 |-> 12, CTL_35C |-> 13, CTL_374 |-> 14, PSTEP_19 |-> 15,
   PSTEP_1A |-> 17, EN_204 |-> 19, EN_208 |-> 20, EN_E0 |-> 21, EN_00C |-> 22, EN_034 |-> 23,
   GATE_138 |-> 25, READY |-> 0, ACK_19 |-> 0, ACK_1A |-> 0, CTL_200 |-> 0, ELSEWHERE |-> 0]

Reacting == {"READY", "ACK_19", "ACK_1A", "EN_034"}

(* What the proof needs to know of a line.                                 *)
LineFact(k) ==
  /\ Program[k].kind \in Writing => Writer[Program[k].reg] = k
  /\ Program[k].kind \in {"poll", "final"} => Writer[Program[k].reg] < k
  /\ Program[k].kind = "write" => Program[k].reg \notin Reacting
  /\ Program[k].reg \in Reacting => Program[k].clear = {}

LEMMA LineFacts == \A k \in Line : LineFact(k)
<1> USE DEF LineFact, Writing, Writer, Reacting
<1>1. \A k \in 1..4 : LineFact(k)
  BY Table DEF Opening, Alive, Poll
<1>2. \A k \in 5..9 : LineFact(k)
  BY Table DEF ClockPart, Rmw
<1>3. \A k \in 10..14 : LineFact(k)
  BY Table DEF ClockPart, Rmw, Write, Poll
<1>4. \A k \in 15..18 : LineFact(k)
  BY Table DEF PowerSteps, Write, Poll
<1>5. \A k \in 19..25 : LineFact(k)
  BY Table DEF EnableBlock, Write, Rmw, Poll
<1>6. \A k \in 26..27 : LineFact(k)
  BY Table DEF Verify, Alive
<1> QED
  <2> HIDE DEF LineFact
  <2> QED
    BY <1>1, <1>2, <1>3, <1>4, <1>5, <1>6 DEF Line

(* No later line writes what an earlier one has left.                      *)
LEMMA OwnRegister ==
  ASSUME NEW k \in Line, NEW w \in Line, k < w,
         Program[w].kind \in Writing, Program[k].kind \in Writing \union {"poll", "final"}
  PROVE  Program[k].reg # Program[w].reg
<1>1. k < w /\ LineFact(k) /\ LineFact(w)
  BY LineFacts
<1>2. Writer[Program[w].reg] = w
  BY <1>1 DEF LineFact
<1>3. Writer[Program[k].reg] = k \/ Writer[Program[k].reg] < k
  BY <1>1 DEF LineFact
<1>4. Writer[Program[k].reg] # w
  BY <1>1, <1>3 DEF Line
<1> QED
  BY <1>2, <1>4

LEMMA AllKinds ==
  \A k \in Line : Program[k].kind \in {"alive", "probe"} \union Writing \union {"poll", "final"}
BY ProgramOp DEF Op, Writing

-----------------------------------------------------------------------------
(* Held survives a change of other registers, and the hardware's bits.     *)
LEMMA HeldElsewhere ==
  ASSUME NEW k \in Line, Held(k),
         Program[k].kind \in {"alive", "probe"} \/ smn'[Program[k].reg] = smn[Program[k].reg]
  PROVE  Held(k)'
BY DEF Held

LEMMA HeldAfterWrite ==
  ASSUME TypeOK, NEW k \in Line, k < pc, Held(k), op.kind \in Writing, NEW data,
         smn' = [smn EXCEPT ![op.reg] = data]
  PROVE  Held(k)'
<1>1. CASE Program[k].kind \in {"alive", "probe"}
  BY <1>1, HeldElsewhere
<1>2. CASE Program[k].kind \notin {"alive", "probe"}
  <2>1. Program[k].reg # op.reg
    BY <1>2, OwnRegister, AllKinds DEF op, TypeOK
  <2>2. Program[k].reg \in Register
    BY ProgramOp DEF Op
  <2> QED
    BY <2>1, <2>2, HeldElsewhere DEF TypeOK
<1> QED
  BY <1>1, <1>2

LEMMA HeldAfterReact ==
  ASSUME TypeOK, NEW k \in Line, Held(k), NEW reg \in Reacting, NEW bits,
         smn' = [smn EXCEPT ![reg] = @ \union bits]
  PROVE  Held(k)'
<1>1. LineFact(k) /\ Program[k] \in Op
  BY LineFacts, ProgramOp
<1>2. CASE Program[k].reg # reg
  BY <1>1, <1>2, HeldElsewhere DEF TypeOK, Op
<1>3. CASE Program[k].reg = reg
  <2>1. smn'[reg] = smn[reg] \union bits
    BY <1>1, <1>3 DEF TypeOK, Op
  <2>2. Program[k].kind # "write" /\ Program[k].clear = {}
    BY <1>1, <1>3 DEF LineFact
  <2> QED
    BY <1>3, <2>1, <2>2 DEF Held
<1> QED
  BY <1>2, <1>3

-----------------------------------------------------------------------------
PathOK ==
  /\ pc \in Path
  /\ pc <= 3 => ~skipped
  /\ \A k \in Path : k < pc => Held(k)

(* The word an RMW is about to write, and the register it is going to.     *)
WordOK ==
  /\ phase \in {"set", "write", "check"} /\ op.kind \in {"grant", "rmw"} =>
       op.set \subseteq word /\ word \intersect (op.clear \ op.set) = {}
  /\ phase = "write" /\ result = "running" => latch = op.reg

(* A message given up holds the next boot at its first line, and is in its *)
(* own boot the write of the line the driver stopped at.                   *)
PendingOK ==
  pending # NoMessage =>
    \/ pc = 1
    \/ /\ result = "EFI_TIMEOUT"
       /\ pending.kind = "write" => phase = "write" /\ latch = op.reg

SuccessOK == result = "EFI_SUCCESS" => pc = 27 /\ Held(27)

RInv == TInv /\ rejects = 0 /\ PathOK /\ WordOK /\ PendingOK /\ SuccessOK

LEMMA PathLine == Path \subseteq Line
BY DEF Path

(* A line that leads on: what is held up to it is held below the next one. *)
LEMMA Advance ==
  ASSUME TypeOK, pc \in Path, pc <= 3 => ~skipped, Goto(After), op.kind \notin {"probe", "final"},
         skipped' = skipped, \A k \in Path : k < pc => Held(k)', \A k \in {pc} : Held(k)'
  PROVE  PathOK'
<1>1. pc' = After /\ Path' = Path
  BY DEF Goto, Path
<1>2. pc # 3 /\ pc # 27 /\ pc \in Line
  BY Table DEF op, TypeOK, Opening, Verify
<1>3. After \in Path /\ (After <= 3 => ~skipped)
  BY <1>2 DEF After, Path, Line, AlreadyEnabled, FirstClock, FirstPower
<1>4. \A k \in Path : k < After => k <= pc
  BY <1>2 DEF After, Path, Line, AlreadyEnabled, FirstClock, FirstPower
<1>5. \A k \in Path : k < After => Held(k)'
  BY <1>2, <1>4, PathLine DEF Line
<1> QED
  BY <1>1, <1>3, <1>5 DEF PathOK

LEMMA GotoWord == ASSUME NEW line \in Line, TypeOK, Goto(line) PROVE WordOK'
<1>1. phase' = FirstPhase(line) /\ op' = Program[line]
  BY DEF Goto, op
<1>2. phase' \in {"alive", "set", "read"} /\ (phase' = "set" => Program[line].kind = "write")
  BY <1>1 DEF FirstPhase
<1> QED
  BY <1>1, <1>2 DEF WordOK

(* Without rejections a read returns what the register holds.              *)
LEMMA FetchHonest ==
  ASSUME MaxRejects = 0, TInv, rejects = 0, PendingOK, op.kind # "alive", NEW value, Fetch(value)
  PROVE  /\ value = smn[op.reg] /\ result = "running" /\ rejects' = 0
         /\ pending = NoMessage /\ pending' = pending
<1>1. CASE Raw
  <2>1. value = smn[op.reg] /\ result = "running" /\ rejects' = 0 /\ pending' = pending
    BY <1>1 DEF Fetch, SmnRead32
  <2>2. pc # 1
    BY LineKinds DEF op
  <2> QED
    BY <2>1, <2>2 DEF PendingOK
<1>2. CASE ~Raw
  BY <1>2 DEF Fetch, SmnSecureRead32, Send
<1> QED
  BY <1>1, <1>2

LEMMA InitRInv == MaxRejects = 0 /\ Init => RInv
<1> SUFFICES ASSUME MaxRejects = 0, Init PROVE RInv
  OBVIOUS
<1>1. TInv
  BY InitTInv
<1>2. PathOK
  <2>1. pc = 1 /\ ~skipped
    BY DEF Init
  <2>2. Path = Line \ {AlreadyEnabled}
    BY <2>1 DEF Path
  <2> QED
    BY <2>1, <2>2 DEF PathOK, Line, AlreadyEnabled
<1>3. phase = "alive"
  BY LineKinds DEF Init, FirstPhase
<1> QED
  BY <1>1, <1>2, <1>3 DEF Init, RInv, WordOK, PendingOK, SuccessOK

LEMMA DriverRInv == MaxRejects = 0 /\ RInv /\ Driver => RInv'
<1> SUFFICES ASSUME MaxRejects = 0, RInv, Driver PROVE RInv'
  OBVIOUS
<1>i. /\ TInv /\ TypeOK /\ PhaseOK /\ op \in Op /\ rejects = 0
      /\ PathOK /\ WordOK /\ PendingOK /\ SuccessOK /\ pc \in Line
  BY OpType, PathLine DEF RInv, TInv, PathOK
<1>t. TInv'
  BY <1>i, DriverTInv
(* What a step does to the rest: it leads on, stays at its line, or ends. *)
<1>go. ASSUME result = "running", result' = result, pending = NoMessage, pending' = pending,
              rejects' = 0, skipped' = skipped, Goto(After), op.kind \notin {"probe", "final"},
              \A k \in Path : k < pc => Held(k)', \A k \in {pc} : Held(k)'
       PROVE  RInv'
  <2>1. PathOK'
    BY <1>go, <1>i, Advance DEF PathOK
  <2>2. WordOK'
    BY <1>go, <1>i, AfterType, GotoWord
  <2> QED
    BY <1>go, <1>t, <2>1, <2>2 DEF RInv, PendingOK, SuccessOK, NoMessage
<1>stay. ASSUME smn' = smn, skipped' = skipped, pc' = pc PROVE PathOK' /\ op' = op
  BY <1>stay, <1>i DEF PathOK, Path, Held, op
<1>end. ASSUME NEW status, smn' = smn, skipped' = skipped, latch' = latch, Finish(status),
               status \notin {"EFI_SUCCESS", "running"}, pending' = NoMessage, rejects' = 0
        PROVE  RInv'
  <2>1. PathOK' /\ op' = op
    BY <1>end, <1>stay DEF Finish
  <2>2. WordOK'
    BY <1>end, <1>i, <2>1 DEF WordOK, Finish
  <2> QED
    BY <1>end, <1>t, <2>1, <2>2 DEF RInv, PendingOK, SuccessOK, Finish
<1>same. smn' = smn => \A k \in Path : k < pc => Held(k)'
  BY <1>i DEF PathOK, Held
<1>1. CASE SmuAlive
  <2>1. op.kind = "alive"
    BY <1>1, <1>i DEF SmuAlive, PhaseOK
  <2>2. PICK accepted \in BOOLEAN :
          Send(accepted) /\ (IF accepted THEN Goto(After) ELSE Finish("EFI_DEVICE_ERROR"))
    BY <1>1 DEF SmuAlive
  <2>3. /\ result = "running" /\ pending = NoMessage /\ pending' = pending
        /\ accepted /\ rejects' = 0
    BY <1>i, <2>2 DEF Send
  <2>4. \A k \in {pc} : Held(k)'
    BY <2>1 DEF Held, op
  <2>5. Goto(After) /\ smn' = smn /\ skipped' = skipped
    BY <1>1, <2>2, <2>3 DEF SmuAlive
  <2> QED
    BY <1>go, <1>same, <2>1, <2>3, <2>4, <2>5 DEF Goto
<1>2. CASE ReadOld
  <2>1. op.kind \in {"grant", "rmw"} /\ smn' = smn /\ latch' = latch /\ skipped' = skipped
    BY <1>2 DEF ReadOld
  <2>2. PICK old \in Readings :
          /\ Fetch(old)
          /\ LET new == (old \ op.clear) \union op.set
             IN  IF new = old THEN Goto(After)
                 ELSE phase' = "set" /\ word' = new /\ UNCHANGED <<pc, attempt, result>>
    BY <1>2 DEF ReadOld
  <2>3. /\ old = smn[op.reg] /\ result = "running" /\ rejects' = 0
        /\ pending = NoMessage /\ pending' = pending
    BY <1>i, <2>1, <2>2, FetchHonest
  <2>4. CASE (old \ op.clear) \union op.set = old
    <3>1. \A k \in {pc} : Held(k)'
      BY <2>1, <2>3, <2>4 DEF Held, op
    <3> QED
      BY <1>go, <1>same, <2>1, <2>2, <2>3, <2>4, <3>1 DEF Goto
  <2>5. CASE (old \ op.clear) \union op.set # old
    <3>1. PathOK' /\ op' = op
      BY <1>stay, <2>1, <2>2, <2>5
    <3>2. WordOK'
      BY <2>2, <2>5, <3>1 DEF WordOK
    <3> QED
      BY <1>t, <2>2, <2>3, <2>5, <3>1, <3>2 DEF RInv, PendingOK, SuccessOK
  <2> QED
    BY <2>4, <2>5
<1>3. CASE ReadBack
  <2>1. /\ op.kind \in {"grant", "rmw"} /\ phase = "check"
        /\ smn' = smn /\ latch' = latch /\ skipped' = skipped
    BY <1>3, <1>i DEF ReadBack, PhaseOK
  <2>2. PICK check \in Readings :
          Fetch(check) /\ IF Confirms(check) THEN Goto(After) ELSE Finish("EFI_DEVICE_ERROR")
    BY <1>3 DEF ReadBack
  <2>3. /\ check = smn[op.reg] /\ result = "running" /\ rejects' = 0
        /\ pending = NoMessage /\ pending' = pending
    BY <1>i, <2>1, <2>2, FetchHonest
  <2>4. CASE Confirms(check)
    <3>1. \A k \in {pc} : Held(k)'
      BY <1>i, <2>1, <2>3, <2>4 DEF Confirms, Held, WordOK, op
    <3> QED
      BY <1>go, <1>same, <2>1, <2>2, <2>3, <2>4, <3>1 DEF Goto
  <2>5. CASE ~Confirms(check)
    BY <1>end, <2>1, <2>2, <2>3, <2>5
  <2> QED
    BY <2>4, <2>5
<1>4. CASE Probe
  <2>1. op.kind = "probe" /\ smn' = smn /\ latch' = latch
    BY <1>4 DEF Probe
  <2>2. PICK found \in Readings :
          /\ Fetch(found)
          /\ skipped' = (op.set \subseteq found)
          /\ Goto(IF op.set \subseteq found THEN AlreadyEnabled ELSE FirstClock)
    BY <1>4 DEF Probe
  <2>3. /\ result = "running" /\ rejects' = 0 /\ pending = NoMessage /\ pending' = pending
    BY <1>i, <2>1, <2>2, FetchHonest
  <2>4. pc = 3
    BY <1>i, <2>1, ProbeLine DEF op
  <2>5. PathOK'
    <3>1. \A k \in 1..3 : Held(k)'
      <4>1. \A k \in 1..2 : k \in Path /\ Held(k)
        BY <1>i, <2>4 DEF PathOK, Path, Line, AlreadyEnabled, FirstClock, FirstPower
      <4>2. Held(3)
        BY <2>1, <2>4 DEF Held, op
      <4> QED
        BY <2>1, <4>1, <4>2 DEF Held
    <3>2. CASE op.set \subseteq found
      <4>1. skipped' /\ pc' = 4
        BY <2>2, <3>2 DEF Goto, AlreadyEnabled
      <4>2. Path' = Line \ (5..14)
        BY <4>1 DEF Path, FirstClock, FirstPower
      <4> QED
        BY <3>1, <4>1, <4>2 DEF PathOK, Line
    <3>3. CASE ~(op.set \subseteq found)
      <4>1. ~skipped' /\ pc' = 5
        BY <2>2, <3>3 DEF Goto, FirstClock
      <4>2. Path' = Line \ {4}
        BY <4>1 DEF Path, AlreadyEnabled
      <4> QED
        BY <3>1, <4>1, <4>2 DEF PathOK, Line
    <3> QED
      BY <3>2, <3>3
  <2>6. WordOK'
    <3>1. (IF op.set \subseteq found THEN AlreadyEnabled ELSE FirstClock) \in Line
      BY DEF AlreadyEnabled, FirstClock, Line
    <3> QED
      BY <1>i, <2>2, <3>1, GotoWord
  <2> QED
    BY <1>t, <2>2, <2>3, <2>5, <2>6 DEF RInv, PendingOK, SuccessOK, Goto
<1>5. CASE SmnPollBit32
  <2>1. op.kind = "poll" /\ smn' = smn /\ latch' = latch /\ skipped' = skipped /\ phase = "read"
    BY <1>5 DEF SmnPollBit32
  <2>2. PICK value \in Readings :
          /\ Fetch(value)
          /\ IF value \intersect op.set # {} THEN Goto(After)
             ELSE IF attempt + 1 = REG_POLL_TIMEOUT_LOOPS THEN Finish("EFI_TIMEOUT")
             ELSE attempt' = attempt + 1 /\ UNCHANGED <<pc, phase, word, result>>
    BY <1>5 DEF SmnPollBit32
  <2>3. /\ value = smn[op.reg] /\ result = "running" /\ rejects' = 0
        /\ pending = NoMessage /\ pending' = pending
    BY <1>i, <2>1, <2>2, FetchHonest
  <2>4. CASE value \intersect op.set # {}
    <3>1. \A k \in {pc} : Held(k)'
      BY <2>1, <2>3, <2>4 DEF Held, op
    <3> QED
      BY <1>go, <1>same, <2>1, <2>2, <2>3, <2>4, <3>1 DEF Goto
  <2>5. CASE value \intersect op.set = {} /\ attempt + 1 = REG_POLL_TIMEOUT_LOOPS
    BY <1>end, <2>1, <2>2, <2>3, <2>5
  <2>6. CASE value \intersect op.set = {} /\ attempt + 1 # REG_POLL_TIMEOUT_LOOPS
    <3>1. PathOK' /\ op' = op
      BY <1>stay, <2>1, <2>2, <2>6
    <3>2. WordOK'
      BY <2>1, <2>2, <2>6, <3>1 DEF WordOK
    <3> QED
      BY <1>t, <2>2, <2>3, <2>6, <3>1, <3>2 DEF RInv, PendingOK, SuccessOK
  <2> QED
    BY <2>4, <2>5, <2>6
<1>6. CASE FinalRead
  <2>1. op.kind = "final" /\ smn' = smn /\ latch' = latch /\ skipped' = skipped /\ phase = "read"
    BY <1>6 DEF FinalRead
  <2>2. PICK value \in Readings :
          Fetch(value) /\ Finish(IF op.set \subseteq value THEN "EFI_SUCCESS" ELSE "EFI_DEVICE_ERROR")
    BY <1>6 DEF FinalRead
  <2>3. /\ value = smn[op.reg] /\ rejects' = 0 /\ pending = NoMessage /\ pending' = pending
    BY <1>i, <2>1, <2>2, FetchHonest
  <2>4. CASE op.set \subseteq value
    <3>1. PathOK' /\ op' = op /\ pc' = pc
      BY <1>stay, <2>1, <2>2 DEF Finish
    <3>2. WordOK'
      BY <2>1, <2>2, <3>1 DEF WordOK, Finish
    <3>3. pc = 27
      BY <1>i, <2>1, FinalLine DEF op
    <3>4. Held(27)'
      BY <2>1, <2>3, <2>4, <3>3 DEF Held, op
    <3> QED
      BY <1>t, <2>3, <3>1, <3>2, <3>3, <3>4 DEF RInv, PendingOK, SuccessOK
  <2>5. CASE ~(op.set \subseteq value)
    BY <1>end, <2>1, <2>2, <2>3, <2>5
  <2> QED
    BY <2>4, <2>5
<1>7. CASE SetAddr
  <2>1. smn' = smn /\ pc' = pc /\ skipped' = skipped /\ word' = word /\ phase = "set"
        /\ phase' = "write" /\ result' = result
    BY <1>7 DEF SetAddr
  <2>2. PICK accepted \in BOOLEAN :
          Send(accepted) /\ latch' = IF accepted THEN op.reg ELSE latch
    BY <1>7 DEF SetAddr
  <2>3. /\ result = "running" /\ pending = NoMessage /\ pending' = pending
        /\ rejects' = 0 /\ latch' = op.reg
    BY <1>i, <2>2 DEF Send
  <2>4. PathOK' /\ op' = op
    BY <1>stay, <2>1
  <2>5. WordOK'
    BY <1>i, <2>1, <2>3, <2>4 DEF WordOK
  <2> QED
    BY <1>t, <2>1, <2>3, <2>4, <2>5 DEF RInv, PendingOK, SuccessOK
<1>8. CASE WriteData
  <2>1. /\ phase = "write" /\ latch' = latch /\ skipped' = skipped
        /\ IF op.kind = "write" THEN Goto(After)
           ELSE phase' = "check" /\ UNCHANGED <<pc, word, attempt, result>>
    BY <1>8 DEF WriteData
  <2>2. PICK accepted \in BOOLEAN :
          Send(accepted) /\ smn' = IF accepted THEN [smn EXCEPT ![latch] = Data] ELSE smn
    BY <1>8 DEF WriteData
  <2>a. /\ result = "running" /\ pending = NoMessage /\ pending' = pending
        /\ accepted /\ rejects' = 0
    BY <1>i, <2>2 DEF Send
  <2>b. latch = op.reg
    BY <1>i, <2>1, <2>a DEF WordOK
  <2>3. /\ result = "running" /\ pending = NoMessage /\ pending' = pending
        /\ rejects' = 0 /\ latch = op.reg /\ smn' = [smn EXCEPT ![op.reg] = Data]
    BY <2>2, <2>a, <2>b
  <2>4. op.kind \in Writing
    BY <1>i, <2>1 DEF PhaseOK, Writing
  <2>5. \A k \in Path : k < pc => Held(k)'
    BY <1>i, <2>3, <2>4, HeldAfterWrite, PathLine DEF PathOK
  <2>6. CASE op.kind = "write"
    <3>1. smn'[op.reg] = op.set
      BY <1>i, <2>3, <2>6 DEF Data, TypeOK, Op
    <3>2. \A k \in {pc} : Held(k)'
      BY <2>6, <3>1 DEF Held, op
    <3> QED
      BY <1>go, <2>1, <2>3, <2>5, <2>6, <3>2 DEF Goto
  <2>7. CASE op.kind # "write"
    <3>1. PathOK' /\ op' = op
      BY <1>i, <2>1, <2>5, <2>7 DEF PathOK, Path, op
    <3>2. WordOK'
      BY <1>i, <2>1, <2>7, <3>1 DEF WordOK
    <3> QED
      BY <1>t, <2>1, <2>3, <2>7, <3>1, <3>2 DEF RInv, PendingOK, SuccessOK
  <2> QED
    BY <2>6, <2>7
<1>9. CASE MailboxTimeout
  <2>1. /\ smn' = smn /\ latch' = latch /\ skipped' = skipped /\ rejects' = rejects
        /\ result = "running" /\ result' = "EFI_TIMEOUT" /\ pc' = pc /\ phase' = phase
        /\ word' = word
        /\ (pending = NoMessage /\ pending' = InFlight) \/ pending' = pending
    BY <1>9 DEF MailboxTimeout, Finish
  <2>2. PathOK' /\ op' = op
    BY <1>stay, <2>1
  <2>3. WordOK'
    BY <1>i, <2>1, <2>2 DEF WordOK
  <2>4. PendingOK'
    <3>1. CASE pending' = InFlight
      BY <1>i, <2>1, <2>2, <3>1 DEF PendingOK, WordOK, InFlight
    <3>2. CASE pending' = pending
      BY <1>i, <2>1, <3>2 DEF PendingOK
    <3> QED
      BY <2>1, <3>1, <3>2
  <2> QED
    BY <1>i, <1>t, <2>1, <2>2, <2>3, <2>4 DEF RInv, SuccessOK
<1> QED
  BY <1>1, <1>2, <1>3, <1>4, <1>5, <1>6, <1>7, <1>8, <1>9 DEF Driver

LEMMA LateRInv == MaxRejects = 0 /\ RInv /\ LateExecute => RInv'
<1> SUFFICES ASSUME MaxRejects = 0, RInv, LateExecute PROVE RInv'
  OBVIOUS
<1>i. /\ TInv /\ TypeOK /\ PhaseOK /\ PathOK /\ WordOK /\ PendingOK /\ SuccessOK
      /\ rejects = 0 /\ pc \in Line
  BY PathLine DEF RInv, TInv, PathOK
<1>1. /\ pending # NoMessage /\ pending' = NoMessage /\ op' = op
      /\ pc' = pc /\ phase' = phase /\ word' = word /\ result' = result /\ skipped' = skipped
  BY DEF LateExecute, driver, op
<1>e. /\ rejects' = rejects
      /\ smn' = IF pending.kind = "write" THEN [smn EXCEPT ![latch] = pending.data] ELSE smn
  <2> PICK accepted \in BOOLEAN :
        /\ accepted \/ rejects < MaxRejects
        /\ rejects' = IF accepted THEN rejects ELSE rejects + 1
        /\ smn' = IF accepted /\ pending.kind = "write"
                  THEN [smn EXCEPT ![latch] = pending.data] ELSE smn
    BY DEF LateExecute
  <2>1. accepted
    BY <1>i
  <2> QED
    BY <2>1
<1>2. TInv'
  BY <1>i, NextTInv DEF Next
<1>3. \A k \in Path : k < pc => Held(k)'
  <2>1. CASE pc = 1
    BY <2>1, PathLine DEF Line
  <2>2. CASE pc # 1 /\ pending.kind = "write"
    <3>1. phase = "write" /\ latch = op.reg
      BY <1>i, <1>1, <2>2 DEF PendingOK
    <3>2. op.kind \in Writing
      BY <1>i, <3>1 DEF PhaseOK, Writing
    <3>3. smn' = [smn EXCEPT ![op.reg] = pending.data]
      BY <1>e, <2>2, <3>1
    <3> QED
      BY <1>i, <3>2, <3>3, HeldAfterWrite, PathLine DEF PathOK
  <2>3. CASE pending.kind # "write"
    BY <1>e, <1>i, <2>3 DEF PathOK, Held
  <2> QED
    BY <2>1, <2>2, <2>3
<1>4. PathOK'
  BY <1>i, <1>1, <1>3 DEF PathOK, Path
<1>5. result # "EFI_SUCCESS" /\ (result = "running" => phase # "write")
  <2>1. pc = 1 => phase # "write" /\ result # "EFI_SUCCESS"
    BY <1>i, LineKinds DEF PhaseOK, SuccessOK, op
  <2> QED
    BY <1>i, <1>1, <2>1 DEF PendingOK
<1>6. WordOK'
  BY <1>i, <1>1, <1>5 DEF WordOK
<1> QED
  BY <1>i, <1>1, <1>e, <1>2, <1>4, <1>5, <1>6 DEF RInv, PendingOK, SuccessOK

LEMMA HardwareRInv == RInv /\ Hardware => RInv'
<1> SUFFICES ASSUME RInv, Hardware PROVE RInv'
  OBVIOUS
<1>i. TInv /\ TypeOK /\ PathOK /\ WordOK /\ PendingOK /\ SuccessOK /\ rejects = 0 /\ pc \in Line
  BY PathLine DEF RInv, TInv, PathOK
<1>1. TInv'
  BY <1>i, NextTInv DEF Next
<1>2. PICK reg \in Reacting, bits \in Word : smn' = [smn EXCEPT ![reg] = @ \union bits]
  BY BitsIsWord DEF Hardware, React, Reacting
<1>3. UNCHANGED <<latch, pending, driver, rejects, boots, cold>>
  BY DEF Hardware, React
<1>4. \A k \in Line : Held(k) => Held(k)'
  BY <1>i, <1>2, HeldAfterReact
<1>5. op' = op
  BY <1>3 DEF driver, op
<1>6. PathOK'
  BY <1>i, <1>3, <1>4, PathLine DEF PathOK, Path, driver
<1>7. SuccessOK'
  BY <1>i, <1>3, <1>4 DEF SuccessOK, driver, Line
<1> QED
  BY <1>i, <1>1, <1>3, <1>5, <1>6, <1>7 DEF RInv, WordOK, PendingOK, driver

LEMMA ResetRInv == RInv /\ WarmReset => RInv'
<1> SUFFICES ASSUME RInv, WarmReset PROVE RInv'
  OBVIOUS
<1>1. TInv'
  BY NextTInv DEF RInv, Next
<1>2. pc' = 1 /\ phase' = "alive" /\ result' = "running" /\ ~skipped' /\ rejects' = 0
  BY LineKinds DEF WarmReset, FirstPhase, RInv
<1>3. PathOK'
  <2>1. Path' = Line \ {AlreadyEnabled}
    BY <1>2 DEF Path
  <2> QED
    BY <1>2, <2>1 DEF PathOK, Line, AlreadyEnabled
<1> QED
  BY <1>1, <1>2, <1>3 DEF RInv, WordOK, PendingOK, SuccessOK

LEMMA NextRInv == MaxRejects = 0 /\ RInv /\ [Next]_vars => RInv'
<1> SUFFICES ASSUME MaxRejects = 0, RInv, [Next]_vars PROVE RInv'
  OBVIOUS
<1>1. CASE UNCHANGED vars
  BY <1>1 DEF vars, machine, driver, RInv, TInv, TypeOK, PhaseOK, PathOK, Path, Held, WordOK,
              PendingOK, SuccessOK, op
<1> QED
  BY <1>1, DriverRInv, LateRInv, HardwareRInv, ResetRInv DEF Next

LEMMA ReplayIsPrefix == RInv => ReplayPrefix
<1> SUFFICES ASSUME RInv PROVE ReplayPrefix
  OBVIOUS
<1>1. \A k \in Path : k < pc => Held(k)
  BY DEF RInv, PathOK
<1>2. ASSUME result = "EFI_SUCCESS", NEW k \in Path PROVE Held(k)
  <2>1. pc = 27 /\ Held(27)
    BY <1>2 DEF RInv, SuccessOK
  <2>2. k = 27 \/ k < 27
    BY PathLine DEF Line
  <2> QED
    BY <1>1, <2>1, <2>2
<1> QED
  BY <1>1, <1>2 DEF ReplayPrefix

(* While the SMU rejects nothing, every line the driver has passed is in   *)
(* force, in every boot, and success means that every line of its branch   *)
(* is.                                                                     *)
THEOREM ReplayHolds == ASSUME MaxRejects = 0 PROVE SafeSpec => []ReplayPrefix
<1>1. Init => RInv
  BY InitRInv
<1>2. RInv /\ [Next]_vars => RInv'
  BY NextRInv
<1>3. RInv => ReplayPrefix
  BY ReplayIsPrefix
<1> QED
  BY <1>1, <1>2, <1>3, PTL DEF SafeSpec

-----------------------------------------------------------------------------
(* The order that the hardware sees.  What unlocks a milestone is never    *)
(* taken back: no line writes READY or an acknowledge register, and the    *)
(* RMW of EN_034 has read its word before the hardware may answer in it.   *)
Milestones == {"PSTEP_19", "PSTEP_1A", "EN_204", "GATE_138"}

Unlocked(reg) ==
  CASE reg = "PSTEP_19" -> 8 \in smn["READY"]
    [] reg = "PSTEP_1A" -> 16 \in smn["ACK_19"]
    [] reg = "EN_204" -> 16 \in smn["ACK_1A"]
    [] reg = "GATE_138" -> 1 \in smn["EN_034"]
    [] OTHER -> TRUE

(* The driver has left its mark on a milestone: the final gate's register  *)
(* also holds bits of others.                                              *)
Opened(reg) ==
  IF reg = "GATE_138" THEN 0 \in smn[reg] \ cold[reg] ELSE smn[reg] # cold[reg]

KeepsAnswer(data) == 0 \notin smn["EN_034"] /\ (1 \in smn["EN_034"] => 1 \in data)

HInv ==
  /\ RInv
  /\ \A reg \in Milestones : Opened(reg) => Unlocked(reg)
  /\ result = "running" /\ phase \in {"set", "write"} /\ pc = 23 => KeepsAnswer(word)
  /\ pending.kind = "write" =>
       /\ Writer[latch] # 0 /\ Unlocked(latch)
       /\ latch = "EN_034" => KeepsAnswer(pending.data)

LEMMA MilestoneLines ==
  /\ Program[4] = Poll("READY", Bits(\h100)) /\ Program[11] = Poll("READY", Bits(\h100))
  /\ Program[16] = Poll("ACK_19", Bits(\h10000)) /\ Program[18] = Poll("ACK_1A", Bits(\h10000))
  /\ Program[23] = Rmw("EN_034", {}, Bits(1)) /\ Program[24] = Poll("EN_034", Bits(2))
BY Table DEF Opening, ClockPart, PowerSteps, EnableBlock

LEMMA PolledBit ==
  ASSUME NEW k \in Line, NEW reg, NEW mask, NEW b, Program[k] = Poll(reg, mask), mask = {b}, Held(k)
  PROVE  b \in smn[reg]
BY DEF Held, Poll

(* The driver works on a milestone only where the lines before it unlock   *)
(* it.                                                                     *)
LEMMA ReachedUnlocked ==
  ASSUME RInv, op.kind \in Writing
  PROVE  Unlocked(op.reg)
<1>i. PathOK /\ pc \in Line /\ pc \in Path
  BY PathLine DEF RInv, PathOK
<1>w. Writer[op.reg] = pc
  BY <1>i, LineFacts DEF LineFact, op
<1>h. /\ pc \in {15, 17, 19, 25} => Held(4) \/ Held(11)
      /\ pc \in {17, 19, 25} => Held(16)
      /\ pc \in {19, 25} => Held(18)
      /\ pc = 25 => Held(24)
  <2>1. \A k \in Line : k < pc /\ k \in Path => Held(k)
    BY <1>i DEF PathOK
  <2>2. {16, 18, 24} \subseteq Path /\ (4 \in Path \/ 11 \in Path)
    BY DEF Path, Line, AlreadyEnabled, FirstClock, FirstPower
  <2> QED
    BY <2>1, <2>2 DEF Line
<1>1. CASE op.reg = "PSTEP_19"
  <2>1. pc = 15
    BY <1>w, <1>1 DEF Writer
  <2>2. 8 \in smn["READY"]
    <3>1. CASE Held(4)
      BY <3>1, MilestoneLines, PolledBit, Bits100 DEF Line
    <3>2. CASE Held(11)
      <4>1. 11 \in Line /\ Program[11] = Poll("READY", {8})
        BY MilestoneLines, Bits100 DEF Line
      <4> QED
        BY <3>2, <4>1, PolledBit
    <3> QED
      BY <1>h, <2>1, <3>1, <3>2
  <2> QED
    BY <1>1, <2>2 DEF Unlocked
<1>2. CASE op.reg = "PSTEP_1A"
  <2>1. pc = 17
    BY <1>w, <1>2 DEF Writer
  <2>2. 16 \in smn["ACK_19"]
    BY <1>h, <2>1, MilestoneLines, PolledBit, Bits10000 DEF Line
  <2> QED
    BY <1>2, <2>2 DEF Unlocked
<1>3. CASE op.reg = "EN_204"
  <2>1. pc = 19
    BY <1>w, <1>3 DEF Writer
  <2>2. 16 \in smn["ACK_1A"]
    BY <1>h, <2>1, MilestoneLines, PolledBit, Bits10000 DEF Line
  <2> QED
    BY <1>3, <2>2 DEF Unlocked
<1>4. CASE op.reg = "GATE_138"
  <2>1. pc = 25
    BY <1>w, <1>4 DEF Writer
  <2>2. 1 \in smn["EN_034"]
    BY <1>h, <2>1, MilestoneLines, PolledBit, Bits2 DEF Line
  <2> QED
    BY <1>4, <2>2 DEF Unlocked
<1>5. CASE op.reg \notin Milestones
  BY <1>5 DEF Unlocked, Milestones
<1> QED
  BY <1>1, <1>2, <1>3, <1>4, <1>5 DEF Milestones

(* A write to a register that some line writes, and the answer in EN_034   *)
(* kept, unlocks what it is to and takes nothing back.                     *)
LEMMA OrderAfterWrite ==
  ASSUME TypeOK, \A reg \in Milestones : Opened(reg) => Unlocked(reg),
         NEW to \in Register, NEW data, Writer[to] # 0, Unlocked(to),
         to = "EN_034" => KeepsAnswer(data),
         smn' = [smn EXCEPT ![to] = data], cold' = cold
  PROVE  \A reg \in Milestones : Opened(reg)' => Unlocked(reg)'
<1>1. smn'["READY"] = smn["READY"] /\ smn'["ACK_19"] = smn["ACK_19"] /\ smn'["ACK_1A"] = smn["ACK_1A"]
  BY RegisterNames DEF Writer, TypeOK
<1>2. 1 \in smn["EN_034"] => 1 \in smn'["EN_034"]
  BY RegisterNames DEF KeepsAnswer, TypeOK
<1>3. ASSUME NEW reg \in Milestones, Unlocked(reg) PROVE Unlocked(reg)'
  BY <1>1, <1>2, <1>3 DEF Unlocked, Milestones
<1>4. \A reg \in Milestones : reg = to \/ Opened(reg)' = Opened(reg)
  BY RegisterNames DEF Milestones, Opened, TypeOK
<1> QED
  BY <1>3, <1>4

LEMMA InitHInv == MaxRejects = 0 /\ Init => HInv
<1> SUFFICES ASSUME MaxRejects = 0, Init PROVE HInv
  OBVIOUS
<1>1. phase = "alive"
  BY LineKinds DEF Init, FirstPhase
<1> QED
  BY <1>1, InitRInv DEF Init, HInv, NoMessage, Opened

(* What the messages that change no register leave.                        *)
LEMMA QuietHInv ==
  ASSUME HInv, RInv', smn' = smn, cold' = cold, latch' = latch \/ pending'.kind # "write",
         pending' = pending \/ pending'.kind # "write",
         result' = "running" /\ phase' \in {"set", "write"} /\ pc' = 23 => KeepsAnswer(word')
  PROVE  HInv'
<1>1. \A reg : Unlocked(reg)' = Unlocked(reg) /\ Opened(reg)' = Opened(reg)
  BY DEF Unlocked, Opened
<1> QED
  BY <1>1 DEF HInv, KeepsAnswer

LEMMA DriverHInv == MaxRejects = 0 /\ HInv /\ Driver => HInv'
<1> SUFFICES ASSUME MaxRejects = 0, HInv, Driver PROVE HInv'
  OBVIOUS
<1>i. /\ RInv /\ TInv /\ TypeOK /\ PhaseOK /\ rejects = 0 /\ PathOK /\ WordOK /\ PendingOK
      /\ pc \in Line /\ op \in Op
  BY OpType, PathLine DEF HInv, RInv, TInv, PathOK
<1>r. RInv'
  BY <1>i, NextRInv DEF Next
<1>k. pc = 23 => op = Rmw("EN_034", {}, {0})
  BY MilestoneLines, Bits1 DEF op
<1>g. ASSUME NEW line \in Line, Goto(line) PROVE phase' \in {"set", "write"} => pc' # 23
  BY <1>g, MilestoneLines DEF Goto, FirstPhase, Rmw
<1>a. ASSUME Goto(After), op.kind # "final" PROVE phase' \in {"set", "write"} => pc' # 23
  BY <1>a, <1>g, <1>i, AfterType
<1>n. NoMessage.kind # "write"
  BY DEF NoMessage
<1>1. CASE SmuAlive
  <2>1. op.kind # "final"
    BY <1>1, <1>i DEF SmuAlive, PhaseOK
  <2>2. smn' = smn /\ latch' = latch /\ pending' = pending /\ cold' = cold
    BY <1>1 DEF SmuAlive, Send
  <2>3. result' # "running" \/ Goto(After)
    BY <1>1 DEF SmuAlive, Finish
  <2> QED
    BY <1>r, <1>a, <2>1, <2>2, <2>3, QuietHInv
<1>2. CASE ReadOld
  <2>1. /\ op.kind \in {"grant", "rmw"} /\ smn' = smn /\ latch' = latch
    BY <1>2 DEF ReadOld
  <2>2. PICK old \in Readings :
          /\ Fetch(old)
          /\ LET new == (old \ op.clear) \union op.set
             IN  IF new = old THEN Goto(After)
                 ELSE phase' = "set" /\ word' = new /\ UNCHANGED <<pc, attempt, result>>
    BY <1>2 DEF ReadOld
  <2>3. old = smn[op.reg] /\ pending' = pending /\ cold' = cold
    BY <1>i, <2>1, <2>2, FetchHonest, FetchType
  <2>4. CASE Goto(After)
    BY <1>r, <1>a, <2>1, <2>3, <2>4, QuietHInv
  <2>5. CASE word' = (old \ op.clear) \union op.set /\ word' # old /\ pc' = pc
    <3>1. pc = 23 => KeepsAnswer(word')
      BY <1>k, <2>3, <2>5 DEF KeepsAnswer, Rmw
    <3> QED
      BY <1>r, <2>1, <2>3, <2>5, <3>1, QuietHInv
  <2> QED
    BY <2>2, <2>4, <2>5
<1>3. CASE ReadBack
  <2>1. op.kind \in {"grant", "rmw"} /\ smn' = smn /\ latch' = latch
    BY <1>3, <1>i DEF ReadBack, PhaseOK
  <2>2. PICK check \in Readings :
          Fetch(check) /\ IF Confirms(check) THEN Goto(After) ELSE Finish("EFI_DEVICE_ERROR")
    BY <1>3 DEF ReadBack
  <2>3. pending' = pending /\ cold' = cold
    BY <1>i, <2>2, FetchType
  <2>4. result' # "running" \/ Goto(After)
    BY <2>2 DEF Finish
  <2> QED
    BY <1>r, <1>a, <2>1, <2>3, <2>4, QuietHInv
<1>4. CASE Probe
  <2>1. smn' = smn /\ latch' = latch
    BY <1>4 DEF Probe
  <2>2. PICK line \in {4, 5}, found \in Readings : Fetch(found) /\ Goto(line)
    BY <1>4 DEF Probe, AlreadyEnabled, FirstClock
  <2>3. pending' = pending /\ cold' = cold
    BY <1>i, <2>2, FetchType
  <2> QED
    BY <1>g, <1>r, <2>1, <2>2, <2>3, QuietHInv DEF Line
<1>5. CASE SmnPollBit32
  <2>1. op.kind = "poll" /\ smn' = smn /\ latch' = latch /\ phase = "read"
    BY <1>5 DEF SmnPollBit32
  <2>2. PICK value \in Readings :
          /\ Fetch(value)
          /\ IF value \intersect op.set # {} THEN Goto(After)
             ELSE IF attempt + 1 = REG_POLL_TIMEOUT_LOOPS THEN Finish("EFI_TIMEOUT")
             ELSE attempt' = attempt + 1 /\ UNCHANGED <<pc, phase, word, result>>
    BY <1>5 DEF SmnPollBit32
  <2>3. pending' = pending /\ cold' = cold
    BY <1>i, <2>2, FetchType
  <2>4. result' # "running" \/ Goto(After) \/ phase' = "read"
    BY <2>1, <2>2 DEF Finish
  <2> QED
    BY <1>r, <1>a, <2>1, <2>3, <2>4, QuietHInv
<1>6. CASE FinalRead
  <2>1. smn' = smn /\ latch' = latch /\ result' # "running"
    BY <1>6 DEF FinalRead, Finish
  <2>2. PICK value \in Readings : Fetch(value)
    BY <1>6 DEF FinalRead
  <2>3. pending' = pending /\ cold' = cold
    BY <1>i, <2>2, FetchType
  <2> QED
    BY <1>r, <2>1, <2>3, QuietHInv
<1>7. CASE SetAddr
  <2>1. /\ smn' = smn /\ pc' = pc /\ word' = word /\ phase = "set" /\ result' = result
        /\ pending' = NoMessage /\ cold' = cold
    BY <1>7 DEF SetAddr, Send
  <2>2. result' = "running" /\ pc' = 23 => KeepsAnswer(word')
    BY <2>1 DEF HInv
  <2> QED
    BY <1>r, <1>n, <2>1, <2>2, QuietHInv
<1>8. CASE WriteData
  <2>1. /\ phase = "write" /\ latch' = latch
        /\ IF op.kind = "write" THEN Goto(After)
           ELSE phase' = "check" /\ UNCHANGED <<pc, word, attempt, result>>
    BY <1>8 DEF WriteData
  <2>2. PICK accepted \in BOOLEAN :
          Send(accepted) /\ smn' = IF accepted THEN [smn EXCEPT ![latch] = Data] ELSE smn
    BY <1>8 DEF WriteData
  <2>3. accepted /\ result = "running" /\ pending' = NoMessage /\ cold' = cold
    BY <1>i, <2>2 DEF Send
  <2>4. op.kind \in Writing /\ latch = op.reg /\ op.reg \in Register
    BY <1>i, <2>1, <2>3 DEF PhaseOK, Writing, WordOK, Op
  <2>5. Writer[op.reg] = pc /\ Writer[op.reg] # 0
    BY <1>i, <2>4, LineFacts DEF LineFact, op, Line
  <2>6. op.reg = "EN_034" => KeepsAnswer(Data)
    <3>1. SUFFICES ASSUME op.reg = "EN_034" PROVE KeepsAnswer(Data)
      OBVIOUS
    <3>2. pc = 23
      BY <2>5, <3>1 DEF Writer
    <3> QED
      BY <1>k, <2>1, <2>3, <3>2 DEF HInv, Data, Rmw, KeepsAnswer
  <2>7. \A reg \in Milestones : Opened(reg)' => Unlocked(reg)'
    <3>1. Unlocked(op.reg)
      BY <1>i, <2>4, ReachedUnlocked
    <3>2. smn' = [smn EXCEPT ![op.reg] = Data]
      BY <2>2, <2>3, <2>4
    <3> QED
      BY <1>i, <2>3, <2>4, <2>5, <2>6, <3>1, <3>2, OrderAfterWrite DEF HInv
  <2>8. phase' \in {"set", "write"} => pc' # 23
    BY <1>a, <2>1
  <2> QED
    BY <1>n, <1>r, <2>3, <2>7, <2>8 DEF HInv
<1>9. CASE MailboxTimeout
  <2>1. /\ smn' = smn /\ latch' = latch /\ cold' = cold /\ result = "running" /\ result' = "EFI_TIMEOUT"
        /\ pending' = InFlight \/ pending' = pending
    BY <1>9 DEF MailboxTimeout, Finish
  <2>2. CASE pending' = pending
    BY <1>r, <2>1, <2>2, QuietHInv
  <2>3. CASE pending' = InFlight /\ phase # "write"
    <3>1. pending'.kind # "write"
      BY <2>3 DEF InFlight
    <3> QED
      BY <1>r, <2>1, <3>1, QuietHInv
  <2>4. CASE pending' = InFlight /\ phase = "write"
    <3>1. op.kind \in Writing /\ latch = op.reg
      BY <1>i, <2>1, <2>4 DEF PhaseOK, Writing, WordOK
    <3>2. Writer[op.reg] = pc /\ Writer[op.reg] # 0
      BY <1>i, <3>1, LineFacts DEF LineFact, op, Line
    <3>3. Unlocked(latch)
      BY <1>i, <3>1, ReachedUnlocked
    <3>4. latch = "EN_034" => KeepsAnswer(pending'.data)
      <4>1. SUFFICES ASSUME op.reg = "EN_034" PROVE KeepsAnswer(pending'.data)
        BY <3>1
      <4>2. pc = 23
        BY <3>2, <4>1 DEF Writer
      <4>3. pending'.data = word
        BY <1>k, <2>4, <4>2 DEF InFlight, Data, Rmw
      <4> QED
        BY <2>1, <2>4, <4>2, <4>3 DEF HInv, KeepsAnswer
    <3>5. \A reg : Unlocked(reg)' = Unlocked(reg) /\ Opened(reg)' = Opened(reg)
      BY <2>1 DEF Unlocked, Opened
    <3> QED
      BY <1>r, <2>1, <3>1, <3>2, <3>3, <3>4, <3>5 DEF HInv, KeepsAnswer
  <2> QED
    BY <2>1, <2>2, <2>3, <2>4
<1> QED
  BY <1>1, <1>2, <1>3, <1>4, <1>5, <1>6, <1>7, <1>8, <1>9 DEF Driver

LEMMA NextHInv == MaxRejects = 0 /\ HInv /\ [Next]_vars => HInv'
<1> SUFFICES ASSUME MaxRejects = 0, HInv, [Next]_vars PROVE HInv'
  OBVIOUS
<1>i. RInv /\ RInv' /\ TypeOK /\ PendingOK
  BY NextRInv DEF HInv, RInv, TInv
<1>n. NoMessage.kind # "write"
  BY DEF NoMessage
<1>1. CASE Driver
  BY <1>1, DriverHInv
<1>2. CASE LateExecute
  <2>1. /\ pending # NoMessage /\ pending' = NoMessage /\ cold' = cold
        /\ pc' = pc /\ phase' = phase /\ word' = word /\ result' = result
    BY <1>2 DEF LateExecute, driver
  <2>2. smn' = IF pending.kind = "write" THEN [smn EXCEPT ![latch] = pending.data] ELSE smn
    BY <1>2, <1>i DEF LateExecute, RInv
  <2>3. result' = "running" => phase' \notin {"set", "write"} \/ pc' # 23
    BY <1>i, <2>1 DEF PendingOK
  <2>4. CASE pending.kind = "write"
    <3>1. \A reg \in Milestones : Opened(reg)' => Unlocked(reg)'
      BY <1>i, <2>1, <2>2, <2>4, OrderAfterWrite DEF HInv, TypeOK
    <3> QED
      BY <1>i, <1>n, <2>1, <2>3, <3>1 DEF HInv
  <2>5. CASE pending.kind # "write"
    BY <1>i, <1>n, <2>1, <2>2, <2>3, <2>5, QuietHInv
  <2> QED
    BY <2>4, <2>5
<1>3. CASE Hardware
  <2>1. /\ \A reg \in Register : smn[reg] \subseteq smn'[reg]
        /\ \A reg \in Milestones : smn'[reg] = smn[reg]
        /\ UNCHANGED <<latch, pending, driver, rejects, boots, cold>>
    BY <1>3, <1>i, HardwareAdds, RegisterNames DEF Milestones
  <2>2. ASSUME NEW reg, Unlocked(reg) PROVE Unlocked(reg)'
    BY <2>1, <2>2, RegisterNames DEF Unlocked
  <2>o. \A reg \in Milestones : Opened(reg)' = Opened(reg)
    BY <2>1 DEF Opened
  <2>3. ASSUME NEW data, KeepsAnswer(data) PROVE KeepsAnswer(data)'
    <3>1. 0 \notin smn["EN_034"]
      BY <2>3 DEF KeepsAnswer
    <3>2. smn'["EN_034"] = smn["EN_034"]
      BY <1>3, <1>i, <3>1, RegisterNames DEF Hardware, React, TypeOK
    <3> QED
      BY <2>3, <3>2 DEF KeepsAnswer
  <2> QED
    BY <1>i, <2>1, <2>2, <2>o, <2>3 DEF HInv, driver
<1>4. CASE WarmReset
  <2>1. /\ smn' = smn /\ latch' = latch /\ pending' = pending /\ cold' = cold /\ pc' = 1
    BY <1>4 DEF WarmReset, machine
  <2> QED
    BY <1>i, <2>1, QuietHInv
<1>5. CASE UNCHANGED vars
  <2>1. UNCHANGED <<smn, latch, pending, cold, result, phase, pc, word>>
    BY <1>5 DEF vars, machine, driver
  <2> QED
    BY <1>i, <2>1, QuietHInv DEF HInv
<1> QED
  BY <1>1, <1>2, <1>3, <1>4, <1>5 DEF Next

LEMMA OrderHolds == HInv => HardwareOrder
BY Bits2, Bits100, Bits10000 DEF HInv, HardwareOrder, Milestones, Unlocked, Opened

(* While the SMU rejects nothing, over any number of boots and with late   *)
(* messages: power only to a locked PLL, the second step only after the    *)
(* first is acknowledged, the enable block only after the second, the      *)
(* final gate only after the handshake.                                    *)
THEOREM MilestonesInOrder == ASSUME MaxRejects = 0 PROVE SafeSpec => []HardwareOrder
<1>1. Init => HInv
  BY InitHInv
<1>2. HInv /\ [Next]_vars => HInv'
  BY NextHInv
<1>3. HInv => HardwareOrder
  BY OrderHolds
<1> QED
  BY <1>1, <1>2, <1>3, PTL DEF SafeSpec
=============================================================================
