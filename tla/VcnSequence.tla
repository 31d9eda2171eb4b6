---------------------------- MODULE VcnSequence ----------------------------
(***************************************************************************)
(* VcnEnableSequence of BC250VCNUnlockDxe.c and of its _secure variant:    *)
(* the replay of the SMU's own VCN bring-up, from the host, by messages.   *)
(*                                                                         *)
(* One action is one message of SendQ3, as Q3Call promises it: the SMU     *)
(* executes it and the driver sees its done status, or the SMU rejects it  *)
(* and the driver sees a done status all the same, or the call times out   *)
(* and the message may still be executed later, though never after a later *)
(* message has been posted.  Between two messages the hardware may react,  *)
(* and at any moment the machine may be reset into another boot, with the  *)
(* registers and the SMU as they are.                                      *)
(***************************************************************************)
EXTENDS VcnProgram

CONSTANTS PreStates,               \* what the registers may hold at the cold boot
          SecureReads,             \* the _secure variant: the bitmap is read by message, too
          REG_POLL_TIMEOUT_LOOPS,
          MaxBoots,                \* bound on boots
          MaxRejects               \* bound on messages the SMU rejects

ASSUME SequenceAssumption ==
  /\ PreStates \subseteq [Register -> Word]
  /\ SecureReads \in BOOLEAN
  /\ REG_POLL_TIMEOUT_LOOPS \in Nat \ {0}
  /\ MaxBoots \in Nat \ {0} /\ MaxRejects \in Nat

-----------------------------------------------------------------------------
VARIABLES smn,       \* the registers
          latch,     \* the SMU's *(0x8B08): the register a WRITE message goes to
          pending,   \* a message whose call timed out, that the SMU may still execute
          pc,        \* the line of the program
          phase,     \* the message of that line that comes next
          word,      \* New of SmnSecureRmw32, Bitmap | 0x40 of the grant
          attempt,   \* Attempt of SmnPollBit32
          result,    \* "running", or what VcnEnableSequence returned
          skipped,   \* this boot found the enable bit set
          rejects,   \* messages rejected so far
          boots,     \* boots so far
          cold       \* the registers at the cold boot

machine == <<smn, latch, pending>>
driver == <<pc, phase, word, attempt, result, skipped>>
vars == <<machine, driver, rejects, boots, cold>>

Message == [kind : {"none", "other", "set", "write"}, reg : Register, data : Word]
NoMessage == [kind |-> "none", reg |-> "ELSEWHERE", data |-> {}]

TypeOK ==
  /\ smn \in [Register -> Word]
  /\ latch \in Register
  /\ pending \in Message
  /\ pc \in Line
  /\ phase \in {"alive", "read", "set", "write", "check"}
  /\ word \in Word
  /\ attempt \in 0..(REG_POLL_TIMEOUT_LOOPS - 1)
  /\ result \in {"running", "EFI_SUCCESS", "EFI_TIMEOUT", "EFI_DEVICE_ERROR"}
  /\ skipped \in BOOLEAN
  /\ rejects \in 0..MaxRejects
  /\ boots \in 0..MaxBoots
  /\ cold \in [Register -> Word]

op == Program[pc]

Init ==
  /\ smn \in PreStates /\ cold = smn
  /\ latch = "ELSEWHERE" /\ pending = NoMessage
  /\ pc = 1 /\ phase = FirstPhase(1) /\ word = {} /\ attempt = 0
  /\ result = "running" /\ skipped = FALSE /\ rejects = 0 /\ boots = 1

-----------------------------------------------------------------------------
(* What a step of the driver does next.                                    *)
Goto(line) ==
  /\ pc' = line /\ phase' = FirstPhase(line) /\ word' = {} /\ attempt' = 0
  /\ UNCHANGED result

Finish(status) ==
  /\ result' = status
  /\ UNCHANGED <<pc, phase, word, attempt>>

(* The line after this one: the ready poll of an enabled controller leads  *)
(* past the clock part.                                                    *)
After == IF pc = AlreadyEnabled THEN FirstPower ELSE pc + 1

(* A message goes out and comes back with a done status, accepted or not.  *)
Send(accepted) ==
  /\ result = "running"
  /\ pending = NoMessage
  /\ accepted \/ rejects < MaxRejects
  /\ rejects' = IF accepted THEN rejects ELSE rejects + 1
  /\ UNCHANGED <<pending, boots, cold>>

(* SmnSecureRead32 does not look at the status: when the SMU rejects the   *)
(* read, the argument slot still holds the address.                        *)
SmnSecureRead32(value) ==
  \E accepted \in BOOLEAN :
    /\ Send(accepted)
    /\ value = IF accepted THEN smn[op.reg] ELSE Address[op.reg]

(* The base variant reads the permission bitmap through the config pair.   *)
Raw == op.kind = "grant" /\ phase \in {"read", "check"} /\ ~SecureReads

SmnRead32(value) ==
  /\ result = "running"
  /\ value = smn[op.reg]
  /\ UNCHANGED <<pending, rejects, boots, cold>>

Fetch(value) == IF Raw THEN SmnRead32(value) ELSE SmnSecureRead32(value)
Readings == {smn[op.reg], Address[op.reg]}

-----------------------------------------------------------------------------
(* SmuAlive: only an executed test message echoes its argument + 1.        *)
SmuAlive ==
  /\ phase = "alive"
  /\ \E accepted \in BOOLEAN :
       /\ Send(accepted)
       /\ IF accepted THEN Goto(After) ELSE Finish("EFI_DEVICE_ERROR")
  /\ UNCHANGED <<smn, latch, skipped>>

(* Mutants of ReadOld: an RMW is skipped once its own bits are set, and    *)
(* only those bits are written.                                            *)
ReadSetBitsOnly ==
  /\ phase = "read" /\ op.kind \in {"grant", "rmw"}
  /\ \E old \in Readings :
       /\ Fetch(old)
       /\ IF op.set \subseteq old
          THEN Goto(After)
          ELSE /\ phase' = "set" /\ word' = (old \ op.clear) \union op.set
               /\ UNCHANGED <<pc, attempt, result>>
  /\ UNCHANGED <<smn, latch, skipped>>
ForgetOldBits ==
  /\ phase = "read" /\ op.kind \in {"grant", "rmw"}
  /\ \E old \in Readings :
       /\ Fetch(old)
       /\ phase' = "set" /\ word' = op.set /\ UNCHANGED <<pc, attempt, result>>
  /\ UNCHANGED <<smn, latch, skipped>>

(* The first half of SmnSecureRmw32, and of step 0a.                       *)
ReadOld ==
  /\ phase = "read" /\ op.kind \in {"grant", "rmw"}
  /\ \E old \in Readings :
       /\ Fetch(old)
       /\ LET new == (old \ op.clear) \union op.set
          IN  IF new = old
              THEN Goto(After)
              ELSE phase' = "set" /\ word' = new /\ UNCHANGED <<pc, attempt, result>>
  /\ UNCHANGED <<smn, latch, skipped>>

(* The second half: SmnSecureRmw32 compares the whole word, step 0a looks  *)
(* at the permission bit.                                                  *)
Confirms(check) == IF op.kind = "grant" THEN op.set \subseteq check ELSE check = word

ReadBack ==
  /\ phase = "check"
  /\ \E check \in Readings :
       /\ Fetch(check)
       /\ IF Confirms(check) THEN Goto(After) ELSE Finish("EFI_DEVICE_ERROR")
  /\ UNCHANGED <<smn, latch, skipped>>

(* Mutant of Probe: any bit of the control word counts as the enable bit.  *)
ProbeAnyBit ==
  /\ phase = "read" /\ op.kind = "probe"
  /\ \E found \in Readings :
       /\ Fetch(found)
       /\ skipped' = (found # {})
       /\ Goto(IF found # {} THEN AlreadyEnabled ELSE FirstClock)
  /\ UNCHANGED <<smn, latch>>

(* Step 0b: a controller found enabled is not set up again.                *)
Probe ==
  /\ phase = "read" /\ op.kind = "probe"
  /\ \E found \in Readings :
       /\ Fetch(found)
       /\ skipped' = (op.set \subseteq found)
       /\ Goto(IF op.set \subseteq found THEN AlreadyEnabled ELSE FirstClock)
  /\ UNCHANGED <<smn, latch>>

(* Mutants of SmnPollBit32: one read too many, a poll that goes on when it *)
(* has run out, a count that wraps and never runs out.                     *)
PollOneMore ==
  /\ phase = "read" /\ op.kind = "poll"
  /\ \E value \in Readings :
       /\ Fetch(value)
       /\ IF value \intersect op.set # {} THEN Goto(After)
          ELSE IF attempt = REG_POLL_TIMEOUT_LOOPS THEN Finish("EFI_TIMEOUT")
          ELSE attempt' = attempt + 1 /\ UNCHANGED <<pc, phase, word, result>>
  /\ UNCHANGED <<smn, latch, skipped>>
PollGoesOn ==
  /\ phase = "read" /\ op.kind = "poll"
  /\ \E value \in Readings :
       /\ Fetch(value)
       /\ IF value \intersect op.set # {} \/ attempt + 1 = REG_POLL_TIMEOUT_LOOPS THEN Goto(After)
          ELSE attempt' = attempt + 1 /\ UNCHANGED <<pc, phase, word, result>>
  /\ UNCHANGED <<smn, latch, skipped>>
PollWraps ==
  /\ phase = "read" /\ op.kind = "poll"
  /\ \E value \in Readings :
       /\ Fetch(value)
       /\ IF value \intersect op.set # {} THEN Goto(After)
          ELSE /\ attempt' = (attempt + 1) % REG_POLL_TIMEOUT_LOOPS
               /\ UNCHANGED <<pc, phase, word, result>>
  /\ UNCHANGED <<smn, latch, skipped>>

(* The value is tested after every read; the last read that fails ends it. *)
SmnPollBit32 ==
  /\ phase = "read" /\ op.kind = "poll"
  /\ \E value \in Readings :
       /\ Fetch(value)
       /\ IF value \intersect op.set # {} THEN Goto(After)
          ELSE IF attempt + 1 = REG_POLL_TIMEOUT_LOOPS THEN Finish("EFI_TIMEOUT")
          ELSE attempt' = attempt + 1 /\ UNCHANGED <<pc, phase, word, result>>
  /\ UNCHANGED <<smn, latch, skipped>>

(* The end of step V.                                                      *)
FinalRead ==
  /\ phase = "read" /\ op.kind = "final"
  /\ \E value \in Readings :
       /\ Fetch(value)
       /\ Finish(IF op.set \subseteq value THEN "EFI_SUCCESS" ELSE "EFI_DEVICE_ERROR")
  /\ UNCHANGED <<smn, latch, skipped>>

(* SmnSecureWrite32: SET_ADDR, then WRITE to whatever the latch holds.     *)
SetAddr ==
  /\ phase = "set"
  /\ \E accepted \in BOOLEAN :
       /\ Send(accepted)
       /\ latch' = IF accepted THEN op.reg ELSE latch
  /\ phase' = "write"
  /\ UNCHANGED <<smn, pc, word, attempt, result, skipped>>

Data == IF op.kind = "write" THEN op.set ELSE word

WriteData ==
  /\ phase = "write"
  /\ \E accepted \in BOOLEAN :
       /\ Send(accepted)
       /\ smn' = IF accepted THEN [smn EXCEPT ![latch] = Data] ELSE smn
  /\ IF op.kind = "write"
     THEN Goto(After)
     ELSE phase' = "check" /\ UNCHANGED <<pc, word, attempt, result>>
  /\ UNCHANGED <<latch, skipped>>

(* A call times out before its message is posted, or after; every caller   *)
(* gives the error up to the entry point.  While an earlier message is     *)
(* still with the SMU nothing can be posted, and this is all that happens. *)
InFlight ==
  [kind |-> IF phase \in {"set", "write"} THEN phase ELSE "other",
   reg  |-> IF phase = "set" THEN op.reg ELSE "ELSEWHERE",
   data |-> IF phase = "write" THEN Data ELSE {}]

MailboxTimeout ==
  /\ result = "running" /\ ~Raw
  /\ \/ pending = NoMessage /\ pending' = InFlight
     \/ UNCHANGED pending
  /\ Finish("EFI_TIMEOUT")
  /\ UNCHANGED <<smn, latch, skipped, rejects, boots, cold>>

Driver ==
  \/ SmuAlive \/ ReadOld \/ ReadBack \/ Probe \/ SmnPollBit32 \/ FinalRead
  \/ SetAddr \/ WriteData \/ MailboxTimeout

-----------------------------------------------------------------------------
(* The SMU comes round to a message the driver has given up, and executes  *)
(* or rejects it.                                                          *)
LateExecute ==
  /\ pending # NoMessage /\ pending' = NoMessage
  /\ \E accepted \in BOOLEAN :
       /\ accepted \/ rejects < MaxRejects
       /\ rejects' = IF accepted THEN rejects ELSE rejects + 1
       /\ latch' = IF accepted /\ pending.kind = "set" THEN pending.reg ELSE latch
       /\ smn' = IF accepted /\ pending.kind = "write"
                 THEN [smn EXCEPT ![latch] = pending.data] ELSE smn
  /\ UNCHANGED <<driver, boots, cold>>

(* What the polls wait for: an enabled and triggered PLL locks, a power    *)
(* step is acknowledged, the enable block answers its handshake in the     *)
(* register that asked.                                                    *)
React(cause, reg, bits) ==
  /\ cause /\ ~(bits \subseteq smn[reg])
  /\ smn' = [smn EXCEPT ![reg] = @ \union bits]
  /\ UNCHANGED <<latch, pending, driver, rejects, boots, cold>>

Hardware ==
  \/ React(0 \in smn["CTL_208"] /\ 0 \in smn["CTL_218"], "READY", Bits(\h100))
  \/ React(smn["PSTEP_19"] = PWR_STEP_CODE, "ACK_19", Bits(\h10000))
  \/ React(smn["PSTEP_1A"] = PWR_STEP_CODE, "ACK_1A", Bits(\h10000))
  \/ React(0 \in smn["EN_034"], "EN_034", Bits(2))

(* Another boot into the driver, out of a finished sequence or out of the  *)
(* middle of one.  A reset during a message is MailboxTimeout, then this.  *)
WarmReset ==
  /\ boots < MaxBoots
  /\ boots' = boots + 1
  /\ pc' = 1 /\ phase' = FirstPhase(1) /\ word' = {} /\ attempt' = 0
  /\ result' = "running" /\ skipped' = FALSE
  /\ UNCHANGED <<machine, rejects, cold>>

Next == Driver \/ LateExecute \/ Hardware \/ WarmReset

SafeSpec == Init /\ [][Next]_vars

(* The driver runs; the SMU and the hardware need not answer.              *)
Spec == SafeSpec /\ WF_vars(Driver)
-----------------------------------------------------------------------------
(* What line k of the program leaves in the registers once it is past.     *)
Held(k) ==
  LET line == Program[k]
      now == smn[line.reg]
  IN  CASE line.kind \in {"grant", "final"} -> line.set \subseteq now
        [] line.kind = "rmw" -> line.set \subseteq now /\ now \intersect (line.clear \ line.set) = {}
        [] line.kind = "write" -> now = line.set
        [] line.kind = "poll" -> line.set \intersect now # {}
        [] OTHER -> TRUE

Path == Line \ (IF skipped THEN FirstClock..FirstPower - 1 ELSE {AlreadyEnabled})

(* Whatever line the driver has reached, and by whichever branch, every    *)
(* earlier line of that branch is still in force: no skipped RMW, no lost  *)
(* or misdirected write, no late message of an earlier boot and no poll    *)
(* that gave up undoes it.  Success puts all of them in force.             *)
ReplayPrefix ==
  /\ \A k \in Path : k < pc => Held(k)
  /\ result = "EFI_SUCCESS" => \A k \in Path : Held(k)

(* The hardware sees the milestones in their order over all boots, late    *)
(* messages included: power only to a locked PLL, the second step after    *)
(* the first is acknowledged, the enable block after the second, the final *)
(* gate after the handshake.                                               *)
HardwareOrder ==
  /\ smn["PSTEP_19"] # cold["PSTEP_19"] => Bits(\h100) \subseteq smn["READY"]
  /\ smn["PSTEP_1A"] # cold["PSTEP_1A"] => Bits(\h10000) \subseteq smn["ACK_19"]
  /\ smn["EN_204"] # cold["EN_204"] => Bits(\h10000) \subseteq smn["ACK_1A"]
  /\ 0 \in smn["GATE_138"] \ cold["GATE_138"] => Bits(2) \subseteq smn["EN_034"]

(* The bits of a register that the sequence may change.                    *)
Touched(reg) ==
  LET lines == {k \in Line : Program[k].reg = reg}
  IN  IF \E k \in lines : Program[k].kind = "write" THEN Bit
      ELSE UNION {Program[k].clear \union Program[k].set : k \in lines}

(* Success means that the PLL is enabled and the enable block has answered *)
(* its handshake, however many messages the SMU rejected on the way.       *)
SuccessIsReal ==
  result = "EFI_SUCCESS" => 0 \in smn["CTL_208"] /\ 1 \in smn["EN_034"]

(* No rejected read makes the driver take a disabled controller for an     *)
(* enabled one and leave its clock part out.                               *)
SkipsOnlyEnabled == [][~skipped /\ skipped' => 0 \in smn["CTL_208"]]_vars

(* Every boot's sequence comes to an end, whatever the SMU and the         *)
(* hardware do or fail to do.                                              *)
SequenceEnds == result = "running" ~> result # "running"

(* What comments and docs say and the code does not do: success includes   *)
(* the acknowledge bits of the power steps ...                             *)
VerifiedAcks ==
  result = "EFI_SUCCESS" =>
    Bits(\h10000) \subseteq smn["ACK_19"] /\ Bits(\h10000) \subseteq smn["ACK_1A"]

(* ... and a controller whose enable bit is set has its clock part done.   *)
ClockPartDone ==
  skipped /\ pc >= FirstPower => \A k \in FirstClock..FirstPower - 1 : Held(k)
=============================================================================
