----------------------------- MODULE VcnProgram -----------------------------
(***************************************************************************)
(* The table behind VcnEnableSequence of BC250VCNUnlockDxe.c and its       *)
(* _secure variant: the registers with their addresses, and the steps R1   *)
(* to R23, with steps 0 and V around them, as lines of a program.          *)
(*                                                                         *)
(* A register word is the set of its bits that are 1.                      *)
(***************************************************************************)
EXTENDS Integers, Sequences

Bit == 0..30
Word == SUBSET Bit
Bits(value) == {b \in Bit : (value \div 2^b) % 2 = 1}

Address ==
  [BITMAP  |-> Bits(\h0000CCB8),
   GATE_120 |-> Bits(\h0115A320), GATE_134 |-> Bits(\h0115A334),
   GATE_130 |-> Bits(\h0115A330), GATE_12C |-> Bits(\h0115A32C),
   GATE_138 |-> Bits(\h0115A338),
   CTL_200 |-> Bits(\h0115F800), CTL_208 |-> Bits(\h0115F808),
   CTL_218 |-> Bits(\h0115F818), CTL_358 |-> Bits(\h0115F958),
   CTL_35C |-> Bits(\h0115F95C), CTL_374 |-> Bits(\h0115F974),
   READY   |-> Bits(\h0115F964),
   PSTEP_19 |-> Bits(\h0115F8FC), ACK_19 |-> Bits(\h0115F920),
   PSTEP_1A |-> Bits(\h0115F924), ACK_1A |-> Bits(\h0115F948),
   EN_204 |-> Bits(\h0100B004), EN_208 |-> Bits(\h0100B008),
   EN_E0  |-> Bits(\h0100B2E0), EN_00C |-> Bits(\h0100B00C),
   EN_034 |-> Bits(\h0100B034),
   ELSEWHERE |-> {}]     \* any register that is none of the driver's business
Register == DOMAIN Address

-----------------------------------------------------------------------------
(* The sequence as a table.  `set' is what a write writes, what an RMW ORs *)
(* in and what a poll waits for; `clear' is what an RMW masks out.         *)
Op == [kind  : {"alive", "grant", "probe", "rmw", "write", "poll", "final"},
       reg   : Register,
       clear : Word,
       set   : Word]

Alive == [kind |-> "alive", reg |-> "ELSEWHERE", clear |-> {}, set |-> {}]
Rmw(reg, clear, set) == [kind |-> "rmw", reg |-> reg, clear |-> clear, set |-> set]
Write(reg, value) == [kind |-> "write", reg |-> reg, clear |-> {}, set |-> value]
Poll(reg, mask) == [kind |-> "poll", reg |-> reg, clear |-> {}, set |-> mask]

PWR_STEP_CODE == Bits(\h3F)

(* Steps 0, 0a and 0b, and the ready poll of a controller found enabled.   *)
Opening ==
  << Alive,
     [kind |-> "grant", reg |-> "BITMAP", clear |-> {}, set |-> Bits(\h40)],
     [kind |-> "probe", reg |-> "CTL_208", clear |-> {}, set |-> Bits(1)],
     Poll("READY", Bits(\h100)) >>

(* Steps R1 to R13: gate modes, enable and trigger, ready poll, tail.      *)
ClockPart ==
  << Rmw("GATE_120", Bits(2), {}),
     Rmw("GATE_134", {}, Bits(\h30)),
     Rmw("GATE_130", Bits(\hE), Bits(1)),
     Rmw("GATE_12C", Bits(7), Bits(\h17)),
     Rmw("CTL_208", {}, Bits(1)),
     Write("CTL_218", Bits(1)),
     Poll("READY", Bits(\h100)),
     Write("CTL_358", Bits(\h10000)),
     Rmw("CTL_35C", {}, Bits(\h4C000)),
     Write("CTL_374", {}) >>

(* Steps R14 to R17.                                                       *)
PowerSteps ==
  << Write("PSTEP_19", PWR_STEP_CODE),
     Poll("ACK_19", Bits(\h10000)),
     Write("PSTEP_1A", PWR_STEP_CODE),
     Poll("ACK_1A", Bits(\h10000)) >>

(* Steps R18 to R23: the enable block, its handshake, the final gate bit.  *)
EnableBlock ==
  << Write("EN_204", Bits(1)),
     Write("EN_208", Bits(1)),
     Write("EN_E0", Bits(\hF)),
     Write("EN_00C", Bits(\h75767570)),
     Rmw("EN_034", {}, Bits(1)),
     Poll("EN_034", Bits(2)),
     Rmw("GATE_138", {}, Bits(1)) >>

(* Step V.                                                                 *)
Verify ==
  << Alive,
     [kind |-> "final", reg |-> "CTL_208", clear |-> {}, set |-> Bits(1)] >>

Program == Opening \o ClockPart \o PowerSteps \o EnableBlock \o Verify
Line == 1..27

AlreadyEnabled == 4      \* the ready poll of Opening
FirstClock == 5          \* the first line of ClockPart
FirstPower == 15         \* the first line of PowerSteps

(* What the first message of a line is for.                                *)
FirstPhase(line) ==
  CASE Program[line].kind = "alive" -> "alive"
    [] Program[line].kind = "write" -> "set"
    [] OTHER -> "read"
=============================================================================
