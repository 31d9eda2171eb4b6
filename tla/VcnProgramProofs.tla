-------------------------- MODULE VcnProgramProofs --------------------------
(***************************************************************************)
(* The table of VcnEnableSequence, line by line, its masks bit by bit, and *)
(* the addresses of its registers: what the proofs about the sequence need *)
(* to know of VcnProgram.                                                  *)
(***************************************************************************)
EXTENDS VcnProgram, TLAPS

-----------------------------------------------------------------------------
(* The table of the program, line by line.                                 *)
LEMMA BitsIsWord == \A value : Bits(value) \in Word
BY DEF Bits, Word

LEMMA EmptyIsWord == {} \in Word
BY DEF Word

LEMMA Table ==
  /\ Program[1] = Opening[1] /\ Program[2] = Opening[2]
  /\ Program[3] = Opening[3] /\ Program[4] = Opening[4]
  /\ Program[5] = ClockPart[1] /\ Program[6] = ClockPart[2]
  /\ Program[7] = ClockPart[3] /\ Program[8] = ClockPart[4]
  /\ Program[9] = ClockPart[5] /\ Program[10] = ClockPart[6]
  /\ Program[11] = ClockPart[7] /\ Program[12] = ClockPart[8]
  /\ Program[13] = ClockPart[9] /\ Program[14] = ClockPart[10]
  /\ Program[15] = PowerSteps[1] /\ Program[16] = PowerSteps[2]
  /\ Program[17] = PowerSteps[3] /\ Program[18] = PowerSteps[4]
  /\ Program[19] = EnableBlock[1] /\ Program[20] = EnableBlock[2]
  /\ Program[21] = EnableBlock[3] /\ Program[22] = EnableBlock[4]
  /\ Program[23] = EnableBlock[5] /\ Program[24] = EnableBlock[6]
  /\ Program[25] = EnableBlock[7]
  /\ Program[26] = Verify[1] /\ Program[27] = Verify[2]
BY DEF Program, Opening, ClockPart, PowerSteps, EnableBlock, Verify

LEMMA RegisterNames ==
  Register = {"BITMAP", "GATE_120", "GATE_134", "GATE_130", "GATE_12C", "GATE_138", "CTL_200",
              "CTL_208", "CTL_218", "CTL_358", "CTL_35C", "CTL_374", "READY", "PSTEP_19", "ACK_19",
              "PSTEP_1A", "ACK_1A", "EN_204", "EN_208", "EN_E0", "EN_00C", "EN_034", "ELSEWHERE"}
BY DEF Register, Address

LEMMA ProgramOp == \A k \in Line : Program[k] \in Op
<1> USE BitsIsWord, EmptyIsWord, RegisterNames DEF Alive, Rmw, Write, Poll, Op
<1>1. \A k \in 1..4 : Opening[k] \in Op
  BY DEF Opening
<1>2. \A k \in 1..10 : ClockPart[k] \in Op
  BY SMTT(60) DEF ClockPart
<1>3. \A k \in 1..4 : PowerSteps[k] \in Op
  BY DEF PowerSteps, PWR_STEP_CODE
<1>4. \A k \in 1..7 : EnableBlock[k] \in Op
  BY SMTT(60) DEF EnableBlock
<1>5. \A k \in 1..2 : Verify[k] \in Op
  BY DEF Verify
<1> QED
  <2> HIDE DEF Op
  <2> QED
    BY <1>1, <1>2, <1>3, <1>4, <1>5, Table DEF Line

LEMMA LineKinds ==
  /\ Program[1].kind = "alive" /\ Program[4].kind = "poll" /\ Program[27].kind = "final"
BY Table DEF Opening, Verify, Alive, Poll

LEMMA ProbeLine == \A k \in Line : Program[k].kind = "probe" => k = 3
<1>1. \A k \in {1, 2} \union 4..9 : Program[k].kind # "probe"
  BY Table DEF Opening, ClockPart, Alive, Poll, Rmw
<1>2. \A k \in 10..18 : Program[k].kind # "probe"
  BY Table DEF ClockPart, PowerSteps, Write, Poll, Rmw
<1>3. \A k \in 19..27 : Program[k].kind # "probe"
  BY Table DEF EnableBlock, Verify, Alive, Write, Poll, Rmw
<1> QED
  BY <1>1, <1>2, <1>3 DEF Line

LEMMA FinalLine == \A k \in Line : Program[k].kind = "final" => k = 27
<1>1. \A k \in 1..9 : Program[k].kind # "final"
  BY Table DEF Opening, ClockPart, Alive, Poll, Rmw
<1>2. \A k \in 10..18 : Program[k].kind # "final"
  BY Table DEF ClockPart, PowerSteps, Write, Poll, Rmw
<1>3. \A k \in 19..26 : Program[k].kind # "final"
  BY Table DEF EnableBlock, Verify, Alive, Write, Poll, Rmw
<1> QED
  BY <1>1, <1>2, <1>3 DEF Line

(* The masks that decide have one bit each.                                *)
Digit(value, b) == (value \div 2^b) % 2
LEMMA BitNames ==
  Bit = {0, 1, 2, 3, 4, 5, 6, 7, 8, 9, 10, 11, 12, 13, 14, 15, 16, 17, 18, 19, 20, 21, 22, 23, 24,
         25, 26, 27, 28, 29, 30}
BY DEF Bit

LEMMA Bits1 == Bits(1) = {0}
<1>1. /\ Digit(1, 0) = 1 /\ Digit(1, 1) = 0 /\ Digit(1, 2) = 0 /\ Digit(1, 3) = 0
       /\ Digit(1, 4) = 0 /\ Digit(1, 5) = 0 /\ Digit(1, 6) = 0 /\ Digit(1, 7) = 0
       /\ Digit(1, 8) = 0 /\ Digit(1, 9) = 0 /\ Digit(1, 10) = 0 /\ Digit(1, 11) = 0
       /\ Digit(1, 12) = 0 /\ Digit(1, 13) = 0 /\ Digit(1, 14) = 0 /\ Digit(1, 15) = 0
       /\ Digit(1, 16) = 0 /\ Digit(1, 17) = 0 /\ Digit(1, 18) = 0 /\ Digit(1, 19) = 0
       /\ Digit(1, 20) = 0 /\ Digit(1, 21) = 0 /\ Digit(1, 22) = 0 /\ Digit(1, 23) = 0
       /\ Digit(1, 24) = 0 /\ Digit(1, 25) = 0 /\ Digit(1, 26) = 0 /\ Digit(1, 27) = 0
       /\ Digit(1, 28) = 0 /\ Digit(1, 29) = 0 /\ Digit(1, 30) = 0
  BY DEF Digit
<1>2. Bits(1) = {b \in Bit : Digit(1, b) = 1}
  BY DEF Bits, Digit
<1> QED
  BY <1>1, <1>2, BitNames

LEMMA Bits2 == Bits(2) = {1}
<1>1. /\ Digit(2, 0) = 0 /\ Digit(2, 1) = 1 /\ Digit(2, 2) = 0 /\ Digit(2, 3) = 0
       /\ Digit(2, 4) = 0 /\ Digit(2, 5) = 0 /\ Digit(2, 6) = 0 /\ Digit(2, 7) = 0
       /\ Digit(2, 8) = 0 /\ Digit(2, 9) = 0 /\ Digit(2, 10) = 0 /\ Digit(2, 11) = 0
       /\ Digit(2, 12) = 0 /\ Digit(2, 13) = 0 /\ Digit(2, 14) = 0 /\ Digit(2, 15) = 0
       /\ Digit(2, 16) = 0 /\ Digit(2, 17) = 0 /\ Digit(2, 18) = 0 /\ Digit(2, 19) = 0
       /\ Digit(2, 20) = 0 /\ Digit(2, 21) = 0 /\ Digit(2, 22) = 0 /\ Digit(2, 23) = 0
       /\ Digit(2, 24) = 0 /\ Digit(2, 25) = 0 /\ Digit(2, 26) = 0 /\ Digit(2, 27) = 0
       /\ Digit(2, 28) = 0 /\ Digit(2, 29) = 0 /\ Digit(2, 30) = 0
  BY DEF Digit
<1>2. Bits(2) = {b \in Bit : Digit(2, b) = 1}
  BY DEF Bits, Digit
<1> QED
  BY <1>1, <1>2, BitNames

LEMMA Bits100 == Bits(\h100) = {8}
<1>1. /\ Digit(\h100, 0) = 0 /\ Digit(\h100, 1) = 0 /\ Digit(\h100, 2) = 0 /\ Digit(\h100, 3) = 0
       /\ Digit(\h100, 4) = 0 /\ Digit(\h100, 5) = 0 /\ Digit(\h100, 6) = 0 /\ Digit(\h100, 7) = 0
       /\ Digit(\h100, 8) = 1 /\ Digit(\h100, 9) = 0 /\ Digit(\h100, 10) = 0 /\ Digit(\h100, 11) = 0
       /\ Digit(\h100, 12) = 0 /\ Digit(\h100, 13) = 0 /\ Digit(\h100, 14) = 0 /\ Digit(\h100, 15) = 0
       /\ Digit(\h100, 16) = 0 /\ Digit(\h100, 17) = 0 /\ Digit(\h100, 18) = 0 /\ Digit(\h100, 19) = 0
       /\ Digit(\h100, 20) = 0 /\ Digit(\h100, 21) = 0 /\ Digit(\h100, 22) = 0 /\ Digit(\h100, 23) = 0
       /\ Digit(\h100, 24) = 0 /\ Digit(\h100, 25) = 0 /\ Digit(\h100, 26) = 0 /\ Digit(\h100, 27) = 0
       /\ Digit(\h100, 28) = 0 /\ Digit(\h100, 29) = 0 /\ Digit(\h100, 30) = 0
  BY DEF Digit
<1>2. Bits(\h100) = {b \in Bit : Digit(\h100, b) = 1}
  BY DEF Bits, Digit
<1> QED
  BY <1>1, <1>2, BitNames

LEMMA Bits10000 == Bits(\h10000) = {16}
<1>1. /\ Digit(\h10000, 0) = 0 /\ Digit(\h10000, 1) = 0 /\ Digit(\h10000, 2) = 0 /\ Digit(\h10000, 3) = 0
       /\ Digit(\h10000, 4) = 0 /\ Digit(\h10000, 5) = 0 /\ Digit(\h10000, 6) = 0 /\ Digit(\h10000, 7) = 0
       /\ Digit(\h10000, 8) = 0 /\ Digit(\h10000, 9) = 0 /\ Digit(\h10000, 10) = 0 /\ Digit(\h10000, 11) = 0
       /\ Digit(\h10000, 12) = 0 /\ Digit(\h10000, 13) = 0 /\ Digit(\h10000, 14) = 0 /\ Digit(\h10000, 15) = 0
       /\ Digit(\h10000, 16) = 1 /\ Digit(\h10000, 17) = 0 /\ Digit(\h10000, 18) = 0 /\ Digit(\h10000, 19) = 0
       /\ Digit(\h10000, 20) = 0 /\ Digit(\h10000, 21) = 0 /\ Digit(\h10000, 22) = 0 /\ Digit(\h10000, 23) = 0
       /\ Digit(\h10000, 24) = 0 /\ Digit(\h10000, 25) = 0 /\ Digit(\h10000, 26) = 0 /\ Digit(\h10000, 27) = 0
       /\ Digit(\h10000, 28) = 0 /\ Digit(\h10000, 29) = 0 /\ Digit(\h10000, 30) = 0
  BY DEF Digit
<1>2. Bits(\h10000) = {b \in Bit : Digit(\h10000, b) = 1}
  BY DEF Bits, Digit
<1> QED
  BY <1>1, <1>2, BitNames

(* No two registers have the same address: the low 12 bits, of which two are  *)
(* never set, tell them apart.                                             *)
Low12(w) ==
  (IF 2 \in w THEN 4 ELSE 0) + (IF 3 \in w THEN 8 ELSE 0) + (IF 4 \in w THEN 16 ELSE 0)
  + (IF 5 \in w THEN 32 ELSE 0) + (IF 6 \in w THEN 64 ELSE 0) + (IF 7 \in w THEN 128 ELSE 0)
  + (IF 8 \in w THEN 256 ELSE 0) + (IF 9 \in w THEN 512 ELSE 0) + (IF 10 \in w THEN 1024 ELSE 0)
  + (IF 11 \in w THEN 2048 ELSE 0)

LEMMA LowOfBits ==
  \A v : Low12(Bits(v)) =
    (IF Digit(v, 2) = 1 THEN 4 ELSE 0) + (IF Digit(v, 3) = 1 THEN 8 ELSE 0)
    + (IF Digit(v, 4) = 1 THEN 16 ELSE 0) + (IF Digit(v, 5) = 1 THEN 32 ELSE 0)
    + (IF Digit(v, 6) = 1 THEN 64 ELSE 0) + (IF Digit(v, 7) = 1 THEN 128 ELSE 0)
    + (IF Digit(v, 8) = 1 THEN 256 ELSE 0) + (IF Digit(v, 9) = 1 THEN 512 ELSE 0)
    + (IF Digit(v, 10) = 1 THEN 1024 ELSE 0) + (IF Digit(v, 11) = 1 THEN 2048 ELSE 0)
<1>1. \A v : \A b \in Bit : b \in Bits(v) <=> Digit(v, b) = 1
  BY DEF Bits, Digit
<1> QED
  BY <1>1, BitNames DEF Low12

LEMMA LowAddresses ==
  /\ Low12(Address["BITMAP"]) = \hCB8
  /\ Low12(Address["GATE_120"]) = \h320
  /\ Low12(Address["GATE_134"]) = \h334
  /\ Low12(Address["GATE_130"]) = \h330
  /\ Low12(Address["GATE_12C"]) = \h32C
  /\ Low12(Address["GATE_138"]) = \h338
  /\ Low12(Address["CTL_200"]) = \h800
  /\ Low12(Address["CTL_208"]) = \h808
  /\ Low12(Address["CTL_218"]) = \h818
  /\ Low12(Address["CTL_358"]) = \h958
  /\ Low12(Address["CTL_35C"]) = \h95C
  /\ Low12(Address["CTL_374"]) = \h974
  /\ Low12(Address["READY"]) = \h964
  /\ Low12(Address["PSTEP_19"]) = \h8FC
  /\ Low12(Address["ACK_19"]) = \h920
  /\ Low12(Address["PSTEP_1A"]) = \h924
  /\ Low12(Address["ACK_1A"]) = \h948
  /\ Low12(Address["EN_204"]) = \h4
  /\ Low12(Address["EN_208"]) = \h8
  /\ Low12(Address["EN_E0"]) = \h2E0
  /\ Low12(Address["EN_00C"]) = \hC
  /\ Low12(Address["EN_034"]) = \h34
  /\ Low12(Address["ELSEWHERE"]) = 0
<1>1. Low12(Address["BITMAP"]) = \hCB8
  <2>1. Address["BITMAP"] = Bits(\hCCB8)
    BY DEF Address
  <2> QED
    BY <2>1, LowOfBits DEF Digit
<1>2. Low12(Address["GATE_120"]) = \h320
  <2>1. Address["GATE_120"] = Bits(\h115A320)
    BY DEF Address
  <2> QED
    BY <2>1, LowOfBits DEF Digit
<1>3. Low12(Address["GATE_134"]) = \h334
  <2>1. Address["GATE_134"] = Bits(\h115A334)
    BY DEF Address
  <2> QED
    BY <2>1, LowOfBits DEF Digit
<1>4. Low12(Address["GATE_130"]) = \h330
  <2>1. Address["GATE_130"] = Bits(\h115A330)
    BY DEF Address
  <2> QED
    BY <2>1, LowOfBits DEF Digit
<1>5. Low12(Address["GATE_12C"]) = \h32C
  <2>1. Address["GATE_12C"] = Bits(\h115A32C)
    BY DEF Address
  <2> QED
    BY <2>1, LowOfBits DEF Digit
<1>6. Low12(Address["GATE_138"]) = \h338
  <2>1. Address["GATE_138"] = Bits(\h115A338)
    BY DEF Address
  <2> QED
    BY <2>1, LowOfBits DEF Digit
<1>7. Low12(Address["CTL_200"]) = \h800
  <2>1. Address["CTL_200"] = Bits(\h115F800)
    BY DEF Address
  <2> QED
    BY <2>1, LowOfBits DEF Digit
<1>8. Low12(Address["CTL_208"]) = \h808
  <2>1. Address["CTL_208"] = Bits(\h115F808)
    BY DEF Address
  <2> QED
    BY <2>1, LowOfBits DEF Digit
<1>9. Low12(Address["CTL_218"]) = \h818
  <2>1. Address["CTL_218"] = Bits(\h115F818)
    BY DEF Address
  <2> QED
    BY <2>1, LowOfBits DEF Digit
<1>10. Low12(Address["CTL_358"]) = \h958
  <2>1. Address["CTL_358"] = Bits(\h115F958)
    BY DEF Address
  <2> QED
    BY <2>1, LowOfBits DEF Digit
<1>11. Low12(Address["CTL_35C"]) = \h95C
  <2>1. Address["CTL_35C"] = Bits(\h115F95C)
    BY DEF Address
  <2> QED
    BY <2>1, LowOfBits DEF Digit
<1>12. Low12(Address["CTL_374"]) = \h974
  <2>1. Address["CTL_374"] = Bits(\h115F974)
    BY DEF Address
  <2> QED
    BY <2>1, LowOfBits DEF Digit
<1>13. Low12(Address["READY"]) = \h964
  <2>1. Address["READY"] = Bits(\h115F964)
    BY DEF Address
  <2> QED
    BY <2>1, LowOfBits DEF Digit
<1>14. Low12(Address["PSTEP_19"]) = \h8FC
  <2>1. Address["PSTEP_19"] = Bits(\h115F8FC)
    BY DEF Address
  <2> QED
    BY <2>1, LowOfBits DEF Digit
<1>15. Low12(Address["ACK_19"]) = \h920
  <2>1. Address["ACK_19"] = Bits(\h115F920)
    BY DEF Address
  <2> QED
    BY <2>1, LowOfBits DEF Digit
<1>16. Low12(Address["PSTEP_1A"]) = \h924
  <2>1. Address["PSTEP_1A"] = Bits(\h115F924)
    BY DEF Address
  <2> QED
    BY <2>1, LowOfBits DEF Digit
<1>17. Low12(Address["ACK_1A"]) = \h948
  <2>1. Address["ACK_1A"] = Bits(\h115F948)
    BY DEF Address
  <2> QED
    BY <2>1, LowOfBits DEF Digit
<1>18. Low12(Address["EN_204"]) = \h4
  <2>1. Address["EN_204"] = Bits(\h100B004)
    BY DEF Address
  <2> QED
    BY <2>1, LowOfBits DEF Digit
<1>19. Low12(Address["EN_208"]) = \h8
  <2>1. Address["EN_208"] = Bits(\h100B008)
    BY DEF Address
  <2> QED
    BY <2>1, LowOfBits DEF Digit
<1>20. Low12(Address["EN_E0"]) = \h2E0
  <2>1. Address["EN_E0"] = Bits(\h100B2E0)
    BY DEF Address
  <2> QED
    BY <2>1, LowOfBits DEF Digit
<1>21. Low12(Address["EN_00C"]) = \hC
  <2>1. Address["EN_00C"] = Bits(\h100B00C)
    BY DEF Address
  <2> QED
    BY <2>1, LowOfBits DEF Digit
<1>22. Low12(Address["EN_034"]) = \h34
  <2>1. Address["EN_034"] = Bits(\h100B034)
    BY DEF Address
  <2> QED
    BY <2>1, LowOfBits DEF Digit
<1>23. Low12(Address["ELSEWHERE"]) = 0
  BY DEF Address, Low12
<1> QED
  BY <1>1, <1>2, <1>3, <1>4, <1>5, <1>6, <1>7, <1>8, <1>9, <1>10, <1>11, <1>12, <1>13, <1>14, <1>15, <1>16, <1>17, <1>18, <1>19, <1>20, <1>21, <1>22, <1>23

LEMMA AddressesDiffer ==
  \A reg, other \in Register : Address[reg] = Address[other] => reg = other
BY LowAddresses, RegisterNames
=============================================================================
