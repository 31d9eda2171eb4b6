-------------------------- MODULE PostflashProofs --------------------------
(***************************************************************************)
(* The judge, for every pre-state of the registers and any number of       *)
(* rejected messages, polls and boots: what it may conclude, and, with an  *)
(* SMU that rejects none of the driver's messages, that it recognises a    *)
(* driver's success and how far the driver got.                            *)
(***************************************************************************)
EXTENDS PostflashCheck, VcnSequenceProofs, FiniteSetTheorems

LEMMA BaseRows ==
  /\ Len(Base) = 17
  /\ Base[1] = "CTL_208" /\ Base[2] = "PSTEP_19" /\ Base[3] = "ACK_19" /\ Base[4] = "PSTEP_1A"
  /\ Base[5] = "ACK_1A" /\ Base[6] = "CTL_358" /\ Base[7] = "CTL_35C" /\ Base[8] = "BITMAP"
  /\ Base[9] = "CTL_218" /\ Base[10] = "EN_204" /\ Base[11] = "EN_208" /\ Base[12] = "EN_E0"
  /\ Base[13] = "EN_00C" /\ Base[14] = "EN_034" /\ Base[15] = "DCLK_PROG" /\ Base[16] = "VCLK_PROG"
  /\ Base[17] = "CTL_200"
BY DEF Base

LEMMA MarkerNames ==
  Marker = {"CTL_208", "PSTEP_19", "ACK_19", "PSTEP_1A", "ACK_1A", "CTL_358", "CTL_35C", "BITMAP",
            "CTL_218", "EN_204", "EN_208", "EN_E0", "EN_00C", "EN_034", "DCLK_PROG", "VCLK_PROG"}
<1>1. 1..16 = {1, 2, 3, 4, 5, 6, 7, 8, 9, 10, 11, 12, 13, 14, 15, 16}
  OBVIOUS
<1> QED
  BY <1>1, BaseRows DEF Marker

LEMMA MarkerFinite == IsFiniteSet(Marker)
<1> DEFINE rows == [k \in 1..16 |-> Base[k]]
<1>1. rows \in Surjection(1..16, Marker)
  BY DEF Marker, Surjection
<1>2. IsFiniteSet(1..16)
  <2>1. 1 \in Int /\ 16 \in Int
    OBVIOUS
  <2> QED
    BY <2>1, FS_Interval, Zenon
<1> HIDE DEF rows
<1> QED
  BY <1>1, <1>2, FS_Surjection

LEMMA ClockNames == Clock = {"DCLK_PROG", "VCLK_PROG"}
BY DEF Clock, ClockAddress

-----------------------------------------------------------------------------
(* While the judge reads, the driver is done and no message of its is left *)
(* with the SMU: only the hardware moves.                                  *)
Judging == row > 0 => result # "running" /\ pending = NoMessage

(* What the judge has noted was so, and still is.                          *)
Honest ==
  /\ "CTL_208" \in passed => row > 0 /\ 0 \in smn["CTL_208"]
  /\ ctl_ok => row > 0 /\ smn["CTL_200"] = Bits(\hE)

Sentenced ==
  verdict \notin {"none", "TRANSPORT_DEAD"} => row = 18 /\ verdict = Sentence(passed, ctl_ok)

JInv == TInv /\ JTypeOK /\ Judging /\ Honest /\ Sentenced

LEMMA DriverRuns == Driver => result = "running"
BY DEF Driver, SmuAlive, ReadOld, ReadBack, Probe, SmnPollBit32, FinalRead, SetAddr, WriteData,
       MailboxTimeout, Fetch, SmnRead32, SmnSecureRead32, Send

LEMMA MachineUnderJudge ==
  ASSUME TypeOK, Judging, row > 0, Machine
  PROVE  Hardware
BY DriverRuns DEF Machine, Judging, LateExecute

LEMMA AskType ==
  ASSUME JTypeOK, NEW accepted \in BOOLEAN, Ask(accepted)
  PROVE  /\ dropped' \in 0..MaxDropped /\ UNCHANGED vars
         /\ result # "running" /\ pending = NoMessage /\ verdict = "none"
         /\ dropped' = 0 => accepted /\ dropped = 0
BY JudgeAssumption DEF Ask, JTypeOK

(* A rejected read passes its address for the value: it is neither the     *)
(* enable bit nor the boot word.                                           *)
LEMMA AddressDoesNotPass ==
  ~Passes("CTL_208", Address["CTL_208"]) /\ Address["CTL_200"] # Bits(\hE)
<1>1. Mask("CTL_208") = {0}
  BY Bits1 DEF Mask
<1>2. 1 \in Bits(\hE) /\ 1 \notin Bits(\h0115F800)
  BY DEF Bits, Bit
<1> QED
  BY <1>1, <1>2, AddressBits DEF Passes, Address

LEMMA SentenceType == \A p, ok : Sentence(p, ok) \in Verdicts
BY DEF Sentence, Verdicts

LEMMA InitJInv == JInit => JInv
<1> SUFFICES ASSUME JInit PROVE JInv
  OBVIOUS
<1>1. TInv /\ TypeOK
  BY InitTInv DEF JInit, TInv
<1>2. ctl_ok \in BOOLEAN
  BY DEF JInit
<1>3. JTypeOK
  BY <1>1, <1>2, BaseRows, JudgeAssumption DEF JInit, JTypeOK, Verdicts
<1> QED
  BY <1>1, <1>3 DEF JInit, JInv, Judging, Honest, Sentenced

LEMMA NextJInv == JInv /\ [JNext]_jvars => JInv'
<1> SUFFICES ASSUME JInv, [JNext]_jvars PROVE JInv'
  OBVIOUS
<1>i. TInv /\ TypeOK /\ JTypeOK /\ row \in 0..18 /\ passed \subseteq Marker
  BY BaseRows DEF JInv, JTypeOK
<1>n. ASSUME [Next]_vars PROVE TInv' /\ TypeOK'
  BY <1>i, <1>n, NextTInv DEF TInv
<1>v. ASSUME UNCHANGED vars PROVE TInv' /\ TypeOK' /\ smn' = smn /\ result' = result /\ pending' = pending
  BY <1>n, <1>v DEF vars, machine, driver
<1>1. CASE Machine
  <2>1. TInv' /\ TypeOK' /\ UNCHANGED judge
    BY <1>1, <1>n DEF Machine, Next
  <2>2. JTypeOK'
    BY <1>i, <2>1 DEF judge, JTypeOK
  <2>3. CASE row > 0
    <3>1. Hardware
      BY <1>1, <1>i, <2>3, MachineUnderJudge DEF JInv
    <3>2. /\ smn'["CTL_208"] = smn["CTL_208"] /\ smn'["CTL_200"] = smn["CTL_200"]
          /\ result' = result /\ pending' = pending
      BY <1>i, <3>1, HardwareAdds, RegisterNames DEF driver
    <3> QED
      BY <2>1, <2>2, <3>2 DEF judge, JInv, Judging, Honest, Sentenced
  <2>4. CASE row = 0
    BY <2>1, <2>2, <2>4 DEF judge, JInv, Judging, Honest, Sentenced
  <2> QED
    BY <1>i, <2>3, <2>4
<1>2. CASE WarmReset /\ Asleep
  <2>1. TInv' /\ TypeOK' /\ ctl_ok' = FALSE
    BY <1>2, <1>n DEF Next, Asleep
  <2>b. ctl_ok' \in BOOLEAN
    BY <2>1
  <2>2. JTypeOK'
    BY <1>2, <2>1, <2>b, BaseRows, JudgeAssumption DEF Asleep, JTypeOK, Verdicts
  <2> QED
    BY <1>2, <2>1, <2>2 DEF Asleep, JInv, Judging, Honest, Sentenced
<1>3. CASE JudgeAlive
  <2>1. PICK accepted \in BOOLEAN :
          /\ Ask(accepted)
          /\ IF accepted THEN row' = 1 /\ verdict' = verdict
             ELSE verdict' = "TRANSPORT_DEAD" /\ row' = row
    BY <1>3 DEF JudgeAlive
  <2>2. row = 0 /\ passed' = passed /\ ctl_ok' = ctl_ok
    BY <1>3 DEF JudgeAlive
  <2>3. /\ dropped' \in 0..MaxDropped /\ UNCHANGED vars
        /\ result # "running" /\ pending = NoMessage /\ verdict = "none"
    BY <1>i, <2>1, AskType
  <2>4. TInv' /\ TypeOK' /\ smn' = smn /\ result' = result /\ pending' = pending
    BY <1>v, <2>3
  <2>5. row' \in {0, 1} /\ verdict' \in {"none", "TRANSPORT_DEAD"}
    BY <2>1, <2>2, <2>3
  <2>6. JTypeOK'
    BY <1>i, <2>2, <2>3, <2>4, <2>5, BaseRows DEF JTypeOK, Verdicts
  <2> QED
    BY <2>2, <2>3, <2>4, <2>5, <2>6 DEF JInv, Judging, Honest, Sentenced
<1>4. CASE JudgeSilent
  <2>1. /\ UNCHANGED vars /\ row' = row /\ passed' = passed /\ ctl_ok' = ctl_ok /\ dropped' = dropped
        /\ verdict' = "TRANSPORT_DEAD"
    BY <1>4 DEF JudgeSilent
  <2>2. JTypeOK'
    BY <1>i, <1>v, <2>1 DEF JTypeOK, Verdicts
  <2> QED
    BY <1>v, <2>1, <2>2 DEF JInv, Judging, Honest, Sentenced
<1>5. CASE JudgeRead
  <2>1. PICK accepted \in BOOLEAN :
          /\ Ask(accepted)
          /\ \E value \in IF accepted THEN Stored(Base[row]) ELSE {Slot(Base[row])} :
               /\ passed' = IF Passes(Base[row], value) THEN passed \union {Base[row]} ELSE passed
               /\ ctl_ok' = (ctl_ok \/ (Base[row] = "CTL_200" /\ value = Bits(\hE)))
    BY <1>5 DEF JudgeRead
  <2>2. PICK value \in IF accepted THEN Stored(Base[row]) ELSE {Slot(Base[row])} :
               /\ passed' = IF Passes(Base[row], value) THEN passed \union {Base[row]} ELSE passed
               /\ ctl_ok' = (ctl_ok \/ (Base[row] = "CTL_200" /\ value = Bits(\hE)))
    BY <2>1
  <2>3. row \in 1..17 /\ row' = row + 1 /\ verdict' = verdict
    BY <1>5, BaseRows DEF JudgeRead
  <2>4. /\ dropped' \in 0..MaxDropped /\ UNCHANGED vars
        /\ result # "running" /\ pending = NoMessage /\ verdict = "none"
    BY <1>i, <2>1, AskType
  <2>5. TInv' /\ TypeOK' /\ smn' = smn /\ result' = result /\ pending' = pending
    BY <1>v, <2>4
  <2>6. Passes(Base[row], value) => Base[row] \in Marker
    BY MarkerNames DEF Passes
  <2>7. ctl_ok' \in BOOLEAN
    BY <2>2
  <2>8. JTypeOK'
    BY <1>i, <2>2, <2>3, <2>4, <2>5, <2>6, <2>7, BaseRows DEF JTypeOK
  <2>9. Base[row] \in {"CTL_208", "CTL_200"} => value \in {smn[Base[row]], Address[Base[row]]}
    BY <2>2, ClockNames DEF Stored, Slot
  <2>10. Base[row] = "CTL_208" /\ Passes(Base[row], value) => 0 \in smn["CTL_208"]
    BY <2>9, AddressDoesNotPass, Bits1 DEF Passes, Mask
  <2>11. Base[row] = "CTL_200" /\ value = Bits(\hE) => smn["CTL_200"] = Bits(\hE)
    BY <2>9, AddressDoesNotPass
  <2>12. Honest'
    <3>1. Honest /\ row' > 0
      BY <2>3 DEF JInv
    <3>2. "CTL_208" \in passed' => 0 \in smn'["CTL_208"]
      BY <2>2, <2>5, <2>10, <3>1 DEF Honest
    <3>3. ctl_ok' => smn'["CTL_200"] = Bits(\hE)
      <4>1. ctl_ok' => ctl_ok \/ (Base[row] = "CTL_200" /\ value = Bits(\hE))
        BY <2>2
      <4> QED
        BY <2>5, <2>11, <3>1, <4>1 DEF Honest
    <3> QED
      BY <3>1, <3>2, <3>3 DEF Honest
  <2> QED
    BY <2>3, <2>4, <2>5, <2>8, <2>12 DEF JInv, Judging, Sentenced
<1>6. CASE JudgeVerdict
  <2>1. /\ UNCHANGED vars /\ row' = row /\ passed' = passed /\ ctl_ok' = ctl_ok /\ dropped' = dropped
        /\ row = 18 /\ verdict' = Sentence(passed, ctl_ok)
    BY <1>6, BaseRows DEF JudgeVerdict
  <2>2. JTypeOK'
    BY <1>i, <1>v, <2>1, SentenceType DEF JTypeOK
  <2> QED
    BY <1>v, <2>1, <2>2 DEF JInv, Judging, Honest, Sentenced
<1>7. CASE UNCHANGED jvars
  <2>1. UNCHANGED vars /\ UNCHANGED <<row, passed, ctl_ok, verdict, dropped>>
    BY <1>7 DEF jvars, judge
  <2>2. JTypeOK'
    BY <1>i, <1>v, <2>1 DEF JTypeOK
  <2> QED
    BY <1>v, <2>1, <2>2 DEF JInv, Judging, Honest, Sentenced
<1> QED
  BY <1>1, <1>2, <1>3, <1>4, <1>5, <1>6, <1>7 DEF JNext

(* The judge's state keeps its types: it reads no row beyond the table.    *)
THEOREM JudgeTypes == JSpec => []JTypeOK
<1>1. JInv => JTypeOK
  BY DEF JInv
<1> QED
  BY <1>1, InitJInv, NextJInv, PTL DEF JSpec

(* Whatever the board held before, whichever of the driver's and of the    *)
(* judge's messages are rejected: ENABLED is said only of a board whose    *)
(* PLL is enabled and whose boot word is in place.                         *)
THEOREM EnabledIsTrue == JSpec => []EnabledIsReal
<1>1. JInv => EnabledIsReal
  BY DEF JInv, Honest, Sentenced, Sentence, EnabledIsReal
<1> QED
  BY <1>1, InitJInv, NextJInv, PTL DEF JSpec
-----------------------------------------------------------------------------
(* The judge's side of ReplayHolds.  The markers that the driver leaves on *)
(* either branch of its program are more than ENABLED asks for.            *)
Left == {"BITMAP", "CTL_208", "PSTEP_19", "ACK_19", "PSTEP_1A", "ACK_1A", "EN_204", "EN_208",
         "EN_E0", "EN_00C", "EN_034"}

Seen ==
  result = "EFI_SUCCESS" /\ dropped = 0 =>
    /\ \A k \in 1..17 : k < row /\ Base[k] \in Left => Base[k] \in passed
    /\ row = 18 /\ smn["CTL_200"] = Bits(\hE) => ctl_ok

WInv == JInv /\ RInv /\ Seen

LEMMA LeftLines ==
  /\ {2, 15, 16, 17, 18, 19, 20, 21, 22, 23, 27} \subseteq Path
  /\ Program[2] = [kind |-> "grant", reg |-> "BITMAP", clear |-> {}, set |-> Bits(\h40)]
  /\ Program[27] = [kind |-> "final", reg |-> "CTL_208", clear |-> {}, set |-> Bits(1)]
  /\ Program[15] = Write("PSTEP_19", PWR_STEP_CODE) /\ Program[16] = Poll("ACK_19", Bits(\h10000))
  /\ Program[17] = Write("PSTEP_1A", PWR_STEP_CODE) /\ Program[18] = Poll("ACK_1A", Bits(\h10000))
  /\ Program[19] = Write("EN_204", Bits(1)) /\ Program[20] = Write("EN_208", Bits(1))
  /\ Program[21] = Write("EN_E0", Bits(\hF)) /\ Program[22] = Write("EN_00C", Bits(\h75767570))
  /\ Program[23] = Rmw("EN_034", {}, Bits(1))
<1>1. {2, 15, 16, 17, 18, 19, 20, 21, 22, 23, 27} \subseteq Path
  BY DEF Path, Line, AlreadyEnabled, FirstClock, FirstPower
<1>2. Program[2] = [kind |-> "grant", reg |-> "BITMAP", clear |-> {}, set |-> Bits(\h40)]
  BY Table DEF Opening
<1>3. /\ Program[15] = Write("PSTEP_19", PWR_STEP_CODE) /\ Program[16] = Poll("ACK_19", Bits(\h10000))
      /\ Program[17] = Write("PSTEP_1A", PWR_STEP_CODE) /\ Program[18] = Poll("ACK_1A", Bits(\h10000))
  BY Table DEF PowerSteps
<1>4. /\ Program[19] = Write("EN_204", Bits(1)) /\ Program[20] = Write("EN_208", Bits(1))
      /\ Program[21] = Write("EN_E0", Bits(\hF)) /\ Program[22] = Write("EN_00C", Bits(\h75767570))
      /\ Program[23] = Rmw("EN_034", {}, Bits(1))
  BY Table DEF EnableBlock
<1> QED
  BY <1>1, <1>2, <1>3, <1>4, LastLines

(* The words of the driver's writes are not 0.                             *)
LEMMA NotZero ==
  0 \in Bits(\h3F) /\ 0 \in Bits(\hF) /\ 6 \in Bits(\h40) /\ 0 \in Bits(1) /\ 16 \in Bits(\h10000)
<1>1. 0 \in Bits(\h3F) /\ 0 \in Bits(\hF)
  BY DEF Bits, Bit
<1>2. 6 \in Bits(\h40)
  BY DEF Bits, Bit
<1> QED
  BY <1>1, <1>2, Bits1, Bits10000

LEMMA LeftPasses ==
  ASSUME TypeOK, RInv, result = "EFI_SUCCESS", NEW name \in Left
  PROVE  Passes(name, smn[name])
<1>1. \A k \in {2, 15, 16, 17, 18, 19, 20, 21, 22, 23, 27} : Held(k)
  BY ReplayIsPrefix, LeftLines DEF ReplayPrefix
<1>2. /\ Bits(\h40) \subseteq smn["BITMAP"] /\ Bits(1) \subseteq smn["CTL_208"]
      /\ Bits(1) \subseteq smn["EN_034"]
  BY <1>1, LeftLines DEF Held, Rmw
<1>3. smn["PSTEP_19"] = Bits(\h3F) /\ smn["PSTEP_1A"] = Bits(\h3F)
  BY <1>1, LeftLines DEF Held, Write, PWR_STEP_CODE
<1>4. smn["EN_204"] = Bits(1) /\ smn["EN_208"] = Bits(1)
  BY <1>1, LeftLines DEF Held, Write
<1>5. smn["EN_E0"] = Bits(\hF) /\ smn["EN_00C"] = Bits(\h75767570)
  BY <1>1, LeftLines DEF Held, Write
<1>6. Bits(\h10000) \intersect smn["ACK_19"] # {} /\ Bits(\h10000) \intersect smn["ACK_1A"] # {}
  BY <1>1, LeftLines DEF Held, Poll
<1>7. name \in Marker
  BY MarkerNames DEF Left
<1>8. CASE name \in {"BITMAP", "CTL_208", "EN_034"}
  BY <1>2, <1>7, <1>8, NotZero DEF Passes, Mask
<1>9. CASE name \in {"PSTEP_19", "PSTEP_1A"}
  <2>1. Mask(name) = Bit /\ 0 \in Bit
    BY <1>9 DEF Mask, Bit
  <2> QED
    BY <1>3, <1>7, <1>9, <2>1, NotZero DEF Passes
<1>10. CASE name \in {"EN_204", "EN_208", "EN_E0"}
  BY <1>4, <1>5, <1>7, <1>10, NotZero DEF Passes, Mask
<1>11. CASE name \in {"ACK_19", "ACK_1A"}
  BY <1>6, <1>7, <1>11 DEF Passes, Mask
<1>12. CASE name = "EN_00C"
  BY <1>5, <1>12 DEF Passes
<1> QED
  BY <1>8, <1>9, <1>10, <1>11, <1>12 DEF Left

(* Ten of them suffice.                                                    *)
LEMMA LeftIsEnough ==
  ASSUME Left \subseteq passed, passed \subseteq Marker
  PROVE  Cardinality(passed) >= 10
<1> DEFINE s1 == {"BITMAP"}
           s2 == s1 \union {"CTL_208"}
           s3 == s2 \union {"PSTEP_19"}
           s4 == s3 \union {"ACK_19"}
           s5 == s4 \union {"PSTEP_1A"}
           s6 == s5 \union {"ACK_1A"}
           s7 == s6 \union {"EN_204"}
           s8 == s7 \union {"EN_208"}
           s9 == s8 \union {"EN_E0"}
           s10 == s9 \union {"EN_00C"}
<1>1. IsFiniteSet(s1) /\ Cardinality(s1) = 1
  BY FS_Singleton
<1>2. IsFiniteSet(s2) /\ Cardinality(s2) = 2
  BY <1>1, FS_AddElement
<1>3. IsFiniteSet(s3) /\ Cardinality(s3) = 3
  BY <1>2, FS_AddElement
<1>4. IsFiniteSet(s4) /\ Cardinality(s4) = 4
  BY <1>3, FS_AddElement
<1>5. IsFiniteSet(s5) /\ Cardinality(s5) = 5
  BY <1>4, FS_AddElement
<1>6. IsFiniteSet(s6) /\ Cardinality(s6) = 6
  BY <1>5, FS_AddElement
<1>7. IsFiniteSet(s7) /\ Cardinality(s7) = 7
  BY <1>6, FS_AddElement
<1>8. IsFiniteSet(s8) /\ Cardinality(s8) = 8
  BY <1>7, FS_AddElement
<1>9. IsFiniteSet(s9) /\ Cardinality(s9) = 9
  BY <1>8, FS_AddElement
<1>10. IsFiniteSet(s10) /\ Cardinality(s10) = 10
  BY <1>9, FS_AddElement
<1>11. s10 \subseteq passed
  BY DEF Left
<1> HIDE DEF s10
<1>12. IsFiniteSet(passed)
  BY MarkerFinite, FS_Subset
<1>13. Cardinality(s10) <= Cardinality(passed) /\ Cardinality(passed) \in Nat
  BY <1>11, <1>12, FS_Subset, FS_CardinalityType
<1> QED
  BY <1>10, <1>13

LEMMA InitWInv == MaxRejects = 0 /\ JInit => WInv
<1> SUFFICES ASSUME MaxRejects = 0, JInit PROVE WInv
  OBVIOUS
<1>1. JInv /\ RInv
  BY InitJInv, InitRInv DEF JInit
<1> QED
  BY <1>1 DEF JInit, Init, WInv, Seen

LEMMA NextWInv == MaxRejects = 0 /\ WInv /\ [JNext]_jvars => WInv'
<1> SUFFICES ASSUME MaxRejects = 0, WInv, [JNext]_jvars PROVE WInv'
  OBVIOUS
<1>i. JInv /\ JInv' /\ RInv /\ Seen /\ TypeOK /\ JTypeOK /\ row \in 0..18
  BY NextJInv, BaseRows DEF WInv, JInv, JTypeOK
<1>n. ASSUME [Next]_vars PROVE RInv'
  BY <1>i, <1>n, NextRInv
<1>v. ASSUME UNCHANGED vars PROVE RInv' /\ smn' = smn /\ result' = result
  BY <1>n, <1>v DEF vars, machine, driver
<1>1. CASE Machine
  <2>1. RInv' /\ UNCHANGED <<row, passed, ctl_ok, verdict, dropped>>
    BY <1>1, <1>n DEF Machine, Next, judge
  <2>2. CASE row > 0
    <3>1. Hardware
      BY <1>1, <1>i, <2>2, MachineUnderJudge DEF JInv
    <3>2. smn'["CTL_200"] = smn["CTL_200"] /\ result' = result
      BY <1>i, <3>1, HardwareAdds, RegisterNames DEF driver
    <3> QED
      BY <1>i, <2>1, <3>2 DEF WInv, Seen
  <2>3. CASE row = 0
    BY <1>i, <2>1, <2>3 DEF WInv, Seen
  <2> QED
    BY <1>i, <2>2, <2>3
<1>2. CASE WarmReset /\ Asleep
  <2>1. RInv'
    BY <1>2, <1>n DEF Next
  <2> QED
    BY <1>2, <1>i, <2>1 DEF Asleep, WInv, Seen
<1>3. CASE JudgeAlive
  <2>1. row' \in {0, 1}
    BY <1>3 DEF JudgeAlive
  <2>2. UNCHANGED vars
    BY <1>3, <1>i, AskType DEF JudgeAlive
  <2> QED
    BY <1>i, <1>v, <2>1, <2>2 DEF WInv, Seen
<1>4. CASE JudgeSilent \/ JudgeVerdict \/ UNCHANGED jvars
  <2>1. UNCHANGED vars /\ row' = row /\ passed' = passed /\ ctl_ok' = ctl_ok /\ dropped' = dropped
    BY <1>4 DEF JudgeSilent, JudgeVerdict, jvars, judge
  <2> QED
    BY <1>i, <1>v, <2>1 DEF WInv, Seen
<1>5. CASE JudgeRead
  <2>1. PICK accepted \in BOOLEAN :
          /\ Ask(accepted)
          /\ \E value \in IF accepted THEN Stored(Base[row]) ELSE {Slot(Base[row])} :
               /\ passed' = IF Passes(Base[row], value) THEN passed \union {Base[row]} ELSE passed
               /\ ctl_ok' = (ctl_ok \/ (Base[row] = "CTL_200" /\ value = Bits(\hE)))
    BY <1>5 DEF JudgeRead
  <2>2. row \in 1..17 /\ row' = row + 1
    BY <1>5, BaseRows DEF JudgeRead
  <2>3. /\ UNCHANGED vars
        /\ dropped' = 0 => accepted /\ dropped = 0
    BY <1>i, <2>1, AskType
  <2>4. RInv' /\ smn' = smn /\ result' = result
    BY <1>v, <2>3
  <2>5. ASSUME result = "EFI_SUCCESS", dropped' = 0
        PROVE  /\ \A k \in 1..17 : k < row' /\ Base[k] \in Left => Base[k] \in passed'
               /\ row' = 18 /\ smn["CTL_200"] = Bits(\hE) => ctl_ok'
    <3>1. Base[row] \notin Clock => Stored(Base[row]) = {smn[Base[row]]}
      BY DEF Stored
    <3>2. PICK value \in Stored(Base[row]) :
               /\ passed' = IF Passes(Base[row], value) THEN passed \union {Base[row]} ELSE passed
               /\ ctl_ok' = (ctl_ok \/ (Base[row] = "CTL_200" /\ value = Bits(\hE)))
      BY <2>1, <2>3, <2>5
    <3>3. Base[row] \in Left => Base[row] \in passed'
      <4>1. SUFFICES ASSUME Base[row] \in Left PROVE Base[row] \in passed'
        OBVIOUS
      <4>2. value = smn[Base[row]]
        BY <3>1, <3>2, <4>1, ClockNames DEF Left
      <4> QED
        BY <1>i, <2>5, <3>2, <4>1, <4>2, LeftPasses
    <3>4. passed \subseteq passed'
      BY <3>2
    <3>5. \A k \in 1..17 : k < row /\ Base[k] \in Left => Base[k] \in passed
      BY <1>i, <2>3, <2>5 DEF Seen
    <3>6. ASSUME row' = 18, smn["CTL_200"] = Bits(\hE) PROVE ctl_ok'
      <4>1. Base[row] = "CTL_200"
        BY <2>2, <3>6, BaseRows
      <4>2. value = Bits(\hE)
        BY <3>1, <3>2, <3>6, <4>1, ClockNames
      <4> QED
        BY <3>2, <4>1, <4>2
    <3> QED
      BY <2>2, <3>3, <3>4, <3>5, <3>6
  <2> QED
    BY <1>i, <2>4, <2>5 DEF WInv, Seen
<1> QED
  BY <1>1, <1>2, <1>3, <1>4, <1>5 DEF JNext

(* While the SMU rejects none of the driver's messages, from every         *)
(* pre-state and on both branches of the driver's program: a success is    *)
(* judged ENABLED, unless reads of the judge were rejected or the boot     *)
(* word is gone.                                                           *)
THEOREM SuccessIsRecognised == ASSUME MaxRejects = 0 PROVE JSpec => []SuccessIsSeen
<1>1. JInit => WInv
  BY InitWInv
<1>2. WInv /\ [JNext]_jvars => WInv'
  BY NextWInv
<1>3. WInv => SuccessIsSeen
  <2> SUFFICES ASSUME WInv, result = "EFI_SUCCESS", dropped = 0, smn["CTL_200"] = Bits(\hE),
                      verdict \notin {"none", "TRANSPORT_DEAD"}
               PROVE  verdict = "VCN_HARDWARE_ENABLED"
    BY DEF SuccessIsSeen
  <2>1. row = 18 /\ verdict = Sentence(passed, ctl_ok)
    BY DEF WInv, JInv, Sentenced
  <2>2. ctl_ok /\ \A k \in 1..17 : Base[k] \in Left => Base[k] \in passed
    BY <2>1 DEF WInv, Seen
  <2>3. Left \subseteq passed
    BY <2>2, BaseRows DEF Left
  <2>4. Cardinality(passed) >= 10
    BY <2>3, LeftIsEnough DEF WInv, JInv, JTypeOK
  <2> QED
    BY <2>1, <2>2, <2>3, <2>4 DEF Sentence, Left
<1> QED
  BY <1>1, <1>2, <1>3, PTL DEF JSpec

-----------------------------------------------------------------------------
(* The other two verdicts rest on what the script's baseline says of the   *)
(* board before the driver: its power steps and its enable block have not  *)
(* been started, and its PLL is not locked.                                *)
Magic == Bits(\h75767570)
Later == {"PSTEP_1A", "ACK_1A", "EN_204", "EN_208", "EN_E0", "EN_034"}

StockBoards ==
  \A pre \in PreStates :
    /\ \A name \in Later : ~Passes(name, pre[name])
    /\ pre["EN_00C"] = Magic /\ 8 \notin pre["READY"]

(* What is behind the second power step; no step takes it back.            *)
Prepared ==
  /\ 6 \in smn["BITMAP"] /\ 0 \in smn["CTL_208"] /\ 0 \in smn["CTL_218"]
  /\ 0 \in smn["PSTEP_19"] /\ 16 \in smn["ACK_19"]

Triggered == 0 \in smn["CTL_208"] /\ 0 \in smn["CTL_218"]

Board ==
  /\ 8 \in smn["READY"] => Triggered
  /\ smn["EN_00C"] = Magic
  /\ 16 \notin smn["ACK_19"] => \A name \in Later : ~Passes(name, smn[name])
  /\ smn["PSTEP_1A"] # cold["PSTEP_1A"] => Prepared /\ 0 \in smn["PSTEP_1A"]

(* A write of the sequence: to the register of a line, with its bits.      *)
OwnBits(reg) == Program[Writer[reg]].set
IsWrite(to, data) ==
  /\ Writer[to] # 0 /\ OwnBits(to) \subseteq data /\ (to = "EN_00C" => data = Magic)
  /\ Writer[to] >= 17 => Prepared

BInv ==
  /\ RInv /\ Board
  /\ skipped => 0 \in smn["CTL_208"]
  /\ pending.kind = "write" => IsWrite(latch, pending.data)

LEMMA OwnBitsAre ==
  /\ 6 \in OwnBits("BITMAP") /\ 0 \in OwnBits("CTL_208") /\ 0 \in OwnBits("CTL_218")
  /\ 0 \in OwnBits("PSTEP_19") /\ 0 \in OwnBits("PSTEP_1A")
<1>1. Program[2].set = Bits(\h40) /\ Program[15].set = Bits(\h3F) /\ Program[17].set = Bits(\h3F)
  BY LeftLines DEF Write, PWR_STEP_CODE
<1>2. Program[9] = Rmw("CTL_208", {}, Bits(1)) /\ Program[10] = Write("CTL_218", Bits(1))
  BY Table DEF ClockPart
<1>3. Program[9].set = Bits(1) /\ Program[10].set = Bits(1)
  BY <1>2 DEF Rmw, Write
<1> QED
  BY <1>1, <1>3, NotZero DEF OwnBits, Writer

LEMMA LaterMasks ==
  /\ \A value : Passes("PSTEP_1A", value) <=> value \intersect Bit # {}
  /\ \A value : Passes("ACK_1A", value) <=> 16 \in value
  /\ \A value : Passes("EN_034", value) <=> 0 \in value
  /\ \A name \in Later : name \in Marker /\ name # "EN_00C"
<1>1. \A name \in Later : name \in Marker /\ name # "EN_00C"
  BY MarkerNames DEF Later
<1>2. Mask("PSTEP_1A") = Bit /\ Mask("ACK_1A") = {16} /\ Mask("EN_034") = {0}
  BY Bits1, Bits10000 DEF Mask
<1> QED
  BY <1>1, <1>2 DEF Passes, Later

LEMMA PreparedAfterWrite ==
  ASSUME TypeOK, NEW to \in Register, NEW data, IsWrite(to, data),
         smn' = [smn EXCEPT ![to] = data]
  PROVE  /\ 0 \in smn["CTL_208"] => 0 \in smn'["CTL_208"]
         /\ Triggered => Triggered'
         /\ Prepared => Prepared'
<1>1. to \notin {"ACK_19", "READY"}
  BY DEF IsWrite, Writer
<1>2. ASSUME NEW reg \in Register, NEW b, reg = to => b \in OwnBits(reg), b \in smn[reg]
      PROVE  b \in smn'[reg]
  BY <1>2 DEF IsWrite, TypeOK
<1>3. 0 \in smn["CTL_208"] => 0 \in smn'["CTL_208"]
  BY <1>2, OwnBitsAre, RegisterNames
<1>4. 0 \in smn["CTL_218"] => 0 \in smn'["CTL_218"]
  BY <1>2, OwnBitsAre, RegisterNames
<1>5. 6 \in smn["BITMAP"] => 6 \in smn'["BITMAP"]
  BY <1>2, OwnBitsAre, RegisterNames
<1>6. 0 \in smn["PSTEP_19"] => 0 \in smn'["PSTEP_19"]
  BY <1>2, OwnBitsAre, RegisterNames
<1>7. 16 \in smn["ACK_19"] => 16 \in smn'["ACK_19"]
  BY <1>1, <1>2, RegisterNames
<1> QED
  BY <1>3, <1>4, <1>5, <1>6, <1>7 DEF Triggered, Prepared

LEMMA BoardAfterWrite ==
  ASSUME TypeOK, Board, NEW to \in Register, NEW data, IsWrite(to, data),
         smn' = [smn EXCEPT ![to] = data], cold' = cold
  PROVE  Board'
<1>1. /\ smn'["ACK_19"] = smn["ACK_19"] /\ smn'["READY"] = smn["READY"]
      /\ smn'["ACK_1A"] = smn["ACK_1A"]
  BY RegisterNames DEF IsWrite, Writer, TypeOK
<1>2. 8 \in smn'["READY"] => Triggered'
  BY <1>1, PreparedAfterWrite DEF Board
<1>3. smn'["EN_00C"] = Magic
  BY RegisterNames DEF IsWrite, TypeOK, Board
<1>4. ASSUME 16 \notin smn'["ACK_19"], NEW name \in Later PROVE ~Passes(name, smn'[name])
  <2>1. ~Prepared
    BY <1>1, <1>4 DEF Prepared
  <2>2. to \notin Later
    BY <2>1 DEF IsWrite, Writer, Later
  <2>3. smn'[name] = smn[name]
    BY <2>2, RegisterNames DEF TypeOK, Later
  <2> QED
    BY <1>1, <1>4, <2>3 DEF Board
<1>5. ASSUME smn'["PSTEP_1A"] # cold'["PSTEP_1A"] PROVE Prepared' /\ 0 \in smn'["PSTEP_1A"]
  <2>1. CASE to = "PSTEP_1A"
    <3>1. Prepared
      BY <2>1 DEF IsWrite, Writer
    <3>2. 0 \in smn'["PSTEP_1A"]
      BY <2>1, OwnBitsAre DEF IsWrite, TypeOK
    <3> QED
      BY <3>1, <3>2, PreparedAfterWrite
  <2>2. CASE to # "PSTEP_1A"
    <3>1. smn'["PSTEP_1A"] = smn["PSTEP_1A"]
      BY <2>2, RegisterNames DEF TypeOK
    <3> QED
      BY <1>5, <3>1, PreparedAfterWrite DEF Board
  <2> QED
    BY <2>1, <2>2
<1> QED
  BY <1>2, <1>3, <1>4, <1>5 DEF Board

LEMMA BoardAfterReact ==
  ASSUME TypeOK, Board, Hardware
  PROVE  Board' /\ (0 \in smn["CTL_208"] => 0 \in smn'["CTL_208"]) /\ (Prepared => Prepared')
<1>1. /\ \A reg \in Register : smn[reg] \subseteq smn'[reg]
      /\ \A reg \in Register \ Reacting : smn'[reg] = smn[reg]
      /\ cold' = cold
  BY RegisterNames DEF Hardware, React, Reacting, TypeOK
<1>2. (0 \in smn["CTL_208"] => 0 \in smn'["CTL_208"]) /\ (Prepared => Prepared') /\ (Triggered => Triggered')
  BY <1>1, RegisterNames DEF Prepared, Triggered
<1>3. 8 \in smn'["READY"] => Triggered'
  <2>1. smn'["READY"] = smn["READY"] \/ Triggered
    BY RegisterNames DEF Hardware, React, Triggered, TypeOK
  <2> QED
    BY <1>2, <2>1 DEF Board
<1>4. smn'["EN_00C"] = Magic /\ smn'["PSTEP_1A"] = smn["PSTEP_1A"]
  BY <1>1, RegisterNames DEF Board, Reacting
<1>5. ASSUME 16 \notin smn'["ACK_19"], NEW name \in Later PROVE ~Passes(name, smn'[name])
  <2>1. 16 \notin smn["ACK_19"] /\ \A other \in Later : ~Passes(other, smn[other])
    BY <1>1, <1>5, RegisterNames DEF Board
  <2>2. CASE name = "ACK_1A"
    <3>1. smn["PSTEP_1A"] # PWR_STEP_CODE
      <4>1. 0 \in PWR_STEP_CODE /\ 0 \in Bit
        BY NotZero DEF PWR_STEP_CODE, Bit
      <4> QED
        BY <2>1, <4>1, LaterMasks DEF Later
    <3>2. smn'["ACK_1A"] = smn["ACK_1A"]
      BY <3>1, RegisterNames DEF Hardware, React, TypeOK
    <3> QED
      BY <2>1, <2>2, <3>2
  <2>3. CASE name = "EN_034"
    <3>1. 0 \notin smn["EN_034"]
      BY <2>1, LaterMasks DEF Later
    <3>2. smn'["EN_034"] = smn["EN_034"]
      BY <3>1, RegisterNames DEF Hardware, React, TypeOK
    <3> QED
      BY <2>1, <2>3, <3>2
  <2>4. CASE name \notin {"ACK_1A", "EN_034"}
    <3>1. smn'[name] = smn[name]
      BY <1>1, <2>4, RegisterNames DEF Later, Reacting
    <3> QED
      BY <2>1, <3>1
  <2> QED
    BY <2>2, <2>3, <2>4
<1> QED
  BY <1>1, <1>2, <1>3, <1>4, <1>5 DEF Board

(* At the second power step and behind it, on either branch.               *)
LEMMA ReachedPrepared ==
  ASSUME BInv, pc >= 17
  PROVE  Prepared
<1>1. pc \in Line /\ pc \in Path /\ \A k \in Path : k < pc => Held(k)
  BY PathLine DEF BInv, RInv, PathOK
<1>2. Held(2) /\ Held(15) /\ Held(16)
  BY <1>1, LeftLines DEF Line
<1>3. 6 \in smn["BITMAP"] /\ 0 \in smn["PSTEP_19"] /\ 16 \in smn["ACK_19"]
  <2>1. Bits(\h40) \subseteq smn["BITMAP"] /\ smn["PSTEP_19"] = Bits(\h3F)
    BY <1>2, LeftLines DEF Held, Write, PWR_STEP_CODE
  <2>2. 16 \in smn["ACK_19"]
    BY <1>2, MilestoneLines, PolledBit, Bits10000 DEF Line
  <2> QED
    BY <2>1, <2>2, NotZero
<1>4. CASE skipped
  <2>1. Held(4)
    BY <1>1, <1>4 DEF Path, Line, FirstClock, FirstPower
  <2>2. 4 \in Line /\ Program[4] = Poll("READY", {8})
    BY MilestoneLines, Bits100 DEF Line
  <2>3. 8 \in smn["READY"]
    BY <2>1, <2>2, PolledBit
  <2> QED
    BY <1>3, <2>3 DEF BInv, Board, Triggered, Prepared
<1>5. CASE ~skipped
  <2>1. Held(9) /\ Held(10)
    BY <1>1, <1>5 DEF Path, Line, AlreadyEnabled
  <2>2. Program[9] = Rmw("CTL_208", {}, {0}) /\ Program[10] = Write("CTL_218", {0})
    BY Table, Bits1 DEF ClockPart
  <2>3. 0 \in smn["CTL_208"] /\ 0 \in smn["CTL_218"]
    BY <2>1, <2>2 DEF Held, Rmw, Write
  <2> QED
    BY <1>3, <2>3 DEF Prepared
<1> QED
  BY <1>4, <1>5

(* The message that writes is a write of the current line.                 *)
LEMMA CurrentWrite ==
  ASSUME BInv, phase = "write", result = "running"
  PROVE  IsWrite(latch, Data) /\ latch \in Register
<1>1. TypeOK /\ PhaseOK /\ WordOK /\ pc \in Line /\ op \in Op
  BY OpType DEF BInv, RInv, TInv, TypeOK
<1>2. op.kind \in Writing /\ latch = op.reg /\ op.reg \in Register
  BY <1>1 DEF PhaseOK, Writing, WordOK, Op
<1>3. Writer[op.reg] = pc
  BY <1>1, <1>2, LineFacts DEF LineFact, op
<1>4. op.set \subseteq Data
  BY <1>1, <1>2 DEF Data, WordOK, Writing
<1>5. latch = "EN_00C" => Data = Magic
  <2>1. SUFFICES ASSUME latch = "EN_00C" PROVE Data = Magic
    OBVIOUS
  <2>2. pc = 22
    BY <1>2, <1>3, <2>1 DEF Writer
  <2> QED
    BY <2>2, LeftLines DEF op, Data, Write, Magic
<1>6. Writer[latch] # 0 /\ OwnBits(latch) = op.set
  BY <1>1, <1>2, <1>3 DEF OwnBits, op, Line
<1> QED
  BY <1>2, <1>3, <1>4, <1>5, <1>6, ReachedPrepared DEF IsWrite

LEMMA InitBInv == MaxRejects = 0 /\ StockBoards /\ Init => BInv
<1> SUFFICES ASSUME MaxRejects = 0, StockBoards, Init PROVE BInv
  OBVIOUS
<1>1. smn \in PreStates /\ cold = smn /\ pending.kind # "write" /\ skipped = FALSE
  BY DEF Init, NoMessage
<1> QED
  BY <1>1, InitRInv DEF BInv, Board, StockBoards

(* A step that changes no register.                                        *)
LEMMA QuietBInv ==
  ASSUME BInv, RInv', smn' = smn, cold' = cold, skipped' => skipped \/ 0 \in smn["CTL_208"],
         pending'.kind = "write" => IsWrite(latch', pending'.data)
  PROVE  BInv'
<1>1. Board' /\ (skipped' => 0 \in smn'["CTL_208"])
  BY DEF BInv, Board, Triggered, Prepared
<1>2. \A to, data : IsWrite(to, data)' = IsWrite(to, data)
  BY DEF IsWrite, Prepared, OwnBits
<1> QED
  BY <1>1, <1>2 DEF BInv, IsWrite, Prepared, OwnBits

(* What the steps of the driver leave alone.                               *)
LEMMA DriverMoves ==
  ASSUME BInv, MaxRejects = 0, Driver
  PROVE  \/ WriteData
         \/ /\ smn' = smn /\ cold' = cold /\ (skipped' => skipped \/ 0 \in smn["CTL_208"])
            /\ pending'.kind = "write" =>
                 \/ latch' = latch /\ pending' = pending
                 \/ latch' = latch /\ phase = "write" /\ result = "running" /\ pending'.data = Data
<1>i. TypeOK /\ TInv /\ PendingOK /\ rejects = 0
  BY DEF BInv, RInv, TInv
<1>n. NoMessage.kind # "write"
  BY DEF NoMessage
<1>1. CASE SmuAlive
  BY <1>1 DEF SmuAlive, Send
<1>2. CASE ReadOld \/ ReadBack \/ SmnPollBit32 \/ FinalRead
  <2>1. PICK value \in Readings : Fetch(value)
    BY <1>2 DEF ReadOld, ReadBack, SmnPollBit32, FinalRead
  <2>2. smn' = smn /\ latch' = latch /\ skipped' = skipped
    BY <1>2 DEF ReadOld, ReadBack, SmnPollBit32, FinalRead
  <2> QED
    BY <1>i, <2>1, <2>2, FetchType
<1>3. CASE Probe
  <2>1. PICK found \in Readings : Fetch(found) /\ skipped' = (op.set \subseteq found)
    BY <1>3 DEF Probe
  <2>2. pc = 3 /\ smn' = smn /\ latch' = latch
    BY <1>3, <1>i, ProbeLine DEF Probe, op, TypeOK
  <2>3. op.kind = "probe" /\ op.reg = "CTL_208" /\ 0 \in op.set
    BY <2>2, Table, Bits1 DEF op, Opening
  <2>4. found = smn["CTL_208"]
    BY <1>i, <2>1, <2>3, FetchHonest
  <2> QED
    BY <1>i, <2>1, <2>2, <2>3, <2>4, FetchType
<1>4. CASE SetAddr
  BY <1>4, <1>n DEF SetAddr, Send
<1>5. CASE WriteData
  BY <1>5
<1>6. CASE MailboxTimeout
  <2>1. /\ smn' = smn /\ latch' = latch /\ cold' = cold /\ skipped' = skipped /\ result = "running"
        /\ pending' = InFlight \/ pending' = pending
    BY <1>6 DEF MailboxTimeout
  <2>2. InFlight.kind = "write" => phase = "write" /\ InFlight.data = Data
    BY DEF InFlight
  <2> QED
    BY <2>1, <2>2
<1> QED
  BY <1>1, <1>2, <1>3, <1>4, <1>5, <1>6 DEF Driver

LEMMA NextBInv == MaxRejects = 0 /\ BInv /\ [Next]_vars => BInv'
<1> SUFFICES ASSUME MaxRejects = 0, BInv, [Next]_vars PROVE BInv'
  OBVIOUS
<1>i. RInv /\ RInv' /\ TypeOK /\ PendingOK /\ Board /\ latch \in Register
  BY NextRInv DEF BInv, RInv, TInv, TypeOK
<1>n. NoMessage.kind # "write"
  BY DEF NoMessage
<1>1. CASE WriteData
  <2>1. PICK accepted \in BOOLEAN :
          Send(accepted) /\ smn' = IF accepted THEN [smn EXCEPT ![latch] = Data] ELSE smn
    BY <1>1 DEF WriteData
  <2>2. accepted /\ result = "running" /\ pending' = NoMessage /\ cold' = cold
    BY <1>i, <2>1 DEF Send, RInv
  <2>3. phase = "write" /\ skipped' = skipped
    BY <1>1 DEF WriteData
  <2>4. IsWrite(latch, Data)
    BY <2>2, <2>3, CurrentWrite
  <2>5. smn' = [smn EXCEPT ![latch] = Data]
    BY <2>1, <2>2
  <2>6. Board' /\ (0 \in smn["CTL_208"] => 0 \in smn'["CTL_208"])
    BY <1>i, <2>2, <2>4, <2>5, BoardAfterWrite, PreparedAfterWrite
  <2> QED
    BY <1>i, <1>n, <2>2, <2>3, <2>6 DEF BInv
<1>2. CASE Driver /\ ~WriteData
  <2>1. /\ smn' = smn /\ cold' = cold /\ (skipped' => skipped \/ 0 \in smn["CTL_208"])
        /\ pending'.kind = "write" =>
             \/ latch' = latch /\ pending' = pending
             \/ latch' = latch /\ phase = "write" /\ result = "running" /\ pending'.data = Data
    BY <1>2, DriverMoves
  <2>2. pending'.kind = "write" => IsWrite(latch', pending'.data)
    BY <2>1, CurrentWrite DEF BInv
  <2> QED
    BY <1>i, <2>1, <2>2, QuietBInv
<1>3. CASE LateExecute
  <2>1. pending' = NoMessage /\ cold' = cold /\ skipped' = skipped
    BY <1>3 DEF LateExecute, driver
  <2>2. smn' = IF pending.kind = "write" THEN [smn EXCEPT ![latch] = pending.data] ELSE smn
    BY <1>3, <1>i DEF LateExecute, RInv
  <2>3. CASE pending.kind = "write"
    <3>1. IsWrite(latch, pending.data) /\ smn' = [smn EXCEPT ![latch] = pending.data]
      BY <2>2, <2>3 DEF BInv
    <3>2. Board' /\ (0 \in smn["CTL_208"] => 0 \in smn'["CTL_208"])
      BY <1>i, <2>1, <3>1, BoardAfterWrite, PreparedAfterWrite
    <3> QED
      BY <1>i, <1>n, <2>1, <3>2 DEF BInv
  <2>4. CASE pending.kind # "write"
    BY <1>i, <1>n, <2>1, <2>2, <2>4, QuietBInv
  <2> QED
    BY <2>3, <2>4
<1>4. CASE Hardware
  <2>1. latch' = latch /\ pending' = pending /\ skipped' = skipped
    BY <1>4, <1>i, HardwareAdds DEF driver
  <2>2. Board' /\ (0 \in smn["CTL_208"] => 0 \in smn'["CTL_208"]) /\ (Prepared => Prepared')
    BY <1>4, <1>i, BoardAfterReact
  <2>3. pending'.kind = "write" => IsWrite(latch, pending.data)'
    BY <2>1, <2>2 DEF BInv, IsWrite, OwnBits
  <2> QED
    BY <1>i, <2>1, <2>2, <2>3 DEF BInv
<1>5. CASE WarmReset
  <2>1. smn' = smn /\ latch' = latch /\ pending' = pending /\ cold' = cold /\ skipped' = FALSE
    BY <1>5 DEF WarmReset, machine
  <2> QED
    BY <1>i, <2>1, QuietBInv DEF BInv
<1>6. CASE UNCHANGED vars
  <2>1. UNCHANGED <<smn, latch, pending, cold, skipped>>
    BY <1>6 DEF vars, machine, driver
  <2> QED
    BY <1>i, <2>1, QuietBInv DEF BInv
<1> QED
  BY <1>1, <1>2, <1>3, <1>4, <1>5, <1>6 DEF Next
-----------------------------------------------------------------------------
(* What the judge has noted with every read answered still holds.          *)
Faithful == dropped = 0 => \A name \in passed \ Clock : row > 0 /\ Passes(name, smn[name])

(* The markers that pass behind the second power step, and those of them   *)
(* that the judge has read and not noted.                                  *)
Powered == {"BITMAP", "CTL_208", "CTL_218", "PSTEP_19", "ACK_19", "PSTEP_1A", "EN_00C"}
Missed == {name \in Powered \ passed : \E k \in 1..17 : k < row /\ Base[k] = name}
Moved == smn["PSTEP_1A"] # cold["PSTEP_1A"]

VInv == JInv /\ BInv /\ Faithful /\ (Moved => Cardinality(Missed) <= dropped)

LEMMA PoweredPasses ==
  ASSUME Board, Moved, NEW name \in Powered
  PROVE  Passes(name, smn[name])
<1>1. Prepared /\ 0 \in smn["PSTEP_1A"] /\ smn["EN_00C"] = Magic
  BY DEF Board, Moved
<1>2. name \in Marker
  BY MarkerNames DEF Powered
<1>3. CASE name \in {"BITMAP", "CTL_208", "CTL_218", "ACK_19"}
  BY <1>1, <1>2, <1>3, NotZero DEF Passes, Mask, Prepared
<1>4. CASE name \in {"PSTEP_19", "PSTEP_1A"}
  <2>1. Mask(name) = Bit /\ 0 \in Bit
    BY <1>4 DEF Mask, Bit
  <2> QED
    BY <1>1, <1>2, <1>4, <2>1 DEF Passes, Prepared
<1>5. CASE name = "EN_00C"
  BY <1>1, <1>5 DEF Passes, Magic
<1> QED
  BY <1>3, <1>4, <1>5 DEF Powered

LEMMA PoweredCount == IsFiniteSet(Powered) /\ Cardinality(Powered) = 7
<1> DEFINE s1 == {"BITMAP"}
           s2 == s1 \union {"CTL_208"}
           s3 == s2 \union {"CTL_218"}
           s4 == s3 \union {"PSTEP_19"}
           s5 == s4 \union {"ACK_19"}
           s6 == s5 \union {"PSTEP_1A"}
           s7 == s6 \union {"EN_00C"}
<1>1. IsFiniteSet(s1) /\ Cardinality(s1) = 1
  BY FS_Singleton
<1>2. IsFiniteSet(s2) /\ Cardinality(s2) = 2
  BY <1>1, FS_AddElement
<1>3. IsFiniteSet(s3) /\ Cardinality(s3) = 3
  BY <1>2, FS_AddElement
<1>4. IsFiniteSet(s4) /\ Cardinality(s4) = 4
  BY <1>3, FS_AddElement
<1>5. IsFiniteSet(s5) /\ Cardinality(s5) = 5
  BY <1>4, FS_AddElement
<1>6. IsFiniteSet(s6) /\ Cardinality(s6) = 6
  BY <1>5, FS_AddElement
<1>7. IsFiniteSet(s7) /\ Cardinality(s7) = 7
  BY <1>6, FS_AddElement
<1>8. s7 = Powered
  BY DEF Powered
<1> QED
  BY <1>7, <1>8

LEMMA MissedFinite == IsFiniteSet(Missed) /\ Cardinality(Missed) \in Nat
<1>1. Missed \subseteq Powered
  BY DEF Missed
<1> QED
  BY <1>1, PoweredCount, FS_Subset, FS_CardinalityType

(* Before the first row nothing has been missed.                           *)
LEMMA MissedNone == row = 0 => Missed = {} /\ Cardinality(Missed) = 0
BY FS_EmptySet DEF Missed

(* Two missing of seven leave five.                                        *)
LEMMA FiveLeft ==
  ASSUME Cardinality(Powered \ passed) <= 2, passed \subseteq Marker
  PROVE  Cardinality(passed) >= 5
<1>1. IsFiniteSet(passed)
  BY MarkerFinite, FS_Subset
<1>2. Cardinality(Powered \ passed) = Cardinality(Powered) - Cardinality(Powered \intersect passed)
  BY PoweredCount, FS_Difference
<1>3. IsFiniteSet(Powered \intersect passed) /\ Cardinality(Powered \intersect passed) \in Nat
  BY PoweredCount, FS_Subset, FS_CardinalityType
<1>4. Cardinality(Powered \intersect passed) <= Cardinality(passed) /\ Cardinality(passed) \in Nat
  BY <1>1, FS_Subset, FS_CardinalityType
<1>5. Cardinality(Powered \intersect passed) >= 5
  BY <1>2, <1>3, PoweredCount
<1> QED
  BY <1>3, <1>4, <1>5

(* What passes on a board that did not get to its first acknowledge.       *)
Unpowered == {"CTL_208", "PSTEP_19", "CTL_358", "CTL_35C", "BITMAP", "CTL_218", "EN_00C",
              "DCLK_PROG", "VCLK_PROG"}

LEMMA NineAtMost ==
  ASSUME passed \subseteq Unpowered
  PROVE  Cardinality(passed) <= 9 /\ Cardinality(passed) \in Nat
<1> DEFINE s1 == {"CTL_208"}
           s2 == s1 \union {"PSTEP_19"}
           s3 == s2 \union {"CTL_358"}
           s4 == s3 \union {"CTL_35C"}
           s5 == s4 \union {"BITMAP"}
           s6 == s5 \union {"CTL_218"}
           s7 == s6 \union {"EN_00C"}
           s8 == s7 \union {"DCLK_PROG"}
           s9 == s8 \union {"VCLK_PROG"}
<1>1. IsFiniteSet(s1) /\ Cardinality(s1) = 1
  BY FS_Singleton
<1>2. IsFiniteSet(s2) /\ Cardinality(s2) = 2
  BY <1>1, FS_AddElement
<1>3. IsFiniteSet(s3) /\ Cardinality(s3) = 3
  BY <1>2, FS_AddElement
<1>4. IsFiniteSet(s4) /\ Cardinality(s4) = 4
  BY <1>3, FS_AddElement
<1>5. IsFiniteSet(s5) /\ Cardinality(s5) = 5
  BY <1>4, FS_AddElement
<1>6. IsFiniteSet(s6) /\ Cardinality(s6) = 6
  BY <1>5, FS_AddElement
<1>7. IsFiniteSet(s7) /\ Cardinality(s7) = 7
  BY <1>6, FS_AddElement
<1>8. IsFiniteSet(s8) /\ Cardinality(s8) = 8
  BY <1>7, FS_AddElement
<1>9. IsFiniteSet(s9) /\ Cardinality(s9) = 9
  BY <1>8, FS_AddElement
<1>10. s9 = Unpowered
  BY DEF Unpowered
<1> HIDE DEF s9
<1> QED
  BY <1>9, <1>10, FS_Subset, FS_CardinalityType

LEMMA InitVInv == MaxRejects = 0 /\ StockBoards /\ JInit => VInv
<1> SUFFICES ASSUME MaxRejects = 0, StockBoards, JInit PROVE VInv
  OBVIOUS
<1>1. JInv /\ BInv /\ row = 0 /\ passed = {} /\ dropped = 0
  BY InitJInv, InitBInv DEF JInit
<1> QED
  BY <1>1, MissedNone DEF VInv, Faithful

(* A step that leaves the judge alone, on a board that only the hardware   *)
(* has changed, if anything has.                                           *)
LEMMA JudgeWaits ==
  ASSUME VInv, JInv', BInv', row' = row, passed' = passed, dropped' = dropped,
         \/ row = 0
         \/ /\ \A reg \in Register : smn[reg] \subseteq smn'[reg]
            /\ smn'["PSTEP_1A"] = smn["PSTEP_1A"] /\ cold' = cold
  PROVE  VInv'
<1>1. Missed' = Missed
  BY DEF Missed
<1>2. Moved' => Cardinality(Missed') <= dropped'
  <2>1. CASE row = 0
    BY <1>1, <2>1, MissedNone DEF VInv, JInv, JTypeOK
  <2>2. CASE Moved' = Moved
    BY <1>1, <2>2 DEF VInv
  <2> QED
    BY <2>1, <2>2 DEF Moved
<1>3. ASSUME dropped' = 0, NEW name \in passed' \ Clock
      PROVE  row' > 0 /\ Passes(name, smn'[name])
  <2>1. row > 0 /\ Passes(name, smn[name]) /\ name \in passed
    BY <1>3 DEF VInv, Faithful
  <2>2. \A reg \in Register : smn[reg] \subseteq smn'[reg]
    BY <2>1
  <2>3. CASE name = "EN_00C"
    <3>1. smn'["EN_00C"] = Magic
      BY DEF BInv, Board
    <3> QED
      BY <2>1, <2>3, <3>1 DEF Passes, Magic
  <2>4. CASE name # "EN_00C"
    <3>1. name \in Register
      BY <1>3, <2>1, MarkerNames, ClockNames, RegisterNames DEF VInv, JInv, JTypeOK
    <3> QED
      BY <2>1, <2>2, <2>4, <3>1 DEF Passes
  <2> QED
    BY <2>1, <2>3, <2>4
<1> QED
  BY <1>2, <1>3 DEF VInv, Faithful

LEMMA NextVInv == MaxRejects = 0 /\ VInv /\ [JNext]_jvars => VInv'
<1> SUFFICES ASSUME MaxRejects = 0, VInv, [JNext]_jvars PROVE VInv'
  OBVIOUS
<1>i. JInv /\ JInv' /\ BInv /\ Board /\ TypeOK /\ JTypeOK /\ row \in 0..18 /\ dropped \in Nat
  BY NextJInv, BaseRows, JudgeAssumption DEF VInv, BInv, JInv, JTypeOK
<1>n. ASSUME [Next]_vars PROVE BInv'
  BY <1>i, <1>n, NextBInv
<1>v. ASSUME UNCHANGED vars PROVE BInv' /\ smn' = smn /\ cold' = cold
  BY <1>n, <1>v DEF vars, machine, driver
<1>1. CASE Machine
  <2>1. BInv' /\ UNCHANGED <<row, passed, ctl_ok, verdict, dropped>>
    BY <1>1, <1>n DEF Machine, Next, judge
  <2>2. CASE row > 0
    <3>1. Hardware
      BY <1>1, <1>i, <2>2, MachineUnderJudge DEF JInv
    <3>2. /\ \A reg \in Register : smn[reg] \subseteq smn'[reg]
          /\ smn'["PSTEP_1A"] = smn["PSTEP_1A"] /\ cold' = cold
      BY <1>i, <3>1, RegisterNames DEF Hardware, React, TypeOK
    <3> QED
      BY <1>i, <2>1, <3>2, JudgeWaits
  <2>3. CASE row = 0
    BY <1>i, <2>1, <2>3, JudgeWaits
  <2> QED
    BY <1>i, <2>2, <2>3
<1>2. CASE WarmReset /\ Asleep
  <2>1. BInv' /\ row' = 0 /\ passed' = {} /\ dropped' = 0
    BY <1>2, <1>n DEF Next, Asleep
  <2>2. Missed' = {} /\ Cardinality(Missed') = 0
    BY <2>1, FS_EmptySet DEF Missed
  <2> QED
    BY <1>i, <2>1, <2>2 DEF VInv, Faithful
<1>3. CASE JudgeAlive
  <2>1. PICK accepted \in BOOLEAN :
          /\ Ask(accepted)
          /\ accepted => row' = 1
          /\ ~accepted => row' = row
    BY <1>3 DEF JudgeAlive
  <2>2. row = 0 /\ passed' = passed
    BY <1>3 DEF JudgeAlive
  <2>3. UNCHANGED vars /\ dropped' \in Nat
    BY <1>i, <2>1, AskType, JudgeAssumption
  <2>4. Missed' = {} /\ Cardinality(Missed') = 0
    BY <2>1, <2>2, FS_EmptySet DEF Missed
  <2>5. dropped' = 0 => passed' \ Clock = {}
    <3>1. dropped' = 0 => dropped = 0
      BY <1>i, <2>1, AskType
    <3> QED
      BY <2>2, <3>1 DEF VInv, Faithful
  <2> QED
    BY <1>i, <1>v, <2>3, <2>4, <2>5 DEF VInv, Faithful
<1>4. CASE JudgeSilent \/ JudgeVerdict \/ UNCHANGED jvars
  <2>1. UNCHANGED vars /\ row' = row /\ passed' = passed /\ dropped' = dropped
    BY <1>4 DEF JudgeSilent, JudgeVerdict, jvars, judge
  <2> QED
    BY <1>i, <1>v, <2>1, JudgeWaits
<1>5. CASE JudgeRead
  <2>1. PICK accepted \in BOOLEAN :
          /\ Ask(accepted)
          /\ \E value \in IF accepted THEN Stored(Base[row]) ELSE {Slot(Base[row])} :
               passed' = IF Passes(Base[row], value) THEN passed \union {Base[row]} ELSE passed
    BY <1>5 DEF JudgeRead
  <2>2. PICK value \in IF accepted THEN Stored(Base[row]) ELSE {Slot(Base[row])} :
               passed' = IF Passes(Base[row], value) THEN passed \union {Base[row]} ELSE passed
    BY <2>1
  <2>3. row \in 1..17 /\ row' = row + 1
    BY <1>5, BaseRows DEF JudgeRead
  <2>4. /\ UNCHANGED vars
        /\ dropped' = IF accepted THEN dropped ELSE dropped + 1
        /\ dropped' = 0 => accepted /\ dropped = 0
    BY <1>i, <2>1, AskType DEF Ask
  <2>5. BInv' /\ smn' = smn /\ cold' = cold
    BY <1>v, <2>4
  <2>6. accepted /\ Base[row] \notin Clock => value = smn[Base[row]]
    BY <2>2 DEF Stored
  <2>7. ASSUME dropped' = 0, NEW name \in passed' \ Clock
        PROVE  row' > 0 /\ Passes(name, smn'[name])
    <3>1. CASE name \in passed
      BY <2>3, <2>4, <2>5, <2>7, <3>1 DEF VInv, Faithful
    <3>2. CASE name \notin passed
      <4>1. name = Base[row] /\ Passes(name, value)
        BY <2>2, <2>7, <3>2
      <4> QED
        BY <2>3, <2>4, <2>5, <2>6, <2>7, <4>1
    <3> QED
      BY <3>1, <3>2
  <2>8. ASSUME Moved' PROVE Cardinality(Missed') <= dropped'
    <3>1. Moved /\ Cardinality(Missed) <= dropped
      BY <2>5, <2>8 DEF VInv, Moved
    <3>2. Missed' \subseteq Missed \union {Base[row]}
      BY <1>i, <2>2, <2>3 DEF Missed
    <3>3. CASE accepted
      <4>1. Base[row] \in Powered => Base[row] \in passed'
        <5>1. SUFFICES ASSUME Base[row] \in Powered PROVE Base[row] \in passed'
          OBVIOUS
        <5>2. value = smn[Base[row]]
          BY <2>6, <3>3, <5>1, ClockNames DEF Powered
        <5> QED
          BY <1>i, <2>2, <3>1, <5>1, <5>2, PoweredPasses
      <4>2. Missed' \subseteq Missed
        BY <3>2, <4>1 DEF Missed
      <4>3. Cardinality(Missed') <= Cardinality(Missed) /\ Cardinality(Missed') \in Nat
        BY <4>2, MissedFinite, FS_Subset, FS_CardinalityType
      <4> QED
        BY <1>i, <2>4, <3>1, <3>3, <4>3, MissedFinite
    <3>4. CASE ~accepted
      <4>1. /\ IsFiniteSet(Missed \union {Base[row]})
            /\ Cardinality(Missed \union {Base[row]}) \in {Cardinality(Missed), Cardinality(Missed) + 1}
        <5>1. CASE Base[row] \in Missed
          <6>1. Missed \union {Base[row]} = Missed
            BY <5>1
          <6> QED
            BY <6>1, MissedFinite
        <5>2. CASE Base[row] \notin Missed
          BY <5>2, MissedFinite, FS_AddElement
        <5> QED
          BY <5>1, <5>2
      <4>2. Cardinality(Missed') <= Cardinality(Missed \union {Base[row]}) /\ Cardinality(Missed') \in Nat
        BY <3>2, <4>1, FS_Subset, FS_CardinalityType
      <4> QED
        BY <1>i, <2>4, <3>1, <3>4, <4>1, <4>2, MissedFinite
    <3> QED
      BY <3>3, <3>4
  <2> QED
    BY <1>i, <2>5, <2>7, <2>8 DEF VInv, Faithful
<1> QED
  BY <1>1, <1>2, <1>3, <1>4, <1>5 DEF JNext

(* While the SMU rejects none of the driver's messages, on every board     *)
(* that the driver finds before its power steps: with every read answered, *)
(* ENABLED is said only of a board that acknowledged the first of them.    *)
THEOREM EnabledIsPowered ==
  ASSUME MaxRejects = 0, StockBoards
  PROVE  JSpec => []EnabledMeansPowered
<1>1. JInit => VInv
  BY InitVInv
<1>2. VInv /\ [JNext]_jvars => VInv'
  BY NextVInv
<1>3. VInv => EnabledMeansPowered
  <2> SUFFICES ASSUME VInv, verdict = "VCN_HARDWARE_ENABLED", dropped = 0, 16 \notin smn["ACK_19"]
               PROVE  FALSE
    BY Bits10000 DEF EnabledMeansPowered
  <2>1. verdict = Sentence(passed, ctl_ok) /\ passed \subseteq Marker
    BY DEF VInv, JInv, JTypeOK, Sentenced
  <2>2. Cardinality(passed) >= 10
    BY <2>1 DEF Sentence
  <2>3. \A name \in passed \ Clock : Passes(name, smn[name])
    BY DEF VInv, Faithful
  <2>4. \A name \in Later : ~Passes(name, smn[name])
    BY DEF VInv, BInv, Board
  <2>5. ~Passes("ACK_19", smn["ACK_19"])
    <3>1. Mask("ACK_19") = {16}
      BY Bits10000 DEF Mask
    <3> QED
      BY <3>1 DEF Passes
  <2>6. \A name \in Later \union {"ACK_19"} : name \notin passed
    BY <2>3, <2>4, <2>5, ClockNames DEF Later
  <2>7. passed \subseteq Unpowered
    BY <2>1, <2>6, MarkerNames DEF Later, Unpowered
  <2> QED
    BY <2>2, <2>7, NineAtMost
<1> QED
  BY <1>1, <1>2, <1>3, PTL DEF JSpec

(* Under the same hypotheses: NO_CHANGE is not said of a board that got as *)
(* far as the second power step, even if two of the judge's reads were     *)
(* rejected.                                                               *)
THEOREM NoChangeIsUnpowered ==
  ASSUME MaxRejects = 0, StockBoards
  PROVE  JSpec => []NoChangeMeansUnpowered
<1>1. JInit => VInv
  BY InitVInv
<1>2. VInv /\ [JNext]_jvars => VInv'
  BY NextVInv
<1>3. VInv => NoChangeMeansUnpowered
  <2> SUFFICES ASSUME VInv, verdict = "NO_CHANGE", dropped <= 2, Moved
               PROVE  FALSE
    BY DEF NoChangeMeansUnpowered, Moved
  <2>1. verdict = Sentence(passed, ctl_ok) /\ passed \subseteq Marker /\ row = 18 /\ dropped \in Nat
    BY JudgeAssumption DEF VInv, JInv, JTypeOK, Sentenced
  <2>2. ~(Cardinality(passed) >= 5)
    BY <2>1 DEF Sentence
  <2>3. Cardinality(Missed) <= dropped
    BY DEF VInv
  <2>4. Missed = Powered \ passed
    <3>1. \A name \in Powered : \E k \in 1..17 : k < 18 /\ Base[k] = name
      BY BaseRows DEF Powered
    <3> QED
      BY <2>1, <3>1 DEF Missed
  <2>5. Cardinality(Powered \ passed) <= 2
    BY <2>1, <2>3, <2>4, MissedFinite
  <2> QED
    BY <2>1, <2>2, <2>5, FiveLeft
<1> QED
  BY <1>1, <1>2, <1>3, PTL DEF JSpec

=============================================================================
