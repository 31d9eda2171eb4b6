------------------------- MODULE SurroundingsProofs -------------------------
(***************************************************************************)
(* VcnSequence in its two surroundings, for any pre-state of the registers *)
(* and any number of boots and polls.                                      *)
(*                                                                         *)
(* Beside it, an SMU that goes on managing its own bits (LiveSmu): what    *)
(* VcnSequenceProofs shows still holds, because the SMU's bits are none of *)
(* those a line is judged by; and the driver takes no bit of the SMU's     *)
(* back but one that changed under a word that was already on its way.     *)
(*                                                                         *)
(* Above it, the firmware (DriverEntry): with both ways of starting the    *)
(* sequence and any number of boot options it runs at most once in a boot, *)
(* and the operating system does not start under it.                       *)
(***************************************************************************)
EXTENDS LiveSmu, DriverEntry, VcnSequenceProofs

-----------------------------------------------------------------------------
(* The bits a line works with are the driver's.                            *)
LEMMA TouchedLine ==
  ASSUME NEW k \in Line
  PROVE  /\ Program[k].clear \union Program[k].set \subseteq Touched(Program[k].reg)
         /\ Program[k].kind = "write" => Touched(Program[k].reg) = Bit
<1>1. Program[k].clear \union Program[k].set \subseteq Bit
  BY ProgramOp DEF Op, Word
<1>2. CASE \E j \in Line : Program[j].reg = Program[k].reg /\ Program[j].kind = "write"
  BY <1>1, <1>2 DEF Touched
<1>3. CASE ~ \E j \in Line : Program[j].reg = Program[k].reg /\ Program[j].kind = "write"
  BY <1>3 DEF Touched
<1> QED
  BY <1>2, <1>3

LEMMA TouchedMilestones ==
  /\ 8 \in Touched("READY") /\ 16 \in Touched("ACK_19") /\ 16 \in Touched("ACK_1A")
  /\ {0, 1} \subseteq Touched("EN_034") /\ 0 \in Touched("GATE_138")
  /\ Touched("PSTEP_19") = Bit /\ Touched("PSTEP_1A") = Bit /\ Touched("EN_204") = Bit
<1>1. {4, 15, 16, 17, 18, 19, 23, 24, 25} \subseteq Line
  BY DEF Line
<1>2. {8} \subseteq Touched("READY") /\ {16} \subseteq Touched("ACK_19") /\ {16} \subseteq Touched("ACK_1A")
  BY <1>1, TouchedLine, MilestoneLines, Bits100, Bits10000 DEF Poll
<1>3. {0, 1} \subseteq Touched("EN_034") /\ {0} \subseteq Touched("GATE_138")
  BY <1>1, TouchedLine, MilestoneLines, LastLines, Bits1, Bits2 DEF Poll, Rmw
<1>4. Touched("PSTEP_19") = Bit /\ Touched("PSTEP_1A") = Bit /\ Touched("EN_204") = Bit
  BY <1>1, TouchedLine, Table DEF PowerSteps, EnableBlock, Write
<1> QED
  BY <1>2, <1>3, <1>4

(* What the SMU changes are bits outside of the driver's.                  *)
LEMMA ChangeIsForeign ==
  ASSUME TypeOK, SmuChanges
  PROVE  /\ smn' \in [Register -> Word]
         /\ \A reg \in Register : smn'[reg] \intersect Touched(reg) = smn[reg] \intersect Touched(reg)
         /\ UNCHANGED <<latch, pending, driver, rejects, boots, cold>>
<1>r. {Program[k].reg : k \in Line} \subseteq Register
  BY ProgramOp DEF Op
<1>1. PICK reg \in Register : \E bit \in Foreign(reg) :
        smn' = [smn EXCEPT ![reg] = IF bit \in @ THEN @ \ {bit} ELSE @ \union {bit}]
  BY <1>r DEF SmuChanges
<1>p. PICK bit \in Foreign(reg) :
        smn' = [smn EXCEPT ![reg] = IF bit \in @ THEN @ \ {bit} ELSE @ \union {bit}]
  BY <1>1
<1>2. bit \in Bit /\ bit \notin Touched(reg)
  BY DEF Foreign
<1>3. smn' \in [Register -> Word]
  BY <1>p, <1>2 DEF TypeOK, Word
<1>4. \A r \in Register : smn'[r] \intersect Touched(r) = smn[r] \intersect Touched(r)
  BY <1>p, <1>2 DEF TypeOK
<1> QED
  BY <1>3, <1>4 DEF SmuChanges

(* No line is judged by them.                                              *)
LEMMA HeldAfterChange ==
  ASSUME TypeOK, SmuChanges, NEW k \in Line, Held(k)
  PROVE  Held(k)'
<1> DEFINE reg == Program[k].reg
<1>1. /\ smn'[reg] \intersect Touched(reg) = smn[reg] \intersect Touched(reg)
      /\ smn'[reg] \subseteq Bit /\ smn[reg] \subseteq Bit
  BY ChangeIsForeign, ProgramOp DEF Op, TypeOK, Word
<1>2. /\ Program[k].clear \subseteq Touched(reg) /\ Program[k].set \subseteq Touched(reg)
      /\ Program[k].kind = "write" => Touched(reg) = Bit
  BY TouchedLine
<1>3. /\ Program[k].set \subseteq smn'[reg] <=> Program[k].set \subseteq smn[reg]
      /\ Program[k].set \intersect smn'[reg] = Program[k].set \intersect smn[reg]
      /\ smn'[reg] \intersect (Program[k].clear \ Program[k].set)
           = smn[reg] \intersect (Program[k].clear \ Program[k].set)
      /\ Program[k].kind = "write" => smn'[reg] = smn[reg]
  BY <1>1, <1>2
<1> QED
  BY <1>3 DEF Held

LEMMA ChangeRInv == RInv /\ SmuChanges => RInv'
<1> SUFFICES ASSUME RInv, SmuChanges PROVE RInv'
  OBVIOUS
<1>i. TypeOK /\ PhaseOK /\ PathOK /\ WordOK /\ PendingOK /\ SuccessOK /\ rejects = 0 /\ pc \in Line
  BY DEF RInv, TInv, TypeOK
<1>1. /\ smn' \in [Register -> Word]
      /\ UNCHANGED <<latch, pending, pc, phase, word, attempt, result, skipped, rejects, boots, cold>>
  BY <1>i, ChangeIsForeign DEF driver
<1>2. op' = op /\ Path' = Path
  BY <1>1 DEF op, Path
<1>3. TInv'
  BY <1>i, <1>1, <1>2 DEF TInv, TypeOK, PhaseOK
<1>4. \A k \in Line : Held(k) => Held(k)'
  BY <1>i, HeldAfterChange
<1>5. PathOK'
  BY <1>i, <1>1, <1>2, <1>4, PathLine DEF PathOK
<1>6. SuccessOK'
  BY <1>i, <1>1, <1>4 DEF SuccessOK
<1>7. WordOK' /\ PendingOK'
  BY <1>i, <1>1, <1>2 DEF WordOK, PendingOK
<1> QED
  BY <1>i, <1>1, <1>3, <1>5, <1>6, <1>7 DEF RInv

LEMMA ChangeHInv == HInv /\ SmuChanges => HInv'
<1> SUFFICES ASSUME HInv, SmuChanges PROVE HInv'
  OBVIOUS
<1>i. RInv /\ RInv' /\ TypeOK
  BY ChangeRInv DEF HInv, RInv, TInv
<1>1. /\ \A reg \in Register : /\ smn'[reg] \intersect Touched(reg) = smn[reg] \intersect Touched(reg)
                               /\ smn'[reg] \subseteq Bit /\ smn[reg] \subseteq Bit
      /\ UNCHANGED <<latch, pending, pc, phase, word, result, cold>>
  BY <1>i, ChangeIsForeign DEF driver, TypeOK, Word
<1>2. /\ 8 \in smn'["READY"] <=> 8 \in smn["READY"]
      /\ 16 \in smn'["ACK_19"] <=> 16 \in smn["ACK_19"]
      /\ 16 \in smn'["ACK_1A"] <=> 16 \in smn["ACK_1A"]
      /\ 0 \in smn'["EN_034"] <=> 0 \in smn["EN_034"]
      /\ 1 \in smn'["EN_034"] <=> 1 \in smn["EN_034"]
      /\ 0 \in smn'["GATE_138"] <=> 0 \in smn["GATE_138"]
  BY <1>1, TouchedMilestones, RegisterNames
<1>3. \A reg \in {"PSTEP_19", "PSTEP_1A", "EN_204"} : smn'[reg] = smn[reg]
  <2>1. \A reg \in {"PSTEP_19", "PSTEP_1A", "EN_204"} : reg \in Register /\ Touched(reg) = Bit
    BY TouchedMilestones, RegisterNames
  <2> QED
    BY <1>1, <2>1
<1>4. \A reg : Unlocked(reg) => Unlocked(reg)'
  BY <1>2 DEF Unlocked
<1>5. \A reg \in Milestones : Opened(reg)' = Opened(reg)
  BY <1>1, <1>2, <1>3 DEF Opened, Milestones
<1>6. \A data : KeepsAnswer(data) => KeepsAnswer(data)'
  BY <1>2 DEF KeepsAnswer
<1> QED
  BY <1>i, <1>1, <1>4, <1>5, <1>6 DEF HInv

LEMMA NextLiveHInv == MaxRejects = 0 /\ HInv /\ [LNext]_lvars => HInv'
<1> SUFFICES ASSUME MaxRejects = 0, HInv, [LNext]_lvars PROVE HInv'
  OBVIOUS
<1>1. CASE SmuChanges
  BY <1>1, ChangeHInv
<1>2. CASE [Next]_vars
  BY <1>2, NextHInv
<1> QED
  BY <1>1, <1>2 DEF LNext, LDriver, Next, lvars

(* The inductive invariant of VcnSequenceProofs also holds on a live SMU:  *)
(* latch, word and a late message fit the line, whatever the SMU changes.  *)
THEOREM LiveInvariance == ASSUME MaxRejects = 0 PROVE LSafeSpec => []RInv
<1>1. LInit => HInv
  BY InitHInv DEF LInit
<1>2. HInv /\ [LNext]_lvars => HInv'
  BY NextLiveHInv
<1>3. HInv => RInv
  BY DEF HInv
<1> QED
  BY <1>1, <1>2, <1>3, PTL DEF LSafeSpec

(* What the driver has passed is in force on a live SMU, too.              *)
THEOREM LiveReplay == ASSUME MaxRejects = 0 PROVE LSafeSpec => []ReplayPrefix
<1>1. RInv => ReplayPrefix
  BY ReplayIsPrefix
<1> QED
  BY <1>1, LiveInvariance, PTL

(* The hardware sees the milestones in their order also if the SMU changes *)
(* bits of the very registers between them.                                *)
THEOREM LiveMilestones == ASSUME MaxRejects = 0 PROVE LSafeSpec => []HardwareOrder
<1>1. LInit => HInv
  BY InitHInv DEF LInit
<1>2. HInv /\ [LNext]_lvars => HInv'
  BY NextLiveHInv
<1>3. HInv => HardwareOrder
  BY OrderHolds
<1> QED
  BY <1>1, <1>2, <1>3, PTL DEF LSafeSpec

-----------------------------------------------------------------------------
(* The SMU's own bits.  A word on its way to a register has them as the    *)
(* SMU left them, unless it has changed them since.                        *)
WordKept ==
  result = "running" /\ phase \in {"set", "write"} /\ op.kind \in {"grant", "rmw"}
    /\ op.reg \notin stale => word \ Touched(op.reg) = own[op.reg]

LatePending ==
  pending.kind = "write" /\ latch \notin stale => pending.data \ Touched(latch) = own[latch]

KInv ==
  /\ RInv
  /\ own \in [Register -> Word] /\ stale \subseteq Register
  /\ OwnBitsKept /\ WordKept /\ LatePending

(* The data of a write: with the foreign bits of the word, or for a        *)
(* register that has none.                                                 *)
LEMMA DataKept ==
  ASSUME KInv, phase = "write", result = "running", op.reg \notin stale
  PROVE  Data \ Touched(op.reg) = own[op.reg]
<1>i. TypeOK /\ PhaseOK /\ op \in Op /\ pc \in Line
  BY OpType DEF KInv, RInv, TInv, TypeOK
<1>1. CASE op.kind = "write"
  <2>1. Touched(op.reg) = Bit
    BY <1>i, <1>1, TouchedLine DEF op
  <2>2. own[op.reg] = smn[op.reg] \ Bit
    BY <1>i, <2>1 DEF KInv, OwnBitsKept, Op
  <2>3. smn[op.reg] \subseteq Bit /\ op.set \subseteq Bit
    BY <1>i DEF Op, TypeOK, Word
  <2> QED
    BY <1>1, <2>1, <2>2, <2>3 DEF Data
<1>2. CASE op.kind # "write"
  BY <1>i, <1>2 DEF KInv, WordKept, PhaseOK, Data
<1> QED
  BY <1>1, <1>2

LEMMA InitKInv == MaxRejects = 0 /\ LInit => KInv
<1> SUFFICES ASSUME MaxRejects = 0, LInit PROVE KInv
  OBVIOUS
<1>1. RInv /\ TypeOK
  BY InitRInv DEF LInit, RInv, TInv
<1>2. own \in [Register -> Word] /\ OwnBitsKept
  BY <1>1 DEF LInit, OwnBitsKept, TypeOK, Word
<1>3. phase = "alive" /\ pending.kind # "write"
  BY LineKinds DEF LInit, Init, FirstPhase, NoMessage
<1> QED
  BY <1>1, <1>2, <1>3 DEF LInit, KInv, WordKept, LatePending

(* The messages that write nothing.                                        *)
LEMMA QuietKInv ==
  ASSUME KInv, RInv', smn' = smn, UNCHANGED live,
         pending'.kind # "write" \/ (pending' = pending /\ latch' = latch),
         WordKept'
  PROVE  KInv'
BY DEF KInv, OwnBitsKept, LatePending, live

(* The first message of a line has no word yet, but for a plain write.     *)
LEMMA GotoKept == ASSUME NEW line, Goto(line) PROVE WordKept'
<1>1. phase' = FirstPhase(line) /\ op' = Program[line]
  BY DEF Goto, op
<1> QED
  BY <1>1 DEF WordKept, FirstPhase

LEMMA DriverKInv == MaxRejects = 0 /\ KInv /\ LDriver => KInv'
<1> SUFFICES ASSUME MaxRejects = 0, KInv, LDriver PROVE KInv'
  OBVIOUS
<1>i. /\ RInv /\ TInv /\ TypeOK /\ PhaseOK /\ rejects = 0 /\ WordOK /\ PendingOK
      /\ op \in Op /\ pc \in Line
  BY OpType DEF KInv, RInv, TInv, TypeOK
<1>r. RInv' /\ Driver /\ UNCHANGED live /\ own' = own /\ stale' = stale
  BY <1>i, NextRInv DEF LDriver, Next, live
<1>o. pc' = pc => op' = op
  BY DEF op
<1>n. NoMessage.kind # "write"
  BY DEF NoMessage
(* The steps that read, and go on or end.                                  *)
<1>read. ASSUME smn' = smn, latch' = latch, pending' = pending,
                \/ \E line : Goto(line)
                \/ result' # "running"
                \/ phase' \in {"alive", "read", "check"}
         PROVE  KInv'
  <2>1. WordKept'
    BY <1>read, GotoKept DEF WordKept
  <2> QED
    BY <1>r, <1>read, <2>1, QuietKInv
<1>1. CASE SmuAlive
  <2>1. smn' = smn /\ latch' = latch /\ pending' = pending
    BY <1>1 DEF SmuAlive, Send
  <2>2. Goto(After) \/ result' # "running"
    BY <1>1 DEF SmuAlive, Finish
  <2> QED
    BY <1>read, <2>1, <2>2
<1>2. CASE ReadOld
  <2>1. op.kind \in {"grant", "rmw"} /\ smn' = smn /\ latch' = latch
    BY <1>2 DEF ReadOld
  <2>2. PICK old \in Readings :
          /\ Fetch(old)
          /\ LET new == (old \ op.clear) \union op.set
             IN  IF new = old THEN Goto(After)
                 ELSE phase' = "set" /\ word' = new /\ UNCHANGED <<pc, attempt, result>>
    BY <1>2 DEF ReadOld
  <2>3. old = smn[op.reg] /\ pending' = pending
    BY <1>i, <2>1, <2>2, FetchHonest
  <2>4. CASE Goto(After)
    BY <1>read, <2>1, <2>3, <2>4
  <2>5. CASE word' = (old \ op.clear) \union op.set /\ pc' = pc
    <3>1. op.clear \union op.set \subseteq Touched(op.reg)
      BY <1>i, TouchedLine DEF op
    <3>2. word' \ Touched(op.reg) = smn[op.reg] \ Touched(op.reg)
      BY <2>3, <2>5, <3>1
    <3>3. op.reg \in Register
      BY <1>i DEF Op
    <3>4. WordKept'
      BY <1>o, <1>r, <2>5, <3>2, <3>3 DEF WordKept, KInv, OwnBitsKept
    <3> QED
      BY <1>r, <2>1, <2>3, <3>4, QuietKInv
  <2> QED
    BY <2>2, <2>4, <2>5
<1>3. CASE ReadBack
  <2>1. smn' = smn /\ latch' = latch
    BY <1>3 DEF ReadBack
  <2>2. PICK check \in Readings :
          Fetch(check) /\ IF Confirms(check) THEN Goto(After) ELSE Finish("EFI_DEVICE_ERROR")
    BY <1>3 DEF ReadBack
  <2>3. pending' = pending
    BY <1>i, <2>2, FetchType
  <2> QED
    BY <1>read, <2>1, <2>2, <2>3 DEF Finish
<1>4. CASE Probe
  <2>1. smn' = smn /\ latch' = latch
    BY <1>4 DEF Probe
  <2>2. PICK line \in {4, 5}, found \in Readings : Fetch(found) /\ Goto(line)
    BY <1>4 DEF Probe, AlreadyEnabled, FirstClock
  <2>3. pending' = pending
    BY <1>i, <2>2, FetchType
  <2> QED
    BY <1>read, <2>1, <2>2, <2>3
<1>5. CASE SmnPollBit32
  <2>1. smn' = smn /\ latch' = latch /\ phase = "read"
    BY <1>5 DEF SmnPollBit32
  <2>2. PICK value \in Readings :
          /\ Fetch(value)
          /\ IF value \intersect op.set # {} THEN Goto(After)
             ELSE IF attempt + 1 = REG_POLL_TIMEOUT_LOOPS THEN Finish("EFI_TIMEOUT")
             ELSE attempt' = attempt + 1 /\ UNCHANGED <<pc, phase, word, result>>
    BY <1>5 DEF SmnPollBit32
  <2>3. pending' = pending
    BY <1>i, <2>2, FetchType
  <2>4. Goto(After) \/ result' # "running" \/ phase' = "read"
    BY <2>1, <2>2 DEF Finish
  <2> QED
    BY <1>read, <2>1, <2>3, <2>4
<1>6. CASE FinalRead
  <2>1. smn' = smn /\ latch' = latch /\ result' # "running"
    BY <1>6 DEF FinalRead, Finish
  <2>2. PICK value \in Readings : Fetch(value)
    BY <1>6 DEF FinalRead
  <2>3. pending' = pending
    BY <1>i, <2>2, FetchType
  <2> QED
    BY <1>read, <2>1, <2>3
<1>7. CASE SetAddr
  <2>1. /\ smn' = smn /\ pc' = pc /\ word' = word /\ phase = "set" /\ result' = result
        /\ pending' = NoMessage
    BY <1>7 DEF SetAddr, Send
  <2>2. WordKept'
    BY <1>o, <1>r, <2>1 DEF WordKept, KInv
  <2> QED
    BY <1>n, <1>r, <2>1, <2>2, QuietKInv
<1>8. CASE WriteData
  <2>1. /\ phase = "write" /\ latch' = latch
        /\ IF op.kind = "write" THEN Goto(After)
           ELSE phase' = "check" /\ UNCHANGED <<pc, word, attempt, result>>
    BY <1>8 DEF WriteData
  <2>2. PICK accepted \in BOOLEAN :
          Send(accepted) /\ smn' = IF accepted THEN [smn EXCEPT ![latch] = Data] ELSE smn
    BY <1>8 DEF WriteData
  <2>3. accepted /\ result = "running" /\ pending' = NoMessage
    BY <1>i, <2>2 DEF Send
  <2>4. smn' = [smn EXCEPT ![op.reg] = Data] /\ op.reg \in Register
    BY <1>i, <2>1, <2>2, <2>3 DEF WordOK, Op
  <2>5. op.reg \notin stale => Data \ Touched(op.reg) = own[op.reg]
    BY <2>1, <2>3, DataKept
  <2>6. OwnBitsKept'
    BY <1>i, <1>r, <2>4, <2>5 DEF KInv, OwnBitsKept, TypeOK
  <2>7. WordKept'
    BY <2>1, GotoKept DEF WordKept
  <2> QED
    BY <1>n, <1>r, <2>3, <2>6, <2>7 DEF KInv, LatePending
<1>9. CASE MailboxTimeout
  <2>1. /\ smn' = smn /\ latch' = latch /\ result = "running" /\ result' = "EFI_TIMEOUT"
        /\ pending' = InFlight \/ pending' = pending
    BY <1>9 DEF MailboxTimeout, Finish
  <2>2. CASE pending' = pending
    BY <1>read, <2>1, <2>2
  <2>3. CASE pending' = InFlight
    <3>1. LatePending'
      <4>1. SUFFICES ASSUME phase = "write", op.reg \notin stale
                     PROVE  pending'.data \ Touched(op.reg) = own[op.reg]
        BY <1>i, <1>r, <2>1, <2>3 DEF LatePending, InFlight, WordOK
      <4>2. pending'.data = Data
        BY <2>3, <4>1 DEF InFlight
      <4> QED
        BY <2>1, <4>1, <4>2, DataKept
    <3>2. WordKept'
      BY <2>1 DEF WordKept
    <3> QED
      BY <1>r, <2>1, <3>1, <3>2 DEF KInv, OwnBitsKept
  <2> QED
    BY <2>1, <2>2, <2>3
<1> QED
  BY <1>r, <1>1, <1>2, <1>3, <1>4, <1>5, <1>6, <1>7, <1>8, <1>9 DEF Driver

(* A change made while a word is under way marks the register; any other   *)
(* change is in no word.                                                   *)
LEMMA ChangeKInv == KInv /\ SmuChanges => KInv'
<1> SUFFICES ASSUME KInv, SmuChanges PROVE KInv'
  OBVIOUS
<1>i. RInv /\ RInv' /\ TypeOK
  BY ChangeRInv DEF KInv, RInv, TInv
<1>1. {Program[k].reg : k \in Line} \subseteq Register
  BY ProgramOp DEF Op
<1>2. PICK reg \in Register :
        /\ \A r \in Register : r # reg => smn'[r] = smn[r]
        /\ own' = [own EXCEPT ![reg] = smn'[reg] \ Touched(reg)]
        /\ stale' = IF StaleWord(reg) THEN stale \union {reg} ELSE stale
  BY <1>1, <1>i DEF SmuChanges, TypeOK
<1>3. /\ smn' \in [Register -> Word]
      /\ UNCHANGED <<latch, pending, pc, phase, word, result>>
  BY <1>i, ChangeIsForeign DEF driver
<1>4. own' \in [Register -> Word] /\ stale' \subseteq Register
  BY <1>2, <1>3 DEF KInv, Word
<1>5. \A r \in Register : r # reg => own'[r] = own[r] /\ (r \in stale' <=> r \in stale)
  BY <1>2 DEF KInv
<1>6. own'[reg] = smn'[reg] \ Touched(reg) /\ stale \subseteq stale'
  BY <1>2 DEF KInv
<1>7. OwnBitsKept'
  BY <1>2, <1>5, <1>6 DEF KInv, OwnBitsKept
<1>8. WordKept'
  <2>1. op' = op /\ op.reg \in Register
    BY <1>3, <1>i, OpType DEF op, Op
  <2>2. result = "running" /\ phase \in {"set", "write"} /\ op.kind \in {"grant", "rmw"}
          /\ op.reg = reg => reg \in stale'
    BY <1>2 DEF StaleWord
  <2> QED
    BY <1>3, <1>5, <2>1, <2>2 DEF KInv, WordKept
<1>9. LatePending'
  <2>1. latch \in Register
    BY <1>i DEF TypeOK
  <2>2. pending.kind = "write" /\ latch = reg => reg \in stale'
    BY <1>2 DEF StaleWord
  <2> QED
    BY <1>3, <1>5, <2>1, <2>2 DEF KInv, LatePending
<1> QED
  BY <1>i, <1>4, <1>7, <1>8, <1>9 DEF KInv

LEMMA NextKInv == MaxRejects = 0 /\ KInv /\ [LNext]_lvars => KInv'
<1> SUFFICES ASSUME MaxRejects = 0, KInv, [LNext]_lvars PROVE KInv'
  OBVIOUS
<1>i. RInv /\ TypeOK /\ PendingOK /\ pc \in Line /\ rejects = 0
  BY DEF KInv, RInv, TInv, TypeOK
<1>r. [Next]_vars => RInv'
  BY <1>i, NextRInv
<1>n. NoMessage.kind # "write"
  BY DEF NoMessage
<1>1. CASE LDriver
  BY <1>1, DriverKInv
<1>2. CASE LateExecute /\ UNCHANGED live
  <2>1. /\ pending # NoMessage /\ pending' = NoMessage /\ RInv'
        /\ pc' = pc /\ phase' = phase /\ result' = result /\ own' = own /\ stale' = stale
    BY <1>2, <1>r DEF LateExecute, driver, live, Next
  <2>2. smn' = IF pending.kind = "write" THEN [smn EXCEPT ![latch] = pending.data] ELSE smn
    BY <1>2, <1>i DEF LateExecute
  <2>3. OwnBitsKept'
    BY <1>i, <2>1, <2>2 DEF KInv, OwnBitsKept, LatePending, TypeOK
  <2>4. WordKept'
    <3>1. pc = 1 \/ result # "running"
      BY <1>i, <2>1 DEF PendingOK
    <3>2. pc = 1 => op'.kind = "alive"
      BY <2>1, LineKinds DEF op
    <3> QED
      BY <2>1, <3>1, <3>2 DEF WordKept
  <2> QED
    BY <1>n, <2>1, <2>3, <2>4 DEF KInv, LatePending
<1>3. CASE Hardware /\ UNCHANGED live
  <2>1. /\ UNCHANGED <<latch, pending, pc, phase, word, result>> /\ own' = own /\ stale' = stale
        /\ RInv'
    BY <1>3, <1>i, <1>r, HardwareAdds DEF driver, live, Next
  <2>2. \A reg \in Register : smn'[reg] \ Touched(reg) = smn[reg] \ Touched(reg)
    <3>1. PICK reg \in {"READY", "ACK_19", "ACK_1A", "EN_034"} : \E bits \in SUBSET Touched(reg) :
            smn' = [smn EXCEPT ![reg] = @ \union bits]
      <4>1. /\ {8} \in SUBSET Touched("READY") /\ {16} \in SUBSET Touched("ACK_19")
            /\ {16} \in SUBSET Touched("ACK_1A") /\ {1} \in SUBSET Touched("EN_034")
        BY TouchedMilestones
      <4> QED
        BY <1>3, <4>1, Bits2, Bits100, Bits10000 DEF Hardware, React
    <3> QED
      BY <1>i, <3>1, RegisterNames DEF TypeOK
  <2>3. OwnBitsKept'
    BY <2>1, <2>2 DEF KInv, OwnBitsKept
  <2>4. WordKept' /\ LatePending'
    BY <2>1 DEF KInv, WordKept, LatePending, op
  <2> QED
    BY <2>1, <2>3, <2>4 DEF KInv
<1>4. CASE WarmReset /\ UNCHANGED live
  <2>1. /\ smn' = smn /\ latch' = latch /\ pending' = pending /\ RInv'
        /\ pc' = 1 /\ phase' = FirstPhase(1)
    BY <1>4, <1>r DEF WarmReset, machine, Next
  <2>2. WordKept'
    BY <2>1, LineKinds DEF WordKept, FirstPhase
  <2> QED
    BY <1>4, <2>1, <2>2, QuietKInv
<1>5. CASE SmuChanges
  BY <1>5, ChangeKInv
<1>6. CASE UNCHANGED lvars
  <2>1. /\ UNCHANGED <<smn, latch, pending, pc, phase, word, result>> /\ UNCHANGED live /\ RInv'
    BY <1>6, <1>r DEF lvars, vars, machine, driver, live
  <2>2. WordKept'
    BY <2>1 DEF KInv, WordKept, op, live
  <2> QED
    BY <2>1, <2>2, QuietKInv
<1> QED
  BY <1>1, <1>2, <1>3, <1>4, <1>5, <1>6 DEF LNext

(* The driver takes a bit back that the SMU has changed only if it changed *)
(* under a word that was on its way to that register, for any number of    *)
(* changes, late messages and boots.                                       *)
THEOREM OwnBitsStay == ASSUME MaxRejects = 0 PROVE LSafeSpec => []OwnBitsKept
<1>1. LInit => KInv
  BY InitKInv
<1>2. KInv /\ [LNext]_lvars => KInv'
  BY NextKInv
<1>3. KInv => OwnBitsKept
  BY DEF KInv
<1> QED
  BY <1>1, <1>2, <1>3, PTL DEF LSafeSpec

-----------------------------------------------------------------------------
(* The base and _secure drivers: the sequence is the entry point.          *)
DispatchOK ==
  variant = "dispatch" =>
    /\ event = "none" /\ entry # "EFI_OUT_OF_RESOURCES"
    /\ busy <=> entry = "running"
    /\ runs = IF entry = "none" THEN 0 ELSE 1

(* The _rtb driver: the sequence is the callback, and the event is closed  *)
(* as it begins.                                                           *)
DeferredOK ==
  variant = "readytoboot" =>
    /\ entry # "running" /\ (event # "none" <=> entry = "EFI_SUCCESS")
    /\ runs = IF event = "closed" THEN 1 ELSE 0
    /\ event = "closed" => stage # "dxe"
    /\ busy => event = "closed" /\ stage = "option"

(* The firmware: the DXE core ends with the entry points, ReadyToBoot has  *)
(* called the callback, and both wait for the sequence.                    *)
WaitOK ==
  /\ stage # "dxe" => entry \notin {"none", "running"}
  /\ stage \in {"option", "os"} => event # "armed"
  /\ stage = "os" => ~busy
  /\ runs = 1 /\ ~busy => result # "running"

EInv == TInv /\ ETypeOK /\ DispatchOK /\ DeferredOK /\ WaitOK

LEMMA CallTInv == TInv /\ Call => TInv'
<1> SUFFICES ASSUME TInv, Call PROVE TInv'
  OBVIOUS
<1>1. phase' = "alive" /\ pc' = 1 /\ 1 \in Line /\ op' = Program[1] /\ result' = "running"
  BY LineKinds DEF Call, FirstPhase, op, Line
<1>2. PhaseOK'
  BY <1>1, LineKinds DEF PhaseOK
<1>3. attempt' \in 0..(REG_POLL_TIMEOUT_LOOPS - 1) /\ word' \in Word
  BY EmptyIsWord, SequenceAssumption DEF Call
<1>b. skipped' \in BOOLEAN
  BY DEF Call
<1>4. /\ smn' \in [Register -> Word] /\ cold' \in [Register -> Word]
      /\ latch' \in Register /\ pending' \in Message /\ rejects' \in 0..MaxRejects
      /\ boots' \in 0..MaxBoots
  BY DEF Call, machine, TInv, TypeOK
<1> QED
  BY <1>1, <1>2, <1>3, <1>b, <1>4 DEF TInv, TypeOK

LEMMA EitherVariant == ETypeOK => variant \in {"dispatch", "readytoboot"}
BY EntryAssumption DEF ETypeOK

LEMMA SameTInv == TInv /\ UNCHANGED vars => TInv'
BY NextTInv

LEMMA InitEInv == EInit => EInv
<1> SUFFICES ASSUME EInit PROVE EInv
  OBVIOUS
<1>1. TInv
  BY InitTInv DEF EInit
<1>2. ETypeOK
  <2>1. busy \in BOOLEAN
    BY DEF EInit
  <2> QED
    BY <1>1, <2>1, EntryAssumption DEF EInit, ETypeOK, TInv
<1> QED
  BY <1>1, <1>2 DEF EInit, EInv, DispatchOK, DeferredOK, WaitOK

(* The steps of the firmware.                                              *)
LEMMA FirmwareEInv == EInv /\ Firmware => EInv'
<1> SUFFICES ASSUME EInv, Firmware PROVE EInv'
  OBVIOUS
<1>i. TInv /\ ETypeOK /\ EntryAssumption /\ variant \in {"dispatch", "readytoboot"}
  BY EntryAssumption, EitherVariant DEF EInv
<1> USE DEF EInv, DispatchOK, DeferredOK, WaitOK
<1>u. ASSUME UNCHANGED vars PROVE TInv' /\ TypeOK' /\ result' = result
  BY <1>i, <1>u, SameTInv DEF TInv, vars, driver
<1>c. ASSUME Call PROVE TInv' /\ TypeOK' /\ busy' = TRUE /\ runs' = runs + 1 /\ result' = "running"
  BY <1>i, <1>c, CallTInv DEF TInv, Call
<1>1. CASE EntryPoint
  BY <1>1, <1>c, <1>i DEF EntryPoint, ETypeOK
<1>2. CASE EntryReturns
  BY <1>2, <1>u, <1>i DEF EntryReturns, ETypeOK
<1>3. CASE RegisterCallback
  BY <1>3, <1>u, <1>i DEF RegisterCallback, ETypeOK
<1>4. CASE ToBds
  BY <1>4, <1>u, <1>i DEF ToBds, ETypeOK
<1>5. CASE QuietSignal
  BY <1>5, <1>u, <1>i DEF QuietSignal, ETypeOK
<1>6. CASE Callback
  BY <1>6, <1>c, <1>i DEF Callback, ETypeOK
<1>7. CASE CallbackReturns
  BY <1>7, <1>u, <1>i DEF CallbackReturns, ETypeOK
<1>8. CASE BootOption
  BY <1>8, <1>u, <1>i DEF BootOption, ETypeOK
<1> QED
  BY <1>1, <1>2, <1>3, <1>4, <1>5, <1>6, <1>7, <1>8 DEF Firmware

LEMMA NextEInv == EInv /\ [ENext]_evars => EInv'
<1> SUFFICES ASSUME EInv, [ENext]_evars PROVE EInv'
  OBVIOUS
<1>n. ASSUME [Next]_vars PROVE TInv' /\ TypeOK'
  BY <1>n, NextTInv DEF EInv, TInv
<1> USE DEF EInv, DispatchOK, DeferredOK, WaitOK
<1>1. CASE Firmware
  BY <1>1, FirmwareEInv
<1>2. CASE Replay
  <2>1. TInv' /\ TypeOK' /\ busy /\ UNCHANGED firmware
    BY <1>2, <1>n DEF Replay, Next, firmware
  <2> QED
    BY <2>1 DEF firmware, ETypeOK
<1>3. CASE Outside
  <2>1. TInv' /\ TypeOK' /\ result' = result /\ UNCHANGED firmware
    BY <1>3, <1>n DEF Outside, Next, LateExecute, Hardware, React, driver
  <2> QED
    BY <2>1 DEF firmware, ETypeOK
<1>4. CASE Reset
  <2>1. TInv' /\ TypeOK'
    BY <1>4, <1>n DEF Reset, Next
  <2>2. ETypeOK'
    <3>1. busy' \in BOOLEAN
      BY <1>4 DEF Reset
    <3> QED
      BY <1>4, <2>1, <3>1, EntryAssumption DEF Reset, ETypeOK
  <2> QED
    BY <1>4, <2>1, <2>2 DEF Reset
<1>5. CASE UNCHANGED evars
  <2>1. TInv' /\ TypeOK' /\ result' = result /\ UNCHANGED firmware
    BY <1>5, <1>n DEF evars, vars, driver, firmware
  <2> QED
    BY <2>1 DEF firmware, ETypeOK
<1> QED
  BY <1>1, <1>2, <1>3, <1>4, <1>5 DEF ENext

(* The firmware's view of the driver keeps its types: in particular the    *)
(* boot never tries more options than there are.                           *)
THEOREM EntryTypes == ESafeSpec => []ETypeOK
<1>1. EInv => ETypeOK
  BY DEF EInv
<1> QED
  BY <1>1, InitEInv, NextEInv, PTL DEF ESafeSpec

(* The sequence runs at most once in a boot, however many boot options BDS *)
(* tries, and the deferred one not before BDS.                             *)
THEOREM RunsOnce == ESafeSpec => []OncePerBoot
<1>1. EInv => OncePerBoot
  BY EitherVariant DEF EInv, DispatchOK, DeferredOK, OncePerBoot
<1> QED
  BY <1>1, InitEInv, NextEInv, PTL DEF ESafeSpec

(* The operating system starts only after the sequence of this boot is     *)
(* over, if the entry point reported success.                              *)
THEOREM OsWaits == ESafeSpec => []OsAfterSequence
<1>1. EInv => OsAfterSequence
  BY EitherVariant DEF EInv, ETypeOK, DispatchOK, DeferredOK, WaitOK, OsAfterSequence
<1> QED
  BY <1>1, InitEInv, NextEInv, PTL DEF ESafeSpec
=============================================================================
