-------------------------- MODULE VcnMailboxProofs --------------------------
(***************************************************************************)
(* For every number of polls, boots and rejected messages: the enable      *)
(* sequence over the mailbox keeps to the mailbox protocol, and implements *)
(* VcnSequence, in which a message is one step.                            *)
(***************************************************************************)
EXTENDS VcnMailbox, VcnProgramProofs

-----------------------------------------------------------------------------
(* The driver between its calls: which message can be next on which line.  *)
Fields == {"pc", "phase", "word", "attempt", "result", "skipped"}
Phases == {"alive", "read", "set", "write", "check"}

DriverOK(r) ==
  /\ DOMAIN r = Fields
  /\ r.pc \in Line /\ r.phase \in Phases
  /\ r.phase = "alive" <=> Program[r.pc].kind = "alive"
  /\ r.phase = "read" => Program[r.pc].kind # "write"
  /\ r.phase \in {"set", "write", "check"} => Program[r.pc].kind \in {"grant", "rmw", "write"}
  /\ r.phase = "check" => Program[r.pc].kind # "write"

(* Where SendQ3 is: the registers it has written so far still hold what it *)
(* wrote, and no earlier message is in the way of the one it rings in.     *)
CallInv ==
  /\ at \in {"waitIdle", "clearRsp", "putArg", "putCmd", "waitDone", "readArg"}
  /\ d.result # "running" => at = "waitIdle"
  /\ at # "waitIdle" => ~Raw
  /\ at \in {"clearRsp", "putArg", "putCmd"} => smu = "idle"
  /\ at \in {"putArg", "putCmd"} => rsp = "0"
  /\ at = "putCmd" => arg = Request.arg
  /\ at = "waitDone" /\ smu = "running" => cmd = Request.cmd /\ arg = Request.arg
  /\ at = "readArg" => fate = "inTime" /\ smu = "idle"

(* Where the SMU is: a status in RSP is that of the message it took last,  *)
(* and a message it executes in time is one the driver waits for.          *)
SmuInv ==
  /\ smu \in {"idle", "running", "accepted", "rejected"}
  /\ fate \in {"inTime", "late"}
  /\ smu # "idle" => rsp = "0"
  /\ smu = "running" /\ fate = "inTime" => at = "waitDone"

MailboxInv == DriverOK(d) /\ CallInv /\ SmuInv

-----------------------------------------------------------------------------
(* What the driver makes of the value it is given.                         *)
LEMMA LineReg == \A k \in Line : Program[k].reg \in Register /\ Program[k].kind \in
                   {"alive", "grant", "probe", "rmw", "write", "poll", "final"}
BY ProgramOp DEF Op

LEMMA NamedAddress == \A reg \in Register : Named(Address[reg]) = reg
BY AddressesDiffer DEF Named

LEMMA Echo == Bits(\h5EED0001) # Bits(\h5EED0000)
<1>1. 0 \in Bits(\h5EED0001) /\ 0 \notin Bits(\h5EED0000)
  BY DEF Bits, Bit
<1> QED
  BY <1>1

LEMMA AdvanceFields ==
  ASSUME DriverOK(d), NEW k
  PROVE  /\ DOMAIN Advance(k) = Fields
         /\ Advance(k).pc = k /\ Advance(k).phase = FirstPhase(k)
         /\ Advance(k).word = {} /\ Advance(k).attempt = 0
         /\ Advance(k).result = d.result /\ Advance(k).skipped = d.skipped
BY DEF DriverOK, Fields, Advance

LEMMA FirstPhaseOK ==
  \A k \in Line :
    FirstPhase(k) = IF Program[k].kind = "alive" THEN "alive"
                    ELSE IF Program[k].kind = "write" THEN "set" ELSE "read"
BY DEF FirstPhase

LEMMA AdvanceOK ==
  ASSUME DriverOK(d), NEW k \in Line
  PROVE  DriverOK(Advance(k))
BY AdvanceFields, FirstPhaseOK DEF DriverOK, Phases

LEMMA AheadOK ==
  ASSUME DriverOK(d), line.kind # "final"
  PROVE  DriverOK(Ahead)
<1>1. d.pc \in 1..27 /\ d.pc # 27
  BY LineKinds DEF DriverOK, line, Line
<1>2. (IF d.pc = AlreadyEnabled THEN FirstPower ELSE d.pc + 1) \in Line
  BY <1>1 DEF Line, AlreadyEnabled, FirstPower
<1> QED
  BY <1>2, AdvanceOK DEF Ahead

LEMMA StopOK ==
  ASSUME DriverOK(d), NEW status
  PROVE  DriverOK(Stop(status))
BY DEF DriverOK, Fields, Stop

LEMMA OnReadOK ==
  ASSUME DriverOK(d), d.phase = "read", NEW value
  PROVE  DriverOK(OnRead(value))
<1>k. line.kind \in {"grant", "rmw", "probe", "poll", "final"}
  BY LineReg DEF DriverOK, line
<1>1. CASE line.kind \in {"grant", "rmw"}
  <2>1. OnRead(value) = IF (value \ line.clear) \union line.set = value THEN Ahead
                        ELSE [d EXCEPT !.phase = "set", !.word = (value \ line.clear) \union line.set]
    BY <1>1 DEF OnRead
  <2>2. ASSUME NEW w PROVE DriverOK([d EXCEPT !.phase = "set", !.word = w])
    BY <1>1 DEF DriverOK, Fields, Phases, line
  <2> QED
    BY <1>1, <2>1, <2>2, AheadOK
<1>2. CASE line.kind = "probe"
  <2> DEFINE k == IF line.set \subseteq value THEN AlreadyEnabled ELSE FirstClock
  <2>1. OnRead(value) = [Advance(k) EXCEPT !.skipped = (line.set \subseteq value)]
    BY <1>2 DEF OnRead
  <2>2. k \in Line
    BY DEF AlreadyEnabled, FirstClock, Line
  <2>3. DriverOK(Advance(k))
    BY <2>2, AdvanceOK
  <2> HIDE DEF k
  <2> QED
    BY <2>1, <2>3 DEF DriverOK, Fields
<1>3. CASE line.kind = "poll"
  <2>1. DriverOK([d EXCEPT !.attempt = d.attempt + 1])
    BY DEF DriverOK, Fields
  <2>2. \/ OnRead(value) = Ahead \/ OnRead(value) = Stop("EFI_TIMEOUT")
        \/ OnRead(value) = [d EXCEPT !.attempt = d.attempt + 1]
    BY <1>3 DEF OnRead
  <2> QED
    BY <1>3, <2>1, <2>2, AheadOK, StopOK
<1>4. CASE line.kind = "final"
  <2>1. \E status : OnRead(value) = Stop(status)
    BY <1>4 DEF OnRead
  <2> QED
    BY <2>1, StopOK
<1> QED
  BY <1>k, <1>1, <1>2, <1>3, <1>4

LEMMA ReturnedOK ==
  ASSUME DriverOK(d), NEW value
  PROVE  DriverOK(Returned(value))
<1>e. ASSUME NEW ok, line.kind # "final" PROVE DriverOK(Either(ok))
  BY <1>e, AheadOK, StopOK DEF Either
<1>1. CASE d.phase = "alive"
  BY <1>1, <1>e DEF Returned, DriverOK, line
<1>2. CASE d.phase = "set"
  <2>1. Returned(value) = [d EXCEPT !.phase = "write"]
    BY <1>2 DEF Returned
  <2> QED
    BY <1>2, <2>1 DEF DriverOK, Fields, Phases
<1>3. CASE d.phase = "write"
  <2>1. Returned(value) = IF line.kind = "write" THEN Ahead ELSE [d EXCEPT !.phase = "check"]
    BY <1>3 DEF Returned
  <2>2. line.kind # "write" => DriverOK([d EXCEPT !.phase = "check"])
    BY <1>3 DEF DriverOK, Fields, Phases, line
  <2> QED
    BY <2>1, <2>2, AheadOK
<1>4. CASE d.phase = "check"
  <2>1. \E ok : Returned(value) = Either(ok)
    BY <1>4 DEF Returned
  <2>2. line.kind # "final"
    BY <1>4 DEF DriverOK, line
  <2> QED
    BY <2>1, <2>2, <1>e
<1>5. CASE d.phase = "read"
  BY <1>5, OnReadOK DEF Returned
<1> QED
  BY <1>1, <1>2, <1>3, <1>4, <1>5 DEF DriverOK, Phases

-----------------------------------------------------------------------------
LEMMA InitMailboxInv == MInit => MailboxInv
<1> SUFFICES ASSUME MInit PROVE MailboxInv
  OBVIOUS
<1>1. DriverOK(Start)
  BY LineKinds, FirstPhaseOK DEF Start, DriverOK, Fields, Phases, Line
<1>2. CallInv /\ SmuInv
  BY DEF MInit, Start, CallInv, SmuInv
<1> QED
  BY <1>1, <1>2 DEF MInit, MailboxInv

(* One step per action.  What the driver asks for does not change during a *)
(* call.                                                                   *)
LEMMA NextMailboxInv == MailboxInv /\ [MNext]_mvars => MailboxInv'
<1> SUFFICES ASSUME MailboxInv, [MNext]_mvars PROVE MailboxInv'
  OBVIOUS
<1> USE DEF MailboxInv
<1>d. d' = d => DriverOK(d)' /\ Request' = Request /\ (Raw' <=> Raw)
  BY DEF Request, Raw, line, Data
<1>1. CASE RawRead
  BY <1>1, ReturnedOK DEF RawRead, mailbox, CallInv, SmuInv
<1>2. CASE PollIdle
  BY <1>2, <1>d DEF PollIdle, Poll1, Calling, mailbox, CallInv, SmuInv
<1>3. CASE ClearRsp
  BY <1>3, <1>d DEF ClearRsp, Calling, CallInv, SmuInv
<1>4. CASE PutArg
  BY <1>4, <1>d DEF PutArg, Calling, CallInv, SmuInv
<1>5. CASE PutCmd
  BY <1>5, <1>d DEF PutCmd, Calling, CallInv, SmuInv
<1>6. CASE PollDone
  BY <1>6, <1>d DEF PollDone, Poll1, Calling, mailbox, CallInv, SmuInv
<1>7. CASE ReadArg
  BY <1>7, ReturnedOK DEF ReadArg, Calling, mailbox, CallInv, SmuInv
<1>8. CASE GiveUp
  BY <1>8, StopOK DEF GiveUp, Calling, mailbox, CallInv, SmuInv
<1>9. CASE SmuExecute
  BY <1>9, <1>d DEF SmuExecute, CallInv, SmuInv
<1>10. CASE SmuReply
  BY <1>10, <1>d DEF SmuReply, CallInv, SmuInv
<1>11. CASE Hardware
  BY <1>11, <1>d DEF Hardware, mailbox, CallInv, SmuInv
<1>12. CASE Reset
  <2>1. DriverOK(Start)
    BY LineKinds, FirstPhaseOK DEF Start, DriverOK, Fields, Phases, Line
  <2> QED
    BY <1>12, <2>1 DEF Reset, mailbox, CallInv, SmuInv
<1>13. CASE UNCHANGED mvars
  BY <1>13, <1>d DEF mvars, mailbox, CallInv, SmuInv
<1> QED
  BY <1>1, <1>2, <1>3, <1>4, <1>5, <1>6, <1>7, <1>8, <1>9, <1>10, <1>11, <1>12, <1>13 DEF MNext

(* SendQ3 rings a message in only when the one before it is over, with its *)
(* own argument in place, and the SMU executes in time only what the       *)
(* driver waits for, across resets and messages given up.                  *)
THEOREM MailboxKept == MSpec => []MailboxInv
<1> QED
  BY InitMailboxInv, NextMailboxInv, PTL DEF MSpec

-----------------------------------------------------------------------------
(* VcnSequence's copy of the table is the table.                           *)
LEMMA SameBits == \A value : Sequence!Bits(value) = Bits(value)
BY DEF Sequence!Bits, Bits, Sequence!Bit, Bit

LEMMA SameTable == Sequence!Program = Program /\ Sequence!Address = Address
<1>1. /\ \A reg, clear, set : Sequence!Rmw(reg, clear, set) = Rmw(reg, clear, set)
      /\ \A reg, value : Sequence!Write(reg, value) = Write(reg, value)
      /\ \A reg, mask : Sequence!Poll(reg, mask) = Poll(reg, mask)
      /\ Sequence!Alive = Alive
  BY DEF Sequence!Rmw, Rmw, Sequence!Write, Write, Sequence!Poll, Poll, Sequence!Alive, Alive
<1>2. Sequence!PWR_STEP_CODE = PWR_STEP_CODE
  BY SameBits DEF Sequence!PWR_STEP_CODE, PWR_STEP_CODE
<1>3. Sequence!Opening = Opening
  BY <1>1, SameBits DEF Sequence!Opening, Opening
<1>4. Sequence!ClockPart = ClockPart
  BY <1>1, SameBits DEF Sequence!ClockPart, ClockPart
<1>5. Sequence!PowerSteps = PowerSteps
  BY <1>1, <1>2, SameBits DEF Sequence!PowerSteps, PowerSteps
<1>6. Sequence!EnableBlock = EnableBlock
  BY <1>1, SameBits DEF Sequence!EnableBlock, EnableBlock
<1>7. Sequence!Verify = Verify
  BY <1>1, SameBits DEF Sequence!Verify, Verify
<1>8. Sequence!Address = Address
  BY SameBits DEF Sequence!Address, Address
<1> QED
  BY <1>3, <1>4, <1>5, <1>6, <1>7, <1>8 DEF Sequence!Program, Program

LEMMA SameFirstPhase == \A k : Sequence!FirstPhase(k) = FirstPhase(k)
BY SameTable DEF Sequence!FirstPhase, FirstPhase

-----------------------------------------------------------------------------
(* Every step of the driver between its calls is a step of VcnSequence's   *)
(* driver, with the value that the call brings.                            *)
LEMMA Moves ==
  ASSUME DriverOK(d), Abs = d, NEW k, Abs' = Advance(k)
  PROVE  Sequence!Goto(k) /\ Abs'.skipped = Abs.skipped
BY AdvanceFields, SameFirstPhase DEF Sequence!Goto

LEMMA MovesAhead ==
  ASSUME DriverOK(d), Abs = d, Abs' = Ahead
  PROVE  Sequence!Goto(Sequence!After) /\ Abs'.skipped = Abs.skipped
<1>1. Sequence!After = IF d.pc = AlreadyEnabled THEN FirstPower ELSE d.pc + 1
  BY DEF Sequence!After, AlreadyEnabled, FirstPower, Sequence!AlreadyEnabled, Sequence!FirstPower
<1> QED
  BY <1>1, Moves DEF Ahead

LEMMA Stops ==
  ASSUME DriverOK(d), Abs = d, NEW status, Abs' = Stop(status)
  PROVE  Sequence!Finish(status) /\ Abs'.skipped = Abs.skipped
BY DEF Sequence!Finish, Stop, DriverOK, Fields

LEMMA SameLine == Abs = d => Sequence!op = line /\ (Sequence!Raw <=> Raw)
<1>1. Abs = d => Sequence!op = line
  BY SameTable DEF Sequence!op, line
<1> QED
  BY <1>1 DEF Sequence!Raw, Raw

LEMMA ReadStep ==
  ASSUME DriverOK(d), Abs = d, d.phase \in {"read", "check"},
         NEW value \in Sequence!Readings, Sequence!Fetch(value),
         Abs' = Returned(value), UNCHANGED <<smn, latch>>
  PROVE  Sequence!Driver
<1>l. Sequence!op = line
  BY SameLine
<1>1. CASE d.phase = "check"
  <2>1. Returned(value) = Either(Sequence!Confirms(value))
    BY <1>1, <1>l DEF Returned, Sequence!Confirms
  <2>2. /\ IF Sequence!Confirms(value) THEN Sequence!Goto(Sequence!After)
           ELSE Sequence!Finish("EFI_DEVICE_ERROR")
        /\ Abs'.skipped = Abs.skipped
    BY <2>1, MovesAhead, Stops DEF Either
  <2>3. Sequence!ReadBack
    BY <1>1, <2>2 DEF Sequence!ReadBack
  <2> QED
    BY <2>3 DEF Sequence!Driver
<1>2. CASE d.phase = "read"
  <2>o. Abs' = OnRead(value)
    BY <1>2 DEF Returned
  <2>k. line.kind \in {"grant", "rmw", "probe", "poll", "final"}
    BY <1>2, LineReg DEF DriverOK, line
  <2>1. CASE line.kind \in {"grant", "rmw"}
    <3> DEFINE new == (value \ line.clear) \union line.set
    <3>1. OnRead(value) = IF new = value THEN Ahead ELSE [d EXCEPT !.phase = "set", !.word = new]
      BY <2>1 DEF OnRead
    <3>2. CASE new = value
      <4>1. Sequence!Goto(Sequence!After) /\ Abs'.skipped = Abs.skipped
        BY <2>o, <3>1, <3>2, MovesAhead
      <4>2. Sequence!ReadOld
        BY <1>2, <1>l, <2>1, <3>2, <4>1 DEF Sequence!ReadOld
      <4> QED
        BY <4>2 DEF Sequence!Driver
    <3>3. CASE new # value
      <4>1. Abs' = [d EXCEPT !.phase = "set", !.word = new]
        BY <2>o, <3>1, <3>3
      <4>2. /\ Abs'.phase = "set" /\ Abs'.word = new
            /\ Abs'.pc = Abs.pc /\ Abs'.attempt = Abs.attempt
            /\ Abs'.result = Abs.result /\ Abs'.skipped = Abs.skipped
        BY <4>1 DEF DriverOK, Fields
      <4>3. Sequence!ReadOld
        BY <1>2, <1>l, <2>1, <3>3, <4>2 DEF Sequence!ReadOld
      <4> QED
        BY <4>3 DEF Sequence!Driver
    <3> QED
      BY <3>2, <3>3
  <2>2. CASE line.kind = "probe"
    <3> DEFINE k == IF line.set \subseteq value THEN AlreadyEnabled ELSE FirstClock
    <3>1. Abs' = [Advance(k) EXCEPT !.skipped = (line.set \subseteq value)]
      BY <2>o, <2>2 DEF OnRead
    <3> HIDE DEF k
    <3>2. /\ Abs'.pc = k /\ Abs'.phase = FirstPhase(k) /\ Abs'.word = {} /\ Abs'.attempt = 0
          /\ Abs'.result = Abs.result /\ Abs'.skipped = (line.set \subseteq value)
      BY <3>1, AdvanceFields DEF Fields
    <3>3. Sequence!Goto(k)
      BY <3>2, SameFirstPhase DEF Sequence!Goto
    <3>4. k = IF line.set \subseteq value THEN Sequence!AlreadyEnabled ELSE Sequence!FirstClock
      BY DEF k, AlreadyEnabled, FirstClock, Sequence!AlreadyEnabled, Sequence!FirstClock
    <3>5. Sequence!Probe
      BY <1>2, <1>l, <2>2, <3>2, <3>3, <3>4 DEF Sequence!Probe
    <3> QED
      BY <3>5 DEF Sequence!Driver
  <2>3. CASE line.kind = "poll"
    <3>1. CASE value \intersect line.set # {}
      <4>1. Sequence!Goto(Sequence!After) /\ Abs'.skipped = Abs.skipped
        BY <2>o, <2>3, <3>1, MovesAhead DEF OnRead
      <4>2. Sequence!SmnPollBit32
        BY <1>2, <1>l, <2>3, <3>1, <4>1 DEF Sequence!SmnPollBit32
      <4> QED
        BY <4>2 DEF Sequence!Driver
    <3>2. CASE value \intersect line.set = {} /\ d.attempt + 1 = REG_POLL_TIMEOUT_LOOPS
      <4>1. Sequence!Finish("EFI_TIMEOUT") /\ Abs'.skipped = Abs.skipped
        BY <2>o, <2>3, <3>2, Stops DEF OnRead
      <4>2. Sequence!SmnPollBit32
        BY <1>2, <1>l, <2>3, <3>2, <4>1 DEF Sequence!SmnPollBit32
      <4> QED
        BY <4>2 DEF Sequence!Driver
    <3>3. CASE value \intersect line.set = {} /\ d.attempt + 1 # REG_POLL_TIMEOUT_LOOPS
      <4>1. Abs' = [d EXCEPT !.attempt = d.attempt + 1]
        BY <2>o, <2>3, <3>3 DEF OnRead
      <4>2. /\ Abs'.attempt = Abs.attempt + 1
            /\ Abs'.pc = Abs.pc /\ Abs'.phase = Abs.phase /\ Abs'.word = Abs.word
            /\ Abs'.result = Abs.result /\ Abs'.skipped = Abs.skipped
        BY <4>1 DEF DriverOK, Fields
      <4>3. Sequence!SmnPollBit32
        BY <1>2, <1>l, <2>3, <3>3, <4>2 DEF Sequence!SmnPollBit32
      <4> QED
        BY <4>3 DEF Sequence!Driver
    <3> QED
      BY <3>1, <3>2, <3>3
  <2>4. CASE line.kind = "final"
    <3>1. Abs' = Stop(IF line.set \subseteq value THEN "EFI_SUCCESS" ELSE "EFI_DEVICE_ERROR")
      BY <2>o, <2>4 DEF OnRead
    <3>2. Sequence!FinalRead
      BY <1>2, <1>l, <2>4, <3>1, Stops DEF Sequence!FinalRead
    <3> QED
      BY <3>2 DEF Sequence!Driver
  <2> QED
    BY <2>k, <2>1, <2>2, <2>3, <2>4
<1> QED
  BY <1>1, <1>2

-----------------------------------------------------------------------------
(* Where the refinement has the driver and the message.                    *)
LEMMA Idle == ~Called => Abs = d
BY DEF Abs

LEMMA Waiting == smu = "running" /\ fate = "inTime" => Abs = d
BY DEF Abs

LEMMA NonePending == ~(smu = "running" /\ fate = "late") => Pending = Sequence!NoMessage
BY DEF Pending, Sequence!NoMessage

LEMMA Stutters ==
  ASSUME Abs' = Abs, Pending' = Pending, UNCHANGED world
  PROVE  UNCHANGED Sequence!vars
BY DEF world, Sequence!vars, Sequence!machine, Sequence!driver

LEMMA ReturnedAlike == d' = d => Returned(arg)' = Returned(arg')
BY DEF Returned, OnRead, Either, Ahead, Advance, Stop, line

LEMMA StopAlike == d' = d => Stop("EFI_TIMEOUT")' = Stop("EFI_TIMEOUT")
BY DEF Stop

LEMMA PendingAlike == UNCHANGED <<smu, fate, cmd, arg>> => Pending' = Pending
BY DEF Pending

LEMMA AbsAlike == UNCHANGED <<d, at, arg, smu, fate>> => Abs' = Abs
<1> SUFFICES ASSUME UNCHANGED <<d, at, arg, smu, fate>> PROVE Abs' = Abs
  OBVIOUS
<1>1. Called' <=> Called
  BY DEF Called
<1> QED
  BY <1>1, ReturnedAlike, StopAlike DEF Abs

(* A message that is executed in time takes effect at its execution.       *)
LEMMA ExecutesInTime ==
  ASSUME MailboxInv, SmuExecute, fate = "inTime"
  PROVE  Sequence!Driver
<1> DEFINE accepted == smu' = "accepted"
<1>1. /\ smu = "running" /\ at = "waitDone" /\ d.result = "running" /\ ~Raw
      /\ cmd = Request.cmd /\ arg = Request.arg /\ DriverOK(d)
  BY DEF SmuExecute, MailboxInv, CallInv, SmuInv
<1>2. Abs = d /\ Abs' = Returned(arg')
  <2>1. d' = d /\ at' = at /\ fate' = fate /\ smu' # "running"
    BY DEF SmuExecute
  <2>2. Called'
    BY <1>1, <2>1 DEF Called
  <2>3. Abs' = Returned(arg)'
    BY <2>1, <2>2 DEF Abs
  <2> QED
    BY <1>1, <2>1, <2>3, Waiting, ReturnedAlike
<1>3. /\ accepted \in BOOLEAN /\ Sequence!Send(accepted)
      /\ UNCHANGED <<boots, cold>>
  <2>1. Pending = Sequence!NoMessage /\ Pending' = Sequence!NoMessage
    <3>1. Pending = Sequence!NoMessage
      BY NonePending
    <3>2. smu' # "running"
      BY DEF SmuExecute
    <3>3. Pending' = Sequence!NoMessage
      BY <3>2 DEF Pending, Sequence!NoMessage
    <3> QED
      BY <3>1, <3>3
  <2> QED
    BY <1>1, <1>2, <2>1 DEF SmuExecute, Sequence!Send
<1>4. Sequence!op = line /\ (Sequence!Raw <=> Raw) /\ line.reg \in Register
  BY <1>1, <1>2, SameLine, LineReg DEF line, DriverOK
<1>5. /\ smu' = "rejected" => UNCHANGED <<smn, latch, arg>>
      /\ smu' # "rejected" =>
           /\ latch' = IF cmd = "set" THEN Named(arg) ELSE latch
           /\ smn' = IF cmd = "write" THEN [smn EXCEPT ![latch] = arg] ELSE smn
           /\ arg' = CASE cmd = "read" -> smn[Named(arg)]
                       [] cmd = "alive" -> Bits(\h5EED0001)
                       [] OTHER -> arg
      /\ smu' \in {"accepted", "rejected"}
  BY DEF SmuExecute
<1> HIDE DEF accepted
<1>6. CASE d.phase = "alive"
  <2>1. cmd = "alive" /\ arg = Bits(\h5EED0000)
    BY <1>1, <1>6 DEF Request
  <2>2. /\ arg' = Bits(\h5EED0001) <=> accepted
        /\ UNCHANGED <<smn, latch>>
    BY <1>5, <2>1, Echo DEF accepted
  <2>3. Returned(arg') = Either(arg' = Bits(\h5EED0001))
    BY <1>6 DEF Returned
  <2>4. /\ IF accepted THEN Sequence!Goto(Sequence!After) ELSE Sequence!Finish("EFI_DEVICE_ERROR")
        /\ Abs'.skipped = Abs.skipped
    BY <1>1, <1>2, <2>2, <2>3, MovesAhead, Stops DEF Either
  <2>5. Sequence!SmuAlive
    BY <1>2, <1>3, <1>6, <2>2, <2>4 DEF Sequence!SmuAlive
  <2> QED
    BY <2>5 DEF Sequence!Driver
<1>7. CASE d.phase = "set"
  <2>1. cmd = "set" /\ arg = Address[line.reg]
    BY <1>1, <1>7 DEF Request
  <2>2. latch' = (IF accepted THEN line.reg ELSE latch) /\ smn' = smn
    BY <1>4, <1>5, <2>1, NamedAddress DEF accepted
  <2>3. Abs' = [d EXCEPT !.phase = "write"]
    BY <1>2, <1>7 DEF Returned
  <2>4. /\ Abs'.phase = "write"
        /\ Abs'.pc = Abs.pc /\ Abs'.attempt = Abs.attempt /\ Abs'.word = Abs.word
        /\ Abs'.result = Abs.result /\ Abs'.skipped = Abs.skipped
    BY <1>1, <1>2, <2>3 DEF DriverOK, Fields
  <2>5. Sequence!SetAddr
    BY <1>2, <1>3, <1>4, <1>7, <2>2, <2>4 DEF Sequence!SetAddr
  <2> QED
    BY <2>5 DEF Sequence!Driver
<1>8. CASE d.phase = "write"
  <2>1. cmd = "write" /\ arg = Data
    BY <1>1, <1>8 DEF Request
  <2>2. smn' = (IF accepted THEN [smn EXCEPT ![latch] = Data] ELSE smn) /\ latch' = latch
    BY <1>5, <2>1 DEF accepted
  <2>3. Sequence!Data = Data
    BY <1>2, <1>4 DEF Sequence!Data, Data
  <2>4. Returned(arg') = IF line.kind = "write" THEN Ahead ELSE [d EXCEPT !.phase = "check"]
    BY <1>8 DEF Returned
  <2>5. CASE line.kind = "write"
    <3>1. Sequence!Goto(Sequence!After) /\ Abs'.skipped = Abs.skipped
      BY <1>1, <1>2, <2>4, <2>5, MovesAhead
    <3>2. Sequence!WriteData
      BY <1>2, <1>3, <1>4, <1>8, <2>2, <2>3, <2>5, <3>1 DEF Sequence!WriteData
    <3> QED
      BY <3>2 DEF Sequence!Driver
  <2>6. CASE line.kind # "write"
    <3>1. Abs' = [d EXCEPT !.phase = "check"]
      BY <1>2, <2>4, <2>6
    <3>2. /\ Abs'.phase = "check"
          /\ Abs'.pc = Abs.pc /\ Abs'.attempt = Abs.attempt /\ Abs'.word = Abs.word
          /\ Abs'.result = Abs.result /\ Abs'.skipped = Abs.skipped
      BY <1>1, <1>2, <3>1 DEF DriverOK, Fields
    <3>3. Sequence!WriteData
      BY <1>2, <1>3, <1>4, <1>8, <2>2, <2>3, <2>6, <3>2 DEF Sequence!WriteData
    <3> QED
      BY <3>3 DEF Sequence!Driver
  <2> QED
    BY <2>5, <2>6
<1>9. CASE d.phase \in {"read", "check"}
  <2>1. cmd = "read" /\ arg = Address[line.reg]
    BY <1>1, <1>9 DEF Request
  <2>2. arg' = (IF accepted THEN smn[line.reg] ELSE Address[line.reg]) /\ UNCHANGED <<smn, latch>>
    BY <1>4, <1>5, <2>1, NamedAddress DEF accepted
  <2>3. arg' \in Sequence!Readings /\ Sequence!Fetch(arg')
    BY <1>1, <1>3, <1>4, <2>2, SameTable
    DEF Sequence!Readings, Sequence!Fetch, Sequence!SmnSecureRead32
  <2> QED
    BY <1>1, <1>2, <1>9, <2>2, <2>3, ReadStep
<1> QED
  BY <1>1, <1>6, <1>7, <1>8, <1>9 DEF DriverOK, Phases

(* A message that is not executed in time has timed out when it is rung    *)
(* in: it is pending.                                                      *)
LEMMA RungLate ==
  ASSUME MailboxInv, PutCmd, fate' = "late"
  PROVE  Sequence!MailboxTimeout
<1>1. /\ at = "putCmd" /\ d.result = "running" /\ ~Raw /\ smu = "idle" /\ DriverOK(d)
      /\ at' = "waitDone" /\ cmd' = Request.cmd /\ smu' = "running"
      /\ arg' = arg /\ arg = Request.arg /\ d' = d /\ UNCHANGED world
  BY DEF PutCmd, Calling, MailboxInv, CallInv
<1>2. Abs = d /\ Abs' = Stop("EFI_TIMEOUT")
  <2>1. Abs = d
    BY <1>1, Idle DEF Called
  <2>2. Called'
    BY <1>1 DEF Called
  <2>3. Abs' = Stop("EFI_TIMEOUT")'
    BY <2>2 DEF Abs
  <2> QED
    BY <1>1, <2>1, <2>3, StopAlike
<1>3. Sequence!op = line /\ (Sequence!Raw <=> Raw) /\ line.reg \in Register
  BY <1>1, <1>2, SameLine, LineReg DEF line, DriverOK
<1>4. Pending = Sequence!NoMessage
  BY <1>1, NonePending
<1>5. Pending' = Sequence!InFlight
  <2>1. Pending' = [kind |-> IF cmd' \in {"set", "write"} THEN cmd' ELSE "other",
                    reg  |-> IF cmd' = "set" THEN Named(arg') ELSE "ELSEWHERE",
                    data |-> IF cmd' = "write" THEN arg' ELSE {}]
    BY <1>1 DEF Pending, Named
  <2>2. Sequence!Data = Data
    BY <1>2, <1>3 DEF Sequence!Data, Data
  <2>3. /\ d.phase = "set" => Request = [cmd |-> "set", arg |-> Address[line.reg]]
        /\ d.phase = "write" => Request = [cmd |-> "write", arg |-> Data]
        /\ d.phase \notin {"set", "write"} => Request.cmd \in {"alive", "read"}
    BY <1>1 DEF Request, DriverOK, Phases
  <2>4. CASE d.phase = "set"
    BY <1>1, <1>2, <1>3, <2>1, <2>3, <2>4, NamedAddress DEF Sequence!InFlight
  <2>5. CASE d.phase = "write"
    BY <1>1, <1>2, <1>3, <2>1, <2>2, <2>3, <2>5 DEF Sequence!InFlight
  <2>6. CASE d.phase \notin {"set", "write"}
    BY <1>1, <1>2, <1>3, <2>1, <2>3, <2>6 DEF Sequence!InFlight
  <2> QED
    BY <2>4, <2>5, <2>6
<1> QED
  BY <1>1, <1>2, <1>3, <1>4, <1>5, Stops DEF Sequence!MailboxTimeout, world

(* The SMU executes or rejects it later, if at all.                        *)
LEMMA ExecutesLate ==
  ASSUME MailboxInv, SmuExecute, fate = "late"
  PROVE  Sequence!LateExecute
<1> DEFINE accepted == smu' = "accepted"
<1>1. /\ smu = "running" /\ smu' \in {"accepted", "rejected"}
      /\ smu' = "rejected" => rejects < MaxRejects /\ rejects' = rejects + 1 /\ UNCHANGED <<smn, latch>>
      /\ smu' # "rejected" =>
           /\ latch' = IF cmd = "set" THEN Named(arg) ELSE latch
           /\ smn' = IF cmd = "write" THEN [smn EXCEPT ![latch] = arg] ELSE smn
           /\ rejects' = rejects
      /\ UNCHANGED <<boots, cold, d, at, cmd, fate>>
  BY DEF SmuExecute
<1>2. Abs' = Abs
  <2>1. Called' <=> Called
    BY <1>1 DEF Called
  <2>2. Abs = IF Called THEN Stop("EFI_TIMEOUT") ELSE d
    BY DEF Abs
  <2>3. Abs' = IF Called' THEN Stop("EFI_TIMEOUT")' ELSE d'
    BY <1>1 DEF Abs
  <2> QED
    BY <1>1, <2>1, <2>2, <2>3, StopAlike
<1>3. Pending' = Sequence!NoMessage
  BY <1>1 DEF Pending, Sequence!NoMessage
<1>4. /\ Pending # Sequence!NoMessage
      /\ Pending.kind = "set" <=> cmd = "set"
      /\ Pending.kind = "write" <=> cmd = "write"
      /\ cmd = "set" => Pending.reg = Named(arg)
      /\ cmd = "write" => Pending.data = arg
  <2>1. Pending = [kind |-> IF cmd \in {"set", "write"} THEN cmd ELSE "other",
                   reg  |-> IF cmd = "set" THEN Named(arg) ELSE "ELSEWHERE",
                   data |-> IF cmd = "write" THEN arg ELSE {}]
    BY <1>1 DEF Pending
  <2>2. Pending.kind = (IF cmd \in {"set", "write"} THEN cmd ELSE "other")
        /\ Sequence!NoMessage.kind = "none"
    BY <2>1 DEF Sequence!NoMessage
  <2>3. Pending.kind # "none"
    BY <2>2
  <2> QED
    BY <2>1, <2>2, <2>3
<1>5. accepted \in BOOLEAN
  OBVIOUS
<1>6. /\ accepted \/ rejects < MaxRejects
      /\ rejects' = IF accepted THEN rejects ELSE rejects + 1
      /\ latch' = IF accepted /\ Pending.kind = "set" THEN Pending.reg ELSE latch
      /\ smn' = IF accepted /\ Pending.kind = "write"
                THEN [smn EXCEPT ![latch] = Pending.data] ELSE smn
  BY <1>1, <1>4
<1> HIDE DEF accepted
<1> QED
  BY <1>1, <1>2, <1>3, <1>4, <1>5, <1>6 DEF Sequence!LateExecute, Sequence!driver

-----------------------------------------------------------------------------
LEMMA StepImplementsSequence ==
  MailboxInv /\ [MNext]_mvars => [Sequence!Next]_(Sequence!vars)
<1> SUFFICES ASSUME MailboxInv, [MNext]_mvars PROVE [Sequence!Next]_(Sequence!vars)
  OBVIOUS
<1>d. DriverOK(d) /\ CallInv /\ SmuInv
  BY DEF MailboxInv
<1>1. CASE RawRead
  <2>1. /\ d.result = "running" /\ at = "waitIdle" /\ Raw /\ d' = Returned(smn[line.reg])
        /\ UNCHANGED <<world, at, mailbox, fate>>
    BY <1>1 DEF RawRead
  <2>2. Abs = d /\ Abs' = d'
    BY <2>1 DEF Abs, Called
  <2>3. Pending' = Pending
    BY <2>1, PendingAlike DEF mailbox
  <2>4. /\ smn[line.reg] \in Sequence!Readings /\ Sequence!Fetch(smn[line.reg])
        /\ d.phase \in {"read", "check"}
    BY <2>1, <2>2, <2>3, SameLine
    DEF Sequence!Readings, Sequence!Fetch, Sequence!SmnRead32, Raw, world
  <2>5. Sequence!Driver
    BY <1>d, <2>1, <2>2, <2>4, ReadStep DEF world
  <2> QED
    BY <2>5 DEF Sequence!Next
<1>2. CASE PollIdle \/ ClearRsp
  <2>1. /\ at \notin {"waitDone", "readArg"} /\ at' \notin {"waitDone", "readArg"} /\ d' = d
        /\ UNCHANGED <<world, smu, fate, cmd, arg>>
    BY <1>2 DEF PollIdle, Poll1, ClearRsp, Calling, mailbox
  <2>2. Abs' = Abs
    BY <2>1 DEF Abs, Called
  <2> QED
    BY <2>1, <2>2, PendingAlike, Stutters
<1>3. CASE PutArg
  <2>1. /\ at = "putArg" /\ at' = "putCmd" /\ d' = d /\ smu = "idle"
        /\ UNCHANGED <<world, smu, fate, cmd>>
    BY <1>3, <1>d DEF PutArg, Calling, CallInv
  <2>2. Abs' = Abs /\ Pending' = Pending
    BY <2>1 DEF Abs, Called, Pending
  <2> QED
    BY <2>1, <2>2, Stutters
<1>4. CASE PutCmd
  <2>1. CASE fate' = "late"
    BY <1>4, <2>1, RungLate DEF Sequence!Next, Sequence!Driver
  <2>2. CASE fate' = "inTime"
    <3>1. /\ at = "putCmd" /\ d' = d /\ smu = "idle" /\ smu' = "running" /\ UNCHANGED world
      BY <1>4, <1>d DEF PutCmd, Calling, CallInv
    <3>2. Abs' = Abs /\ Pending' = Pending
      BY <2>2, <3>1 DEF Abs, Called, Pending
    <3> QED
      BY <3>1, <3>2, Stutters
  <2> QED
    BY <1>4, <2>1, <2>2 DEF PutCmd
<1>5. CASE PollDone
  <2>1. /\ at = "waitDone" /\ at' \in {"waitDone", "readArg"} /\ d' = d
        /\ UNCHANGED <<world, smu, fate, cmd, arg>>
    BY <1>5 DEF PollDone, Poll1, Calling, mailbox
  <2>2. Called' <=> Called
    BY <2>1 DEF Called
  <2>3. Abs' = Abs
    BY <2>1, <2>2, ReturnedAlike, StopAlike DEF Abs
  <2> QED
    BY <2>1, <2>3, PendingAlike, Stutters
<1>6. CASE ReadArg
  <2>1. /\ at = "readArg" /\ d.result = "running" /\ at' = "waitIdle" /\ d' = Returned(arg)
        /\ fate = "inTime" /\ smu = "idle"
        /\ UNCHANGED <<world, smu, fate, cmd, arg>>
    BY <1>6, <1>d DEF ReadArg, Calling, mailbox, CallInv
  <2>2. Abs' = Abs
    BY <2>1 DEF Abs, Called
  <2> QED
    BY <2>1, <2>2, PendingAlike, Stutters
<1>7. CASE GiveUp
  <2>1. /\ d.result = "running" /\ ~Raw /\ d' = Stop("EFI_TIMEOUT") /\ at' = "waitIdle"
        /\ UNCHANGED <<world, smu, fate, cmd, arg>>
        /\ at = "waitIdle" \/ (at = "waitDone" /\ fate = "late")
    BY <1>7 DEF GiveUp, Calling, mailbox
  <2>2. Abs' = Stop("EFI_TIMEOUT")
    BY <2>1 DEF Abs, Called
  <2>3. CASE at = "waitIdle"
    <3>1. Abs = d
      BY <2>3, Idle DEF Called
    <3>2. Sequence!MailboxTimeout
      BY <1>d, <2>1, <2>2, <3>1, SameLine, Stops, PendingAlike
      DEF Sequence!MailboxTimeout, world
    <3> QED
      BY <3>2 DEF Sequence!Next, Sequence!Driver
  <2>4. CASE at = "waitDone" /\ fate = "late"
    <3>1. Abs = Stop("EFI_TIMEOUT")
      BY <2>1, <2>4 DEF Abs, Called
    <3> QED
      BY <2>1, <2>2, <3>1, PendingAlike, Stutters
  <2> QED
    BY <2>1, <2>3, <2>4
<1>8. CASE SmuExecute
  <2>1. CASE fate = "inTime"
    BY <1>8, <2>1, ExecutesInTime DEF Sequence!Next
  <2>2. CASE fate = "late"
    BY <1>8, <2>2, ExecutesLate DEF Sequence!Next
  <2> QED
    BY <1>d, <2>1, <2>2 DEF SmuInv
<1>9. CASE SmuReply
  <2>1. /\ smu # "running" /\ smu' # "running"
        /\ UNCHANGED <<world, d, at, arg, fate>>
    BY <1>9 DEF SmuReply
  <2>2. Called' <=> Called
    BY <2>1 DEF Called
  <2>3. Abs' = Abs
    BY <2>1, <2>2, ReturnedAlike, StopAlike DEF Abs
  <2>4. Pending' = Pending
    BY <2>1 DEF Pending
  <2> QED
    BY <2>1, <2>3, <2>4, Stutters
<1>10. CASE Hardware
  BY <1>10 DEF Hardware, Sequence!Next
<1>11. CASE Reset
  <2>1. /\ boots < MaxBoots /\ boots' = boots + 1 /\ d' = Start /\ at' = "waitIdle"
        /\ UNCHANGED <<smn, latch, rejects, cold, smu, fate, cmd, arg>>
    BY <1>11 DEF Reset, mailbox
  <2>2. Abs' = Start
    BY <2>1 DEF Abs, Called
  <2>3. Sequence!WarmReset
    BY <2>1, <2>2, PendingAlike, SameFirstPhase
    DEF Start, Sequence!WarmReset, Sequence!machine
  <2> QED
    BY <2>3 DEF Sequence!Next
<1>12. CASE UNCHANGED mvars
  BY <1>12, AbsAlike, PendingAlike, Stutters DEF mvars, mailbox
<1> QED
  BY <1>1, <1>2, <1>3, <1>4, <1>5, <1>6, <1>7, <1>8, <1>9, <1>10, <1>11, <1>12 DEF MNext

LEMMA InitImplementsSequence == MInit => Sequence!Init
<1> SUFFICES ASSUME MInit PROVE Sequence!Init
  OBVIOUS
<1>1. Abs = Start /\ Pending = Sequence!NoMessage
  BY DEF MInit, Abs, Called, Pending, Sequence!NoMessage
<1> QED
  BY <1>1, SameFirstPhase DEF MInit, Start, Sequence!Init

(* Every access of the driver and the SMU to the mailbox is a step of      *)
(* VcnSequence or none, with late, rejected and timed out messages and     *)
(* with resets between any two accesses.                                   *)
THEOREM MailboxImplementsSequence == MSpec => ImplementsSequence
<1>1. MInit => Sequence!Init
  BY InitImplementsSequence
<1>2. MailboxInv /\ [MNext]_mvars => [Sequence!Next]_(Sequence!vars)
  BY StepImplementsSequence
<1> QED
  BY <1>1, <1>2, MailboxKept, PTL DEF MSpec, ImplementsSequence, Sequence!SafeSpec
=============================================================================
