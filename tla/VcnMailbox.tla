----------------------------- MODULE VcnMailbox -----------------------------
(***************************************************************************)
(* The enable sequence over the mailbox itself: the program of VcnProgram, *)
(* every message of it sent by SendQ3 access by access, and an SMU that    *)
(* executes what it finds in the mailbox whenever it comes round to it.    *)
(* VcnSequence, in which a message is one step, is what this is shown to   *)
(* implement: nothing of the driver's logic depends on more of a call than *)
(* what Q3Call promises.                                                   *)
(*                                                                         *)
(* "fate" is a prophecy, made when a message is rung in: whether the SMU   *)
(* executes it before the driver gives it up.  It restricts no execution,  *)
(* since one of its two values comes true.                                 *)
(***************************************************************************)
EXTENDS VcnProgram

CONSTANTS PreStates, SecureReads, REG_POLL_TIMEOUT_LOOPS, MaxBoots, MaxRejects,
          MAILBOX_TIMEOUT_LOOPS

ASSUME MailboxAssumption == MAILBOX_TIMEOUT_LOOPS \in Nat

VARIABLES smn, latch, rejects, boots, cold,    \* as in VcnSequence
          d,        \* the driver between its calls: the variables "driver" of VcnSequence
          at,       \* where SendQ3 is
          tries,    \* Attempt of WaitForDoneStatus
          rsp,      \* Q3_RSP: 0, or whether the SMU accepted the message
          arg,      \* Q3_ARG
          cmd,      \* Q3_CMD
          smu,      \* "idle", "running" a message, or "replying"
          fate      \* of the message rung in last: "inTime" or "late"

world == <<smn, latch, rejects, boots, cold>>
mailbox == <<rsp, arg, cmd, smu>>
mvars == <<world, d, at, tries, mailbox, fate>>

Start == [pc |-> 1, phase |-> FirstPhase(1), word |-> {}, attempt |-> 0,
          result |-> "running", skipped |-> FALSE]

MInit ==
  /\ smn \in PreStates /\ cold = smn
  /\ latch = "ELSEWHERE" /\ rejects = 0 /\ boots = 1
  /\ d = Start /\ at = "waitIdle" /\ tries = 0
  /\ rsp \in {"0", "accepted"} /\ arg = {} /\ cmd = "alive" /\ smu = "idle" /\ fate = "inTime"

-----------------------------------------------------------------------------
(* What the driver asks for next, and what it does once the call is over   *)
(* and it has taken "value" out of the argument slot.                      *)
line == Program[d.pc]
Data == IF line.kind = "write" THEN line.set ELSE d.word

Request ==
  CASE d.phase = "alive" -> [cmd |-> "alive", arg |-> Bits(\h5EED0000)]
    [] d.phase = "set"   -> [cmd |-> "set",   arg |-> Address[line.reg]]
    [] d.phase = "write" -> [cmd |-> "write", arg |-> Data]
    [] OTHER             -> [cmd |-> "read",  arg |-> Address[line.reg]]

Advance(k) == [d EXCEPT !.pc = k, !.phase = FirstPhase(k), !.word = {}, !.attempt = 0]
Ahead == Advance(IF d.pc = AlreadyEnabled THEN FirstPower ELSE d.pc + 1)
Stop(status) == [d EXCEPT !.result = status]
Either(ok) == IF ok THEN Ahead ELSE Stop("EFI_DEVICE_ERROR")

OnRead(value) ==
  LET set == line.set \subseteq value
      new == (value \ line.clear) \union line.set
  IN  CASE line.kind \in {"grant", "rmw"} ->
             IF new = value THEN Ahead ELSE [d EXCEPT !.phase = "set", !.word = new]
        [] line.kind = "probe" ->
             [Advance(IF set THEN AlreadyEnabled ELSE FirstClock) EXCEPT !.skipped = set]
        [] line.kind = "poll" ->
             IF value \intersect line.set # {} THEN Ahead
             ELSE IF d.attempt + 1 = REG_POLL_TIMEOUT_LOOPS THEN Stop("EFI_TIMEOUT")
             ELSE [d EXCEPT !.attempt = @ + 1]
        [] line.kind = "final" -> Stop(IF set THEN "EFI_SUCCESS" ELSE "EFI_DEVICE_ERROR")

Returned(value) ==
  CASE d.phase = "alive" -> Either(value = Bits(\h5EED0001))
    [] d.phase = "set"   -> [d EXCEPT !.phase = "write"]
    [] d.phase = "write" -> IF line.kind = "write" THEN Ahead ELSE [d EXCEPT !.phase = "check"]
    [] d.phase = "check" ->
         Either(IF line.kind = "grant" THEN line.set \subseteq value ELSE value = d.word)
    [] d.phase = "read"  -> OnRead(value)

(* The base variant reads the permission bitmap through the config pair.   *)
Raw == line.kind = "grant" /\ d.phase \in {"read", "check"} /\ ~SecureReads

-----------------------------------------------------------------------------
RawRead ==
  /\ d.result = "running" /\ at = "waitIdle" /\ Raw
  /\ d' = Returned(smn[line.reg])
  /\ UNCHANGED <<world, at, tries, mailbox, fate>>

Calling(where) == d.result = "running" /\ at = where /\ ~Raw

(* Mutant of PollIdle: the message goes out without a look at RSP. *)
PollNever ==
  /\ Calling("waitIdle")
  /\ at' = "clearRsp"
  /\ UNCHANGED <<world, d, tries, mailbox, fate>>

(* One turn of WaitForDoneStatus.  The second wait finds a done status     *)
(* only of a message that was executed in time.                            *)
Poll1(where, next) ==
  /\ Calling(where) /\ tries < MAILBOX_TIMEOUT_LOOPS
  /\ IF rsp # "0" THEN at' = next /\ tries' = 0 ELSE at' = where /\ tries' = tries + 1
  /\ UNCHANGED <<world, d, mailbox, fate>>

PollIdle == Poll1("waitIdle", "clearRsp")

ClearRsp ==
  /\ Calling("clearRsp")
  /\ at' = "putArg" /\ rsp' = "0"
  /\ UNCHANGED <<world, d, tries, arg, cmd, smu, fate>>

PutArg ==
  /\ Calling("putArg")
  /\ at' = "putCmd" /\ arg' = Request.arg
  /\ UNCHANGED <<world, d, tries, rsp, cmd, smu, fate>>

PutCmd ==
  /\ Calling("putCmd")
  /\ at' = "waitDone" /\ cmd' = Request.cmd /\ smu' = "running"
  /\ fate' \in {"inTime", "late"}
  /\ UNCHANGED <<world, d, tries, rsp, arg>>

PollDone == (rsp # "0" => fate = "inTime") /\ Poll1("waitDone", "readArg")

(* The value is fetched whatever the status; a caller without a use for    *)
(* one does not look at it.                                                *)
ReadArg ==
  /\ Calling("readArg")
  /\ d' = Returned(arg)
  /\ at' = "waitIdle"
  /\ UNCHANGED <<world, tries, mailbox, fate>>

GiveUp ==
  /\ Calling("waitIdle") \/ (Calling("waitDone") /\ fate = "late")
  /\ tries = MAILBOX_TIMEOUT_LOOPS
  /\ d' = Stop("EFI_TIMEOUT") /\ at' = "waitIdle" /\ tries' = 0
  /\ UNCHANGED <<world, mailbox, fate>>

(* A reset finds a message that is still with the SMU late.                *)
Reset ==
  /\ boots < MaxBoots
  /\ smu = "running" => fate = "late"
  /\ boots' = boots + 1
  /\ d' = Start /\ at' = "waitIdle" /\ tries' = 0
  /\ UNCHANGED <<smn, latch, rejects, cold, mailbox, fate>>

-----------------------------------------------------------------------------
(* The SMU: a message carries an address or a datum, not a register's name.*)
Named(address) == CHOOSE reg \in Register : Address[reg] = address

SmuExecute ==
  /\ smu = "running"
  /\ smu' \in {"accepted", "rejected"}
  /\ smu' = "rejected" => rejects < MaxRejects
  /\ IF smu' = "rejected"
     THEN rejects' = rejects + 1 /\ UNCHANGED <<smn, latch, arg>>
     ELSE /\ latch' = IF cmd = "set" THEN Named(arg) ELSE latch
          /\ smn' = IF cmd = "write" THEN [smn EXCEPT ![latch] = arg] ELSE smn
          /\ arg' = CASE cmd = "read" -> smn[Named(arg)]
                      [] cmd = "alive" -> Bits(\h5EED0001)
                      [] OTHER -> arg
          /\ rejects' = rejects
  /\ UNCHANGED <<boots, cold, d, at, tries, rsp, cmd, fate>>

SmuReply ==
  /\ smu \in {"accepted", "rejected"}
  /\ smu' = "idle" /\ rsp' = smu
  /\ UNCHANGED <<world, d, at, tries, arg, cmd, fate>>

-----------------------------------------------------------------------------
(* The refinement: a message that is executed in time takes effect on the  *)
(* driver at its execution; one that is not has timed out when it is rung. *)
Called == at \in {"waitDone", "readArg"} /\ d.result = "running"

Abs ==
  CASE Called /\ fate = "late" -> Stop("EFI_TIMEOUT")
    [] Called /\ fate = "inTime" /\ smu # "running" -> Returned(arg)
    [] OTHER -> d

Pending ==
  IF smu = "running" /\ fate = "late"
  THEN [kind |-> IF cmd \in {"set", "write"} THEN cmd ELSE "other",
        reg  |-> IF cmd = "set" THEN Named(arg) ELSE "ELSEWHERE",
        data |-> IF cmd = "write" THEN arg ELSE {}]
  ELSE [kind |-> "none", reg |-> "ELSEWHERE", data |-> {}]

Sequence ==
  INSTANCE VcnSequence WITH
    pending <- Pending, pc <- Abs.pc, phase <- Abs.phase, word <- Abs.word,
    attempt <- Abs.attempt, result <- Abs.result, skipped <- Abs.skipped

(* The hardware of VcnSequence, on the same registers.                     *)
Hardware ==
  /\ UNCHANGED <<latch, rejects, boots, cold, d, at, tries, mailbox, fate>>
  /\ Sequence!Hardware

MNext ==
  \/ RawRead \/ PollIdle \/ ClearRsp \/ PutArg \/ PutCmd \/ PollDone \/ ReadArg \/ GiveUp
  \/ SmuExecute \/ SmuReply \/ Hardware \/ Reset

MSpec == MInit /\ [][MNext]_mvars
-----------------------------------------------------------------------------
(* Every access is a step of VcnSequence or none: late, rejected and timed *)
(* out messages, resets between any two accesses included.                 *)
ImplementsSequence == Sequence!SafeSpec
=============================================================================
