----------------------------- MODULE Q3Mailbox -----------------------------
(***************************************************************************)
(* The Q3 mailbox of BC250VCNUnlockDxe.c (the _secure and _rtb variants    *)
(* hold the same text): SendQ3 and WaitForDoneStatus, one action per       *)
(* register access, against the SMU that answers asynchronously.           *)
(*                                                                         *)
(* The driver makes the calls 1, 2, ... MaxCalls one after the other, and  *)
(* after an EFI_TIMEOUT it makes no more: every caller of SendQ3 returns   *)
(* on an error, up to the entry point.  Message 0 is one that was already  *)
(* in the mailbox when the driver started.  The machine may be reset at    *)
(* any point of a call; the SMU and its mailbox registers survive that.    *)
(***************************************************************************)
EXTENDS Q3Call

CONSTANTS MAILBOX_TIMEOUT_LOOPS,   \* polls of one wait
          MaxResets                \* bound on the resets a run explores

ASSUME MailboxAssumption ==
  MAILBOX_TIMEOUT_LOOPS \in Nat /\ MaxResets \in Nat

VARIABLES pc,       \* where SendQ3 is
          n,        \* the call SendQ3 is making, or made last
          attempt,  \* Attempt of WaitForDoneStatus
          rsp,      \* the register Q3_RSP: 0 or a status
          arg,      \* the register Q3_ARG
          cmd,      \* the register Q3_CMD: the message rung last
          smu,      \* "idle", "running" a message, or "replying" (value out, status not yet)
          resets

host == <<pc, n, attempt>>
regs == <<rsp, arg, cmd>>
mvars == <<pc, n, attempt, rsp, arg, cmd, smu, resets, posted, ans, ret>>

DoneStatus == {1, 255, 254, 253, 252}

IsDoneStatus(status) == status \in DoneStatus

ASSUME StatusAssumption == SmuStatus \subseteq DoneStatus

MTypeOK ==
  /\ TypeOK
  /\ pc \in {"ready", "waitIdle", "clearRsp", "putArg", "putCmd", "waitDone", "answered", "aborted"}
  /\ n \in Message
  /\ attempt \in 0..MAILBOX_TIMEOUT_LOOPS
  /\ rsp \in SmuStatus \union {0}
  /\ arg \in Slot
  /\ cmd \in Message
  /\ smu \in {"idle", "running", "replying"}
  /\ resets \in 0..MaxResets

(* The driver finds the mailbox at rest, never used, or with a message of  *)
(* somebody else still in execution.                                       *)
MInit ==
  /\ Init
  /\ pc = "ready" /\ n = 0 /\ attempt = 0 /\ cmd = 0 /\ resets = 0
  /\ \/ posted = {} /\ smu = "idle" /\ rsp \in SmuStatus \union {0} /\ arg = Empty
     \/ posted = {0} /\ smu = "running" /\ rsp = 0 /\ arg = Request(0)

-----------------------------------------------------------------------------
(* Mutants of After: the command rung before the argument is in place, and *)
(* the status cleared after the command is rung.                           *)
AfterCmdFirst ==
  [waitIdle |-> "clearRsp", clearRsp |-> "putCmd", putCmd |-> "putArg",
   putArg |-> "waitDone", waitDone |-> "answered"]
AfterRspLast ==
  [waitIdle |-> "putArg", putArg |-> "putCmd", putCmd |-> "clearRsp",
   clearRsp |-> "waitDone", waitDone |-> "answered"]

(* The order in which SendQ3 touches the mailbox.                          *)
After ==
  [waitIdle |-> "clearRsp", clearRsp |-> "putArg", putArg |-> "putCmd",
   putCmd |-> "waitDone", waitDone |-> "answered"]

(* SendQ3, access by access.  MBegin is the call itself, from any state in *)
(* which the previous call has returned without an error.                  *)
MBegin ==
  /\ pc \in {"ready", "answered"}
  /\ n < MaxCalls
  /\ pc' = "waitIdle" /\ n' = n + 1 /\ attempt' = 0
  /\ UNCHANGED <<regs, smu, resets, posted, ans, ret>>

(* Mutants of WaitForDoneStatus: one poll too many, polls not counted. *)
WaitOneMore(wait) ==
  /\ pc = wait
  /\ attempt <= MAILBOX_TIMEOUT_LOOPS
  /\ IF IsDoneStatus(rsp)
     THEN pc' = After[wait] /\ attempt' = 0
     ELSE pc' = wait /\ attempt' = attempt + 1
  /\ n' = n
WaitForever(wait) ==
  /\ pc = wait
  /\ IF IsDoneStatus(rsp) THEN pc' = After[wait] ELSE pc' = wait
  /\ UNCHANGED <<n, attempt>>

(* One turn of the loop of WaitForDoneStatus, which SendQ3 runs twice.     *)
WaitForDoneStatus(wait) ==
  /\ pc = wait
  /\ attempt < MAILBOX_TIMEOUT_LOOPS
  /\ IF IsDoneStatus(rsp)
     THEN pc' = After[wait] /\ attempt' = 0
     ELSE pc' = wait /\ attempt' = attempt + 1
  /\ n' = n

PollIdle ==
  /\ WaitForDoneStatus("waitIdle")
  /\ UNCHANGED <<regs, smu, resets, posted, ans, ret>>

(* Mutant of ClearRsp: the status of the call before is left in RSP. *)
KeepRsp ==
  /\ pc = "clearRsp"
  /\ pc' = After[pc]
  /\ UNCHANGED <<n, attempt, regs, smu, resets, posted, ans, ret>>

ClearRsp ==
  /\ pc = "clearRsp"
  /\ pc' = After[pc] /\ rsp' = 0
  /\ UNCHANGED <<n, attempt, arg, cmd, smu, resets, posted, ans, ret>>

PutArg ==
  /\ pc = "putArg"
  /\ pc' = After[pc] /\ arg' = Request(n)
  /\ UNCHANGED <<n, attempt, rsp, cmd, smu, resets, posted, ans, ret>>

(* The write to Q3_CMD rings the SMU. *)
PutCmd ==
  /\ pc = "putCmd"
  /\ pc' = After[pc] /\ cmd' = n /\ smu' = "running" /\ posted' = posted \union {n}
  /\ UNCHANGED <<n, attempt, rsp, arg, resets, ans, ret>>

PollDone ==
  /\ WaitForDoneStatus("waitDone")
  /\ ret' = IF pc' = "answered"
            THEN [ret EXCEPT ![n] = [result |-> "EFI_SUCCESS", status |-> rsp, value |-> Empty]]
            ELSE ret
  /\ UNCHANGED <<regs, smu, resets, posted, ans>>

(* After the last poll RSP is read once more, for the status only: the     *)
(* result is EFI_TIMEOUT even if that read finds a done status.            *)
GiveUpWait ==
  /\ pc \in {"waitIdle", "waitDone"}
  /\ attempt = MAILBOX_TIMEOUT_LOOPS
  /\ pc' = "aborted"
  /\ ret' = [ret EXCEPT ![n] = [result |-> "EFI_TIMEOUT", status |-> rsp, value |-> Empty]]
  /\ UNCHANGED <<n, attempt, regs, smu, resets, posted, ans>>

(* SmnSecureRead32 and SmuAlive fetch the response value after the status, *)
(* whatever the status was.                                                *)
ReadArg ==
  /\ pc = "answered"
  /\ ret[n].value = Empty
  /\ ret' = [ret EXCEPT ![n].value = arg]
  /\ UNCHANGED <<host, regs, smu, resets, posted, ans>>

(* The machine is reset and boots into the driver again, which remembers   *)
(* nothing of its calls.                                                   *)
HostReset ==
  /\ resets < MaxResets
  /\ resets' = resets + 1
  /\ pc' = "ready" /\ attempt' = 0
  /\ UNCHANGED <<n, regs, smu, posted, ans, ret>>

-----------------------------------------------------------------------------
(* The SMU, as SendQ3 uses it: it executes the message in the mailbox,     *)
(* overwrites the argument only if it accepts it, and then shows the       *)
(* status.                                                                 *)
SmuExecute(s) ==
  /\ smu = "running"
  /\ smu' = "replying"
  /\ ans' = [ans EXCEPT ![cmd] = s]
  /\ arg' = IF s = OK THEN Response(cmd) ELSE arg
  /\ UNCHANGED <<host, rsp, cmd, resets, posted, ret>>

SmuReply ==
  /\ smu = "replying"
  /\ smu' = "idle" /\ rsp' = ans[cmd]
  /\ UNCHANGED <<host, arg, cmd, resets, posted, ans, ret>>

Host == MBegin \/ PollIdle \/ ClearRsp \/ PutArg \/ PutCmd \/ PollDone \/ GiveUpWait \/ ReadArg
Smu == (\E s \in SmuStatus : SmuExecute(s)) \/ SmuReply

MNext == Host \/ Smu \/ HostReset

SafeSpec == MInit /\ [][MNext]_mvars

(* The driver's code runs; nothing is assumed of the SMU.                  *)
MSpec == SafeSpec /\ WF_mvars(Host)
-----------------------------------------------------------------------------
(* Whoever calls SendQ3 may rely on Q3Call: a message is never rung in     *)
(* over one the SMU still works on, a late answer never passes for the     *)
(* answer of a later call, the value read is the SMU's or, if the SMU      *)
(* refused, the caller's own request.                                      *)
ImplementsCall == Spec

(* The SMU never works on a message whose argument is not in place, and    *)
(* nobody touches the argument while it does.                              *)
ExecutesWhatWasAsked == smu = "running" => arg = Request(cmd)

(* However a call ends, timed out in either wait or answered, the driver   *)
(* does not leave behind an SMU at rest with RSP cleared, in which every   *)
(* later call of anybody would time out without being posted.  Only a      *)
(* reset between the write of RSP and that of CMD does.                    *)
MailboxLeftOpen ==
  smu = "idle" /\ rsp = 0 /\ posted # {} /\ resets = 0 => pc \in {"putArg", "putCmd"}

(* A call returns, answered or timed out, even if the SMU never speaks     *)
(* again, unless a reset takes the driver down first.                      *)
EveryCallReturns ==
  \A m \in Call :
    (n = m /\ pc = "waitIdle") ~> (ret[m].result # "none" \/ pc = "ready")
=============================================================================
