-------------------------- MODULE Q3MailboxProofs --------------------------
(***************************************************************************)
(* For every number of calls, polls and resets, and every set of statuses: *)
(* the mailbox protocol of SendQ3 keeps the invariants of Q3Mailbox and    *)
(* implements Q3Call.                                                      *)
(***************************************************************************)
EXTENDS Q3Mailbox, TLAPS

(* Where a message stands with the SMU.  A status in RSP is the status of  *)
(* the message rung last; a message in execution is the last one, with its *)
(* argument in place and RSP clear.                                        *)
SmuInv ==
  /\ \A p \in posted : p <= cmd /\ (p # cmd => ans[p] # 0)
  /\ \A m \in Message \ posted : ans[m] = 0
  /\ cmd \in posted \/ posted = {}
  /\ smu = "idle" => (posted # {} => ans[cmd] # 0)
  /\ smu = "running" => rsp = 0 /\ cmd \in posted /\ ans[cmd] = 0 /\ arg = Request(cmd)
  /\ smu = "replying" => rsp = 0 /\ cmd \in posted /\ ans[cmd] # 0
  /\ rsp # 0 /\ posted # {} => rsp = ans[cmd]

(* Where the call stands with the driver.                                  *)
CallInv ==
  /\ cmd <= n
  /\ \A m \in Call : m > n => ret[m] = NoOutcome
  /\ pc \in {"waitIdle", "clearRsp", "putArg", "putCmd"} =>
       n \in Call /\ n \notin posted /\ ret[n] = NoOutcome
  /\ pc = "waitDone" => n \in Call /\ cmd = n /\ n \in posted /\ ret[n] = NoOutcome
  /\ pc = "answered" => n \in Call /\ cmd = n /\ n \in posted /\ smu = "idle"
                        /\ ret[n].result = "EFI_SUCCESS"
  /\ pc \in {"clearRsp", "putArg", "putCmd"} => smu = "idle"
  /\ pc \in {"putArg", "putCmd"} => rsp = 0
  /\ pc = "putCmd" => arg = Request(n)

(* The argument slot while a caller may still read it.                     *)
SlotInv ==
  pc \in {"waitDone", "answered"} /\ smu # "running" =>
    arg = IF ans[cmd] = OK THEN Response(cmd) ELSE Request(cmd)

IInv == MTypeOK /\ SmuInv /\ CallInv /\ SlotInv /\ MailboxLeftOpen

LEMMA InitIInv == MInit => IInv
BY CallAssumption, MailboxAssumption
DEF MInit, Init, IInv, MTypeOK, TypeOK, SmuInv, CallInv, SlotInv, MailboxLeftOpen,
    Message, Call, Slot, Empty, Request, Outcome, NoOutcome

(* One step per action; what an action leaves alone is the frame of it.    *)
LEMMA NextIInv == IInv /\ [MNext]_mvars => IInv'
<1> USE CallAssumption, MailboxAssumption DEF Message, Call
<1> SUFFICES ASSUME IInv, [MNext]_mvars PROVE IInv'
  OBVIOUS
<1> USE DEF IInv, MTypeOK, TypeOK, regs, host
<1>1. CASE MBegin
  BY <1>1 DEF MBegin, SmuInv, CallInv, SlotInv, MailboxLeftOpen
<1>2. CASE PollIdle
  BY <1>2 DEF PollIdle, WaitForDoneStatus, After, IsDoneStatus, DoneStatus,
              SmuInv, CallInv, SlotInv, MailboxLeftOpen
<1>3. CASE ClearRsp
  BY <1>3 DEF ClearRsp, After, SmuInv, CallInv, SlotInv, MailboxLeftOpen
<1>4. CASE PutArg
  BY <1>4 DEF PutArg, After, Slot, Request, SmuInv, CallInv, SlotInv, MailboxLeftOpen
<1>5. CASE PutCmd
  BY <1>5 DEF PutCmd, After, Slot, SmuInv, CallInv, SlotInv, MailboxLeftOpen
<1>6. CASE PollDone
  BY <1>6 DEF PollDone, WaitForDoneStatus, After, IsDoneStatus, DoneStatus, Outcome, Slot, Empty,
              SmuInv, CallInv, SlotInv, MailboxLeftOpen
<1>7. CASE GiveUpWait
  BY <1>7 DEF GiveUpWait, Outcome, Slot, Empty, SmuInv, CallInv, SlotInv, MailboxLeftOpen
<1>8. CASE ReadArg
  <2>1. n \in Call /\ ret' = [ret EXCEPT ![n] = [ret[n] EXCEPT !.value = arg]]
    BY <1>8 DEF ReadArg, CallInv
  <2>2. ret'[n] = [ret[n] EXCEPT !.value = arg] /\ ret[n] \in Outcome
    BY <2>1
  <2>3. ret'[n] \in Outcome /\ ret'[n].result = ret[n].result
    BY <2>2 DEF Outcome
  <2>4. ret' \in [Call -> Outcome] /\ \A m \in Call : m # n => ret'[m] = ret[m]
    BY <2>1, <2>3
  <2> QED
    BY <1>8, <2>3, <2>4 DEF ReadArg, SmuInv, CallInv, SlotInv, MailboxLeftOpen
<1>9. CASE HostReset
  BY <1>9 DEF HostReset, SmuInv, CallInv, SlotInv, MailboxLeftOpen
<1>10. ASSUME NEW s \in SmuStatus, SmuExecute(s) PROVE IInv'
  BY <1>10 DEF SmuExecute, Slot, Response, Request, SmuInv, CallInv, SlotInv, MailboxLeftOpen
<1>11. CASE SmuReply
  BY <1>11 DEF SmuReply, SmuInv, CallInv, SlotInv, MailboxLeftOpen
<1>12. CASE UNCHANGED mvars
  BY <1>12 DEF mvars, SmuInv, CallInv, SlotInv, MailboxLeftOpen
<1> QED
  BY <1>1, <1>2, <1>3, <1>4, <1>5, <1>6, <1>7, <1>8, <1>9, <1>10, <1>11, <1>12
  DEF MNext, Host, Smu

(* The mailbox protocol of SendQ3 keeps its invariant in every reachable   *)
(* state, with or without resets.                                          *)
THEOREM Invariance == SafeSpec => []IInv
<1>1. MInit => IInv
  BY InitIInv
<1>2. IInv /\ [MNext]_mvars => IInv'
  BY NextIInv
<1> QED
  BY <1>1, <1>2, PTL DEF SafeSpec

(* The registers and the bookkeeping of the driver keep their types.       *)
THEOREM TypeCorrect == SafeSpec => []MTypeOK
<1>1. IInv => MTypeOK
  BY DEF IInv
<1> QED
  BY <1>1, Invariance, PTL

(* SendQ3 rings CMD only after ARG is in place, and a later call cannot    *)
(* overwrite ARG while the SMU still works on the message.                 *)
THEOREM ArgumentInPlace == SafeSpec => []ExecutesWhatWasAsked
<1>1. IInv => ExecutesWhatWasAsked
  BY DEF IInv, SmuInv, ExecutesWhatWasAsked
<1> QED
  BY <1>1, Invariance, PTL

(* Without a reset, no way out of SendQ3 leaves an SMU at rest with RSP    *)
(* cleared.                                                                *)
THEOREM LeftOpen == SafeSpec => []MailboxLeftOpen
<1>1. IInv => MailboxLeftOpen
  BY DEF IInv
<1> QED
  BY <1>1, Invariance, PTL

LEMMA StepImplements == IInv /\ [MNext]_mvars => [Next]_vars
<1> USE CallAssumption, MailboxAssumption DEF Message, Call
<1> SUFFICES ASSUME IInv, [MNext]_mvars PROVE [Next]_vars
  OBVIOUS
<1> USE DEF IInv, MTypeOK, TypeOK
<1>1. CASE MBegin \/ PollIdle \/ ClearRsp \/ PutArg \/ HostReset \/ SmuReply
  BY <1>1 DEF MBegin, PollIdle, ClearRsp, PutArg, HostReset, SmuReply, vars
<1>2. CASE PutCmd
  <2>1. Post(n)
    BY <1>2 DEF PutCmd, Post, SmuInv, CallInv
  <2> QED
    BY <1>2, <2>1 DEF Next, CallInv, PutCmd
<1>3. CASE PollDone
  <2>1. n \in Call /\ n \in posted /\ cmd = n /\ ret[n] = NoOutcome
    BY <1>3 DEF PollDone, WaitForDoneStatus, CallInv
  <2>2. CASE IsDoneStatus(rsp)
    <3>1. rsp = ans[n] /\ ans[n] # 0
      BY <2>1, <2>2 DEF SmuInv, IsDoneStatus, DoneStatus
    <3>2. Answer(n)
      BY <1>3, <2>1, <2>2, <3>1 DEF PollDone, WaitForDoneStatus, After, Answer
    <3> QED
      BY <2>1, <3>2 DEF Next
  <2>3. CASE ~IsDoneStatus(rsp)
    BY <1>3, <2>3 DEF PollDone, WaitForDoneStatus, vars
  <2> QED
    BY <2>2, <2>3
<1>4. CASE GiveUpWait
  <2>1. n \in Call /\ ret[n] = NoOutcome
    BY <1>4 DEF GiveUpWait, CallInv
  <2>2. GiveUp(n, rsp)
    BY <1>4, <2>1 DEF GiveUpWait, GiveUp
  <2> QED
    BY <2>1, <2>2 DEF Next
<1>5. CASE ReadArg
  <2>1. n \in Call /\ cmd = n /\ ret[n].result = "EFI_SUCCESS" /\ smu = "idle"
    BY <1>5 DEF ReadArg, CallInv
  <2>2. arg = IF ans[n] = OK THEN Response(n) ELSE Request(n)
    BY <1>5, <2>1 DEF ReadArg, SlotInv
  <2>3. ReadValue(n)
    BY <1>5, <2>1, <2>2 DEF ReadArg, ReadValue
  <2> QED
    BY <2>1, <2>3 DEF Next
<1>6. ASSUME NEW s \in SmuStatus, SmuExecute(s) PROVE [Next]_vars
  <2>1. Execute(cmd, s)
    BY <1>6 DEF SmuExecute, Execute, SmuInv
  <2> QED
    BY <2>1 DEF Next
<1>7. CASE UNCHANGED mvars
  BY <1>7 DEF mvars, vars
<1> QED
  BY <1>1, <1>2, <1>3, <1>4, <1>5, <1>6, <1>7 DEF MNext, Host, Smu

(* SendQ3 over the mailbox registers gives its callers what Q3Call         *)
(* promises.                                                               *)
THEOREM Implementation == SafeSpec => ImplementsCall
<1>1. MInit => Init
  BY DEF MInit
<1>2. IInv /\ [MNext]_mvars => [Next]_vars
  BY StepImplements
<1> QED
  BY <1>1, <1>2, Invariance, PTL DEF SafeSpec, ImplementsCall, Spec
=============================================================================
