------------------------------ MODULE LiveSmu ------------------------------
(***************************************************************************)
(* VcnSequence on a board whose SMU does not only answer messages: it goes *)
(* on managing its own bits of the registers the driver works on, also     *)
(* between the read and the write of a read-modify-write.                  *)
(***************************************************************************)
EXTENDS VcnSequence

CONSTANTS LiveBits,      \* bits that the SMU changes, where they are its own
          MaxChanges     \* bound on the changes it makes

ASSUME LiveAssumption == LiveBits \subseteq Bit /\ MaxChanges \in Nat

VARIABLES own,       \* the bits outside the driver's, as the SMU last left them
          stale,     \* the registers whose bits it changed under a stale word
          changes

live == <<own, stale, changes>>
lvars == <<vars, live>>

(* The bits of a register that are not the driver's to change.             *)
Foreign(reg) == Bit \ Touched(reg)

LInit ==
  /\ Init
  /\ own = [reg \in Register |-> smn[reg] \ Touched(reg)]
  /\ stale = {} /\ changes = 0

(* A word that was computed before and will be written after: that of the  *)
(* RMW under way, or of a write that timed out and is still with the SMU.  *)
StaleWord(reg) ==
  \/ phase \in {"set", "write"} /\ op.kind \in {"grant", "rmw"} /\ op.reg = reg
  \/ pending.kind = "write" /\ latch = reg

(* The SMU flips one of its own bits in a register the driver works on.    *)
SmuChanges ==
  /\ changes < MaxChanges
  /\ \E reg \in {Program[k].reg : k \in Line} : \E bit \in Foreign(reg) \intersect LiveBits :
       /\ smn' = [smn EXCEPT ![reg] = IF bit \in @ THEN @ \ {bit} ELSE @ \union {bit}]
       /\ own' = [own EXCEPT ![reg] = smn'[reg] \ Touched(reg)]
       /\ stale' = IF StaleWord(reg) THEN stale \union {reg} ELSE stale
  /\ changes' = changes + 1
  /\ UNCHANGED <<latch, pending, driver, rejects, boots, cold>>

LDriver == Driver /\ UNCHANGED live

LNext ==
  \/ LDriver
  \/ (LateExecute \/ Hardware \/ WarmReset) /\ UNCHANGED live
  \/ SmuChanges

LSafeSpec == LInit /\ [][LNext]_lvars

(* The driver runs; the SMU and the hardware need not answer.              *)
LSpec == LSafeSpec /\ WF_lvars(LDriver)
-----------------------------------------------------------------------------
(* The driver takes a bit back that the SMU has changed only if the change *)
(* fell into a window in which a word computed before it was on its way to *)
(* the very register: no word is carried from one line, one boot or one    *)
(* register to another.                                                    *)
OwnBitsKept ==
  \A reg \in Register \ stale : smn[reg] \ Touched(reg) = own[reg]
=============================================================================
