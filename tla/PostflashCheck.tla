--------------------------- MODULE PostflashCheck ---------------------------
(***************************************************************************)
(* postflash_vcn_check.py: the judge that looks, from Linux, at what the   *)
(* driver has left in the registers, and says whether VCN is enabled.      *)
(*                                                                         *)
(* The judge runs once the driver's sequence of this boot is over.  It     *)
(* reads one register per message, so that the hardware may react and a    *)
(* late message be executed between two of its reads, and like the driver  *)
(* it takes the argument slot for the value, whatever the status was.      *)
(***************************************************************************)
EXTENDS VcnSequence, FiniteSets

CONSTANT MaxDropped      \* bound on messages of the judge that the SMU rejects

ASSUME JudgeAssumption == MaxDropped \in Nat

(* Two registers that the driver never touches: the clocks that follow.    *)
ClockAddress == [DCLK_PROG |-> Bits(\h0116D100), VCLK_PROG |-> Bits(\h0116D128)]
Clock == DOMAIN ClockAddress

(* The judged rows of BASE, in its order; the others are only printed.     *)
Base == << "CTL_208", "PSTEP_19", "ACK_19", "PSTEP_1A", "ACK_1A", "CTL_358", "CTL_35C",
           "BITMAP", "CTL_218", "EN_204", "EN_208", "EN_E0", "EN_00C", "EN_034",
           "DCLK_PROG", "VCLK_PROG", "CTL_200" >>
Marker == {Base[k] : k \in 1..16}

(* The mask of a marker, any bit of which lets it pass.                    *)
Mask(name) ==
  CASE name \in {"CTL_208", "CTL_218", "EN_204", "EN_208", "EN_034"} -> Bits(1)
    [] name \in {"ACK_19", "ACK_1A", "CTL_358"} -> Bits(\h10000)
    [] name = "CTL_35C" -> Bits(\h4C000)
    [] name = "BITMAP" -> Bits(\h40)
    [] name = "EN_E0" -> Bits(\hF)
    [] OTHER -> Bit

Passes(name, value) ==
  IF name = "EN_00C" THEN value = Bits(\h75767570)
  ELSE name \in Marker /\ value \intersect Mask(name) # {}

Verdicts == {"none", "TRANSPORT_DEAD", "VCN_HARDWARE_ENABLED", "PARTIAL", "NO_CHANGE"}

VARIABLES row,       \* the row of Base to read next, 0 before the test message
          passed,    \* the markers that passed
          ctl_ok,    \* ctl_200 was read and holds the boot word
          verdict,
          dropped    \* messages of this judge whose rejection nobody looked at

judge == <<row, passed, ctl_ok, verdict, dropped>>
jvars == <<vars, judge>>

JTypeOK ==
  /\ TypeOK
  /\ row \in 0..(Len(Base) + 1)
  /\ passed \subseteq Marker
  /\ ctl_ok \in BOOLEAN
  /\ verdict \in Verdicts
  /\ dropped \in 0..MaxDropped

Asleep == row' = 0 /\ passed' = {} /\ ctl_ok' = FALSE /\ verdict' = "none" /\ dropped' = 0

JInit == Init /\ row = 0 /\ passed = {} /\ ctl_ok = FALSE /\ verdict = "none" /\ dropped = 0

(* A message of the judge, once the driver is done.                        *)
Ask(accepted) ==
  /\ result # "running" /\ verdict = "none"
  /\ pending = NoMessage
  /\ accepted \/ dropped < MaxDropped
  /\ dropped' = IF accepted THEN dropped ELSE dropped + 1
  /\ UNCHANGED vars

(* The test message, not echoed if it is rejected or not answered.         *)
JudgeAlive ==
  /\ row = 0
  /\ \/ Ask(TRUE) /\ row' = 1 /\ UNCHANGED verdict
     \/ Ask(FALSE) /\ verdict' = "TRANSPORT_DEAD" /\ UNCHANGED row
  /\ UNCHANGED <<passed, ctl_ok>>

JudgeSilent ==
  /\ row = 0 /\ verdict = "none" /\ result # "running"
  /\ verdict' = "TRANSPORT_DEAD"
  /\ UNCHANGED <<vars, row, passed, ctl_ok, dropped>>

(* What a row holds: the clocks run or not, as they please.                *)
Stored(name) == IF name \in Clock THEN {{}, {0}} ELSE {smn[name]}
Slot(name) == IF name \in Clock THEN ClockAddress[name] ELSE Address[name]

(* Mutant of JudgeRead: the markers are counted by their rows. *)
JudgeReadAll ==
  /\ row \in 1..Len(Base)
  /\ \E accepted \in BOOLEAN :
       /\ Ask(accepted)
       /\ \E value \in IF accepted THEN Stored(Base[row]) ELSE {Slot(Base[row])} :
            /\ passed' = passed \union {Base[row]}
            /\ ctl_ok' = (ctl_ok \/ (Base[row] = "CTL_200" /\ value = Bits(\hE)))
  /\ row' = row + 1
  /\ UNCHANGED verdict

JudgeRead ==
  /\ row \in 1..Len(Base)
  /\ \E accepted \in BOOLEAN :
       /\ Ask(accepted)
       /\ \E value \in IF accepted THEN Stored(Base[row]) ELSE {Slot(Base[row])} :
            /\ passed' = IF Passes(Base[row], value) THEN passed \union {Base[row]} ELSE passed
            /\ ctl_ok' = (ctl_ok \/ (Base[row] = "CTL_200" /\ value = Bits(\hE)))
  /\ row' = row + 1
  /\ UNCHANGED verdict

(* Mutants of Sentence: the boot word is not asked for; ENABLED on one     *)
(* marker less; ENABLED only on every marker of the driver's own writes;   *)
(* PARTIAL on two markers more.                                             *)
SentenceUnguarded(p, ok) ==
  IF "CTL_208" \in p /\ Cardinality(p) >= 10 THEN "VCN_HARDWARE_ENABLED"
  ELSE IF Cardinality(p) >= 5 THEN "PARTIAL" ELSE "NO_CHANGE"
SentenceLax(p, ok) ==
  IF "CTL_208" \in p /\ Cardinality(p) >= 9 /\ ok THEN "VCN_HARDWARE_ENABLED"
  ELSE IF Cardinality(p) >= 5 THEN "PARTIAL" ELSE "NO_CHANGE"
SentenceStrict(p, ok) ==
  IF "CTL_208" \in p /\ Cardinality(p) >= 13 /\ ok THEN "VCN_HARDWARE_ENABLED"
  ELSE IF Cardinality(p) >= 5 THEN "PARTIAL" ELSE "NO_CHANGE"
SentencePartial(p, ok) ==
  IF "CTL_208" \in p /\ Cardinality(p) >= 10 /\ ok THEN "VCN_HARDWARE_ENABLED"
  ELSE IF Cardinality(p) >= 7 THEN "PARTIAL" ELSE "NO_CHANGE"

Sentence(p, ok) ==
  IF "CTL_208" \in p /\ Cardinality(p) >= 10 /\ ok THEN "VCN_HARDWARE_ENABLED"
  ELSE IF Cardinality(p) >= 5 THEN "PARTIAL" ELSE "NO_CHANGE"

JudgeVerdict ==
  /\ row = Len(Base) + 1 /\ verdict = "none"
  /\ verdict' = Sentence(passed, ctl_ok)
  /\ UNCHANGED <<vars, row, passed, ctl_ok, dropped>>

(* The machine goes on under the judge; a reset ends the judge with it.    *)
Machine == (Driver \/ LateExecute \/ Hardware) /\ UNCHANGED judge

JNext ==
  \/ Machine
  \/ WarmReset /\ Asleep
  \/ JudgeAlive \/ JudgeSilent \/ JudgeRead \/ JudgeVerdict

JSpec == JInit /\ [][JNext]_jvars
-----------------------------------------------------------------------------
(* If the driver reports success the judge agrees, also when a later boot  *)
(* found the controller enabled and wrote only a part of the markers,      *)
(* unless reads of the judge were rejected or the boot word is gone.       *)
SuccessIsSeen ==
  (/\ result = "EFI_SUCCESS" /\ dropped = 0 /\ smn["CTL_200"] = Bits(\hE)
   /\ verdict \notin {"none", "TRANSPORT_DEAD"})
    => verdict = "VCN_HARDWARE_ENABLED"

(* However many of the judge's reads were rejected, each with its address  *)
(* taken for a value: ENABLED is not said of a board whose PLL is disabled *)
(* or whose boot word has changed.                                         *)
EnabledIsReal ==
  verdict = "VCN_HARDWARE_ENABLED" =>
    0 \in smn["CTL_208"] /\ smn["CTL_200"] = Bits(\hE)

(* With every read answered, ENABLED is never said of a board that did not *)
(* get as far as the acknowledge of its first power step, whatever the     *)
(* clocks are doing.                                                       *)
EnabledMeansPowered ==
  verdict = "VCN_HARDWARE_ENABLED" /\ dropped = 0 => Bits(\h10000) \subseteq smn["ACK_19"]

(* NO_CHANGE is never said of a board that got as far as the second power  *)
(* step, even if two reads were rejected.                                  *)
NoChangeMeansUnpowered ==
  verdict = "NO_CHANGE" /\ dropped <= 2 => smn["PSTEP_1A"] = cold["PSTEP_1A"]
=============================================================================
