--------------------------- MODULE MCVcnSequence ---------------------------
(* Two boards: one as probed live (boot table there, enable bit clear, no   *)
(* power step run, gates closed), one whose SMU has already granted the     *)
(* domain and opened some of the gates.  Every word also holds bits that    *)
(* are none of the driver's.                                                *)
EXTENDS VcnSequenceProofs, LiveSmu

Probed ==
  [reg \in Register |->
     CASE reg = "BITMAP" -> {0, 1}
       [] reg = "GATE_120" -> {1, 5}
       [] reg = "GATE_134" -> {4, 6}
       [] reg = "GATE_130" -> {1, 2, 3, 7}
       [] reg = "GATE_12C" -> {3, 8}
       [] reg = "GATE_138" -> {3}
       [] reg = "CTL_200" -> {1, 2, 3}
       [] reg = "CTL_208" -> {1}
       [] reg = "CTL_35C" -> {2, 15}
       [] reg \in {"READY", "ACK_19", "ACK_1A", "ELSEWHERE"} -> {7}
       [] OTHER -> {}]

Granted ==
  [Probed EXCEPT !["BITMAP"] = {0, 6}, !["GATE_120"] = {5}, !["GATE_134"] = {4, 5},
                 !["GATE_130"] = {0, 7}]

MCPreStates == {Probed, Granted}
=============================================================================
