---------------------------- MODULE MCVcnMailbox ----------------------------
(* The board as probed live, whose gates are closed, behind the mailbox.    *)
EXTENDS VcnMailboxProofs

Probed ==
  [reg \in Register |->
     CASE reg = "BITMAP" -> {0, 1}
       [] reg = "GATE_134" -> {4, 6}
       [] reg = "GATE_130" -> {1, 2, 3, 7}
       [] reg = "CTL_208" -> {1}
       [] OTHER -> {}]

MCPreStates == {Probed}
=============================================================================
