---------------------------- MODULE MCDriverEntry ----------------------------
(* All three drivers on a board in the state the probes found it in; two    *)
(* boot options, the first of which may not boot.                           *)
EXTENDS DriverEntry

Probed ==
  [reg \in Register |->
     CASE reg = "BITMAP" -> {0, 1}
       [] reg = "CTL_200" -> {1, 2, 3}
       [] reg = "CTL_208" -> {1}
       [] reg = "EN_00C" -> Bits(\h75767570)
       [] OTHER -> {}]

MCPreStates == {Probed}
MCVariants == {"dispatch", "readytoboot"}
==============================================================================
