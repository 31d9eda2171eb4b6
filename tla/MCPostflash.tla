----------------------------- MODULE MCPostflash -----------------------------
(* The judge on boards whose enable block holds its magic word at the       *)
(* cold boot, as the baseline of the script says of the stock board, and    *)
(* one whose boot word is gone.                                             *)
EXTENDS PostflashProofs

Stock ==
  [reg \in Register |->
     CASE reg = "BITMAP" -> {0, 1}
       [] reg = "CTL_200" -> {1, 2, 3}
       [] reg = "CTL_208" -> {1}
       [] reg = "EN_00C" -> Bits(\h75767570)
       [] OTHER -> {}]

Permitted == [Stock EXCEPT !["BITMAP"] = {0, 6}, !["GATE_130"] = {0, 1, 7}]

Zeroed == [Permitted EXCEPT !["CTL_200"] = {}]

MCPreStates == {Stock, Permitted, Zeroed}

(* The hypothesis of the two theorems on how far the driver got.            *)
ASSUME BaselineHolds == StockBoards
==============================================================================
