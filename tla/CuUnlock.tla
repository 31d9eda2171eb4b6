------------------------------ MODULE CuUnlock ------------------------------
(***************************************************************************)
(* Patch 0008: gfx_v10_0_get_cu_info writes the masks of every shader      *)
(* array before it counts the compute units.  The registers are banked:    *)
(* GRBM's index says to which array an access goes, or to all, and         *)
(* grbm_idx_mutex is what keeps others from moving the index meanwhile.    *)
(* The function runs at every hw_init, also after a resume or GPU reset.   *)
(***************************************************************************)
EXTENDS Integers, Sequences

CONSTANTS Arrays,      \* the shader arrays <<se, sh>>, in the order of the loops
          MaxInits     \* bound on hw_init

(* The loops count from 0, so that no array is 0xffffffff.                 *)
ASSUME CuAssumption ==
  Arrays \in Seq(Nat \X Nat) /\ Len(Arrays) > 0 /\ MaxInits \in Nat

Array == {Arrays[k] : k \in 1..Len(Arrays)}
Opened == [cc |-> "0", spi |-> "all", rlc |-> "all"]
ALL == <<-1, -1>>   \* 0xffffffff: every engine, every array
Harvested == [cc |-> "harvest", spi |-> "some", rlc |-> "some"]

VARIABLES cc_mode,   \* bc250_cc_write_mode
          mask,      \* array -> [cc, spi, rlc]
          index,     \* an array, or ALL
          mutex,     \* "free", "init" or "other"
          cu,        \* the patch: [at, k, cc_orig, spi_orig]
          inits

cvars == <<cc_mode, mask, index, mutex, cu, inits>>

AtRest == [at |-> "out", k |-> 1, cc_orig |-> "harvest", spi_orig |-> "some"]

CInit ==
  /\ cc_mode \in 0..4 /\ mask = [a \in Array |-> Harvested]
  /\ index = ALL /\ mutex = "free" /\ cu = AtRest /\ inits = 0

Probing == cc_mode \in {1, 4}
Selected == IF index = ALL THEN Array ELSE {index}
At(step) == cu.at = step
Go(step) == cu' = [cu EXCEPT !.at = step]
Write(reg, value) ==
  mask' = [a \in Array |-> IF a \in Selected THEN [mask[a] EXCEPT ![reg] = value] ELSE mask[a]]

-----------------------------------------------------------------------------
(* Mutant: the index is used without the mutex.                            *)
LockBlindly ==
  /\ At("out") /\ inits < MaxInits /\ inits' = inits + 1
  /\ Go(IF cc_mode > 0 THEN "select" ELSE "unlock")
  /\ UNCHANGED <<cc_mode, mask, index, mutex>>

LockIndex ==
  /\ At("out") /\ mutex = "free" /\ inits < MaxInits /\ inits' = inits + 1
  /\ mutex' = "init" /\ Go(IF cc_mode > 0 THEN "select" ELSE "unlock")
  /\ UNCHANGED <<cc_mode, mask, index>>

(* Next array, or the index back to all; mode 2 leaves out all but the     *)
(* first.                                                                  *)
SelectArray ==
  /\ At("select")
  /\ IF cu.k > Len(Arrays)
     THEN index' = ALL /\ cu' = [cu EXCEPT !.at = "unlock", !.k = 1]
     ELSE IF cc_mode = 2 /\ cu.k > 1
     THEN index' = index /\ cu' = [cu EXCEPT !.k = @ + 1]
     ELSE index' = Arrays[cu.k] /\ Go("cc")
  /\ UNCHANGED <<cc_mode, mask, mutex, inits>>

(* With the index on one array a read is of that array.                    *)
ReadOf(reg) == IF index = ALL THEN mask[Arrays[1]][reg] ELSE mask[index][reg]

ClearCc ==
  /\ At("cc") /\ Write("cc", "0")
  /\ cu' = [cu EXCEPT !.at = "spi", !.cc_orig = ReadOf("cc")]
  /\ UNCHANGED <<cc_mode, index, mutex, inits>>

OpenSpi ==
  /\ At("spi") /\ Write("spi", "all")
  /\ cu' = [cu EXCEPT !.at = "rlc", !.spi_orig = ReadOf("spi")]
  /\ UNCHANGED <<cc_mode, index, mutex, inits>>

NextArray == cu' = [cu EXCEPT !.at = "select", !.k = @ + 1]

OpenRlc ==
  /\ At("rlc") /\ Write("rlc", "all")
  /\ IF Probing THEN Go("restoreCc") ELSE NextArray
  /\ UNCHANGED <<cc_mode, index, mutex, inits>>

RestoreCc ==
  /\ At("restoreCc") /\ Write("cc", cu.cc_orig) /\ Go("restoreSpi")
  /\ UNCHANGED <<cc_mode, index, mutex, inits>>

RestoreSpi ==
  /\ At("restoreSpi") /\ Write("spi", cu.spi_orig) /\ NextArray
  /\ UNCHANGED <<cc_mode, index, mutex, inits>>

(* The rest of the function only counts.                                   *)
UnlockIndex ==
  /\ At("unlock") /\ mutex' = "free" /\ Go("out")
  /\ UNCHANGED <<cc_mode, mask, index, inits>>

(* Another user of the index: it takes the mutex, looks at one array, and  *)
(* puts the index back.                                                    *)
OtherSelects ==
  /\ mutex = "free" /\ mutex' = "other" /\ index' \in Array
  /\ UNCHANGED <<cc_mode, mask, cu, inits>>

OtherReleases ==
  /\ mutex = "other" /\ mutex' = "free" /\ index' = ALL
  /\ UNCHANGED <<cc_mode, mask, cu, inits>>

CNext ==
  \/ LockIndex \/ SelectArray \/ ClearCc \/ OpenSpi \/ OpenRlc \/ RestoreCc \/ RestoreSpi
  \/ UnlockIndex \/ OtherSelects \/ OtherReleases

CSpec == CInit /\ [][CNext]_cvars

-----------------------------------------------------------------------------
(* Whenever nobody holds the mutex, however often the function ran and     *)
(* whoever else used the index in between: it is on all arrays again; the  *)
(* probe modes (77-79) leave what an array enumerates and dispatches as it *)
(* was; and the modes 2 and 3 have opened what they are named for, with    *)
(* all three registers (lines 19-20), and nothing else.  In the probe      *)
(* modes the RLC mask stays written: line 76 does not read it first.       *)
Meant(a) ==
  IF cc_mode = 3 \/ (cc_mode = 2 /\ a = Arrays[1]) THEN Opened ELSE Harvested

CuMasksWhenFree ==
  mutex = "free" =>
    /\ index = ALL
    /\ \A a \in Array :
         /\ Probing => mask[a] \in {Harvested, [Harvested EXCEPT !.rlc = "all"]}
         /\ ~Probing => mask[a] = IF inits > 0 THEN Meant(a) ELSE Harvested
=============================================================================
