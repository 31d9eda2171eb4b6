---------------------------- MODULE DriverEntry ----------------------------
(***************************************************************************)
(* When VcnEnableSequence runs in a boot.  The base and _secure drivers    *)
(* run it in their entry point, while the DXE core waits; the _rtb driver  *)
(* only registers a ReadyToBoot callback there, and runs it in the         *)
(* callback, while BDS waits.  BDS signals ReadyToBoot once per boot       *)
(* option it tries, and comes back from one that does not boot.            *)
(*                                                                         *)
(* The DXE core, BDS and the event services are the firmware's, modelled   *)
(* as the driver uses them.                                                *)
(***************************************************************************)
EXTENDS VcnSequence

CONSTANTS Variants,      \* subset of {"dispatch", "readytoboot"}
          BootOptions    \* how many boot options BDS has

ASSUME EntryAssumption ==
  /\ Variants \subseteq {"dispatch", "readytoboot"}
  /\ BootOptions \in Nat \ {0}

VARIABLES variant,
          stage,     \* of the boot: "dxe", "bds", "option" (ReadyToBoot signalled), "os"
          entry,     \* what the entry point returned, "none" before, "running" in between
          event,     \* the callback's event: "none", "armed" or "closed"
          busy,      \* the firmware waits for the sequence
          runs,      \* how often the sequence was started in this boot
          options    \* the boot options tried in this boot

firmware == <<variant, stage, entry, event, busy, runs, options>>
evars == <<vars, firmware>>

ETypeOK ==
  /\ TypeOK
  /\ variant \in Variants
  /\ stage \in {"dxe", "bds", "option", "os"}
  /\ entry \in {"none", "running", "EFI_SUCCESS", "EFI_OUT_OF_RESOURCES"}
  /\ event \in {"none", "armed", "closed"}
  /\ busy \in BOOLEAN
  /\ runs \in Nat
  /\ options \in 0..BootOptions

EInit ==
  /\ Init
  /\ variant \in Variants
  /\ stage = "dxe" /\ entry = "none" /\ event = "none" /\ busy = FALSE
  /\ runs = 0 /\ options = 0

(* A call of VcnEnableSequence.                                            *)
Call ==
  /\ busy' = TRUE /\ runs' = runs + 1
  /\ pc' = 1 /\ phase' = FirstPhase(1) /\ word' = {} /\ attempt' = 0
  /\ result' = "running" /\ skipped' = FALSE
  /\ UNCHANGED <<machine, rejects, boots, cold>>

(* The entry point of the base and _secure drivers: whatever the sequence  *)
(* returns, EFI_SUCCESS.                                                   *)
EntryPoint ==
  /\ variant = "dispatch" /\ stage = "dxe" /\ entry = "none"
  /\ entry' = "running"
  /\ Call
  /\ UNCHANGED <<variant, stage, event, options>>

(* Mutant of EntryReturns: only a success lets the boot go on. *)
EntryInsists ==
  /\ entry = "running" /\ result = "EFI_SUCCESS"
  /\ entry' = "EFI_SUCCESS" /\ busy' = FALSE
  /\ UNCHANGED <<vars, variant, stage, event, runs, options>>

EntryReturns ==
  /\ entry = "running" /\ result # "running"
  /\ entry' = "EFI_SUCCESS" /\ busy' = FALSE
  /\ UNCHANGED <<vars, variant, stage, event, runs, options>>

(* Mutant of RegisterCallback: a failed registration is not reported. *)
RegisterBlindly ==
  /\ variant = "readytoboot" /\ stage = "dxe" /\ entry = "none"
  /\ entry' = "EFI_SUCCESS"
  /\ event' \in {"armed", "none"}
  /\ UNCHANGED <<vars, variant, stage, busy, runs, options>>

(* The entry point of the _rtb driver.                                     *)
RegisterCallback ==
  /\ variant = "readytoboot" /\ stage = "dxe" /\ entry = "none"
  /\ \/ entry' = "EFI_SUCCESS" /\ event' = "armed"
     \/ entry' = "EFI_OUT_OF_RESOURCES" /\ UNCHANGED event
  /\ UNCHANGED <<vars, variant, stage, busy, runs, options>>

(* A step of the sequence.                                                 *)
Replay ==
  /\ busy
  /\ Driver
  /\ UNCHANGED <<variant, stage, entry, event, busy, runs, options>>

Outside == (LateExecute \/ Hardware) /\ UNCHANGED firmware

(* The DXE core has dispatched its drivers.                                *)
ToBds ==
  /\ stage = "dxe" /\ entry \notin {"none", "running"}
  /\ stage' = "bds"
  /\ UNCHANGED <<vars, variant, entry, event, busy, runs, options>>

(* BDS tries the next boot option and signals ReadyToBoot; a callback that *)
(* nobody has registered, or that was closed, is not called.               *)
QuietSignal ==
  /\ stage = "bds" /\ options < BootOptions /\ event # "armed"
  /\ stage' = "option" /\ options' = options + 1
  /\ UNCHANGED <<vars, variant, entry, event, busy, runs>>

(* Mutant of Callback: the event is not closed. *)
CallbackAgain ==
  /\ stage = "bds" /\ options < BootOptions /\ event = "armed"
  /\ stage' = "option" /\ options' = options + 1
  /\ Call
  /\ UNCHANGED <<variant, entry, event>>

(* VcnReadyToBootCallback.                                                 *)
Callback ==
  /\ stage = "bds" /\ options < BootOptions /\ event = "armed"
  /\ stage' = "option" /\ options' = options + 1
  /\ event' = "closed"
  /\ Call
  /\ UNCHANGED <<variant, entry>>

CallbackReturns ==
  /\ stage = "option" /\ busy /\ result # "running"
  /\ busy' = FALSE
  /\ UNCHANGED <<vars, variant, stage, entry, event, runs, options>>

(* The boot option boots, or returns to BDS.                               *)
BootOption ==
  /\ stage = "option" /\ ~busy
  /\ stage' \in {"os", "bds"}
  /\ UNCHANGED <<vars, variant, entry, event, busy, runs, options>>

Reset ==
  /\ WarmReset
  /\ stage' = "dxe" /\ entry' = "none" /\ event' = "none" /\ busy' = FALSE
  /\ runs' = 0 /\ options' = 0
  /\ UNCHANGED variant

Firmware ==
  \/ EntryPoint \/ EntryReturns \/ RegisterCallback \/ ToBds
  \/ QuietSignal \/ Callback \/ CallbackReturns \/ BootOption

ENext == Firmware \/ Replay \/ Outside \/ Reset

ESafeSpec == EInit /\ [][ENext]_evars

(* The firmware and the driver run; SMU and hardware need not answer.      *)
ESpec == ESafeSpec /\ WF_evars(Firmware) /\ WF_evars(Replay)
-----------------------------------------------------------------------------
(* The sequence runs at most once in a boot, however many boot options are *)
(* tried, and not before BDS if it is deferred.                            *)
OncePerBoot ==
  runs <= 1 /\ (variant = "readytoboot" /\ stage = "dxe" => runs = 0)

(* Whatever the driver meets, the boot reaches the operating system or     *)
(* runs out of boot options.                                               *)
BootGoesOn ==
  stage = "dxe" ~> (stage = "os" \/ (stage = "bds" /\ options = BootOptions))

(* An entry point that returned EFI_SUCCESS has its sequence run, and over, *)
(* before the operating system starts: in the entry itself, or in the      *)
(* callback of whichever boot option comes first.                          *)
OsAfterSequence == stage = "os" /\ entry = "EFI_SUCCESS" => runs = 1 /\ result # "running"

=============================================================================
