# Verification of the BC-250 VCN unlock

This directory holds TLA+ specifications of the programs in this repository,
the TLC runs that check them on small instances, and the TLAPS proofs of the
theorems that matter most. `PROJECT.json` says for every definition which lines
of the source it stands for.

Paths below are relative to the repository. `C`, `S` and `R` are the three
drivers `src/Bc250VcnUnlockDxe/BC250VCNUnlockDxe{,_secure,_rtb}.c`.

## 1. The system

The repository makes an AMD BC-250 board bring up its video block (VCN).

| component | source | state | operations | talks to |
|---|---|---|---|---|
| Q3 mailbox transport | C:94-161, same text in S, R | mailbox registers RSP, ARG, CMD; poll count | `WaitForDoneStatus`, `SendQ3` | the SMU, through an index/data window |
| secure register access | C:163-295 | the SMU's address latch, the registers | write = SET_ADDR + WRITE, read, read-modify-write with readback, poll, alive test | mailbox transport |
| enable sequence | C:318-510 | position in the sequence, word read, polls left | 27 steps in two branches, each may end the sequence | secure access, VCN hardware |
| driver entry | C:511-529, R:541-590 | event registered or not | run at dispatch, or register and run in a one-shot ReadyToBoot callback | DXE core, BDS |
| post-flash judge | tools/postflash_vcn_check.py | markers passed, verdict | 25 reads, thresholds, guard | the same mailbox, from Linux |
| capsule builders | tools/build_*.py | image and manifest files | check inputs, place the driver, recompress, renew headers and checksums, verify, write | each other's outputs, release attachments |
| candidate preflight | tools/verify_candidate_preflight.py | none | 10 gates, verdict GO or NO-GO | a dump and a candidate |
| probe kernel installer | kernels/scripts/install_vcn_probe_kernel.sh | boot menu and its copies, drop-in, packages, state directory | back up, install, register entries, synchronise | pacman, limine |
| probe boot verifier | kernels/scripts/verify_vcn_probe_boot.sh | none | read one boot's command line, sysfs and log | the kernel |
| kernel patches, modes | kernels/patches, kernels/modes | GPU masks per shader array; command lines | change, probe and restore masks at every hw_init | amdgpu |
| OVMF harness, flash protocol, docs | tools/ovmf_driver_test.sh, docs | none | — | people |

What makes it hard:

* **A mailbox shared by a driver that gives up and an SMU that does not.** A
  call that timed out leaves its message with the SMU, which may execute it
  during a later step or in the next boot. One slot holds first the argument
  and then the value.
* **A status nobody looks at.** A rejected message has a done status too, and
  `SmnSecureRead32` and `SmnSecureWrite32` pass it on as `EFI_SUCCESS`.
* **Registers and SMU that survive a warm reset**, so that a boot starts from
  whatever an earlier one has left, and takes another branch because of it.
* **An SMU with business of its own** in the registers that the driver reads,
  changes and writes back.
* **Hardware that reacts while it is being set up**, once in the very register
  that is read back.
* **A deferred driver**: an event that is signalled once per boot option, and a
  registration that may fail.
* **Two walks of a firmware volume** that differ where they meet a gap, four
  kinds of images made of one another, and files that are written in place.
* **Lengths and checksums in four layers** (volume, LZMA header, GUIDed section,
  capsule file), of which each tool renews or looks at some.
* **An installer that may stop after any command** and is run again over what it
  has left, on several copies of one boot menu.
* **Banked registers**: masks of every shader array behind one shared index.

What correct means, component by component: a call gets the answer of its own
message or fails; the sequence puts power to the hardware only in the order the
SMU would, keeps what it has done and touches nothing else; it runs once per
boot and never keeps the boot from going on; a verdict of the judge excludes the
states that contradict it; what a builder leaves is loaded by the firmware if its
base is; a GO means an image that boots with the driver dispatched, and stays true
of the file on disk; whatever the installer was stopped in, every entry of a menu
boots what it is named for, and only a stop within a command that saves or replaces a
file of the user's can lose that file; a probe of the masks leaves every array as it
was.

## 2. The modules

```
Q3Call  <-- refines --  Q3Mailbox            (MCQ3Mailbox, Q3MailboxProofs)
   |  one step of VcnSequence = one call, as Q3Call promises it
VcnProgram  the 27 steps as a table          (VcnProgramProofs)
   |-- extended by -- VcnSequence            (MCVcnSequence, VcnSequenceProofs)
   |                     |-- extended by -- LiveSmu          (SurroundingsProofs)
   |                     |-- extended by -- DriverEntry      (MCDriverEntry, SurroundingsProofs)
   |                     |-- extended by -- PostflashCheck   (MCPostflash, PostflashProofs)
   |-- extended by -- VcnMailbox  -- refines -->  VcnSequence   (MCVcnMailbox, VcnMailboxProofs)
FirmwareVolume -- Capsule -- ImagePipeline   (MCImagePipeline, ImagePipelineProofs)
CuUnlock                                     (MCCuUnlock, KernelProofs)
ProbeKernel                                  (KernelProofs)
```

**Q3Call** is what a caller of `SendQ3` may rely on: messages are posted one
after the other, executed at most once and in order, answered with the status
and the response of that very execution, or given up without anyone knowing.

**Q3Mailbox** is `SendQ3` with one action per register access (`PollIdle`,
`ClearRsp`, `PutArg`, `PutCmd`, `PollDone`, `GiveUpWait`, `ReadArg`), the
SMU (`SmuExecute`, `SmuReply`, external) and `HostReset`. `After` is the order
of the accesses. `ret` and `ans` record what the caller was told and what the
SMU decided; `ImplementsCall` is the refinement of Q3Call.

**VcnProgram** has the code's 27 steps as a table, `Program` (`Opening`,
`ClockPart`, `PowerSteps`, `EnableBlock`, `Verify`).

**VcnSequence** is the enable sequence: `pc` is the line, `phase` the message of the line that comes next; every message is an
action that the SMU may accept, reject or answer too late. A register word is
the set of its one bits, so that a read-modify-write is
`(old \ clear) \union set`. `LateExecute`, `Hardware` and `WarmReset` are the
world outside. `SecureReads` selects between C and S: in C the permission bitmap
is read through the window, without a message. The addresses are the real ones,
because a rejected read returns the address and its bits decide polls.

**LiveSmu** adds the SMU that changes bits of its own (`SmuChanges`), also while a
read-modify-write has a word of the register on its way. `own` is what the
SMU has left in them, `stale` the registers it changed under such a word.

**VcnMailbox** is the same program over the mailbox: every message with the seven
accesses of `SendQ3`, an SMU that executes what it finds there when it comes
round to it, resets between any two accesses. The driver's part is written as a
function of the value a call returns (`Returned`, `OnRead`), not with the
actions of VcnSequence, and `ImplementsSequence` is the refinement. A message
takes effect on the abstract driver when it is executed; whether that will be
in time is guessed when it is rung in (`fate`, a prophecy variable).

**DriverEntry** adds the boot around the sequence: the entry points, the
registration, the callback and its `CloseEvent`, BDS and its boot options.

**PostflashCheck** runs the judge after the sequence of the current boot,
against the same registers, one action per message, each of which the SMU may
reject. The two clock rows, which the driver never writes, hold anything.

**FirmwareVolume** has the volume as a set of files with offset, size, type, body,
checksum and state, its length, block map and header checksum; the two walks
(`Walk`, which rounds, stops and skips as the code does), what the DXE core
reaches, and the places where the builders put the driver. **Capsule** has the
layers around it, what either tool reads of them (`decompress_inner`,
`PreflightReads`), what the firmware needs (`Loads`), and what the builders
assert, make and verify (`AppendInputsOk`, `Appended`, `AppendVerified`, `O3...`).
A checksum is modelled by the value that it was taken of, so that a stale one
differs. **ImagePipeline** has the builders (inputs and assertions, then the image
opened, filled, and the manifest), `Crash`, and the preflight with arbitrary
arguments. `Gates` is the set of gates a candidate fails, or "raised".

**CuUnlock** is patch 0008: one action per register write of
`gfx_v10_0_get_cu_info`, through the index and under the mutex that others use
too, at every hw_init. The device test is taken to succeed; modes other than 0
to 4 behave like 0 (negative) or 3.

**ProbeKernel** is the installer, one action per command that changes a file, two
for a file that is written in place (it is torn in between) and three for a copy of
the boot menu, which install(1) removes (`UnlinkCopy`), makes anew (`CreateCopy`) and
fills (`FillCopy`); `Stop` after any of them, `Boot` into whatever the menu or a whole
copy of it offers. Two variables are history: `present`, what was there before the first
run, and `cut`, how many runs were stopped within each of the commands whose work no
later run repeats.

## 3. The runs

Passing runs:

| run | module / cfg | what it shows |
|---|---|---|
| `q3_mailbox` | MCQ3Mailbox | The argument is never touched under the SMU (`ExecutesWhatWasAsked`), no path but a reset leaves the mailbox shut (`MailboxLeftOpen`), `SendQ3` implements Q3Call, every call returns even if the SMU is silent, and the inductive invariant of the proofs holds. |
| `vcn_warm` | VcnWarm | Over three boots with late messages, a live SMU and without rejected messages: everything the driver has passed is in force (`ReplayPrefix`), the milestones come in order (`HardwareOrder`), a bit of the SMU's is lost only if it changed under a word that was on its way to that register (`OwnBitsKept`), the sequence ends, and the inductive invariant `RInv` holds. |
| `vcn_reject` | VcnReject | With up to two rejected messages, success still means enabled and handshaken (`SuccessIsReal`), and the clock part is skipped only if the controller is enabled (`SkipsOnlyEnabled`). |
| `vcn_mailbox` | VcnMailbox | The two models of a call agree on the real program: every access of `SendQ3`, every late or rejected execution and every reset is a step of VcnSequence or none (`ImplementsSequence`); the inductive invariant of the proof holds (`MailboxInv`). |
| `driver_entry` | Entry | All drivers, two boot options, one reset: the sequence runs at most once per boot and not before BDS when deferred (`OncePerBoot`), an entry that returned success has its sequence over before the operating system starts (`OsAfterSequence`), and the boot goes on whatever the sequence meets (`BootGoesOn`). |
| `postflash` | Postflash | After any outcome of the driver over two boots, with two reads rejected: a success is judged ENABLED (`SuccessIsSeen`), ENABLED is never said of a disabled PLL or a changed boot word (`EnabledIsReal`), NO_CHANGE never after the second power step (`NoChangeMeansUnpowered`); with no read rejected, ENABLED never before the first power step is acknowledged (`EnabledMeansPowered`). |
| `pipeline` | Pipeline | Thirty dumps, sets of downloads, one interruption, preflight with any arguments: both walks find what they should or raise (`WalksAgree`), what is built loads if its base does (`LoadsIfDumpDoes`), a builder's own verification fails only for the faults of a dump that the property lists (`VerificationHolds`), a GO means decodable, dispatched, complete and confined (`GoMeansDispatched`), no good image is stopped and BROKEN fails G10 alone (`GoodImagesPass`), nothing changes a file behind a GO (`GoStays`) or a manifest (`ManifestOfWhole`). |
| `cu_unlock` | CuUnlock | Whenever the index is free: it is on broadcast, modes 1 and 4 have left CC and SPI of every array as they were, modes 2 and 3 have opened what they name and nothing else, however often the function ran (`CuMasksWhenFree`). |
| `probe_kernel` | ProbeKernel | Three runs, each stopped anywhere, two copies of the menu: menu and drop-in of the user are saved whole before they change, except by a run that was stopped within the very cp that saves them (`NothingLost`); every entry that a menu or a copy shows boots an installed kernel in its mode (`EntriesBoot`); PASS means a complete installation that the state files describe, with the menu itself in every copy that is left and one copy missing for each run that was stopped between its removal and its making, no more (`PassMeansInstalled`). |

Violations, each a statement of the repository that the code does not keep (the
quotes are in `PROJECT.json`):

| run | statement | what happens |
|---|---|---|
| `vcn_acks` | step V checks the acknowledge bits (C:309) | it does not, and a rejected read of 0x0115F920 passes the poll because the address has the bit |
| `vcn_clock_part` | the enable bit means that the clock part is done (C:304) | a boot that ends between R5 and R13 leaves the bit without the tail writes; the next one skips them and succeeds |
| `pipeline_stub` | both reproductions are byte-exact (tools/README:46) | the STUB builder raises NameError |

Further disagreements met while modelling, without a run of their own:

* R:586 returns the error of a failed registration; docs/03:18 "Entry always
  returns success". The action `RegisterCallback` has it.
* C:87, C:256: dozens of messages, each with two waits of up to 5 s, and polls
  of up to 125 messages; docs/03:37 "seconds, never minutes". Time is not
  modelled.
* C:216: with a rejected message an RMW computes from an address or writes to
  the register latched before. `OwnBitsKept` and `ReplayPrefix` are false with
  `MaxRejects = 1`.
* C:232 compares the whole word it reads back; C:478 "RMW |= 1, then poll bit 2".
  A handshake that is faster than the readback is in that very word, and the
  sequence ends in `EFI_DEVICE_ERROR` although the write took.
* postflash:117: ten of sixteen markers are there before the driver touches the
  enable block; docs/04:3 has the judge say "whether the BIOS driver enabled VCN
  hardware".
* preflight:201 calls contents "moved" and compares no offset, lines 16-17 "nothing
  else moved/lost/reshaped": FIXED, which shifts every file behind the slot, gets a
  GO. A dict by GUID (196) keeps only the last of several files of one GUID.
* preflight:51 leaves out the type 0x0F that the builders' list has (O3:46): a dump
  with such a file is built from and then stopped.
* build_FULL_and_STUB:120 and its two successors renew the capsule's header and not
  its content checksum, and unlike O3:238 and STUB:175 do not refuse a capsule with
  attribute 0x40, whose content checksum is then stale; the preflight does not
  look at it.
* The builders keep RAW and FV_IMAGE of the decoded stream; a section behind them
  is dropped, and no gate sees it (preflight:9 "EXACTLY").
* A base with two files of one GUID (pad files are) does not pass the append
  builders' verification (build_FULL_and_STUB:134), correct as the image is.
* installer:83: a first run that finds no drop-in writes its own; the next run
  saves that one as `.before-install`. A backup torn by a stop within cp is never
  renewed: lines 80 and 83 ask for a file of that name only, and line 87 of the next run
  overwrites a drop-in that is nowhere whole. `NothingLost` says that nothing else
  loses it.
* installer:56: install(1) removes a copy before it makes it anew. A run stopped in
  between leaves it absent, line 55 passes over it in every later run, and PASS (line
  153) is printed without it. `PassMeansInstalled` counts these copies.
* patch 0008:51 "1=probe-SE0SH0", but only mode 2 is restricted to that array (67):
  mode 1 probes all, as mode 4 does. 0008:82 logs "(restored)" with the RLC mask of
  line 76 still written.
* postflash:68: the expected value of `enblk_00c` is its stock value (line 44), so
  this marker proves nothing (line 52 "markers that PROVE"). The module has it.
* postflash:91 drops the status of a read: with four rejected reads a board in
  its stock state is judged PARTIAL ("some progress", docs/04:17).
* build_vcn_o3_candidate.py:224 keeps the unknown size (docs/05:24 "every
  capsule-recompressing builder emits explicit size"), :248 empties entries of
  the PSP directory (docs/02:14 "We never touch PSP"), and :204 puts the driver
  behind the free tail, where its own walk finds it and the DXE core does not.
  `O3Built` has all three; such an image never gets a GO.

### Bounds

* Mailbox: three calls are one call before, one that is late and one it could
  be mistaken for; two resets hit a call and its successor; two polls per wait
  are "not yet" and "too late". The statuses are one accepted, one refused.
* Sequence: two polls per register for 125; three boots (interrupted, skipping,
  repeating), two with rejected messages; one or two rejected messages, as many
  as a read-modify-write needs to go wrong twice. The pre-states are a board as
  probed and one whose SMU has already opened a part. The SMU changes one bit
  (`LiveBits`) once (`MaxChanges`) in any register of the program at any time: one
  change in or out of a window is what the property tells apart.
* Over the mailbox: two polls per wait (`MAILBOX_TIMEOUT_LOOPS`), two boots, one
  rejected message, one pre-state, whose gates are closed so that every line
  writes.
* Judge: two of its reads rejected (`MaxDropped`); with four of them the
  verdicts are guesses, see above.
* Entry: two boot options tell "the first" from "a later one".
* Pipeline: alignment 2, file header 3, first file at 2, blocks of 8 stand for
  8, 24, 0x48 and 0x1000, with files whose ends are aligned and not, volumes that
  are full, exactly full behind the driver, and half empty, a gap, a file too few,
  a capsule that fits and one that does not. Two base files stand for 193. The odd
  dumps have one fault each: a type or a checksum that is not known, a VCN
  driver already, duplicate GUIDs, a block map or header that is wrong, blocks of
  four pages, attribute 0x40, a section too many or too few, another LZMA
  header, junk behind the capsule, a lock entry missing, twice or behind the window.
* Masks: two shader engines of two arrays, three hw_inits: a first, one that finds
  the masks changed, one more.
* Installer: three runs (stopped, stopped later, complete), two copies, either of
  which may be there or not.

`CHECK_DEADLOCK FALSE` everywhere: a driver that has returned, a judge that has
spoken and a user who stops building are ends of the program.

### Fairness

Weak fairness of the driver's own steps in Q3Mailbox, VcnSequence and LiveSmu, of
the driver and the firmware's in DriverEntry: boot-time code runs until it returns,
nothing preempts it for good. None for the SMU, the hardware, resets, crashes or
late messages: liveness holds although they may never act. The judge and the
builders promise nothing live.

## 4. The proofs

All are for every value of the constants that the named assumptions of the modules
allow. Some have a hypothesis besides; the theorem states it, and this section says
why it is needed. `IInv`, `RInv` and `MailboxInv` are also invariants of runs.

**Q3MailboxProofs.** `IInv` is the types and three parts: `SmuInv` (a status in
RSP is that of the message rung last; a message in execution is the last one,
with its argument in place and RSP clear), `CallInv` (how far the call is) and
`SlotInv` (what the argument slot holds while a caller may still read it).
None of the checked invariants is inductive alone: that the argument is not
overwritten depends on an idle status being that of the *last* message.
`Invariance` proves it; `TypeCorrect`, `ArgumentInPlace` and `LeftOpen` follow;
`Implementation` proves step by step that every access is a step of Q3Call or
a stutter. Any number of calls, polls, resets, any set of statuses.

**VcnProgramProofs** has the lemmas on the table that the next modules share: its
lines, the bits of its masks, and that no two registers have the same address.

**VcnSequenceProofs.** For every pre-state of the registers, any number of polls and
boots, both variants, late messages included:

* `TypeCorrect`, with an invariant that ties the phase to the kind of the line
  (`TInv`): without it a read-modify-write phase on a line that has none would
  leave the table.
* `SkipOnlyOfEnabled`, an action property, however many messages are rejected: the
  address that a rejected read returns does not have the enable bit.
* `SuccessNotFaked`, with one rejected message at most. `SInv` follows the write
  of the final gate: it alone can take the handshake away again, when its SET_ADDR
  was rejected, and then the gate's own bit is missing from the readback. The
  bound is sharp: with two rejections and a gate register that happens to hold its
  own address, the write goes to the enable block and the readback agrees. The
  run `vcn_reject`, whose boards have no such register, holds with two.
* `ReplayHolds` and `MilestonesInOrder`, with an SMU that rejects nothing
  (`MaxRejects = 0`; both are false with one). A register is written by one line
  only (`Writer`), so a later line undoes nothing; `RInv` says that a message
  still with the SMU is a write of the line the driver stopped at, and that latch
  and word fit the phase. For the milestones `HInv` adds that what has been opened
  is unlocked, and that no word on its way to the enable block, not even one of an
  earlier boot, takes back an answer that it has not seen.

**VcnMailboxProofs.** `MailboxImplementsSequence`: `MSpec` implies
`ImplementsSequence`, whatever the constants, the registers and the number of
rejected messages. What is proved of VcnSequence thus holds of the driver with
single mailbox accesses. The argument needs `MailboxInv` (`MailboxKept`), in three
parts. `DriverOK` ties the phase to the line, as `TInv` does. `CallInv` says what the
accesses made so far have left in place: a message is rung in only when none is
with the SMU, and in the second wait CMD and ARG are those of the call in hand.
`SmuInv` ties the prophecy to the message: one that will be executed in time is one
the driver is waiting for. Without that, a reset between the bell and the execution
would leave a message that neither the abstract driver has sent nor `pending` holds.
Then one lemma per way a message can go: executed in time it is the action of its
phase (`ExecutesInTime`, with `ReadStep` for the six ways a value is used), rung in to
be late it is `MailboxTimeout` (`RungLate`), and its execution is then `LateExecute`
(`ExecutesLate`). That an address names one register (`AddressesDiffer`) is needed
where the SMU takes the argument for a register.

**SurroundingsProofs.** LiveSmu: the same two with an SMU that changes bits of its own
(`LiveInvariance`, `LiveReplay`,
`LiveMilestones`): no invariant mentions a foreign bit. `OwnBitsStay`
is `OwnBitsKept`, for any set of bits and any number of changes, by the invariant
that every word that is being computed, or waits with the SMU, has the SMU's bits
of its register as they are, unless the register is marked stale (`WordKept`,
`LatePending`). All under `MaxRejects = 0`.

DriverEntry: `EntryTypes`, `RunsOnce`, `OsWaits`, for any set of drivers and
options and any number of boots and rejected messages. `EInv` relates the stage of
the boot, the event and the call (`DispatchOK`, `DeferredOK`, `WaitOK`).

**PostflashProofs.** The judge, for any number of dropped reads:

* `JudgeTypes` and `EnabledIsTrue`, without a hypothesis: while the judge reads, only
  the hardware moves (`Judging`), and an address passes neither the marker of the
  PLL nor for the boot word.
* `SuccessIsRecognised` (`MaxRejects = 0`): by `ReplayPrefix` eleven markers pass after a
  success on either branch, and ten are enough.
* `EnabledIsPowered` and `NoChangeIsUnpowered` (`MaxRejects = 0` and `StockBoards`).
  `StockBoards` is the board before the driver: none of the markers from the second
  power step on passes but the magic word, and the PLL is not locked. The script's
  baseline says so of PSTEP_1A, ACK_1A and EN_00C and has no value for the others; on a
  board that had them already, both properties are false. `MCPostflash` evaluates
  it for its boards. `Board` follows what lies behind what through the driver's
  steps; then at most nine markers can pass without the first acknowledge, and of
  seven that pass behind the second step no more are missing than reads were
  dropped.

**ImagePipelineProofs.** Volumes first. `WalksFind`: in a volume of any length with any files that are
aligned, inside and apart, the builders' walk finds all files and the preflight's
those that the DXE core reaches, or they raise, and exactly then. A walk is a function of
the position that calls itself for later ones; that it exists and what it finds is
shown at the position nearest to the end where it were not (`NatMin`), which takes
the place of an induction. The other lemmas say what a builder's change of a volume
leaves: laid out, headers in agreement, nothing dropped from the dispatch.

Then the pipeline. `LInv`: whatever is on the disk, in a manifest, being
written or reported was made by the builder of that name from the dump (`Made`), and
nothing with a GO is under a builder's hand. With the lemmas on the volumes follow
`PipelineTypes`, `WalksFindAll`, `ImagesLoad`, `GoIsRight`, `ManifestDescribes` and
`GoIsKept`, for all dumps that `DumpAssumption` allows, any lengths and any number of
interruptions.

Last, that the tools refuse nothing they should let through.

* `VerificationIsRight` is `VerificationHolds`. The files of a laid-out volume are
  finitely many, as no two begin at one place (`FilesFinite`), and an append makes them
  one more; so the append builders' verification holds exactly of a stock volume
  (`AppendVerifies`, an equivalence). BROKEN has files the builders know and the driver's
  (`FixedVerifies`). For O3 the fold over the two lock types is unrolled (`BothRemoved`),
  and two entries that are not more than two leave none (`LocksRemoved`).
* `GoodImagesAreLetThrough` is `GoodImagesPass`, gate by gate. `Grown` says of an
  image's volume what the three ways to make it have in common: every file of the dump,
  in place or moved, one driver, no gap, and a free tail shorter than the dump's and
  four pages. One lemma per way (`AppendGrown`, `InsertGrown`, `StubGrown`); what a walk
  counts as free is computed in `WalkFree`, and G3, G7 and G9 follow (`GrownPasses`). An
  appended image on the disk was verified, so that its dump is a stock one: this
  is `Checked`, which is inductive together with `VerificationHolds` and `LInv` (`VInv`).

The attempt to prove G7 corrected the property. It had asked for blocks shorter than
four pages; but with a volume that was full up to less than a header the dump's
free tail counts as nothing, and a block just under four pages can leave four pages
free (31 bytes, with pages of 8 and a header of 3). What it takes is
`blk + HDR <= 4 * PAGE`, true of the board's 0x1000 by far. The image must have room for one more header behind its last file, because a tail that
is shorter counts as nothing, too, and G7 wants some.

**KernelProofs.** `MasksWhenFree` for any shader arrays: the mutex and the step go
together (`Holding`), arrays before the one in hand have what is meant for them
(`OpenedSoFar`), and a probed array is owed its old masks (`Owed`). `ProbeTypes`,
`NothingIsLost`, `WhatBoots`, `PassIsComplete` for any finite set of copies and any
number of runs stopped anywhere: the files are saved before they are touched, and a
backup that is not whole is being written or its command was cut (`SavedFirst`), the
drop-in is the installer's before an entry is made (`DropinFirst`), the copies written
are of the menu as it stands (`CopiesMade`), the one in hand is none of these
(`CopyInHand`), and the copies gone are as many as the runs stopped where none was in
place, and the one in hand (`GoneByStops`, by the cardinality of a set that grows and
shrinks by one element).

Only model-checked, and why:

* `EveryCallReturns`, `SequenceEnds`, `BootGoesOn`: liveness under fairness, outside the
  prover's reach.
* The violations.

## 5. Assumptions of the models

* The SMU writes the value into the argument slot before it shows the status
  (the code relies on it at C:178-191), and leaves the slot alone when it rejects.
* A message that timed out may be executed later, but never after a later
  message has been posted: `SendQ3` posts nothing while RSP is clear. Q3Mailbox
  proves that of one mailbox.
* Registers, SMU and a message in execution survive a warm reset; acknowledge
  bits stay once they are set.
* VCN hardware reacts as the polls expect, at any time or never.
* A raw read of a register outside of the mailbox wedges the board
  (docs/03:31); the raw plan dump of C, which only logs, is left out.
* The index/data window is not shared with another agent between its two
  accesses.
* A rejected message is possible only where a run's `MaxRejects` says so.
* The SMU changes bits of its own only where the driver sets and clears none.
* In the proofs, with no bound on the boards: a dump is a volume whose files are
  aligned, inside and apart and whose length is a multiple of the alignment; a board
  has one dump, its capsule is inside of the outer volume and its PSP directory is a
  sequence of entries; the dump that the release was made from has files, no driver of this
  kind among them, and its capsule fits. The PI specification lays
  volumes out so, and neither tool looks for one that is not. The release's dump is a
  stock one, with 193 files of types that the builders know and one of each GUID
  (STUB:188 and build_FULL_and_STUB:131-134 assert as much of what is made of it). The two
  lock types differ, and neither is that of an empty entry (O3:22). The shader arrays
  are counted from 0, so that none is the broadcast value.
* A block is a power of two: three builders round a length up with a mask
  (build_FULL_and_STUB:96), which `Up` does for these only.
* A reset of the GPU or a power-on puts the masks of the shader arrays back; a
  resume that keeps them is a further hw_init.
* pacman and limine-entry-tool change their files in one step each, the kernel's
  package hook makes a boot entry, and a removal of an entry may fail. install(1) is
  that of the coreutils: a destination is unlinked, created and written.

## 6. Not modelled, and why

* `ovmf_driver_test.sh`, the flash protocol, docs: I/O and procedures for people.
* The bytes behind a checksum, a GUID or a compressed stream, the patch of the PE
  entry and its DEPEX in the STUB builder (one step, `StubOut`): an image is the
  files it holds, their places, and the lengths and checksums around them.
* `bc250_smu`, imported by the judge, and the `bc250_vcn_mode` patch are not in
  the repository.
* `verify_vcn_probe_boot.sh` reads and prints; it has no state to get wrong.
* Patch 0009 adds one condition to functions of amdgpu of which only the
  patch context is here.
* Agents that share the index/data window of the SMN with the driver: none is in
  the repository.
* Time.

## 7. Plan

Done, in this order: Q3Call and Q3Mailbox with their proofs; VcnSequence;
DriverEntry; PostflashCheck; FirmwareVolume, Capsule and ImagePipeline; LiveSmu;
VcnMailbox; CuUnlock; ProbeKernel; then the proofs of section 4.

Every invariant and every action property of the runs is proved; what is left to TLC
is liveness and the violations.
