---------------------------- MODULE ProbeKernel ----------------------------
(***************************************************************************)
(* install_vcn_probe_kernel.sh: the probe kernel, its two boot entries and *)
(* the copies of the boot menu, installed by a script that may stop after  *)
(* any of its steps (set -e, a crash) and be run again, and the boots in   *)
(* between.                                                                *)
(*                                                                         *)
(* A file is "absent", "torn" while it is being written, or what it holds. *)
(* A boot menu gives each entry no command line ("none"), the one that the *)
(* script means for it ("own") or another.                                 *)
(***************************************************************************)
EXTENDS Naturals, FiniteSets

CONSTANTS Copies,      \* destinations of sync_limine_config
          MaxRuns      \* bound on runs of the script

ASSUME ProbeAssumption == MaxRuns \in Nat /\ IsFiniteSet(Copies)

Entries == {"kernel", "mode0", "mode1"}
NoEntries == [e \in Entries |-> "none"]
Absent == [e \in Entries |-> "absent"]
Torn == [e \in Entries |-> "torn"]

VARIABLES running,        \* "stock" or the entry that was booted
          pc,             \* step of the script, "idle" or "pass"
          runs,
          dropin,         \* 90-bc250-vcn-probe.conf
          limine,         \* /boot/limine.conf: entry -> command line
          packages,       \* installed, of the pinned version
          copy,           \* the copies of limine.conf
          destination,    \* of the loop over the copies: none, or the one in hand
          synced,         \* those that this run has written
          limine_before,  \* limine.conf.before-install
          dropin_before,  \* 90-bc250-vcn-probe.conf.before-install
          manifest,       \* install-manifest.txt
          sums,           \* installed-files.sha256: of which limine.conf
          present,        \* history: drop-in and copies before the first run
          cut             \* history: runs that were stopped within a command

files == <<dropin, limine, packages, copy, limine_before, dropin_before, manifest, sums>>
loop == <<destination, synced>>
pvars == <<running, pc, runs, files, loop, present, cut>>

(* The commands that no later run repeats: cp -a of the two backups, and   *)
(* install(1) between the end of the old copy and the making of the new.   *)
Once == {"fillLimine", "fillBackup", "createCopy"}

(* A copy may be there before, with the menu of that time.                 *)
PInit ==
  /\ running = "stock" /\ pc = "idle" /\ runs = 0
  /\ dropin \in {"absent", "user"} /\ limine = NoEntries /\ packages = {}
  /\ copy \in [Copies -> {Absent, NoEntries}] /\ synced = {} /\ destination = {}
  /\ limine_before = Absent /\ dropin_before = "absent"
  /\ manifest = "absent" /\ sums = Absent
  /\ present = [dropin |-> dropin, copy |-> {c \in Copies : copy[c] # Absent}]
  /\ cut = [at \in Once |-> 0]

-----------------------------------------------------------------------------
Goto(from, to) == pc = from /\ pc' = to /\ UNCHANGED <<running, runs, present, cut>>
Step(from, to) == Goto(from, to) /\ UNCHANGED loop

(* Refused in a boot of the probe kernel.  Packages of the wrong hash or   *)
(* version, an initramfs or module that is missing: the script stops.      *)
Start ==
  /\ pc \in {"idle", "pass"} /\ running = "stock" /\ runs < MaxRuns
  /\ pc' = "backupLimine" /\ runs' = runs + 1 /\ synced' = {}
  /\ UNCHANGED <<running, files, destination, present, cut>>

Stop ==
  /\ pc \notin {"idle", "pass"} /\ pc' = "idle" /\ destination' = {}
  /\ cut' = IF pc \in Once THEN [cut EXCEPT ![pc] = @ + 1] ELSE cut
  /\ UNCHANGED <<running, runs, files, synced, present>>

(* Mutant: every run takes a new copy.                                     *)
BackupLimineAgain ==
  /\ Step("backupLimine", "fillLimine") /\ limine_before' = Torn
  /\ UNCHANGED <<dropin, limine, packages, copy, dropin_before, manifest, sums>>

BackupLimine ==
  /\ IF limine_before = Absent
     THEN Step("backupLimine", "fillLimine") /\ limine_before' = Torn
     ELSE Step("backupLimine", "backupDropin") /\ UNCHANGED limine_before
  /\ UNCHANGED <<dropin, limine, packages, copy, dropin_before, manifest, sums>>

FillLimine ==
  /\ Step("fillLimine", "backupDropin") /\ limine_before' = limine
  /\ UNCHANGED <<dropin, limine, packages, copy, dropin_before, manifest, sums>>

BackupDropin ==
  /\ IF dropin # "absent" /\ dropin_before = "absent"
     THEN Step("backupDropin", "fillBackup") /\ dropin_before' = "torn"
     ELSE Step("backupDropin", "openDropin") /\ UNCHANGED dropin_before
  /\ UNCHANGED <<dropin, limine, packages, copy, limine_before, manifest, sums>>

FillBackup ==
  /\ Step("fillBackup", "openDropin") /\ dropin_before' = dropin
  /\ UNCHANGED <<dropin, limine, packages, copy, limine_before, manifest, sums>>

(* Mutant: a drop-in that is there stays.                                  *)
KeepDropin ==
  /\ Step("openDropin", "fillDropin")
  /\ UNCHANGED files

OpenDropin ==
  /\ Step("openDropin", "fillDropin") /\ dropin' = "torn"
  /\ UNCHANGED <<limine, packages, copy, limine_before, dropin_before, manifest, sums>>

FillDropin ==
  /\ Step("fillDropin", "install") /\ dropin' = IF dropin = "torn" THEN "ours" ELSE dropin
  /\ UNCHANGED <<limine, packages, copy, limine_before, dropin_before, manifest, sums>>

(* The command line of an entry, when it is made, comes from the drop-in.  *)
FromDropin == IF dropin = "ours" THEN "own" ELSE "other"

(* pacman installs one package after the other, if not both are there; a   *)
(* hook of the kernel's makes a boot entry.                                *)
InstallKernel ==
  /\ packages # {"kernel", "headers"} /\ Step("install", "headers")
  /\ packages' = packages \union {"kernel"}
  /\ limine' = [limine EXCEPT !["kernel"] = FromDropin]
  /\ UNCHANGED <<dropin, copy, limine_before, dropin_before, manifest, sums>>

InstallHeaders ==
  /\ Step("headers", "install") /\ packages' = packages \union {"headers"}
  /\ UNCHANGED <<dropin, limine, copy, limine_before, dropin_before, manifest, sums>>

Installed == packages = {"kernel", "headers"} /\ Step("install", "remove") /\ UNCHANGED files

(* limine-entry-tool, which may fail to remove and is not asked (|| true). *)
RemoveEntries ==
  /\ Step("remove", "add0")
  /\ limine' \in {[e \in Entries |-> IF e \in gone THEN "none" ELSE limine[e]] :
                    gone \in SUBSET Entries}
  /\ UNCHANGED <<dropin, packages, copy, limine_before, dropin_before, manifest, sums>>

AddEntry(from, e, to) ==
  /\ Step(from, to) /\ limine' = [limine EXCEPT ![e] = FromDropin]
  /\ UNCHANGED <<dropin, packages, copy, limine_before, dropin_before, manifest, sums>>

AddMode0 == AddEntry("add0", "mode0", "add1")
AddMode1 == AddEntry("add1", "mode1", "check")

(* --get-cmdline answers from the configuration, grep looks for the names. *)
CheckEntries ==
  /\ FromDropin = "own" /\ limine["mode0"] # "none" /\ limine["mode1"] # "none"
  /\ Step("check", "sync") /\ UNCHANGED files

(* sync_limine_config: install(1) removes the copy that is there, makes it *)
(* anew and fills it.                                                      *)
Destinations == {c \in Copies : copy[c] # Absent} \ synced

UnlinkOne(destinations) ==
  /\ Goto("sync", "createCopy") /\ UNCHANGED synced
  /\ \E c \in destinations : copy' = [copy EXCEPT ![c] = Absent] /\ destination' = {c}
  /\ UNCHANGED <<dropin, limine, packages, limine_before, dropin_before, manifest, sums>>

(* Mutant: a destination that is not there is made.                        *)
UnlinkAnyCopy == UnlinkOne(Copies \ synced)

UnlinkCopy == UnlinkOne(Destinations)

CreateCopy ==
  /\ Step("createCopy", "fillCopy")
  /\ copy' = [c \in Copies |-> IF c \in destination THEN Torn ELSE copy[c]]
  /\ UNCHANGED <<dropin, limine, packages, limine_before, dropin_before, manifest, sums>>

FillAnd(to) ==
  /\ Goto("fillCopy", to)
  /\ copy' = [c \in Copies |-> IF c \in destination THEN limine ELSE copy[c]]
  /\ synced' = synced \union destination /\ destination' = {}
  /\ UNCHANGED <<dropin, limine, packages, limine_before, dropin_before, manifest, sums>>

(* Mutant: one copy is enough.                                             *)
FillOnlyCopy == FillAnd("manifest")

FillCopy == FillAnd("sync")

Synced == Destinations = {} /\ Step("sync", "manifest") /\ UNCHANGED files

OpenManifest ==
  /\ Step("manifest", "fillManifest") /\ manifest' = "torn"
  /\ UNCHANGED <<dropin, limine, packages, copy, limine_before, dropin_before, sums>>

FillManifest ==
  /\ Step("fillManifest", "sums") /\ manifest' = "written" /\ sums' = Torn
  /\ UNCHANGED <<dropin, limine, packages, copy, limine_before, dropin_before>>

Pass ==
  /\ Step("sums", "pass") /\ sums' = limine
  /\ UNCHANGED <<dropin, limine, packages, copy, limine_before, dropin_before, manifest>>

-----------------------------------------------------------------------------
(* The board boots from limine.conf or a copy of it that is whole.         *)
Menus == ({limine} \union {copy[c] : c \in Copies}) \ {Absent, Torn}

Boot ==
  /\ pc \in {"idle", "pass"}
  /\ running' \in {"stock"} \union {e \in Entries : \E menu \in Menus : menu[e] # "none"}
  /\ UNCHANGED <<pc, runs, files, loop, present, cut>>

PNext ==
  \/ Start \/ Stop \/ BackupLimine \/ FillLimine \/ BackupDropin \/ FillBackup
  \/ OpenDropin \/ FillDropin \/ InstallKernel \/ InstallHeaders \/ Installed
  \/ RemoveEntries \/ AddMode0 \/ AddMode1 \/ CheckEntries
  \/ UnlinkCopy \/ CreateCopy \/ FillCopy \/ Synced \/ OpenManifest \/ FillManifest \/ Pass
  \/ Boot

PSpec == PInit /\ [][PNext]_pvars

-----------------------------------------------------------------------------
Menu == [Entries -> {"none", "own", "other"}]

(* Types; a copy of the boot menu is written only where one was.           *)
PTypeOK ==
  /\ running \in {"stock"} \union Entries /\ runs \in 0..MaxRuns
  /\ synced \subseteq Copies /\ destination \subseteq Copies /\ cut \in [Once -> Nat]
  /\ dropin \in {"absent", "user", "torn", "ours"} /\ limine \in Menu
  /\ packages \subseteq {"kernel", "headers"}
  /\ \A c \in Copies : copy[c] \in IF c \in present.copy THEN Menu \union {Torn, Absent}
                                                       ELSE {Absent}
  /\ limine_before \in {Absent, Torn, NoEntries} /\ sums \in {Absent, Torn} \union Menu
  /\ dropin_before \in {"absent", "torn", "user", "ours"}
  /\ manifest \in {"absent", "torn", "written"}

(* Nothing of the user's is gone that was not saved whole first, in        *)
(* whichever run: not the menu and not the drop-in, unless a run stopped   *)
(* within the very cp -a that saves it (its torn file counts as a backup   *)
(* from then on).  No stop at another step loses anything.                 *)
NothingLost ==
  /\ limine # NoEntries => limine_before = NoEntries \/ cut["fillLimine"] > 0
  /\ present.dropin = "user" /\ dropin # "user" =>
       dropin_before = "user" \/ cut["fillBackup"] > 0

(* Whatever menu the board finds, between and after any interrupted runs:  *)
(* an entry in it boots an installed kernel in the mode it is named for.   *)
EntriesBoot ==
  \A menu \in Menus, e \in Entries :
    menu[e] # "none" => menu[e] = "own" /\ "kernel" \in packages

(* The PASS line means a complete installation that the state directory    *)
(* describes: both entries, in every copy that is left.  A copy is missing *)
(* for each run that stopped between the removal of one and its making,    *)
(* and for no other: no later run makes it, and none takes another away.   *)
Gone == {c \in present.copy : copy[c] = Absent}

PassMeansInstalled ==
  pc = "pass" =>
    /\ packages = {"kernel", "headers"} /\ dropin = "ours"
    /\ limine["mode0"] = "own" /\ limine["mode1"] = "own"
    /\ \A c \in present.copy \ Gone : copy[c] = limine
    /\ Cardinality(Gone) = cut["createCopy"]
    /\ manifest = "written" /\ sums = limine

=============================================================================
