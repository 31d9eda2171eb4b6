---------------------------- MODULE ImagePipeline ----------------------------
(***************************************************************************)
(* From a dump of the board's flash to a candidate the preflight lets      *)
(* through: the builders, the files they leave behind when they are        *)
(* interrupted, and verify_candidate_preflight.  BROKEN, FIXED and STUB    *)
(* may have been downloaded: they are release attachments, made from the   *)
(* author's dump.                                                          *)
(***************************************************************************)
EXTENDS Capsule

CONSTANTS Setups,        \* what a user may start with: [dump, have, rungs],
                         \* dump, attachments at hand, images to be built
          AuthorDump,    \* the dump the release was made from
          Blobs,         \* driver files that O3 may be given
          BlobSize,      \* of the VCN driver's file
          CapsuleSizes,  \* lengths a recompressed capsule may have
          MaxCrashes     \* bound on interrupted builders

Attachments == {"BROKEN", "FIXED", "STUB"}
AppendedAtEnd == {"ACTIVE", "NOOP", "SAFE", "READYBOOT"}
Names == Attachments \union AppendedAtEnd \union {"O3"}

ASSUME PipelineAssumption ==
  /\ \A s \in Setups : s.have \subseteq Attachments /\ s.rungs \subseteq Names \ {"BROKEN"}
  /\ BlobSize \in Nat /\ BlobSize >= HDR /\ MaxCrashes \in Nat
  /\ CapsuleSizes \subseteq Nat /\ CapsuleSizes # {} /\ \A csz \in CapsuleSizes : csz >= HDR

Known(fv, types) == \A f \in fv.files : f.type \in types /\ f.sum = "good"

(* What a file of its own is, and a dump: the length of a volume is a      *)
(* multiple of the alignment, and a board has one dump.  The release was   *)
(* made from a stock volume with files in it that the builders know and    *)
(* none of the driver's, and fits.                                         *)
ASSUME DumpAssumption ==
  /\ \A blob \in Blobs : IsFile(blob) /\ blob.size \in Nat /\ blob.size >= HDR
  /\ \A base \in {s.dump : s \in Setups} \union {AuthorDump} :
       /\ IsImage(base) /\ LaidOut(base.fv) /\ base.fv.len % ALIGN = 0
       /\ base.board = AuthorDump.board => base = AuthorDump
  /\ AuthorDump.fv.files # {} /\ ~HasVcn(AuthorDump.fv.files) /\ Min(CapsuleSizes) <= Room
  /\ StockFiles(AuthorDump.fv.files) /\ Known(AuthorDump.fv, BuilderTypes)

VARIABLES dump,      \* BC250_BASE, and the preflight's --base
          rungs,     \* the images the user builds
          disk,      \* name -> [is, img]
          manifest,  \* name -> the image whose sha256 the .build.json has
          job,       \* the builder that runs: [name, img, step]
          crashes,
          report     \* of the last preflight: [name, img, efi, verdict]

pvars == <<dump, rungs, disk, manifest, job, crashes, report>>

NoImage == [board |-> "none"]
Absent == [is |-> "absent", img |-> NoImage]
Idle == [name |-> "none", img |-> NoImage, step |-> "idle"]
NoReport == [name |-> "none", img |-> NoImage, efi |-> "none", verdict |-> "none"]

Blob(body) == [guid |-> "VCN", type |-> "DRIVER", off |-> 0, size |-> BlobSize,
               body |-> body, sum |-> "good", state |-> "unset"]

-----------------------------------------------------------------------------
(* The release attachments.                                                *)
Broken == Recapsuled(AuthorDump, Insert(AuthorDump.fv, Blob("full")), Min(CapsuleSizes), FALSE)
Release(n) ==
  CASE n = "BROKEN" -> Broken
    [] n = "FIXED"  -> WithExplicitSize(Broken)
    [] n = "STUB"   -> [WithExplicitSize(Broken) EXCEPT !.fv = StubOut(@)]

PInit ==
  /\ \E s \in Setups :
       /\ dump = s.dump /\ rungs = s.rungs
       /\ disk = [n \in Names |-> IF n \in s.have THEN [is |-> "whole", img |-> Release(n)]
                                  ELSE Absent]
  /\ manifest = [n \in Names |-> NoImage]
  /\ job = Idle /\ crashes = 0 /\ report = NoReport

-----------------------------------------------------------------------------
(* The sha256 of an input is asserted: only the release's own image, or a  *)
(* rebuilt one that equals it, is accepted.                                *)
Have(n) == disk[n] = [is |-> "whole", img |-> Release(n)]

(* The FFS of the driver: cut out of a donor image, or a file of its own.  *)
DriverOf(n) == CASE n = "ACTIVE" -> "full" [] n = "NOOP" -> "stub"
                 [] n = "SAFE" -> "secure" [] n = "READYBOOT" -> "rtb"

(* Mutant: only a whole image counts as there.                             *)
FreeUnlessWhole(n) == disk[n].is # "whole" \/ manifest[n] = NoImage
(* "refusing to overwrite existing output"                                 *)
Free(n) == disk[n].is = "absent"

(* A builder computes the image and verifies it before it writes anything. *)
Build(n, inputsOk, img, verified) ==
  /\ job.step \in {"idle", "raised", "unverified"} /\ n \in rungs
  /\ job' = IF ~inputsOk THEN [Idle EXCEPT !.name = n, !.step = "raised"]
            ELSE IF ~verified THEN [Idle EXCEPT !.name = n, !.step = "unverified"]
            ELSE [name |-> n, img |-> img, step |-> "open"]
  /\ UNCHANGED <<dump, rungs, disk, manifest, crashes, report>>

(* The dump does not matter here: eight bytes of BROKEN change.            *)
BuildFixed ==
  LET new == WithExplicitSize(Release("BROKEN"))
  IN  /\ Free("FIXED") /\ Have("BROKEN")
      /\ Build("FIXED", Release("BROKEN").lzma.outsize = Unknown, new,
               decompress_inner(new) /\ HasVcn(WalkInnerFv(new.fv).inv))

(* V005_PE_SHA is defined nowhere: a NameError, whatever the input.        *)
BuildStub ==
  /\ Free("STUB") /\ Have("FIXED")
  /\ Build("STUB", FALSE, NoImage, FALSE)

BuildAppended(n) ==
  \E csz \in CapsuleSizes :
    LET inputsOk == AppendInputsOk(dump, csz)
        img == IF inputsOk THEN Appended(dump, Blob(DriverOf(n)), csz) ELSE NoImage
    IN  Free(n) /\ Build(n, inputsOk, img, inputsOk /\ AppendVerified(dump, img))

(* --variant active and noop: the driver is cut out of a donor.            *)
BuildActiveOrNoop ==
  \/ Have("FIXED") /\ BuildAppended("ACTIVE")
  \/ Have("STUB") /\ BuildAppended("NOOP")

BuildSafeReads == BuildAppended("SAFE")
BuildReadyBoot == BuildAppended("READYBOOT")

(* Overwrites what is there.                                               *)
BuildO3 ==
  \E csz \in CapsuleSizes, blob \in Blobs :
    LET inputsOk == O3InputsOk(dump, blob, csz)
        img == IF inputsOk THEN O3Built(dump, blob, csz) ELSE NoImage
    IN  Build("O3", inputsOk, img, inputsOk /\ O3Verified(dump, img))

Writing(step, next) == job.step = step /\ job' = [job EXCEPT !.step = next]

(* Mutant: the manifest is written before the image is.                    *)
ManifestFirst ==
  /\ Writing("open", "write")
  /\ manifest' = [manifest EXCEPT ![job.name] = job.img]
  /\ disk' = [disk EXCEPT ![job.name] = [is |-> "partial", img |-> NoImage]]
  /\ UNCHANGED <<dump, rungs, crashes, report>>

(* write_bytes truncates the file, then fills it; the manifest comes last. *)
OpenImage ==
  /\ Writing("open", "write")
  /\ disk' = [disk EXCEPT ![job.name] = [is |-> "partial", img |-> NoImage]]
  /\ UNCHANGED <<dump, rungs, manifest, crashes, report>>

FinishImage ==
  /\ Writing("write", "manifest")
  /\ disk' = [disk EXCEPT ![job.name] = [is |-> "whole", img |-> job.img]]
  /\ UNCHANGED <<dump, rungs, manifest, crashes, report>>

WriteManifest ==
  /\ job.step = "manifest" /\ job' = Idle
  /\ manifest' = [manifest EXCEPT ![job.name] = job.img]
  /\ UNCHANGED <<dump, rungs, disk, crashes, report>>

Crash ==
  /\ job.step \in {"open", "write", "manifest"} /\ crashes < MaxCrashes
  /\ job' = Idle /\ crashes' = crashes + 1
  /\ UNCHANGED <<dump, rungs, disk, manifest, report>>

-----------------------------------------------------------------------------
(* verify_candidate_preflight.  A gate that fails is in "failed"; a check  *)
(* that raises leaves no report file, here {"raised"}.  G6 is asserted     *)
(* where the volumes are walked.                                           *)
Guids(inv) == {f.guid : f \in inv}
(* A dict by GUID keeps the last file of each.                             *)
Named(inv, guid) ==
  CHOOSE f \in inv : f.guid = guid /\ \A g \in inv : g.guid = guid => g.off <= f.off

G1(b, c, winHi) ==
  b # c /\ c.board = b.board /\ c.psp = b.psp /\ Max({b.cap.csz, c.cap.csz}) <= winHi
G8(b, c, winHi) == b = c \/ G1(b, c, winHi)
G2(b, c) == c.outer = b.outer
G3(inv_b, inv_c) ==
  /\ Cardinality(Guids(inv_c) \ Guids(inv_b)) = 1
  /\ \A guid \in Guids(inv_b) :
       /\ guid \in Guids(inv_c)
       /\ LET f == Named(inv_b, guid)
              g == Named(inv_c, guid)
          IN  g.body = f.body /\ g.size = f.size /\ g.type = f.type
  /\ Cardinality(inv_b) = BaseFiles /\ Cardinality(inv_c) = BaseFiles + 1
G4(nf, off) == nf.type = "DRIVER" /\ nf.size = BlobSize /\ nf.off = off /\ nf.state = "valid"
(* Mutant: the free tail may not shrink.                                   *)
G7Kept(free_b, free_c) == free_c > 0 /\ free_c >= free_b
G7(free_b, free_c) == free_c > 0 /\ free_c < free_b + 4 * PAGE
G9(inv_c, off) == off = Max({FIRST} \union {End(f) : f \in {g \in inv_c : g.off < off}})
(* Mutant: python's decoder takes either, and the length matches.          *)
G10Decodes(b, c) == c.lzma.outsize \in {Unknown, StreamLen(c)} /\ c.lzma.params = b.lzma.params
G10(b, c) == c.lzma.outsize = StreamLen(c) /\ c.lzma.params = b.lzma.params

(* pe_check raises unless the file starts with a PE32 section.             *)
Drivers == {"full", "stub", "secure", "rtb"}
pe_check(nf, off) == nf.off = off /\ nf.body \in Drivers

(* The gates that a candidate c fails against its base b.                  *)
Gates(b, c, off, efi, winHi) ==
  LET wb == WalkFfs(b.fv)
      wc == WalkFfs(c.fv)
      new == HasVcn(wc.inv)
      nf == Named(wc.inv, "VCN")
      Unless(ok, gate) == IF ok THEN {} ELSE {gate}
  IN  IF \/ ~PreflightReads(b) \/ ~PreflightReads(c)
         \/ ~HeaderOk(b.fv) \/ ~HeaderOk(c.fv) \/ ~wb.ok \/ ~wc.ok
         \/ new /\ ~pe_check(nf, off)
      THEN {"raised"}
      ELSE UNION {Unless(G1(b, c, winHi), "G1"), Unless(G8(b, c, winHi), "G8"),
                  Unless(G2(b, c), "G2"), Unless(G3(wb.inv, wc.inv), "G3"),
                  Unless(new /\ G4(nf, off), "G4"), Unless(new /\ nf.body = efi, "G5"),
                  Unless(G7(wb.free, wc.free), "G7"),
                  Unless(new /\ G9(wc.inv, off), "G9"), Unless(G10(b, c), "G10")}

(* Offset, driver and window are the user's arguments.  What a NO-GO says  *)
(* is not kept, nor which run raised before it could write a report.       *)
Preflight ==
  \E n \in Names, efi \in Drivers, winHi \in {dump.cap.csz, Room} :
    /\ disk[n].is # "absent"
    /\ \E off \in IF disk[n].is = "whole" THEN {f.off : f \in disk[n].img.fv.files} ELSE {FIRST} :
         report' = IF disk[n].is = "whole" /\ Gates(dump, disk[n].img, off, efi, winHi) = {}
                   THEN [name |-> n, img |-> disk[n].img, efi |-> efi, verdict |-> "GO"]
                   ELSE [NoReport EXCEPT !.verdict = "NO-GO"]
    /\ UNCHANGED <<dump, rungs, disk, manifest, job, crashes>>

PNext ==
  \/ BuildFixed \/ BuildStub \/ BuildActiveOrNoop \/ BuildSafeReads \/ BuildReadyBoot \/ BuildO3
  \/ OpenImage \/ FinishImage \/ WriteManifest \/ Crash \/ Preflight

PSpec == PInit /\ [][PNext]_pvars

-----------------------------------------------------------------------------
ImageOk(img) ==
  img = NoImage \/
  /\ img.board \in {s.dump.board : s \in Setups} \union {AuthorDump.board}
  /\ img.cap.csz \in 0..Room /\ img.gsz \in Nat
  /\ img.lzma.outsize \in {Unknown, StreamLen(img)}
  /\ LaidOut(img.fv)

(* Types; no two files of a volume overlap, every one is inside of it.     *)
PTypeOK ==
  /\ [dump |-> dump, rungs |-> rungs] \in {[dump |-> s.dump, rungs |-> s.rungs] : s \in Setups}
  /\ crashes \in 0..MaxCrashes
  /\ \A n \in Names : ImageOk(disk[n].img) /\ ImageOk(manifest[n])
  /\ disk \in [Names -> [is : {"absent", "partial", "whole"}, img : {disk[n].img : n \in Names}]]
  /\ job.step \in {"idle", "raised", "unverified", "open", "write", "manifest"}
  /\ ImageOk(job.img)

WholeImages == {disk[n].img : n \in {m \in Names : disk[m].is = "whole"}}

(* The two walks find, on every image, what each is meant to: that of the  *)
(* builders every file there is, that of the preflight what the DXE core   *)
(* reaches.  At a file of another type or with a wrong checksum they raise *)
(* if they come to it, and do not leave it out.                            *)
WalksAgree ==
  \A fv \in {img.fv : img \in WholeImages \union {dump}} :
    /\ IF Known(fv, BuilderTypes) THEN WalkInnerFv(fv).inv = fv.files ELSE ~WalkInnerFv(fv).ok
    /\ IF \A f \in Reached(fv) : Known([fv EXCEPT !.files = {f}], PreflightTypes)
       THEN WalkFfs(fv).inv = Reached(fv) ELSE ~WalkFfs(fv).ok

(* Four headers repeat a length or sum what is in them.  On every image    *)
(* that a builder leaves, all agree if they did on the dump, so that the   *)
(* firmware loads it: the preflight looks at half of them only, never at   *)
(* the capsule's own checksum.  O3 declares no decoded size; and a capsule *)
(* with attribute 0x40 is rebuilt with a stale checksum of its content.    *)
LoadsIfDumpDoes ==
  \A n \in Names \ {"BROKEN"} :
    disk[n].is = "whole" =>
      LET img == disk[n].img
          src == IF n \in Attachments THEN AuthorDump ELSE dump
      IN  Loads(src) /\ ~src.cap.attr =>
            Loads(IF n = "O3" THEN WithExplicitSize(img) ELSE img)

(* What a builder verifies of its own result never fails, so that what it  *)
(* refuses is a fault of its input: unless the dump has two files of one   *)
(* GUID, another number of files than a stock one, or a lock entry twice   *)
(* or behind the window.                                                   *)
PositionsOf(psp) == {i \in DOMAIN psp.types : psp.types[i] \in ToSet(LOCK_TYPES)}
VerificationHolds ==
  job.step = "unverified" =>
    IF job.name = "O3"
    THEN \/ Cardinality(PositionsOf(dump.psp)) > Len(LOCK_TYPES)
         \/ \E i \in PositionsOf(dump.psp) : i > PspWindow
    ELSE \/ Cardinality(dump.fv.files) # BaseFiles
         \/ Cardinality(Guids(dump.fv.files)) < Cardinality(dump.fv.files)

Go == report.verdict = "GO"

(* A GO means an image whose capsule PEI can decode, in which the DXE core *)
(* dispatches the driver that was asked for and every driver it dispatched *)
(* from the dump, and which is the user's own dump outside of the capsule. *)
GoMeansDispatched ==
  Go => LET c == report.img
            run == Dispatched(c.fv)
        IN  /\ c.lzma.outsize = StreamLen(c) /\ c.board = dump.board /\ c.psp = dump.psp
            /\ \E f \in run : f.guid = "VCN" /\ f.body = report.efi
            /\ \A f \in Dispatched(dump.fv) : \E g \in run : g.guid = f.guid /\ g.body = f.body

(* The gates stop no good image: with the right arguments a whole image    *)
(* made from the user's own dump passes all, BROKEN all but G10, unless    *)
(* the dump has a gap, a file of the unknown type, a bad header, other     *)
(* LZMA parameters or blocks that leave no room for a file header in four  *)
(* pages, or the new volume ends without room for one more file header.    *)
BodyOf(n) == IF n \in AppendedAtEnd THEN DriverOf(n) ELSE IF n = "STUB" THEN "stub" ELSE "full"
GoodImagesPass ==
  \A n \in Names \ {"O3"} :
    LET c == disk[n].img
        off == Named(c.fv.files, "VCN").off
    IN  (/\ disk[n].is = "whole" /\ c.board = dump.board
         /\ Reached(dump.fv) = dump.fv.files /\ Known(dump.fv, PreflightTypes) /\ Loads(dump)
         /\ dump.lzma.params = "ours" /\ dump.fv.blk + HDR <= 4 * PAGE
         /\ Max({End(f) : f \in c.fv.files}) + HDR <= c.fv.len)
        => Gates(dump, c, off, BodyOf(n), Room) = IF n = "BROKEN" THEN {"G10"} ELSE {}

(* A GO stays true of the file that is about to be flashed: no later       *)
(* build, finished or interrupted, changes it.                             *)
GoStays == Go => disk[report.name] = [is |-> "whole", img |-> report.img]

(* Where a rung has a manifest, its image is whole and the one described.  *)
ManifestOfWhole ==
  \A n \in Names \ {"O3"} :
    manifest[n] # NoImage => disk[n] = [is |-> "whole", img |-> manifest[n]]

-----------------------------------------------------------------------------
(* What a document says and the code does not do.                          *)
(* tools/README.md:46: "Both reproductions are byte-exact", of FIXED and   *)
(* of STUB.                                                                *)
Reproduces == job.name = "STUB" => job.step # "raised"
=============================================================================
