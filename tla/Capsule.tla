------------------------------ MODULE Capsule ------------------------------
(***************************************************************************)
(* A flash image from the outside in, and what the tools read of it and    *)
(* write to it:                                                            *)
(*   board    whose dump the bytes outside of all that follows come from   *)
(*   psp      [types, sum]: the PSP directory and what its Fletcher        *)
(*            checksum was taken of                                        *)
(*   outer    the header checksum of the outer volume                      *)
(*   cap      [attr, csz, head, body]: the capsule file's attribute 0x40,  *)
(*            its length, and what its two checksums were taken of         *)
(*   after    what is between the capsule and the end of the outer volume  *)
(*   gsz      the length of the GUIDed section in it                       *)
(*   lzma     [params, outsize] of the LZMA header                         *)
(*   sections of the decoded stream, and fv, the volume in its FV_IMAGE    *)
(* Lengths count what varies; a header of fixed length counts as HDR or    *)
(* as one.                                                                 *)
(***************************************************************************)
EXTENDS FirmwareVolume, Sequences, SequencesExt

CONSTANTS LOCK_TYPES,  \* <<0x24, 0x45>>
          PspWindow,   \* 19: directory entries in front of 0x8E0140
          Room,        \* OUTER_LEN: the longest capsule that fits
          BaseFiles    \* 193: files of a stock volume

ASSUME CapsuleAssumption ==
  /\ PspWindow \in Nat /\ Room \in Nat /\ BaseFiles \in Nat
  /\ LOCK_TYPES = <<LOCK_TYPES[1], LOCK_TYPES[2]>> /\ LOCK_TYPES[1] # LOCK_TYPES[2]
  /\ LOCK_TYPES[1] # "EMPTY" /\ LOCK_TYPES[2] # "EMPTY"

Unknown == -1

(* Such a record; a volume's blocks have a length, and the capsule is      *)
(* inside of the outer volume.                                             *)
IsImage(img) ==
  /\ img = [board |-> img.board, psp |-> img.psp, outer |-> img.outer, cap |-> img.cap,
            after |-> img.after, gsz |-> img.gsz, lzma |-> img.lzma,
            sections |-> img.sections, fv |-> img.fv]
  /\ img.cap = [attr |-> img.cap.attr, csz |-> img.cap.csz, head |-> img.cap.head,
                body |-> img.cap.body]
  /\ img.cap.csz \in 0..Room
  /\ img.psp = [types |-> img.psp.types, sum |-> img.psp.sum]
  /\ img.psp.types \in Seq(ToSet(img.psp.types))
  /\ img.lzma = [params |-> img.lzma.params, outsize |-> img.lzma.outsize]
  /\ img.fv = [len |-> img.fv.len, blk |-> img.fv.blk, num |-> img.fv.num,
               sum |-> img.fv.sum, files |-> img.fv.files]
  /\ img.fv.len \in Nat /\ img.fv.blk \in Nat \ {0} /\ img.fv.num \in Nat
  /\ \A f \in img.fv.files : IsFile(f)

StreamLen(img) == Len(img.sections) + img.fv.len
CapsuleHeader(cap) == <<cap.attr, cap.csz>>
CapsuleBody(img) == <<img.gsz, img.lzma, img.sections, img.fv>>

(* decompress_inner of the builders.  Python's decoder takes an unknown    *)
(* size; neither tool reads the capsule's own checksums.                   *)
decompress_inner(img) ==
  /\ img.gsz = img.cap.csz - HDR
  /\ img.lzma.outsize \in {Unknown, StreamLen(img)}
  /\ IsPrefix(<<"RAW", "FV">>, img.sections)

(* The one of the preflight looks at the outer volume, too.                *)
PreflightReads(img) == img.outer = "good" /\ decompress_inner(img)

(* What the firmware needs of an image to reach its drivers.               *)
Loads(img) ==
  /\ decompress_inner(img) /\ img.lzma.outsize # Unknown
  /\ img.outer = "good" /\ HeaderOk(img.fv) /\ BlockMapOk(img.fv)
  /\ img.cap.head = CapsuleHeader(img.cap)
  /\ img.cap.attr => img.cap.body = CapsuleBody(img)
  /\ img.psp.sum = img.psp.types

-----------------------------------------------------------------------------
(* The capsule around a new volume: GUIDed header and RAW section are kept, *)
(* a section behind the volume is not.                                     *)
Rewrapped(img, fv, csz, explicit) ==
  LET stream == [img EXCEPT !.sections = <<"RAW", "FV">>, !.fv = fv]
  IN  [stream EXCEPT !.lzma = [params |-> "ours",
                               outsize |-> IF explicit THEN StreamLen(stream) ELSE Unknown],
                     !.gsz = csz - HDR, !.cap.csz = csz]

(* Mutant: the file header keeps its checksum.                             *)
RecapsuledStale(img, fv, csz, explicit) == Rewrapped(img, fv, csz, explicit)

(* ffs_header_checksum comes last: the length is in what it sums.  The     *)
(* checksum of the file's content is left as it is.                        *)
Recapsuled(img, fv, csz, explicit) ==
  LET new == Rewrapped(img, fv, csz, explicit)
  IN  [new EXCEPT !.cap.head = CapsuleHeader(new.cap)]

(* Mutant: the new length is not looked at.                                *)
FitsAnywhere(img, csz) == img.after = "erased"
(* What the builders assert of the flash around the capsule.               *)
Fits(img, csz) == img.after = "erased" /\ csz <= Room

(* The FIXED builder: eight bytes of the LZMA header.                      *)
WithExplicitSize(img) == [img EXCEPT !.lzma.outsize = StreamLen(img)]

-----------------------------------------------------------------------------
(* The first entry of a type becomes an empty one.                         *)
remove_psp_entry(types, t) ==
  [types EXCEPT ![SelectInSeq(types, LAMBDA x : x = t)] = "EMPTY"]

HasLocks(psp) == \A t \in ToSet(LOCK_TYPES) : t \in ToSet(psp.types)

(* Mutant: the checksum covers the directory as it was.                    *)
WithoutLocksStale(psp) == [psp EXCEPT !.types = FoldLeft(remove_psp_entry, @, LOCK_TYPES)]

(* remove_psp_entry for each of LOCK_TYPES, then refresh_dir_fletcher.     *)
WithoutLocks(psp) ==
  LET types == FoldLeft(remove_psp_entry, psp.types, LOCK_TYPES)
  IN  [types |-> types, sum |-> types]

(* What the O3 builder verifies of it: no lock entry is left, the checksum *)
(* is right, and nothing changed behind the window.                        *)
PspVerified(old, new) ==
  /\ ToSet(new.types) \intersect ToSet(LOCK_TYPES) = {}
  /\ new.sum = new.types
  /\ \A i \in DOMAIN old.types : i > PspWindow => new.types[i] = old.types[i]

-----------------------------------------------------------------------------
HasVcn(files) == \E f \in files : f.guid = "VCN"

(* A stock volume has so many files, no two of one GUID.                   *)
StockFiles(files) ==
  Cardinality(files) = BaseFiles /\ \A f, g \in files : f.guid = g.guid => f = g

(* Three of the builders append a driver that they have read from a file   *)
(* or cut out of a donor; these are their assertions before they build ... *)
AppendInputsOk(img, csz) ==
  LET old == WalkInnerFv(img.fv)
  IN  /\ decompress_inner(img) /\ old.ok /\ BlockMapOk(img.fv)
      /\ ~HasVcn(old.inv) /\ Fits(img, csz)

Appended(img, blob, csz) == Recapsuled(img, AppendAtEnd(img.fv, blob), csz, TRUE)

(* ... and the verification of what they have built.                       *)
AppendVerified(img, out) ==
  LET old == WalkInnerFv(img.fv).inv
      new == WalkInnerFv(out.fv)
      Same(f, g) == g.guid = f.guid
  IN  /\ decompress_inner(out) /\ new.ok
      /\ Cardinality(new.inv) = Cardinality(old) + 1
      /\ Cardinality(new.inv) = BaseFiles + 1
      /\ \A f \in old : {g \in new.inv : Same(f, g)} = {f}
      /\ Cardinality({g \in new.inv : g.guid = "VCN"}) = 1

(* build_vcn_o3_candidate: prep_blob, its assertions, what it builds and   *)
(* what it verifies.                                                       *)
prep_blob(blob) == blob.type = "DRIVER" /\ blob.guid = "VCN" /\ blob.sum = "good"

O3InputsOk(img, blob, csz) ==
  LET old == WalkInnerFv(img.fv)
  IN  /\ prep_blob(blob)
      /\ decompress_inner(img) /\ old.ok /\ ~HasVcn(old.inv)
      /\ BlockMapOk(img.fv) /\ Up(Up(img.fv.len + blob.size, ALIGN), PAGE) % img.fv.blk = 0
      /\ Fits(img, csz) /\ ~img.cap.attr /\ HasLocks(img.psp)

O3Built(img, blob, csz) ==
  [Recapsuled(img, AppendAfterTail(img.fv, blob), csz, FALSE)
     EXCEPT !.psp = WithoutLocks(img.psp)]

O3Verified(img, out) ==
  LET new == WalkInnerFv(out.fv)
  IN  /\ decompress_inner(out) /\ new.ok
      /\ Cardinality(new.inv) = Cardinality(WalkInnerFv(img.fv).inv) + 1
      /\ Cardinality({g \in new.inv : g.guid = "VCN"}) = 1
      /\ PspVerified(img.psp, out.psp)
=============================================================================
