--------------------------- MODULE FirmwareVolume ---------------------------
(***************************************************************************)
(* The inner firmware volume of the capsule, as the tools see it: files at *)
(* aligned offsets, everything else erased.  The builders and the          *)
(* preflight walk it in two different ways, and the builders put the VCN   *)
(* driver into it in three different places.                               *)
(*                                                                         *)
(* A volume is [len, blk, num, sum, files]: its length, the block map that *)
(* repeats it, and what the header's checksum was taken of.  A file is     *)
(* [guid, type, off, size, body, sum, state].  A checksum is modelled by   *)
(* what it sums, a file's by whether it is right.                          *)
(***************************************************************************)
EXTENDS Integers, FiniteSets, FiniteSetsExt

CONSTANTS ALIGN,   \* 8, of a file's offset
          HDR,     \* 24, length of a file header
          FIRST,   \* 0x48, offset of the first file: the volume's own header
          PAGE     \* 0x1000

ASSUME VolumeAssumption ==
  /\ ALIGN \in Nat \ {0} /\ HDR \in Nat \ {0} /\ FIRST \in Nat /\ PAGE \in Nat \ {0}
  /\ FIRST % ALIGN = 0 /\ PAGE % ALIGN = 0

(* The append builders round a length up with a mask, which is this as    *)
(* blocks are a power of two.                                              *)
Up(n, unit) == ((n + unit - 1) \div unit) * unit

End(f) == Up(f.off + f.size, ALIGN)

IsFile(f) ==
  f = [guid |-> f.guid, type |-> f.type, off |-> f.off, size |-> f.size, body |-> f.body,
       sum |-> f.sum, state |-> f.state]

(* No two files overlap, and every one is inside of the volume.            *)
LaidOut(fv) ==
  /\ fv.len \in Nat /\ FIRST <= fv.len
  /\ \A f \in fv.files : /\ f.off \in Nat /\ f.size \in Nat /\ f.off % ALIGN = 0
                         /\ FIRST <= f.off /\ HDR <= f.size /\ End(f) <= fv.len
  /\ \A f, g \in fv.files : f = g \/ f.off + f.size <= g.off \/ g.off + g.size <= f.off

(* FFS_TYPES: the builders know the type 0x0F, the preflight does not.     *)
BuilderTypes == {"CORE", "DRIVER", "PAD", "0F"}
PreflightTypes == {"CORE", "DRIVER", "PAD"}

FileAt(fv, types, pos) ==
  {f \in fv.files : /\ f.off = pos /\ f.type \in types /\ f.sum = "good"
                    /\ f.size >= HDR /\ pos + f.size <= fv.len}

Erased(fv, pos) ==
  \A f \in fv.files : f.off + f.size <= pos \/ pos + ALIGN <= f.off

(* The files found, the free space behind the place where the walk         *)
(* stopped, and whether it raised no ValueError.  Behind a file the walk    *)
(* goes on at the next multiple of unit.                                   *)
WalkBy(fv, types, skipGaps, unit) ==
  LET at[pos \in 0..(fv.len + ALIGN)] ==
        IF pos + HDR > fv.len THEN [inv |-> {}, free |-> 0, ok |-> TRUE]
        ELSE IF FileAt(fv, types, pos) # {}
        THEN LET f == CHOOSE f \in FileAt(fv, types, pos) : TRUE
                 rest == at[Up(f.off + f.size, unit)]
             IN  [rest EXCEPT !.inv = @ \union {f}]
        ELSE IF ~Erased(fv, pos) THEN [inv |-> {}, free |-> 0, ok |-> FALSE]
        ELSE IF skipGaps THEN at[pos + ALIGN]
        ELSE [inv |-> {}, free |-> fv.len - pos, ok |-> TRUE]
  IN  at[FIRST]

(* Mutant: a file's end is not rounded up.                                 *)
WalkTight(fv, types, skipGaps) == WalkBy(fv, types, skipGaps, 1)
Walk(fv, types, skipGaps) == WalkBy(fv, types, skipGaps, ALIGN)

WalkInnerFv(fv) == Walk(fv, BuilderTypes, TRUE)
WalkFfs(fv) == Walk(fv, PreflightTypes, FALSE)

(* What the DXE core dispatches: the files before the first gap, those     *)
(* whose state says that they are valid.                                   *)
Reached(fv) ==
  {f \in fv.files :
     \A pos \in FIRST..(f.off - 1) : \E g \in fv.files : g.off <= pos /\ pos < End(g)}
Dispatched(fv) == {f \in Reached(fv) : f.state = "valid"}

-----------------------------------------------------------------------------
HeaderSum(fv) == <<fv.len, fv.blk, fv.num>>
HeaderOk(fv) == fv.sum = HeaderSum(fv)
BlockMapOk(fv) == fv.num * fv.blk = fv.len

(* The new length, in both places, and the header's checksum.              *)
Resized(fv, len) ==
  LET new == [fv EXCEPT !.len = len, !.num = len \div fv.blk]
  IN  [new EXCEPT !.sum = HeaderSum(new)]

Put(blob, pos) == [blob EXCEPT !.off = pos, !.state = "valid"]
With(fv, blob, pos, len) == Resized([fv EXCEPT !.files = @ \union {Put(blob, pos)}], len)

(* The append builders: after the last file.                               *)
AppendAtEnd(fv, blob) ==
  LET pos == Max({FIRST} \union {End(f) : f \in WalkInnerFv(fv).inv})
  IN  With(fv, blob, pos, Up(Up(pos + blob.size, ALIGN), fv.blk))

(* build_vcn_o3_candidate: after the volume, free tail included.           *)
AppendAfterTail(fv, blob) ==
  With(fv, blob, fv.len, Up(Up(fv.len + blob.size, ALIGN), PAGE))

(* The early slot of the published BROKEN image: before the last file.     *)
Insert(fv, blob) ==
  LET slot == Max({f.off : f \in fv.files})
      room == Up(blob.size, ALIGN)
      behind == {[f EXCEPT !.off = @ + room] : f \in {g \in fv.files : g.off >= slot}}
      before == {f \in fv.files : f.off < slot}
  IN  With([fv EXCEPT !.files = before \union behind], blob, slot, fv.len + Up(room, fv.blk))

(* The STUB builder: the same file with another body.                      *)
StubOut(fv) ==
  [fv EXCEPT !.files = {IF f.guid = "VCN" THEN [f EXCEPT !.body = "stub"] ELSE f : f \in @}]
=============================================================================
