--------------------------- MODULE MCImagePipeline ---------------------------
(***************************************************************************)
(* A small flash.  Plain dumps: two base files, a gap before the second or *)
(* none, a volume that is full to the last byte or has a long free tail.   *)
(* Odd dumps: one thing each that a builder or the preflight should not    *)
(* take, or that only one of them takes.                                   *)
(***************************************************************************)
EXTENDS ImagePipeline

File(guid, off, size) ==
  [guid |-> guid, type |-> IF guid = "PAD" THEN "PAD" ELSE "CORE", off |-> off,
   size |-> size, body |-> guid, sum |-> "good", state |-> "valid"]
Volume(len, blk, files) ==
  [len |-> len, blk |-> blk, num |-> len \div blk, sum |-> <<len, blk, len \div blk>>,
   files |-> files]
Directory(types) == [types |-> types, sum |-> types]
Stock == <<"PSP_FW", "GASKET", "TOS">>
Image(board, fv) ==
  [board |-> board, psp |-> Directory(Stock), outer |-> "good", after |-> "erased",
   cap |-> [attr |-> FALSE, csz |-> 5, head |-> <<FALSE, 5>>, body |-> <<>>], gsz |-> 2,
   lzma |-> [params |-> "ours", outsize |-> 2 + fv.len], sections |-> <<"RAW", "FV">>, fv |-> fv]

Two(gap, bds) == {File("CORE", 2, 5), File("BDS", 8 + gap, bds)}
MCAuthorDump == Image("author", Volume(16, 8, Two(0, 3)))
Own == Image("own", Volume(24, 8, Two(0, 3)))

PlainDumps ==
  {Image("own", Volume(len, 8, Two(gap, bds))) : len \in {16, 24}, bds \in {3, 6}, gap \in {0, 2}}
  \union {MCAuthorDump}

WithFile(f) == Image("own", Volume(24, 8, {File("CORE", 2, 5), f}))
Summed(img) == [img EXCEPT !.cap.head = CapsuleHeader(img.cap), !.cap.body = CapsuleBody(img)]
OddDumps ==
  {Image("own", Volume(16, 8, {File("CORE", 2, 5)})),
   Image("own", Volume(24, 8, {File("PAD", 2, 5), File("PAD", 8, 3)})),
   Image("own", Volume(32, 16, Two(0, 3))), Image("own", Volume(64, 64, Two(0, 54))),
   WithFile([File("BDS", 8, 3) EXCEPT !.type = "0F"]),
   WithFile([File("BDS", 8, 3) EXCEPT !.sum = "bad"]),
   WithFile([File("VCN", 8, 5) EXCEPT !.type = "DRIVER"]),
   [Own EXCEPT !.fv.num = 2], [Own EXCEPT !.fv.sum = <<>>],
   Summed([Own EXCEPT !.cap.attr = TRUE]),
   [Own EXCEPT !.gsz = 3], [Own EXCEPT !.outer = "bad"], [Own EXCEPT !.after = "junk"],
   [Own EXCEPT !.lzma.params = "other"], [Own EXCEPT !.lzma.outsize = Unknown],
   [Own EXCEPT !.sections = <<"RAW", "FV", "UI">>, !.lzma.outsize = 27],
   [Own EXCEPT !.sections = <<"FV">>, !.lzma.outsize = 25],
   [Own EXCEPT !.psp = Directory(<<"PSP_FW", "GASKET">>)],
   [Own EXCEPT !.psp = Directory(<<"TOS">> \o Stock)],
   [Own EXCEPT !.psp = Directory(<<"PSP_FW", "PSP_FW">> \o Stock)],
   [Own EXCEPT !.psp.sum = <<>>]}

MCLocks == <<"GASKET", "TOS">>
MCBlobs == {Blob("full"), Blob("text"), [Blob("full") EXCEPT !.sum = "bad"],
            [Blob("full") EXCEPT !.guid = "OTHER"], [Blob("full") EXCEPT !.type = "CORE"]}

Setup(d, h, r) == [dump |-> d, have |-> h, rungs |-> r]
MCSetups ==
  {Setup(d, Attachments \ {"FIXED", "STUB"}, {"FIXED", "STUB", "ACTIVE"}) : d \in PlainDumps}
  \union {Setup(d, Attachments, r) : d \in PlainDumps, r \in {{"NOOP", "SAFE"}, {"ACTIVE", "O3"}}}
  \union {Setup(d, {}, r) : d \in PlainDumps \union OddDumps, r \in {{"READYBOOT", "O3"}}}

(* For the disagreements: the author's own dump and the first rungs.       *)
FirstRungs == {Setup(MCAuthorDump, {"BROKEN"}, {"FIXED", "STUB"})}
=============================================================================
